\* As CertReload.cfg: does the published snapshot always catch up with
\* the tree once the writes are over?
CONSTANTS
    Dirs <- MCDirsReload
    LookupDirs <- MCDirsLookup
    Snis <- MCSnisLookup
    LowerLabel <- MCLowerLabel
    MaxVersion = 1
    NoCert = NoCert
SPECIFICATION Spec
PROPERTY EventuallyCurrent
