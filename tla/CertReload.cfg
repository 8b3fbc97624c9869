\* Two directories, each redeployed once (cert and key written one after
\* the other, each write torn for a while), with the updater polling; and
\* the SNI lookup over every tree made of seven directories.
CONSTANTS
    Dirs <- MCDirsReload
    LookupDirs <- MCDirsLookup
    Snis <- MCSnisLookup
    LowerLabel <- MCLowerLabel
    MaxVersion = 1
    NoCert = NoCert
SPECIFICATION Spec
INVARIANT LookupMatchesReference
PROPERTY UpdaterSettles
