\* Both updaters, two edits of each file, broken versions on the way.
CONSTANTS
    MaxVersion = 2
    BadDm <- MCBadDm
    BadPol <- MCBadPol
    NoDefault <- MCNoDefault
    None = None
SPECIFICATION Spec
INVARIANT PublishedLoadable
PROPERTY UpdatersStop
\* After the shutdown both services have returned and the files are at
\* their last version: the process ends there.
CHECK_DEADLOCK FALSE
