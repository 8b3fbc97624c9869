\* Both updaters, two edits of each file, every version loadable.
CONSTANTS
    MaxVersion = 2
    BadDm = {}
    BadPol = {}
    NoDefault = {}
    None = None
SPECIFICATION Spec
INVARIANT QuiescentIsCurrent
\* After the shutdown the process ends.
CHECK_DEADLOCK FALSE
