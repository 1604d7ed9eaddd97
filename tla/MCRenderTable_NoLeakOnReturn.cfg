CONSTANTS
    MaxWidth = 14
    MaxFields = 4
    MaxRows = 3
    ESrc = ESrc
    SrcErr <- ESrc
SPECIFICATION Spec
INVARIANT NoLeakOnReturn
CHECK_DEADLOCK FALSE
