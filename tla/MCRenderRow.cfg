\* render_row: cleanup, remainder ownership, completeness and termination.
CONSTANTS
    CpWidth <- MCCpWidth
    Texts <- MCTexts
    WidthSet <- MCWidthSet
    NCols = 2
    BufCaps = {2}
    Calloc0Null = FALSE
SPECIFICATION Spec
INVARIANTS
    TypeOK
    AllFreedOnReturn
    RemainderIsOwnTail
PROPERTIES
    
    RowTerminates
\* render_row returns; the call really ends in a final state.
CHECK_DEADLOCK FALSE
