\* neo4j_render_table with its render_row calls expanded.
CONSTANTS
    MaxWidth = 9
    MaxFields = 2
    MaxRows = 2
    ESrc = ESrc
    SrcErr <- ESrc
    CpWidth <- MCCpWidth
    Texts <- MCTexts
    Calloc0Null = FALSE
SPECIFICATION Spec
INVARIANTS
    RowErrorSurfaced
PROPERTIES
    ImplementsAtomicRows
\* The function returns; the final state is where the call ends.
CHECK_DEADLOCK FALSE
