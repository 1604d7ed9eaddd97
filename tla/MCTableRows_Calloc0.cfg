\* neo4j_render_table on a C library whose calloc(0, ...) returns NULL.
CONSTANTS
    MaxWidth = 9
    MaxFields = 2
    MaxRows = 2
    ESrc = ESrc
    SrcErr <- ESrc
    CpWidth <- MCCpWidth
    Texts <- MCTexts
    Calloc0Null = TRUE
SPECIFICATION Spec
PROPERTIES
    ImplementsAtomicRows
\* The function returns; the final state is where the call ends.
CHECK_DEADLOCK FALSE
