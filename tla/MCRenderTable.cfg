\* neo4j_render_table: layout, output shape, error reporting, flushing.
CONSTANTS
    MaxWidth = 14
    MaxFields = 4
    MaxRows = 3
    ESrc = ESrc
    SrcErr <- ESrc
SPECIFICATION Spec
INVARIANTS
    TypeOK
    ShownColumnsMaximal
    TableShape
    SourceFailureSurfaced
    FlushedOnReturn
\* The function returns; the final state is where the call ends.
CHECK_DEADLOCK FALSE
