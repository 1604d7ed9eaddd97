\* neo4j_render_csv: round trip through a CSV reader, cleanup, error codes.
CONSTANTS
    Names <- MCNames
    Values <- MCValues
    MaxFields = 2
    MaxRows = 2
    InitialCap = 4
    ESrc = ESrc
    SrcErr <- ESrc
SPECIFICATION Spec
INVARIANTS
    TypeOK
    CsvRoundTrip
    BufferFreedOnReturn
    SourceFailureSurfaced
\* The function returns; the final state is where the call ends.
CHECK_DEADLOCK FALSE
