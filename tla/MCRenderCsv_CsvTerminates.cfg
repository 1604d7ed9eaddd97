CONSTANTS
    Names <- MCNames
    Values <- MCValues
    MaxFields = 2
    MaxRows = 2
    InitialCap = 4
    ESrc = ESrc
    SrcErr <- ESrc
SPECIFICATION Spec
PROPERTY CsvTerminates
CHECK_DEADLOCK FALSE
