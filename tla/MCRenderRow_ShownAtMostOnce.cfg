CONSTANTS
    CpWidth <- MCCpWidth
    Texts <- MCTexts
    WidthSet <- MCWidthSet
    NCols = 2
    BufCaps = {2}
    Calloc0Null = FALSE
SPECIFICATION Spec
INVARIANT ShownAtMostOnce
CHECK_DEADLOCK FALSE
