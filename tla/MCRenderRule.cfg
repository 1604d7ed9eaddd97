CONSTANTS
    NCols = 3
    WidthSet <- MCWidthSet
    Codesets = {"UTF-8", "ANSI_X3.4-1968"}
    HaveLangInfo = TRUE

SPECIFICATION Spec

INVARIANTS
    TypeOK
    AsciiGlyphsOnly
    RuleAlignsWithRows
    RuleIsReference

CHECK_DEADLOCK FALSE
