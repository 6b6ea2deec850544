CONSTANTS
    Cols = 6
    Rows = 3
    TabWidth = 4
    Chars <- MCChars
    IrqMessage <- MCIrqMessage
    Preemptive = FALSE
SPECIFICATION Spec
INVARIANTS
    TypeOK
    AheadIsBlank
    DrawsOnScreen
