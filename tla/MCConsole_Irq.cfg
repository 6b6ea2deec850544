CONSTANTS
    Cols = 6
    Rows = 3
    TabWidth = 4
    Chars <- MCChars
    IrqMessage <- MCIrqMessage
    Preemptive = TRUE
SPECIFICATION Spec
INVARIANT DrawsOnScreen
CHECK_DEADLOCK FALSE
