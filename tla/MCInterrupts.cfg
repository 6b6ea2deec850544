SPECIFICATION Spec
\* A build that counts the callback first may halt the processor.
CHECK_DEADLOCK FALSE
CONSTANTS
    MaxBytes = 3
    MaxMouse = 2
INVARIANTS
    TypeOK
    InterruptsAreExpected
PROPERTIES
    CommandByteIsKept
    EveryByteIsHeard
    TicksGoOn
