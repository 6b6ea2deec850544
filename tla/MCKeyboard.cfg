CONSTANTS
    CharCodes = {30}
    OtherCodes = {72}
    ShiftCodes = {42}
    CapsCode = 58
    MouseBytes = {224}
    ForeignCodes = {28}
    Arrows <- MCArrows
    RepeatDelay = 2
    RepeatRate = 1
    MaxTick = 3
    MaxDown = 2
SPECIFICATION Spec
INVARIANTS
    TypeOK
    HeldMatchesKeys
    PressesAreHeard
    RepeatsAreScheduled
PROPERTIES
    NoPhantomRepeats
    RepeatsArePaced
