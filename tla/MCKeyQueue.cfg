CONSTANTS
    KeyQueueSize = 5
    Bursts <- MCBursts
SPECIFICATION FairSpec
INVARIANTS
    TypeOK
    SequencesStayWhole
PROPERTIES
    ImplementsInputQueue
    EveryCharIsTaken
