\* Two requests; answers at any moment, one garbage value besides zero.
SPECIFICATION Spec
CONSTANTS
    R = 2
    Garbage = {0, 1}
INVARIANTS
    OpenUnlessEarly
    RefusalHasCause
    ReleasedUnlessEarly
    CloseInTime
PROPERTIES
    WaitEnds
\* The player's thread stops once the PCM is refused or closed.
CHECK_DEADLOCK FALSE
