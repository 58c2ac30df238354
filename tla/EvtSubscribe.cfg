SPECIFICATION Spec
CONSTANTS
    Clients = {1, 2}
    Cards = {0, 1}
    MaxSndCard = 2
    MaxHandles = 2
INVARIANTS
    TypeOK
    StaleIsPending
    OwnBoardsOnly
PROPERTIES
    ToldInTheEnd
\* With every card removed nothing is left to do.
CHECK_DEADLOCK FALSE
