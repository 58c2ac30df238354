SPECIFICATION Spec
CONSTANTS
    Clients = {1}
    Cards = {0, 1}
    MaxSndCard = 2
    MaxHandles = 3
INVARIANTS
    OneSourcePerCard
\* With every card removed nothing is left to do.
CHECK_DEADLOCK FALSE
