\* One request after the other; the manager of the card is closed in between.
SPECIFICATION Spec
CONSTANTS
    Threads = {1}
    Cards = {0, 1}
    SetCards = {0, 1}
    MaxSndCard = 2
    Verbs = {"HiFi"}
    Devices = {}
    Modifiers = {}
    MaxManagers = 3
INVARIANTS
    WorksOnOpen
