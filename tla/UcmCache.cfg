\* Two requests at a time for three cards and a table of two slots, so that the
\* table fills up.  Two managers: two requests can open one each for the same
\* card, or fill the table.  Sets, on one of the cards, are of every shape; a
\* second use case shows in what a set leaves of the first one.
SPECIFICATION Spec
CONSTANTS
    c1 = c1
    c2 = c2
    t1 = t1
    t2 = t2
    hifi = hifi
    voice = voice
    Threads = {t1, t2}
    Cards = {0, c1, c2}
    SetCards = {0}
    MaxSndCard = 2
    Verbs = {hifi, voice}
    Devices = {"speaker"}
    Modifiers = {"capture"}
    MaxManagers = 2
SYMMETRY Symmetry
INVARIANTS
    TypeOK
    RightManager
    OneManagerPerCard
    SetAsAsked
