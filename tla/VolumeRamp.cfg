\* Up to two timers, targets at the bottom of the scale, modes with equal and
\* different steps, a step of zero, and a foreign volume off the percent grid.
SPECIFICATION Spec
CONSTANTS
    Control <- SoftVolume
    Slaves = {"multimedia", "navigation"}
    Sources = {1, 2}
    InitialRaw = {6}
    ForeignRaw = {6}
    Targets = {0, 2}
    Modes = {"smooth", "normal", "emergency"}
    Steps = {0}
    Ticks50 = 1
    Delays = {0, 3}
INVARIANTS
    TypeOK
    RampAlive
PROPERTIES
    TowardsTarget
    SpacedUnlessOverlapped
    RampSettles
