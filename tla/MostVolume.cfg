\* The volume library: three values on two nodes, two volumes for each key.
SPECIFICATION Spec
CONSTANTS
    N = 3
    Addresses = {1, 2}
    Keys = {"master", "left"}
    Master = "master"
    Address <- ThreeAddress
    Key <- ThreeKey
    Percents = {120}
    DirectVolumes = {7}
    Statuses <- OkOrFailed
INVARIANTS
    TypeOK
    SingleWrite
    OneTimer
    NoLostWakeup
PROPERTIES
    NoStarvation
    Convergence
    MirrorSpec
