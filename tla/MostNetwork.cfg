\* Two nodes with one value each; a write answered by an error had no effect.
SPECIFICATION NetSpec
CONSTANTS
    N = 2
    Addresses = {1, 2}
    Keys = {"master", "left"}
    Master = "master"
    Address <- TwoNodes
    Key <- TwoKeys
    Percents = {120}
    DirectVolumes = {7}
    Statuses <- OkOrFailed
    MaxInbox = 3
    LostAnswers = FALSE
INVARIANTS
    NetTypeOK
    NodesKnown
    ConfirmedOnNode
    RestMeansApplied
PROPERTIES
    VolumeReachesNode
