SPECIFICATION Spec
CONSTANTS
    Hals <- MCHals
    Controls = {"Navigation", "Telephony"}
    Val <- MCVal
    Ctl <- MCCtl
    UserVols <- MCUserVols
    MaxFails = 1
INVARIANTS
    TypeOK
    RestoresUnlessNested
    GrantedMeansAdjusted
