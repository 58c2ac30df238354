\* Two requests; answers at any moment.
SPECIFICATION Spec
CONSTANTS
    R = 2
    Garbage = {0, 1}
INVARIANTS
    OpenMeansAllGranted
CHECK_DEADLOCK FALSE
