SPECIFICATION Spec
CONSTANTS
    Callers = {1}
    MaxNumid = 3
    Versions = {1, 2}
    Table <- MCTable
    Hardware <- MCHardware
    Queries <- MCQueries
    TagQueries <- MCTagQueries
    Percents = {0, 100}
    MaxStarts = 3
INVARIANTS
    TypeOK
    MappedRight
    NumidsBounded
    AppliedOrWarned
    AnswersAsked
    TagsAnswered
    UntoldIsDue
\* The binder may be down for good.
CHECK_DEADLOCK FALSE
