\* A container of either kind, stopped up to twice at any moment.
CONSTANTS
    Namespace = {"own", "host"}
    MaxAsked = 2
SPECIFICATION FairSpec
INVARIANTS
    TypeOK
    MainStopsLast
    ExitsAsMain
PROPERTIES
    StaysQuiet
    StopEnds
CHECK_DEADLOCK FALSE
