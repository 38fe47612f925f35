CONSTANTS
    Line <- MCLine
    Matches <- MCMatches
    NoStamp = NoStamp
    EndWindow = 2
    StartWindow = 3
    RightBefore = 1
    MaxStarts = 2
    MaxEvidence = 5
    Null = Null
    Unmeasured = Unmeasured
    Limit <- MCLimit
    TopSize = 1
    MinGrowth = 1
    MaxReported = 2
    Unread = Unread
    CacheTtl = 1
    AlertWindow = 4
    ClockSkew = 1
    Facts <- MCFacts
    Answer <- MCAnswer
    Reading <- MCReading
    Plan <- MCPlan
    Ringed = {"disk", "fault"}
    Ahead = {0, 9}
    Pid = {1, 2}
    DmesgInterval = 4
    MaxLines = 3
    MaxReadings = 5
    MaxSnapshots = 3
    MaxStarted = 3
    MaxMemory = 3
    Correction <- MCCorrection
    MaxKernel = 2
    MaxClock = 8
SPECIFICATION Spec
INVARIANTS
    TypeOK
    PanicIsReported
    WinnerHasMostEvidence
    SuddenStopAgrees
    ReportIsUsable
    SlowdownsAreSustained
    GrowthIsOwn
    RaisedAtMostTwice
CHECK_DEADLOCK FALSE
