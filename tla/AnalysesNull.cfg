\* A boot of one line and the answers of the model.
CONSTANTS
    Line <- MCLine
    Matches <- MCMatches
    NoStamp = NoStamp
    EndWindow = 2
    StartWindow = 3
    RightBefore = 1
    MaxStarts = 2
    MaxEvidence = 5
    Null = Null
    Unmeasured = Unmeasured
    Limit <- MCLimit
    TopSize = 1
    MinGrowth = 1
    MaxReported = 2
    Unread = Unread
    CacheTtl = 1
    AlertWindow = 4
    ClockSkew = 1
    Facts <- MCFacts
    Answer <- MCAnswer
    Reading <- MCReading
    Plan <- MCPlan
    Ringed = {"disk", "fault"}
    Ahead = {0, 9}
    Pid = {1, 2}
    DmesgInterval = 4
    MaxLines = 1
    MaxReadings = 0
    MaxSnapshots = 0
    MaxStarted = 0
    MaxMemory = 3
    Correction <- MCCorrection
    MaxKernel = 0
    MaxClock = 0
SPECIFICATION Spec
INVARIANT AnswersAreNoted
CHECK_DEADLOCK FALSE
