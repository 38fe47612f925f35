\* The egress budget: two senders that overlap, no stable section.
CONSTANTS
    Sender = {timer, update}
    Section = {}
    Window = {}
    NoWindow = ""
    Interval <- BudgetIntervals
    SoftLimit = 2
    HardLimit = 3
    PulseSize = 1
    LiveSize = 2
    MaxCount = 7
SYMMETRY SenderSymmetry
SPECIFICATION Spec
INVARIANTS
    TypeOK
    FullBeatsBounded
PROPERTY ThrottledWhenSpent
