\* The sections and the status poll: two senders that overlap, no budget.
CONSTANTS
    Sender = {"timer", "update"}
    Section = {"dmesg"}
    Window = {"w"}
    NoWindow = ""
    Interval <- SectionIntervals
    SoftLimit = 0
    HardLimit = 0
    PulseSize = 0
    LiveSize = 0
    MaxCount = 0
SPECIFICATION FairSpec
INVARIANT
    HeldBackOnlyIfTried
PROPERTIES
    SectionsArrive
    WindowArrives
