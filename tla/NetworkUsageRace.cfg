\* The heartbeats of the timer and of the update unit overlap.
CONSTANTS
    Sampler = {"timer", "update"}
    Iface = {"eth0"}
    MaxTime = 4
    MonthOf <- TwoTickMonths
    MaxGap = 4
    MaxMoved = 3
SPECIFICATION Spec
INVARIANT UsageIsMoved
