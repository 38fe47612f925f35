\* One process, two interfaces, two months; the longest gap that is counted
\* is a tick shorter than the whole time.
CONSTANTS
    Sampler = {"timer"}
    Iface = {"eth0", "wlan0"}
    MaxTime = 4
    MonthOf <- TwoTickMonths
    MaxGap = 2
    MaxMoved = 3
SPECIFICATION Spec
INVARIANTS
    TypeOK
    UsageIsMoved
