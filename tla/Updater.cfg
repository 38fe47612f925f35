\* Two versions, the second of which adds units; two runs are killed.
CONSTANTS
    MaxVersion = 2
    UnitsOf <- GrowingList
    Service = "heartbeat.service"
    Hourly = "update.timer"
    Signoff = "signoff.service"
    Timers = {"update.timer", "snapshot.timer"}
    MaxRequests = 2
    MaxKills = 2
SPECIFICATION FairSpec
INVARIANTS
    TypeOK
    OptOutIsKept
    RecordedIsInForce
PROPERTIES
    ImplementsVersions
    NewestArrives
