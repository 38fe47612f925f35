\* One analysis and one heartbeat over two boots, the second of which has no
\* readable ID; a report is set aside after two refusals, a list holds one.
CONSTANTS
    Analyzer = {a1}
    Heartbeat = {h1}
    MaxBoots = 2
    KnownBoots = {1}
    MaxRuns = 2
    MaxPushRejections = 2
    ListLimit = 1
SPECIFICATION FairSpec
INVARIANTS
    TypeOK
    PushedHasArrived
    SetAsideWasRefused
    AnalyzedMeansSaved
PROPERTIES
    ImplementsOutbox
    QueueDrains
