SPECIFICATION FairSpec
CONSTANTS
    Procs = {p1, p2, p3}
    NWorkers = 2
    Zones = {1, 2}
    ZoneSizes = {1, 2}
    MaxReloads = 2
INVARIANTS OneRunnerPerZone FlagTellsTruth
PROPERTY ScriptIsTaken
CHECK_DEADLOCK FALSE
