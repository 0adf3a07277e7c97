\* Two tasks, one with a loop, two triggered runs at a time, a restart of the daemon.
CONSTANTS
    Tasks = {restart, notice}
    Looping = {restart}
    Slots = {s1, s2}
    NoTask = NoTask
    MaxRuns = 2
    MaxFaults = 1
    MaxStarts = 2
SPECIFICATION FairSpec
INVARIANTS
    SingleInstance
    RunningRowsOwned
    ManualRunsKept
PROPERTIES
    ShutdownEnds
    CallsReturn
    HistoryIsFinal
    ImplementsSingleFlight
CHECK_DEADLOCK FALSE
