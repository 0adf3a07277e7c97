\* One failing store call is enough.
CONSTANTS
    Tasks = {restart}
    Looping = {restart}
    Slots = {s1}
    NoTask = NoTask
    MaxRuns = 3
    MaxFaults = 1
    MaxStarts = 1
SPECIFICATION Spec
PROPERTIES
    SkipMeansStillRunning
CHECK_DEADLOCK FALSE
