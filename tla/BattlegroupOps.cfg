\* Two clients, two operations that may overlap, one fault.
CONSTANTS
    Clients = {c1, c2}
    Survival = Survival
    DeepDesert = DeepDesert
    OtherMaps = {Arrakeen}
    Absent = Absent
    Requests <- MCRequests
    InitialDoc <- MCDoc
    InitialPods <- MCPods
    MaxOps = 2
    MaxFaults = 1
SPECIFICATION Spec
INVARIANTS
    WorldConsistent
    DoneIsDone
PROPERTIES
    OtherArgumentsKept
CHECK_DEADLOCK FALSE
