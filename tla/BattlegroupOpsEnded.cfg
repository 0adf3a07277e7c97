\* One operation and one fault.
CONSTANTS
    Clients = {c1, c2}
    Survival = Survival
    DeepDesert = DeepDesert
    OtherMaps = {Arrakeen}
    Absent = Absent
    Requests <- MCRequests
    InitialDoc <- MCDoc
    InitialPods <- MCPods
    MaxOps = 1
    MaxFaults = 1
SPECIFICATION Spec
INVARIANTS
    DoneMeansEnded
CHECK_DEADLOCK FALSE
