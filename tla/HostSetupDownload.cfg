\* Two operations one after the other, one fault.
CONSTANTS
    Worlds = {w1}
    Absent = Absent
    Requests <- MCRequests
    Newest = 3
    MaxOps = 2
    MaxFaults = 1
SPECIFICATION Spec
INVARIANTS
    PayloadIsCurrent
CHECK_DEADLOCK FALSE
