\* Two operations one after the other, one fault in one of them.
CONSTANTS
    Worlds = {w1}
    Absent = Absent
    Requests <- MCRequests
    Newest = 3
    MaxOps = 2
    MaxFaults = 1
SPECIFICATION Spec
INVARIANTS
    DoneIsComplete
    CredentialsAgree
    RerunSucceeds
CHECK_DEADLOCK FALSE
