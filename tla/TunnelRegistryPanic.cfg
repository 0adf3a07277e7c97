\* Two ids, one of the management service, and two commands in flight.
SPECIFICATION RegistrySpec
CONSTANTS
    Ids = {m, d}
    Management = {m}
    Calls = {c1, c2}
    MaxForwarders = 3
INVARIANT RegistryStaysAvailable
\* The window may be closed.
CHECK_DEADLOCK FALSE
