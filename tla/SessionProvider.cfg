\* Three connections over one forwarder, up to three sessions.
SPECIFICATION FairSpec
CONSTANTS
    Conns = {c1, c2, c3}
    Starter = starter
    Closer = closer
    Nobody = nobody
    Deadline = 2
    MaxSessions = 3
INVARIANTS OneSession NothingLeftOpen
PROPERTIES HandsOutLiveSession EveryoneReturns
\* Everything may have ended.
CHECK_DEADLOCK FALSE
