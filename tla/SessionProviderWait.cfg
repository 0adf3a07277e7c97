\* Three connections over one forwarder, up to three sessions.
SPECIFICATION Spec
CONSTANTS
    Conns = {c1, c2, c3}
    Starter = starter
    Closer = closer
    Nobody = nobody
    Deadline = 2
    MaxSessions = 3
INVARIANT GetWithinDeadline
\* Everything may have ended.
CHECK_DEADLOCK FALSE
