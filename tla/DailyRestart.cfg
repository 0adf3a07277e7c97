\* Two dates of four units and half of a third, clocks that change on the second,
\* two events.
CONSTANTS
    Day = 4
    Calendars <- MCCalendars
    Settings <- MCSettings
    ManualLeads = {2}
    WaitLimit = 1
    Horizon = 10
    MaxDown = 2
    MaxEvents = 2
SPECIFICATION Spec
INVARIANTS
    OncePerDate
    StopIsRespected
    NotLeftStopped
PROPERTIES
    RestartsAreAnnounced
CHECK_DEADLOCK FALSE
