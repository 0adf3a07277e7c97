\* Clocks that go back past midnight, with nobody interfering.
CONSTANTS
    Day = 4
    Calendars <- MCDateTwice
    Settings <- MCSettings
    ManualLeads = {2}
    WaitLimit = 1
    Horizon = 12
    MaxDown = 5
    MaxEvents = 0
SPECIFICATION Spec
PROPERTY RestartsAreAnnounced
CHECK_DEADLOCK FALSE
