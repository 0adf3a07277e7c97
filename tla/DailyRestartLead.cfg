\* A notice time in the hour that is skipped: nothing fails, nobody interferes.
CONSTANTS
    Day = 4
    Calendars <- MCLateChange
    Settings <- MCShortLead
    ManualLeads = {2}
    WaitLimit = 1
    Horizon = 12
    MaxDown = 2
    MaxEvents = 0
SPECIFICATION Spec
PROPERTY LeadTimeHonored
CHECK_DEADLOCK FALSE
