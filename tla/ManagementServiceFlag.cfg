SPECIFICATION Spec
CONSTANTS
  None = None
  NoStack = NoStack
  NoCatalog = NoCatalog
  TooLong = TooLong
  EnvZone = "Europe/Amsterdam"
  Zones = {"Europe/Amsterdam", "UTC"}
  ActionLists <- MCActionLists
  MaxI64 = 1800
  MaxItems = 6
  Procs = {p1, p2}
  Requests <- MCRequests
  Tracks = {"Combat"}
  Slots = {0, 1, 2, 3}
  MaxQuantity = 4
  Bundled <- MCBundled
  Earlier <- MCEarlier
  Versions = {2, 3}
  OldVersion = 1
  Tokens = {"t"}
  Builtin = "builtin"
  MaxCommands = 2
  MaxFaults = 1
INVARIANTS
  FlagShowsEverySetting
SYMMETRY Symmetry
CHECK_DEADLOCK FALSE
