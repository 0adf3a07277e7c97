SPECIFICATION FairMessageSpec
CONSTANTS
    Accounts = {a1, a2}
    NoAccount = NoAccount
    MaxFaults = 3
INVARIANTS
    WhispersBounded
PROPERTIES
    ImplementsWhisperLedger
    ReadyIsGreeted
