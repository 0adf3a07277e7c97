SPECIFICATION FairSpec
CONSTANTS
    Accounts = {a1, a2}
    NoAccount = NoAccount
    MaxFaults = 3
    MaxRetries = 2
INVARIANTS
    DeliveriesBounded
PROPERTIES
    ImplementsEffectLedger
    LoadedIsHandled
