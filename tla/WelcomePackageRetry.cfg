SPECIFICATION Spec
CONSTANTS
    Accounts = {a1}
    NoAccount = NoAccount
    MaxFaults = 1
    MaxRetries = 1
PROPERTIES
    RetryNeverDuplicates
