SPECIFICATION Spec
CONSTANTS
    MaxId = 4
    MaxChanges = 2
    MaxCrashes = 1
INVARIANT SignInMeansMigrated
INVARIANT JournalTellsAccounts
INVARIANT SnapshotsMatchStore
CHECK_DEADLOCK FALSE
