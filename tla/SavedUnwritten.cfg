SPECIFICATION Spec
CONSTANTS
    MaxAccounts = 2
    MaxSecrets = 2
    Faults = {"crash", "disk", "overlap"}
INVARIANTS RegisteredMeansSaved
CHECK_DEADLOCK FALSE
