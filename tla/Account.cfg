SPECIFICATION Spec
CONSTANTS
    MaxAccounts = 3
    MaxSecrets = 3
    Faults = {"crash", "disk", "overlap"}
INVARIANTS TypeOK NothingForgotten CredentialsTogether RestartKeepsSecret
CHECK_DEADLOCK FALSE
