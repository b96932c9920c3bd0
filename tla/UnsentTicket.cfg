SPECIFICATION FairSpec
CONSTANTS
    TicketIds = {t1}
    Challenges = {c1}
    Contacts = {a}
    Workers = {w1}
    None = None
    ChallengeTTL = 2
    ReplayTTL = 2
    Retention = 5
    PurgePeriod = 5
    MaxClock = 1
    MaxDc = 1
    MaxMessages = 1
    MaxCrashes = 0
    MaxResets = 0
PROPERTY UnsentTicketRecoverable
