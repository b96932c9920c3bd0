SPECIFICATION FairSpec
CONSTANTS
    TicketIds = {t1}
    Challenges = {c1, c2}
    Contacts = {a}
    Workers = {w1}
    None = None
    ChallengeTTL = 1
    ReplayTTL = 1
    Retention = 1
    PurgePeriod = 1
    MaxClock = 3
    MaxDc = 1
    MaxMessages = 2
    MaxCrashes = 1
    MaxResets = 1
INVARIANTS ReferentialIntegrity ReplayMemory
PROPERTIES PurgeOnlyInactive TicketLife InactiveTicketsPurged
