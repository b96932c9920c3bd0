SPECIFICATION Spec
CONSTANTS
    TicketIds = {t1}
    Challenges = {c1}
    Contacts = {a}
    Workers = {w1}
    None = None
    ChallengeTTL = 1
    ReplayTTL = 1
    Retention = 5
    PurgePeriod = 5
    MaxClock = 1
    MaxDc = 1
    MaxMessages = 1
    MaxCrashes = 1
    MaxResets = 1
PROPERTY NoCarryOver
