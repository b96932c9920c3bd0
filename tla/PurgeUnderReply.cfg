SPECIFICATION Spec
CONSTANTS
    TicketIds = {t1}
    Challenges = {c1}
    Contacts = {a}
    Workers = {w1}
    None = None
    ChallengeTTL = 2
    ReplayTTL = 2
    Retention = 1
    PurgePeriod = 1
    MaxClock = 3
    MaxDc = 1
    MaxMessages = 2
    MaxCrashes = 0
    MaxResets = 0
INVARIANT ServiceStaysUp
