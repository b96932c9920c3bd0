SPECIFICATION Spec
CONSTANTS
    TicketIds = {t1}
    Challenges = {c1}
    Contacts = {a, b}
    Workers = {w1}
    None = None
    ChallengeTTL = 2
    ReplayTTL = 2
    Retention = 5
    PurgePeriod = 5
    MaxClock = 1
    MaxDc = 1
    MaxMessages = 1
    MaxCrashes = 1
    MaxResets = 0
INVARIANT FirstContactIsAdmin
