SPECIFICATION Spec
CONSTANTS
    TicketIds = {t1, t2}
    Challenges = {c1}
    Contacts = {a}
    Workers = {w1, w2}
    None = None
    ChallengeTTL = 2
    ReplayTTL = 2
    Retention = 5
    PurgePeriod = 5
    MaxClock = 1
    MaxDc = 1
    MaxMessages = 2
    MaxCrashes = 0
    MaxResets = 0
INVARIANT AcceptedOnce
