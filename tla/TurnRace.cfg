SPECIFICATION Spec
CONSTANTS
    TicketIds = {t1}
    Challenges = {c1, c2, c3}
    Contacts = {a}
    Workers = {w1, w2}
    None = None
    ChallengeTTL = 2
    ReplayTTL = 2
    Retention = 5
    PurgePeriod = 5
    MaxClock = 1
    MaxDc = 2
    MaxMessages = 4
    MaxCrashes = 0
    MaxResets = 0
PROPERTY VisitorWaitsForTurn
