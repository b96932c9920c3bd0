SPECIFICATION Spec
CONSTANTS
    TicketIds = {t1, t2}
    Challenges = {c1, c2}
    Contacts = {a, b}
    Workers = {w1, w2}
    None = None
    ChallengeTTL = 2
    ReplayTTL = 2
    Retention = 5
    PurgePeriod = 5
    MaxClock = 1
    MaxDc = 2
    MaxMessages = 3
    MaxCrashes = 1
    MaxResets = 1
SYMMETRY Symmetry
INVARIANTS TypeOK AdminSpokeFirst DcMsgIdsUnique OkMeansAdminNotified OwnerInStep OwnerNeverBlocked
PROPERTIES ClosedIsFinal AdminNeverReplaced TicketLife
