SPECIFICATION Spec
CONSTANTS
    TicketIds = {t1, t2}
    Slots = {r1}
    None = None
    MaxEntries = 3
INVARIANTS RepliesGoWhereShown
CHECK_DEADLOCK FALSE
