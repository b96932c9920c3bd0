SPECIFICATION FairSpec
CONSTANTS
    TicketIds = {t1}
    Slots = {r1, r2}
    None = None
    MaxEntries = 3
PROPERTIES PageCatchesUp
CHECK_DEADLOCK FALSE
