SPECIFICATION FairSpec
CONSTANTS
    TicketIds = {t1}
    Slots = {r1, r2}
    None = None
    MaxEntries = 2
PROPERTIES PageFollowsTicket
CHECK_DEADLOCK FALSE
