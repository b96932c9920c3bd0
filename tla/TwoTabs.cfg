SPECIFICATION Spec
CONSTANTS
    TicketIds = {t1, t2}
    Slots = {r1}
    None = None
    MaxEntries = 2
PROPERTIES OtherTokenKept
CHECK_DEADLOCK FALSE
