SPECIFICATION Spec
CONSTANTS
    TicketIds = {t1, t2}
    Slots = {r1, r2}
    None = None
    MaxEntries = 2
SYMMETRY Symmetry
PROPERTIES TokenKeptFromOthers
CHECK_DEADLOCK FALSE
