SPECIFICATION Spec
CONSTANTS
    Lengths <- MCLengths
    IdChars = {"A", "B"}
    IdLength = 1
    NoTicket = NoTicket
    PageMessageMax = 3
    PageNameMax = 2
    Limits <- MCLimits
    MaxAddress = 4
    Unit = 1
    IntBits = 8
    Zero = 5
    Base = 3
    IntMax = 127
    DayLength = 3
    DefaultDays = 7
INVARIANTS
    RouteAgrees NotificationParsesBack FormAndServerAgree ProxiesAgree BytesSurvive
    SpellingsAreOneChallenge ZeroBitsMeasureWork SavedIsLoaded DaysAreKept
CHECK_DEADLOCK FALSE
