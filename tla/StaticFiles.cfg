SPECIFICATION Spec
CONSTANTS
    Browsers = {b1, b2}
    Sizes = {s1, s2}
    MaxEdits = 2
    NoFile = NoFile
INVARIANTS TypeOK ConfirmedCopyIsCurrent
PROPERTIES AnswerIsFresh
CHECK_DEADLOCK FALSE
