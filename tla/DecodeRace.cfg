SPECIFICATION Spec
CONSTANTS
    Workers = {w1, w2}
    Letters = 2
INVARIANT LettersDecode
