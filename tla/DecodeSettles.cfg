SPECIFICATION Spec
CONSTANTS
    Workers = {w1, w2, w3}
    Letters = 2
SYMMETRY Symmetry
INVARIANTS Pending TableSettles
