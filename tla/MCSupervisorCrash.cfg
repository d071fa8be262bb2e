CONSTANTS
    w1 = w1
    w2 = w2
    None = None
    First = w1
    Workers = {w1, w2}
SPECIFICATION Spec
INVARIANTS KeepsPredecessor
