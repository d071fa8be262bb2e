SPECIFICATION Spec
CONSTANTS
    a1 = a1
    a2 = a2
    a3 = a3
    a4 = a4
    c1 = c1
    c2 = c2
    None = None
    Attempts = {a1, a2, a3, a4}
    Convs = {c1, c2}
    ConvOf <- TurnsOf
INVARIANTS FailedIsClosed
CHECK_DEADLOCK FALSE
