SPECIFICATION Spec
CONSTANTS
    Procs = {p1, p2}
    Daemons = {p1, p2}
    Convs = {c1, c2}
    First = {c1, c2}
    Asked = {}
    MaxUp = 1
    MaxWrites = 2
    MaxFaults = 1
    None = None
PROPERTIES RetainedForNextLoad
CHECK_DEADLOCK FALSE
