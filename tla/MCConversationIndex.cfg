SPECIFICATION FairSpec
CONSTANTS
    Procs = {p1, p2}
    Daemons = {p1}
    Convs = {c1, c2}
    First = {c1}
    Asked = {c2}
    MaxUp = 1
    MaxWrites = 2
    MaxFaults = 1
    None = None
INVARIANTS TypeOK NothingForgotten FreshMeansRebuilt AbsentIsAbsent
PROPERTIES ServedNeverShrinks LookupAnswered Converges
CHECK_DEADLOCK FALSE
