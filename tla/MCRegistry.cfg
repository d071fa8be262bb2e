CONSTANTS
    s1 = s1
    s2 = s2
    d1 = d1
    d2 = d2
    NoParent = NoParent
    Free = Free
    Sessions = {s1, s2}
    Drainers = {d1, d2}
    Forcers = {f1}
    Parent <- ParentMC
    IdleGrace <- IdleGraceMC
    CloseWorkers = 2
SPECIFICATION FairSpec
INVARIANTS TypeOK ClosedIsEmpty CloserOnce ClosedOwnersTold IndexCoherent
PROPERTIES StateForward GateSafe GateLive
CHECK_DEADLOCK FALSE
