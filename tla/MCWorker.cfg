CONSTANTS
    tunnels = tunnels
    egress = egress
    watcher = watcher
    retention = retention
    StoreClose = StoreClose
    Shutdown = Shutdown
    Nil = Nil
    Members = {tunnels, egress, watcher}
    Hooks = {retention, StoreClose}
    BeforeHooks = {retention}
    CancelNoWait = {watcher}
    PhaseOf <- PhaseMC
    AttachedFirst <- AttachedFirstMC
    Sessions = {"t1", "e1", "w1"}
    MemberOf <- MemberMC
    Quiescers = {Shutdown, "reload"}
    IdleGraceCalls = {"reload"}
SPECIFICATION FairSpec
INVARIANTS TypeOK PhaseBarrier CleanExit
PROPERTIES StopExits
