CONSTANTS
    w1 = w1
    w2 = w2
    None = None
    First = w1
    Workers = {w1, w2}
SPECIFICATION FairSpec
INVARIANTS TypeOK ReloadKeepsService StopLeavesNoWorker HangsOnlyAtBoot
PROPERTIES AbortRestoresServing StopCompletes
