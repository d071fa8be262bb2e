SPECIFICATION FairSpec
CONSTANTS
    base = base
    note = note
    hotter = hotter
    bad = bad
    colder = colder
    moved = moved
    disabled = disabled
    garbage = garbage
    None = None
    Contents = {base, hotter, bad, colder, moved, disabled, garbage}
    Config <- ConfigMC
    Parsed <- ParsedMC
    BadHot = {2}
    FirstFile = base
    MaxGens = 2
    MaxEdits = 2
    MaxCli = 1
INVARIANTS TypeOK OnlyHotChanges BaselineAgrees NoLostEdit
PROPERTIES Converges
