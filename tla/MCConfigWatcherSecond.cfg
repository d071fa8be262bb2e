SPECIFICATION Spec
CONSTANTS
    base = base
    note = note
    hotter = hotter
    bad = bad
    colder = colder
    moved = moved
    disabled = disabled
    garbage = garbage
    None = None
    Contents = {base, colder}
    Config <- ConfigMC
    Parsed <- ParsedMC
    BadHot = {2}
    FirstFile = base
    MaxGens = 3
    MaxEdits = 1
    MaxCli = 1
INVARIANTS WatcherReloadsItself
