\* Nothing fails: are the datasets listed after any two commands?
CONSTANTS
    n1 = n1
    n2 = n2
    k1 = k1
    k2 = k2
    u1 = u1
    l1 = l1
    plain = plain
    backup = backup
    sealed = sealed
    i1 = i1
    i2 = i2
    t1 = t1
    older = older
    d1 = d1
    d2 = d2
    d3 = d3
    s1 = s1
    s2 = s2
    s3 = s3
    None = None
    Names = {n1, n2}
    Keys = {k1}
    Urls = {u1}
    Lines = {l1}
    Before <- MCBefore
    MaxFiles = 4
    Docs = {plain, backup, sealed}
    Sealed = {sealed}
    Backups = {backup}
    Items <- MCItems
    Pathless = {i2}
    Older = {older}
    TagNames = {t1}
    DsNames = {d1, d2, d3}
    Secrets = {s1, s2, s3}
    MaxIndex = 4
    Named <- MCNamed
    Holds <- MCHolds
    Stray = {s2}
    NoName = NoName
    MaxCalls = 2
    MaxCopies = 2
    MaxTrouble = 0
SPECIFICATION DeskSpec
INVARIANT ListsAll
CHECK_DEADLOCK FALSE
