\* Two messages in, up to three commands, one restart, closing or kill.
CONSTANTS
    user = user
    l1 = l1
    l2 = l2
    other = other
    myself = myself
    them = them
    None = None
    Callers = {user, l1, l2, other}
    AccountOf <- MCAccountOf
    User = user
    Loops = {l1, l2}
    Others = {other}
    Limit = 1
    MaxNow = 1
    MaxIn = 2
    Spoilable = {2}
    MaxTrouble = 1
    MaxCommands = 3
SPECIFICATION Spec
INVARIANTS
    OwnerAgrees
    ReadIsShown
    SentIsStored
PROPERTIES
    EventuallyShown
CHECK_DEADLOCK FALSE
