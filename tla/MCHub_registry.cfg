\* Three requests, two keys, three ids; a payload of k1 may be sent again.
CONSTANTS
    k1 = k1
    k2 = k2
    p1 = p1
    p2 = p2
    p3 = p3
    i1 = i1
    i2 = i2
    i3 = i3
    None = None
    Keys = {k1, k2}
    Ids = {i1, i2, i3}
    Payloads = {p1, p2, p3}
    KeyOf <- MCKeyOf
    When <- MCWhen
    MaxReqs = 3
    Paths = {i1}
    MaxNow = 1
    ValidFor = 0
    Keep = 0
SPECIFICATION Spec
INVARIANTS
    OneUse
    IdsKept
    TunnelsCounted
PROPERTIES
    OnlyItself
    Answered
CHECK_DEADLOCK FALSE
