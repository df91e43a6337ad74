\* A stream whose client may stop reading, and a query without a deadline.
CONSTANTS
    a = a
    b = b
    h = h
    s1 = s1
    s2 = s2
    k = k
    note = note
    r = r
    NoOwner = NoOwner
    Clients <- MCClients
    Crowds <- LivenessCrowds
    Keys <- MCKeys
    Script <- MCScript
    Mode <- MCMode
    Deadlines <- MCDeadlines
    Limit = 1
    FallbackRows = 2
    Capacity = 1
SPECIFICATION EngineSpec
PROPERTIES
    EveryScriptEnds
    WaitersGiveUp
