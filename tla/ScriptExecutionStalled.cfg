\* A stream whose client neither reads nor goes.
CONSTANTS
    a = a
    b = b
    h = h
    s1 = s1
    s2 = s2
    k = k
    note = note
    r = r
    NoOwner = NoOwner
    Clients <- MCClients
    Crowds <- LivenessCrowds
    Keys <- MCKeys
    Script <- MCScript
    Mode <- MCMode
    Deadlines <- MCDeadlines
    Limit = 1
    FallbackRows = 2
    Capacity = 1
SPECIFICATION EngineSpec
PROPERTY
    DeadlineEndsExecution
