\* Clients that add the same key, and streams, with cancellations, deadlines and disconnects.
CONSTANTS
    a = a
    b = b
    h = h
    s1 = s1
    s2 = s2
    k = k
    note = note
    r = r
    NoOwner = NoOwner
    Clients <- MCClients
    Crowds <- SafetyCrowds
    Keys <- MCKeys
    Script <- MCScript
    Mode <- MCMode
    Deadlines <- MCDeadlines
    Limit = 1
    FallbackRows = 2
    Capacity = 1
SPECIFICATION Spec
INVARIANTS
    TypeOK
    AddedOnce
    ScriptsAreSerial
    CommandsPublishedOnce
    RecallsAreComplete
    InterruptionIsPrompt
    StreamsAreWellFormed
    FinalTallyCounts
    RegistryIsExact
    OwnerRuns
