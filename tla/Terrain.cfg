\* Up to seven posits, two of a command beside the report; every limit is exceeded by some databases.
CONSTANTS
    Kinds = {"Year", "Date"}
    FirstUnit <- MCFirst
    LastUnit <- MCLast
    Boundary <- MCBoundary
    NegativeInfinity <- MCNegativeInfinity
    PositiveInfinity = 99
    Databases <- MCDatabases
    Commands <- MCCommands
    Cutoffs <- MCCutoffs
    NameRank <- MCNameRank
    RoleLimit = 2
    SignatureLimit = 2
    MaxPosits = 8
    MaxSets = 7
    MaxEndpoints = 3
    MaxComparisons = 9
    MaxArity = 2
    MaxAllocations = 6
SPECIFICATION Spec
INVARIANTS
    CaptureIsCoherent
    NoInternalError
    SupportIsExact
