\* Up to four assertions on a small calendar.
CONSTANTS
    Kinds = {"Year", "Date"}
    FirstUnit <- MCFirst
    LastUnit <- MCLast
    Boundary <- MCBoundary
    NegativeInfinity <- MCNegativeInfinity
    PositiveInfinity = 99
    Keys <- MCKeys
    Positors = {"p", "q"}
    Posits = {11, 12, 13, 14}
    AppearanceSets = {"s", "t"}
    Values = {"v", "w"}
    NoPosit = NoPosit
    Bodies <- MCBodies
    Cuts <- MCCuts
    MaxCandidates = 4
    MaxComparisons = 8
SPECIFICATION Spec
INVARIANTS
    MaximaAreRetained
    ComparisonsAreExact
    SliceIsDefined
