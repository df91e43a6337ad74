\* Searches over four stores, with every modifier.
CONSTANTS
    Kinds = {"Year", "Date"}
    FirstUnit <- MCFirst
    LastUnit <- MCLast
    Boundary <- MCBoundary
    NegativeInfinity <- MCNegativeInfinity
    PositiveInfinity = 99
    PositRole = 4
    AscertainsRole = 5
    Databases <- MCDatabases
    Queries <- MCQueries
SPECIFICATION Spec
INVARIANTS
    RowsAreTheJoin
    AsMaterialized
    StaticChecksSuffice
    ErrorsAreNotHidden
    EstimatesAreBounds
    DeliveredRowsStand
