\* A thing that is no posit, where a posit is asked for.
CONSTANTS
    Kinds = {"Year", "Date"}
    FirstUnit <- MCFirst
    LastUnit <- MCLast
    Boundary <- MCBoundary
    NegativeInfinity <- MCNegativeInfinity
    PositiveInfinity = 99
    PositRole = 4
    AscertainsRole = 5
    Databases <- MCDatabases
    Queries <- MCThingQueries
SPECIFICATION Spec
INVARIANTS
    TotalQueriesSucceed
