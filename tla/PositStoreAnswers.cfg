\* A deduplicated answer about a batch that was never synced.
CONSTANTS
    Names <- MCNames
    Values <- MCValues
    RoleCommands <- MCRoleCommands
    PositCommands <- MCPositCommands
    MaxThing = 12
    MaxFaults = 2
SPECIFICATION Spec
CONSTRAINT OneLeftover
INVARIANTS
    AnswersKept
