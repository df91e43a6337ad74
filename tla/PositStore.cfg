\* Two faults anywhere: commands cut short, refused and failed writes, process
\* exits, power failures.
CONSTANTS
    Names <- MCNames
    Values <- MCValues
    RoleCommands <- MCRoleCommands
    PositCommands <- MCPositCommands
    MaxThing = 13
    MaxFaults = 2
SPECIFICATION Spec
CONSTRAINT OneLeftover
INVARIANTS
    ReplayAccepted
    MemoryIsReplay
    GeneratorAbove
    AssertionsHaveTargets
PROPERTIES
    UsesDurableLog
