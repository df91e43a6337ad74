\* Two stores and an empty one, and files from elsewhere; the last number is 15.
CONSTANTS
    Stores <- MCStores
    OtherFiles <- MCOtherFiles
    Unnormalized = {"wi~fe"}
    BatchSize = 1
    MaxThing = 15
SPECIFICATION Spec
INVARIANTS
    RemapIsFaithful
    RemapFileMeansComplete
    RoundTrip
    PartialDestinationLoads
