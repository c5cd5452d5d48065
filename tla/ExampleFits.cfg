SPECIFICATION ContractSpec
CONSTANTS
    Cases <- MCCases
    Missing = Missing
    MaxPath = 4
    Worlds <- MCWorlds
    Drafts <- MCDrafts
    None = None
    DefaultMaxRows = 5
    ExampleLimit = 4
    MaxLeaves = 2
    OfferedDepth = 1
INVARIANT ExamplesCanBeFollowed
CHECK_DEADLOCK FALSE
