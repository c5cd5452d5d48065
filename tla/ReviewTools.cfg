SPECIFICATION ToolsSpec
CONSTANTS
    None = None
    MaxFields = 3
    MaxLevels = 3
    Schemas <- MCSchemas
    InventoryOptions <- MCInventoryOptions
    CuratedOptions <- MCCuratedOptions
    Shapes = {"collection", "entity"}
    OldDecisions <- MCOldDecisions
    MaxActs = 4
    Documents <- MCDocuments
    Opinions <- MCOpinions
    ConfigEdits <- MCConfigEdits
    BatchSize = 3
    MaxDeskActs = 4
    BoardSchemas <- MCBoardSchemas
    Depths = {2, 3}
    Readings <- MCReadings
    DefaultLimits <- MCDefaultLimits
    MaxBoardActs = 4
    CuratedSchemas <- MCCuratedSchemas
    CuratedDepths = {1, 2}
    SharedCount = 3
    Suggestion = "text"
    MaxCuratedActs = 6
INVARIANTS LedgerTotal DiffForetells CandidateStands CompiledStands InHandIsOnScreen PostedWasApproved CuratedStands
CHECK_DEADLOCK FALSE
