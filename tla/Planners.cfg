SPECIFICATION LooksSpec
CONSTANTS
    open = open
    tags = tags
    search = search
    Nil = Nil
    Caps <- MCCaps
    Hosted <- MCHosted
    FreeText <- MCFreeText
    Prompts <- MCPrompts
    MaxPanels = 2
    MaxRepairs = 1
    MaxTurns = 3
    Asks <- MCAsks
    Absent = Absent
    DefaultListLimit = 10
    MaxRetries = 2
    PlanDeadline = 4
    ComposeDeadline = 5
    Timeout = 2
    MaxBody = 2
    None = None
INVARIANTS DraftsStand DraftSaysIt EndsSoon ReportsLastAnswer QuotesLatestDraft EveryCallMetered
PROPERTY KeepsTheView
CHECK_DEADLOCK FALSE
