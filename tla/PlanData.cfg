SPECIFICATION DrawsSpec
CONSTANTS
    None = None
    Capability <- MCCapability
    Fields <- MCFields
    Relationships <- MCRelationships
    Slots <- MCSlots
    Surface = {"table", "contacts", "chart"}
    MaxComponents = 2
    MaxComposed = 4
    Content <- MCContent
    Candidates <- MCCandidates
    Limits = {1}
    MaxActs = 2
    Absent = Absent
    Definitions <- MCDefinitions
    OnSurface = {"table", "pair", "figure", "tangled", "group"}
    MaxNodes = 2
    WellFormed = {"a", "b", "g", "root", "labels"}
    Base <- MCBase
    Shape <- MCShape
    Views <- MCViews
INVARIANTS PinsStand DrawnAsDefined
PROPERTY SettledPanelsStay
CHECK_DEADLOCK FALSE
