CONSTANTS
    N = 3
    Limit = 2
    None = None
    Calls <- MCCalls
    MaxBodyBytes = 3
    MaxChunk = 2
    Cors = {"https://app"}
    Unset = Unset
    p1 = p1
    p2 = p2
    p3 = p3
    Nothing = Nothing
    Composed <- ThreePanels
    MaxActs = 5
SPECIFICATION EitherSpec
INVARIANTS StreamTellsAll AnswersInOrder ScreenIsPlan
PROPERTIES Concludes ReplacedStaysReplaced
CHECK_DEADLOCK FALSE
