SPECIFICATION AnswerSpec
CONSTANTS
  Cases <- MCCases
  MaxRows = 3
  MaxSmall = 2
  MaximumRows = 3
  DefaultPage = 2
  PageCaps = {1, 3}
  RowBudgets = {1, 3}
  Obeys = {TRUE}
  Hidden = Hidden
  Null = Null
  MaxFilterDepth = 2
INVARIANTS UnmarkedIsWhole AggregateExactOrRefused ObedientIsAccepted
CHECK_DEADLOCK FALSE
