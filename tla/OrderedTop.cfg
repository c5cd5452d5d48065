SPECIFICATION AnswerSpec
CONSTANTS
  Cases <- OrderedCases
  MaxRows = 3
  MaxSmall = 2
  MaximumRows = 3
  DefaultPage = 3
  PageCaps = {1, 3}
  RowBudgets = {1, 3}
  Obeys = {TRUE}
  Hidden = Hidden
  Null = Null
  MaxFilterDepth = 2
INVARIANT TopIsTheTop
CHECK_DEADLOCK FALSE
