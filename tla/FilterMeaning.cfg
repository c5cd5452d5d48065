SPECIFICATION AnswerSpec
CONSTANTS
  Cases <- HasuraCases
  MaxRows = 1
  MaxSmall = 2
  MaximumRows = 3
  DefaultPage = 2
  PageCaps = {1, 3}
  RowBudgets = {1, 3}
  Obeys = {TRUE}
  Hidden = Hidden
  Null = Null
  MaxFilterDepth = 2
INVARIANT MeaningSurvives
CHECK_DEADLOCK FALSE
