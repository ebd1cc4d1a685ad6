SPECIFICATION Spec
CONSTANTS
  All = All
  None = None
  Pending = Pending
  Histories <- MCHistories
  Executions <- MCExecutions
  Placements <- MCPlacements
  Workflows <- MCWorkflows
  Items <- MCItems
  Nodes <- MCNodes
  Typed <- MCTyped
  Alphabet <- MCAlphabet
  Buckets = 2
  PageSize = 2
  MaxWrites = 2
  MaxFailures = 1
  MaxClicks <- MCMaxClicks
INVARIANT TypeOK
INVARIANT Reveals
INVARIANT EmptyExplained
CHECK_DEADLOCK FALSE
