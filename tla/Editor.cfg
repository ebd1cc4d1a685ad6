SPECIFICATION FairSpec
CONSTANTS
  n1 = n1
  n2 = n2
  n3 = n3
  n4 = n4
  Configs <- MCConfigs
  MaxServers = 4
  MaxChanges = 2
  MaxRestarts = 1
  MaxFailures = 2
  Names = {n1}
  None = None
  Limit = 2
  MaxRecords = 3
  MaxAsks = 3
  MaxWrites = 1
  MaxMishaps = 2
  Flows = {n1, n2, n3}
  Nil = Nil
  actionsOf <- MCactionsOf
  rootOf <- MCrootOf
  Longer <- MCLonger
  MaxRounds = 3
  Shown = {n1, n2, n3}
INVARIANT TypeOK
INVARIANT NoStray
INVARIANT PanelHonest
INVARIANT ButtonsHonest
INVARIANT ViewsHonest
INVARIANT ListedInOrder
INVARIANT LevelsAgree
INVARIANT RowHonest
PROPERTY FollowsInterpreter
CHECK_DEADLOCK FALSE
