SPECIFICATION Spec
CONSTANTS
  flow = flow
  act = act
  Workflows = {flow}
  Actions = {act}
  NoFile = NoFile
  Foreign = {}
  Slots = {1, 2}
  Outcomes = {"completed"}
  LeftBehind = {"batch_submitted"}
  MaxRuns = 2
  MaxTurns = 3
  MaxMishaps = 1
INVARIANT TypeOK
INVARIANT NoLostChange
INVARIANT TruthfulFiles
PROPERTY MirrorsTheFiles
PROPERTY KeepsTheFiles
CHECK_DEADLOCK FALSE
