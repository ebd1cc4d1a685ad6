SPECIFICATION FairSpec
CONSTANTS
  flow = flow
  act = act
  Workflows = {flow}
  Actions = {act}
  NoFile = NoFile
  Foreign = {}
  Slots = {1, 2}
  Outcomes = {"completed"}
  LeftBehind = {}
  MaxRuns = 1
  MaxTurns = 3
  MaxMishaps = 1
PROPERTY KilledIsShownUnasked
CHECK_DEADLOCK FALSE
