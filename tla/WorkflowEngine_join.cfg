SPECIFICATION FairSpec
CONSTANTS
  a = a
  b = b
  c = c
  Actions = {a, b, c}
  Deps <- JoinDeps
  Level <- JoinLevel
  BatchActions = {b}
  Sequential = FALSE
  ConcurrencyLimit = 2
  Budget <- MCBudget
  Crashes = 1
  Interrupts = 1
  Faults = 1
  Unreads = 0
  Troubles = 1
  Changes = 1
  Reruns = 0
  Freshes = 0
INVARIANT StartedUpstream
PROPERTY NothingLeftInFlight
PROPERTY KeepsTheFiles
PROPERTY Converges
