SPECIFICATION Spec
CONSTANTS
  a = a
  b = b
  c = c
  Actions = {a, b, c}
  Deps <- ForkDeps
  Level <- ForkLevel
  BatchActions = {b}
  Sequential = TRUE
  ConcurrencyLimit = 1
  Budget <- MCBudget
  Crashes = 0
  Interrupts = 1
  Faults = 0
  Unreads = 1
  Troubles = 1
  Changes = 1
  Reruns = 1
  Freshes = 0
INVARIANT StartedUpstream
PROPERTY EndsSettled
PROPERTY HaltStands
INVARIANT NoStaleCompletion
