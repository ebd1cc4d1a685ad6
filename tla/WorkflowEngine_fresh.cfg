SPECIFICATION Spec
CONSTANTS
  a = a
  b = b
  c = c
  Actions = {a, b, c}
  Deps <- ChainDeps
  Level <- ChainLevel
  BatchActions = {b}
  Sequential = FALSE
  ConcurrencyLimit = 2
  Budget <- MCBudget
  Crashes = 1
  Interrupts = 0
  Faults = 1
  Unreads = 0
  Troubles = 1
  Changes = 0
  Reruns = 0
  Freshes = 1
INVARIANT CompletedOwesNothing
INVARIANT CompletedNotBlocked
