SPECIFICATION Spec
CONSTANTS
  a = a
  b = b
  c = c
  Actions = {a, b, c}
  Deps <- ChainDeps
  Level <- ChainLevel
  BatchActions = {b}
  Sequential = FALSE
  ConcurrencyLimit = 2
  Budget <- MCBudget
  Crashes = 1
  Interrupts = 0
  Faults = 0
  Unreads = 0
  Troubles = 0
  Changes = 0
  Reruns = 1
  Freshes = 0
INVARIANT PollsABatch
