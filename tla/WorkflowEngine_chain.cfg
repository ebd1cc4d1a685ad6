SPECIFICATION Spec
CONSTANTS
  a = a
  b = b
  c = c
  Actions = {a, b, c}
  Deps <- ChainDeps
  Level <- ChainLevel
  BatchActions = {b}
  Sequential = FALSE
  ConcurrencyLimit = 2
  Budget <- MCBudget
  Crashes = 1
  Interrupts = 1
  Faults = 0
  Unreads = 0
  Troubles = 1
  Changes = 1
  Reruns = 0
  Freshes = 0
INVARIANT TypeOK
INVARIANT NoStaleCompletion
INVARIANT PollsABatch
PROPERTY AnswersKept
