SPECIFICATION FairSpec
CONSTANTS
  file1 = file1
  file2 = file2
  rec1 = rec1
  rec2 = rec2
  Files = {file1, file2}
  Records = {rec1, rec2}
  Jobs <- MCJobs
  MaxMishaps = 1
INVARIANT TypeOK
INVARIANT NeverOutTwice
INVARIANT NoAnswerLost
INVARIANT SettledUnlessAbandoned
INVARIANT RoundsBounded
PROPERTY Finishes
CHECK_DEADLOCK FALSE
