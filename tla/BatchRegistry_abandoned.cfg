SPECIFICATION Spec
CONSTANTS
  file1 = file1
  file2 = file2
  rec1 = rec1
  rec2 = rec2
  Files = {file1, file2}
  Records = {rec1, rec2}
  Jobs <- MCTwoFiles
  MaxMishaps = 1
INVARIANT CompletedIsSettled
CHECK_DEADLOCK FALSE
