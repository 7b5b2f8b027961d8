SPECIFICATION FairSpec
CONSTANTS
  QMax = 10
  MgrMax = 10
  Tries = 10
  Listener = {l1}
  Kinds = {"fatal"}
  Budget = 1
PROPERTY FatalRecovered
CHECK_DEADLOCK FALSE
