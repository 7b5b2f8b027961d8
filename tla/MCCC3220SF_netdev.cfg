SPECIFICATION FairSpec
CONSTANTS
  \* short queues, which overflow
  QMax = 3
  MgrMax = 2
  Tries = 2
  Listener = {l1}
  Kinds = {"fatal", "loss", "reset", "slow", "install", "http"}
  Budget = 2
INVARIANTS TypeOK BitsTrue InitNeverWaits UpMeansService
PROPERTIES KeepsTrying ComesBack FatalTold 
CHECK_DEADLOCK FALSE
