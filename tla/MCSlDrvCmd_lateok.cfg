SPECIFICATION Spec
CONSTANTS
  Thread = {t1, t2}
  Spawn = spawn
  None = none
  CntMod = 3
  MaxEvents = 1
  Sender = {}
  FlowMsgs = FALSE
  Faults = {"sync"}
INVARIANT OkMeansResponse
CHECK_DEADLOCK FALSE
