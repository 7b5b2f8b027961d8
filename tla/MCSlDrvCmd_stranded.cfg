SPECIFICATION FairSpec
CONSTANTS
  Thread = {t1}
  Spawn = spawn
  None = none
  CntMod = 6
  MaxEvents = 3
  Sender = {}
  FlowMsgs = FALSE
  Faults = {}
PROPERTY PendingIsRead
CHECK_DEADLOCK FALSE
