SPECIFICATION LoadedSpec
CONSTANTS
  Thread = {t1}
  Spawn = spawn
  None = none
  CntMod = 6
  MaxEvents = 2
  Sender = {}
  FlowMsgs = FALSE
  Faults = {"dead", "abort", "sync"}
PROPERTIES CommandEnds PendingIsRead
CHECK_DEADLOCK FALSE
