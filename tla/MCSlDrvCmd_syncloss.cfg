SPECIFICATION Spec
CONSTANTS
  Thread = {t1, t2}
  Spawn = spawn
  None = none
  CntMod = 3
  MaxEvents = 1
  Sender = {t1}
  FlowMsgs = FALSE
  Faults = {"sync", "assert"}
INVARIANTS BusExclusive EventConserved RxAccounting
PROPERTY BusRefinement
CHECK_DEADLOCK FALSE
