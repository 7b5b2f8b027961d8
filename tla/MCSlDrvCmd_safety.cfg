SPECIFICATION Spec
CONSTANTS
  Thread = {t1, t2}
  Spawn = spawn
  None = none
  CntMod = 3
  MaxEvents = 1
  Sender = {}
  FlowMsgs = TRUE
  Faults = {"assert", "dead", "abort", "nomem"}
SYMMETRY Symmetry
INVARIANTS TypeOK BusExclusive OkMeansResponse EventConserved RxAccounting ApiCounted
PROPERTY BusRefinement
CHECK_DEADLOCK FALSE
