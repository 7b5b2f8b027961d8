SPECIFICATION Spec
CONSTANTS
  t1 = t1
  t2 = t2
  Thread = {t1, t2}
  Sock = {"s1", "s2"}
  NoSock = nosock
  None = none
  Other = other
  PoolSize = 2
  Calls <- DataCalls
  Persist = {}
  Pkts = {1}
  TxCap = 3
  Unanswered = 1
  NonBlocking = {"s1"}
  Faults = {"abort", "write", "prov", "socket"}
INVARIANTS TypeOK PoolSound TakeTurns KindServed AnswerGoesHome TxLockAccounted TxWithinNwp FlowSignalled
CHECK_DEADLOCK FALSE
