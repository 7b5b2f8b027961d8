SPECIFICATION FairSpec
CONSTANTS
  t1 = t1
  t2 = t2
  Thread = {t1, t2}
  Sock = {"s1", "s2"}
  NoSock = nosock
  None = none
  Other = other
  PoolSize = 1
  Calls <- SendCalls
  Persist = {t1}
  Pkts = {1}
  TxCap = 3
  Unanswered = 1
  NonBlocking = {}
  Faults = {}
PROPERTY SendReturns
CHECK_DEADLOCK FALSE
