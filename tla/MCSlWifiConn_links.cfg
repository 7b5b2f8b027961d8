SPECIFICATION FairSpec
CONSTANTS
  EventQMax = 10
  DeferMax = 3
  Backlog = 2
  Api = {"enable", "disable", "addProfile", "stats", "deinit"}
  Modes = {"ONE_SHOT"}
  Commands = {"nwp"}
  Requests = {}
  IpModes = {"dhcp"}
INVARIANTS WatchdogArmed NoStaleConnected
PROPERTIES LossReported DisableHonoured IpWaitEnds
CHECK_DEADLOCK FALSE
