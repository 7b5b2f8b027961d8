SPECIFICATION Spec
CONSTANTS
  EventQMax = 10
  DeferMax = 2
  Backlog = 1
  Api = {"enable", "disable", "enableProvisioning", "addProfile", "addNonPersistent", "extCompleted", "reset"}
  Modes = {"ONE_SHOT"}
  Commands = {"nwp", "ext"}
  Requests = {"CONNECTED"}
  IpModes = {"dhcp", "static0"}
INVARIANTS TypeOK NetIfAgrees WatchdogArmed StopAwaited
CHECK_DEADLOCK FALSE
