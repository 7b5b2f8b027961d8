SPECIFICATION Spec
CONSTANTS
  EventQMax = 10
  DeferMax = 3
  Backlog = 4
  Api = {"enable", "enableProvisioning", "addProfile"}
  Modes = {"ONE_SHOT"}
  Commands = {"nwp"}
  Requests = {}
  IpModes = {"dhcp"}
INVARIANT DeferMakesProgress
CHECK_DEADLOCK FALSE
