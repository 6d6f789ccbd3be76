SPECIFICATION FairSpec
CONSTANTS
  p1 = p1
  p2 = p2
  a1 = a1
  a2 = a2
  NoPod = NoPod
  Pods = {p1, p2}
  Addresses = {a1, a2}
  AddressOf <- OwnAddress
  HostNetwork = {}
  Infos = {"slow"}
  NoInfo = ""
  RateField <- RateFields
  NetemField <- NetemFields
  Refused = {"100kbsp", "delya 10ms"}
  MaxClass = 2
  MaxFilter = 2
  UserDirs = {"egress"}
  Disruptions = {"nodeClear", "crash"}
  MaxFaults = 1
  MaxOps = 5
INVARIANTS
  ParkedIsClean
  ParkedPodsAreReleased
PROPERTIES
  NodeClearCompletes
CHECK_DEADLOCK FALSE
