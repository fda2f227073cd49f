SPECIFICATION MCFairSpec
CONSTANTS
  Servers = {"a", "b"}
  HcServers = {"a"}
  Ports = {1, 5}
  MaxRequests = 2
  MaxPods = 2
  MaxCalls = 2
  MaxFaults = 1
INVARIANTS VolumeFollowsPod NoDoubleBooking
PROPERTIES StopReachesArma 
CHECK_DEADLOCK FALSE
