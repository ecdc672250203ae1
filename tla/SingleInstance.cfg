SPECIFICATION HostFairSpec
CONSTANTS
  Hosts = {h1, h2, h3}
  MaxRings = 1
INVARIANTS OneSupervisor
PROPERTIES DoorbellAnswered
CHECK_DEADLOCK FALSE
