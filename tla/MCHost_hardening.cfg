SPECIFICATION HostSpec
CONSTANTS
  Runs = {1, 2, 3}
  Audited = {1, 2}
  Kinds = {"write", "lock"}
  Paths = {"parent", "child"}
  Within <- MCWithin
  Uses <- MCUses
  MaxRegistryRecords = 2
  MaxRegistryFindings = 1
  Learners = {"linux", "other"}
  Linux = {"linux"}
  Observed <- MCObserved
  Configured <- MCConfigured
  Traced <- MCTraced
  Initial <- MCInitial
  Lockers = {1, 2, 3}
  LockLists <- MCLockLists
  Calls = {"c1", "c2", "c3"}
  Dest <- MCDest
  UdpSocket = "udp socket"
  Proxy = "proxy"
  Elsewhere = "elsewhere"
  MaxEgressNotes = 1
  MaxContentionSamples = 1
  EngineIds = {"e1", "e2"}
  MaxEngines = 3
  MaxListedSessions = 2
INVARIANT HardeningKept
CHECK_DEADLOCK FALSE
