SPECIFICATION RunSpec
CONSTANTS
  FilterConfigs <- MCFilters
  Syscalls <- MCSyscalls
  BlockList = {"mount", "ptrace"}
  InitConfigs <- MCInitConfigs
  HostPaths <- MCHostPaths
  Links <- MCLinks
  HostMounts <- MCMounts
  Home <- MCHome
  SystemPaths <- MCSystem
  TmpPath <- MCTmp
  Orphans = {"orphan"}
  ExitCodes = {0, 1}
  MaxInitFaults = 1
  Handshakes <- MCHandshakes
  StreamLimit <- MCLimit
  MaxChunk = 4
  MaxChainCerts = 2
  MaxChainBytes = 2
  Launcher = "wxc-exec"
  Conhost = "conhost"
  Workers = {"w1", "w2"}
  MaxQueuedEvents = 3
  MaxPasses = 2
  MaxLimitEvents = 1
  WinConfigs <- MCWinConfigs
  Pids = {"p1", "p2"}
  StartKinds <- MCStarts
  LaterImages = {"lib"}
  LauncherPid = "p1"
  SkippedImage = "conhost"
  MaxTraceEvents = 6
  MaxLostEvents = 1
  MaxKeptEvents = 5
  MaxLibraryLoads = 1
  Printed <- MCPrinted
  Closing <- MCClosing
  MaxMarkerLine = 8
  MaxEmits = 1
  Hosts <- MCHosts
  Requests <- MCRequests
  WinPaths <- MCWinPaths
  Loopbacks = {"local"}
  Privates = {"lan"}
  Publics = {"web", "other"}
  MaxWord = 255
  MemoryUnit = 16
  LauncherMemory = 32
  CPUScale = 100
INVARIANT DefaultKills
CHECK_DEADLOCK FALSE
