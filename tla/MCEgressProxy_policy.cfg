SPECIFICATION Spec
CONSTANTS
  registry = registry
  site = site
  stranger = stranger
  pattern = pattern
  block = block
  tls12 = tls12
  tls13 = tls13
  NoHost = NoHost
  NoRequest = NoRequest
  Names <- MCNames
  Suffixes = {pattern}
  Under <- MCUnder
  Ranges = {block}
  Within <- MCWithin
  Resolves <- MCResolves
  Conns = {c1}
  Configs <- MCConfigsAll
  Requests <- MCPolicyRequests
  Volumes <- MCVolumes
  MaxConnect = 2
  MaxFindings = 1
  MaxCiphers = 1
  UploadHeavyMin = 4
  UploadHeavyRatio = 2
CHECK_DEADLOCK FALSE
INVARIANT OnlyGrantedReach
PROPERTY GateSafety
