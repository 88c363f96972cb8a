SPECIFICATION FairSpec
CONSTANTS
  registry = registry
  site = site
  stranger = stranger
  pattern = pattern
  block = block
  tls12 = tls12
  tls13 = tls13
  NoHost = NoHost
  NoRequest = NoRequest
  Names <- MCNames
  Suffixes = {pattern}
  Under <- MCUnder
  Ranges = {block}
  Within <- MCWithin
  Resolves <- MCResolves
  Conns = {c1, c2}
  Configs <- MCConfigsUnaudited
  Requests <- MCLiveRequests
  Volumes <- MCOneVolume
  MaxConnect = 1
  MaxFindings = 0
  MaxCiphers = 1
  UploadHeavyMin = 4
  UploadHeavyRatio = 2
CHECK_DEADLOCK FALSE
PROPERTY CloseEndsEveryHandler
PROPERTY ImplementsGate
