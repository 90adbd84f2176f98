\* Requests to the SDK are bounded and then over.
SPECIFICATION Spec
CHECK_DEADLOCK FALSE
SYMMETRY Symmetry
CONSTANTS
  Instances = {"net", "app"}
  Configs <- MCConfigs
  Datasets = {"shared", "corrupt"}
  Addresses = {"eth", "wifi"}
  Sessions = {s1, s2}
  Asks <- MCAsks
  DownloadCap = 3
  AssetCap = 2
  H1Chunk = 2
  H3Chunk = 2
  MaxConnections = 1
  MaxStreams = 1
  Requests = {1, 2, 3}
  Kinds <- MCKinds
  Disabled = {FALSE}
  Toggles = {"echo", "download", "upload", "info"}
  Tokens = {"new", "old"}
  GlobalRate <- MCGlobalRate
  IpRate <- MCIpRate
  MaxEntries = 1
  MaxConcurrent = 2
  MaxTransfers = 1
  EchoCap = 1
  DefaultCapBytes = 3
  DownloadCapBytes = 2
  UploadCapBytes = 2
  AbsoluteMax = 2
  Budget <- MCBudget
  MaxNow = 1
INVARIANTS
  HealthHonest
  RepliesExact
  SlotsConserved
  BudgetHeld
