SPECIFICATION Spec
CONSTANTS
  PageSizes = {0, 3}
  MaxConns = 2
  MaxLoads = 2
  Tabs = {t1}
  Requests = 2
  MaxChunks = 1
  ChunkSize = 2
  FinishedSizes = {1, 3}
  WaterfallCap = 1
  Initial = 1
  AddPerTick = 2
  MaxLoadConns = 2
  Mad = 2
  SdtPercent = 5
  Cap = 4
  Burst = 1
  GateSlots = 1
  MaxProbes = 2
  EchoProbes = 2
  MaxDownloads = 2
INVARIANTS
  PagesHonest
  DrainOrderFree
  LoadHonest
PROPERTY LoadsEnd
