SPECIFICATION ScenesSpec
CONSTANTS
  MaxFiles = 2
  MaxKeys = 2
  MaxShares = 2
  Chunks = 4
  Capacity = 2
  ChunkSize = 2
  SaltLength = 2
  PacketOverhead = 2
  LargestFile = 6
  WindowSize = 5
  LargestPiece = 3
  Shares = {"p", "q"}
  Protected = {"p"}
  Previewable = {"q"}
  MaxVisits = 4
  Files <- TwoFiles
  OneTime = {"a"}
  MaxClicks = 2
  MaxSwitches = 1
  Streams = {"x", "y"}
  MaxDeaths = 1
  Tabs = {"u", "v"}
  Actions = {"x", "y"}
  MaxRequests = 4
  e1 = e1
  e2 = e2
  e3 = e3
  e4 = e4
  Events <- OneTransfer
  ShareLife = 1
  Retention = 5
  LastTick = 9
  MaxFlights = 1
  MaxFaults = 1
  Rows = 4
  QueryLimit = 1
  MaxBatches = 3
  WorkLimit = 8
  Sessions <- ThreeVisits
  StoredKinds <- StoredEvents
  Sources = {"ad", "none"}
  RepeatDays = 1
  LookbackDays = 2
  HistoryDays = 2
  Offsets = {1}
  FirstReportTick = 1
  LastReportTick = 5
  MaxLog = 3
  Visitors = {v1, v2}
  MaxSubmits = 2
SYMMETRY ScenesSymmetry
INVARIANT LinkOpensAllFiles
INVARIANT BufferFaithful
INVARIANT DecryptsTheFile
INVARIANT ShownBelongsTogether
INVARIANT OneRequestPerClick
INVARIANT HandedOverOnce
INVARIANT ShownIsCurrent
INVARIANT MetricsSettled
INVARIANT HonestSummary
 
INVARIANT FormsHonest
CHECK_DEADLOCK FALSE
