CONSTANTS
  kOneHour = 2
  kOneDay = 3
  rawRetention = 2
  minuteRetention = 3
  kMinuteBucket = 2
  kHourBucket = 4
  maxBatchSize = 2
  maxBatchAge = 2
  kChartLimit = 3
  kTrendChartCapacity = 2
  MaxTime = 5
  MaxSamples = 3
  MaxFaults = 1
  MaxExits = 1
  Writers <- MCWriters
  Signals <- MCSignals
  MaxWrites = 2
  MaxRow = 2
  kMaxPendingOperations = 2
  MaxActs = 3
  MaxDbFaults = 1
  MaxRebuilds = 1
  MaxEdits = 2
  MaxSaves = 1
  MaxSaveFaults = 1
  MaxBoots = 2
  Backends <- MCBackends
  MaxGestures = 2
  MaxRemote = 2
  MaxRequests = 4
  MaxSignIns = 1
SPECIFICATION Spec
CHECK_DEADLOCK FALSE
INVARIANTS
  HistoryComplete
  StationsAgreeWhenQuiet
  ProductsAgree
  ConfigFollowsFile
  DashboardTellsLine
  SettingsInForce
  PaletteShown
