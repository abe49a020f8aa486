CONSTANTS
  Instances = {i1, i2}
  AllInstances = AllInstances
  HourSpan = 2
  DayHours = 2
  Zone = 2
  RecentWindow = 3
  LongWindow = 7
  QueueSize = 1
  PageSize = 1
  Rolling = {3, 8}
  Starts = {23}
  Filters = {i1, AllInstances}
  Times = {15,16,20,23,24}
  MaxTicks = 1
  MaxEvents = 2
  Stamps = {1, 2}
  Kinds = {k1, k2}
  AnyKind = AnyKind
  PageRows = 2
  Clients = {c1, c2, c3}
  EventIds = {e1, e2}
  TokenTTL = 2
  MaxRows = 4
  MaxFlights = 3
  MaxLinks = 3
  MaxNow = 4
  \* the algorithms
  SecondLength = 2
  DayLength = 8
  Guard = 16
  HourLength = 4
  SpeedBuckets = 2
  VisibleBuckets = 30
  TopCount = 1
  NoIdentity = NoIdentity
  Offsets = {0, 2, 8}
  Changes = {35, 36, 40}
  ReadFrom = 28
  ReadTo = 48
  Horizon = 80
  MaxTokens = 5
  NoValue = NoValue
  MinuteTicks = 1
  HourTicks = 4
  CheckInterval = 3
  NoTime = NoTime
  NoScope = NoScope
  HeatmapBlocks = 3
  MediumSeconds = 8
  LongSeconds = 12
  Retentions <- ScaledRetentions
  HourRetention = 24
  DayRetention = 4
  MaxSamplePoints = 2
  Priority <- SamplePriority
  Bin <- SampleBin
SPECIFICATION MCSpec
INVARIANTS CountsOnce EventLogServes
  TimesExact ReportsAgree ChargesExact QuotaExact
\* A server with no request under way rests.
CHECK_DEADLOCK FALSE
