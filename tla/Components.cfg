CONSTANTS
  None = None
  Capacity = 3
  Allocators = {"a1"}
  Freers = {"a1", "f1", "f2"}
  IdCallers = {"c1", "c2"}
  SequenceSize = 4
  MaxPerMs = 3
  MaxSequence = 6
  MaxMs = 2
  RateCallers = {"c1", "c2"}
  BurstSizes = {1, 2}
  TokensPerRefill = 1
  MaxTime = 5
  MaxDropped = 1
  Checkers = {"c1"}
  Fills = {400, 700, 920, 950, 1000}
  RecordLevels = {2, 3}
  Callers = {"c1", "c2"}
  failure_threshold = 2
  half_open_max_requests = 1
  Sinks = {"a", "b"}
  MaxResets = 3
  Pushers = {"p1", "p2"}
  max_records = 2
  MaxSpills = 2
  MaxKeys = 2
  IdSpan = 2
  MaxNumber = 3
  Torn = Torn
  TornFrame = TornFrame
  ShmWriters = {"w1", "w2"}
  ShmReaders = {"r1"}
  Slots = 2
  MaxShmFrames = 3
  MaxProcess = 3
  Nil = Nil
  AutoCleanup = TRUE
  Forced = FALSE
  max_size = 2
  MaxSinkWrites = 4
  MaxSeconds = 2
  SinkKinds = {"otel", "webhook", "kafka", "syslog", "sqlite"}
  batch_size = 2
  max_retries = 1
  max_rows = 2
  MaxRecords = 4
  Bound = 2
  MaxDispatch = 3
  window_size = 3
  reject_gaps = TRUE
  MaxLsn = 8
  Hashes = {"h1", "h2"}
  MaxKeyPairs = 4
  MaxSigned = 4
  Kinds = {"frames", "anchors", "worm"}
  MaxTrail = 2
  MaxRuns = 2
  MaxDamage = 2
  Plugins = {"p1", "p2", "p3"}
  Unprovided = "none"
  Libraries = {"l1", "l2"}
  Names = {"n1", "n2"}
  Keys = {"k1"}
  Corrupt = Corrupt
  MaxQueued = 1
  Versions = {"v1", "v2"}
  Passphrases = {"p", "q"}
  EnvironmentSeed = 9
  MaxSeeds = 1
  MaxWindow = 2
  Nothing = Nothing
  Broken = Broken
  Reloaders = {"t1", "t2"}
  MaxEpoch = 5
  SupportedFormat = 1
  NoState = NoState
  Writers = {"w"}
  Readers = {"r"}
  Core <- CoreNames
  Vendors = {"ext.a", "ext c"}
  BadVendors = {"ext c"}
  Values = {"1"}
  Messages = {"text<NUL>text"}
  FirstVendorTag = 64
  LastVendorTag = 65
  MaxSlots = 2
  StreamPrefix = 2
  max_frame_size = 2
  MaxFrames = 3
  MaxGenerated = 4
  BufferSize = 5
  ConfigFiles <- MCFiles
  ConfigLevels = {"DEBUG"}
  Profiles = {"balanced", "audit"}
  ApiBatches = {0, 512}
  UsizeSize = 65536
  DomainNames = {"default", "a", "b"}
  Policies = {"UniqueAppend"}
  NoParent = NoParent
  Inherited = Inherited
  LogSinks = {"console", "file"}
  SinkLists <- MCSinkLists
  FileLevels = {"INFO", "DEBUG"}
  ShmPaths = {"a", "b"}
  Bad = Bad
  NoPath = NoPath
  MaxEdits = 2
SPECIFICATION ComponentsSpec
CHECK_DEADLOCK FALSE
INVARIANTS
  AcceptedOnce
  NoWriterRacesTheClose
  WatermarkHolds
  SinksKeepRecords
  PluginsAreSafe
  PassMeansIntact
  RecordsReadBack
  ConfigurationHolds
  AdmissionIsBounded
PROPERTIES
  ImplementsRecordSet
  DrainIsExact
  EmergencyIsEarned
  KeysAndAnchorsHold
  ResilienceRecovers
  DispatchStops
