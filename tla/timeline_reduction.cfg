CONSTANTS
  Refreshers = {r1}
  Hosts = {h1}
  HostItems <- MCHostItems
  MemoryTexts = {"s", "b"}
  TextSize <- MCTextSize
  StoreIds = {"s1", "s2"}
  StoreNames <- MCStoreNames
  StoreMounts <- MCMounts
  MemoryQueries <- MCMemoryQueries
  DefaultStore = ""
  Governed = TRUE
  DenyAllLeaks = FALSE
  GlobalBuckets = {"k"}
  MaxContent = 3
  FlushThreshold = 3
  TriageMinimum = 2
  TriageMaximum = 4
  MaxMemorySteps = 3
  Profiles <- MCProfiles
  MaxHits = 4
  MaxTotal = 3
  MaxPerRoute = 2
  MinUtility = 20
  Topics = {x, y}
  TaskQuery = "task"
  Nothing = Nothing
  Synchronous = FALSE
  TriggerInterval = 1
  MinInterval = 1
  MaxInterval = 3
  KeywordEnabled = TRUE
  RefreshIntents = {{"memory_recall"}, {"capability_search"}}
  MaxTurnNumber = 3
  MaxEvents = 2
  CtxStores = {"s1", "s2"}
  CtxNames <- MCCtxNames
  CtxMounts <- MCCtxMounts
  CtxQueries <- MCCtxQueries
  CtxMaterials <- MCCtxMaterials
  GivenMaterials <- MCGivenMaterials
  DefaultMount = ""
  SelectLimits <- MCSelectLimits
  MaxCtxSteps = 3
  Bases <- MCBases
  Injections <- MCInjections
  MaxInjections = 3
  MaxInjection = 6
  MaxTotalInjected = 11
  AllowedTargets = {"timeline_open", "semi_dynamic_2", "dynamic"}
  BucketRules <- MCBucketRules
  PromptTargets = {30, 60, 71}
  Marker = 4
  Wrapper = 4
  Header = 3
  Gap = 2
  FirstFacts <- MCFirstFacts
  Lengths = {0, 3}
  Times = {0, 2}
  Interval = 2
  BlockBytes = 8
  HeaderBytes = 1
  EntryBytes = 1
  MaxBytes = 4
  KeepBytes = 3
  Readers = {f1}
  MaxFacts = 3
  MaxReductions = 2
SYMMETRY MCSymmetry
CHECK_DEADLOCK FALSE
SPECIFICATION MCSpec
PROPERTY
  ReductionReduces
