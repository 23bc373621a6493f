CONSTANTS
  Base = 3
  Digits = 2
  MaxTick = 27
  None = None
  Outputs <- WorkerOutputs
  Total = 3
  MaxOver = 1
  Torn = Torn
  Star = Star
  Up = Up
  Same = Same
  StatusId = StatusId
  Init1 = Init1
  Free = Free
  Open = Open
  Unknown = Unknown
  ro = ro
  de = de
  git = git
  push = push
  vault = vault
  edit = edit
  publish = publish
  packer = packer
  author = author
  reviewer = reviewer
  c1 = c1
  c2 = c2
  k1 = k1
  k2 = k2
  clerk = clerk
  builder = builder
  d1 = d1
  d2 = d2
  o1 = o1
  o2 = o2
  sub = sub
  met = met
  i1 = i1
  i2 = i2
  fa = fa
  fb = fb
  imp = imp
  orch = orch
  impl = impl
  tests = tests
  db = db
  small = small
  py = py
  go = go
  b1 = b1
  b3 = b3
  mo = mo
  mp = mp
  Refs = {1, 2, 3}
  Tools = {edit}
  Works = {clerk, builder}
  Places = {vault}
  StatusLife = 2
  MaxNow = 3
  Producers = {packer, author, reviewer}
  ReadsLayer = {author}
  Names = {"pack", "draft"}
  Contexts = {c1, c2}
  Informed = {c1}
  Scores = {5}
  Half = 3
  Grain = 3
  MaxArtifacts = 3
  Employees = {clerk, builder}
  Digests = {d1, d2}
  Times = {0}
  Activators = {o1, o2}
  MaxEdits = 1
  SameFamilyReview = FALSE
  MaxAge = 1
  Skew = 0
  Provable = {2}
  MaxHour = 2
  Importers = {imp, orch}
  Accounts = {"measured", "broken"}
  MonthLength = 2
  Least = 2
  Viable = 8
  Models = {mo, mp}
  Launched = mo
  MaxTurns = 2
  MaxLines = 2
  Pids = {0, 1, 2, 3}
  Root = 0
  MaxBirths = 3
  MaxPasses = 20
  Roots <- ContractRoots
  Carvings <- ContractCarvings
  Forms <- ContractForms
  Paths <- AskedPaths
  Argvs <- AskedArgvs
  Scopes <- GrantScopes
  Bans <- AssignmentBans
  Produces <- PipelineProduces
  Declared <- PipelineDeclared
  Provider <- ContextProvider
  Mode <- RegistryMode
  Logs <- MissionLogs
  Route <- CatalogRoute
  Channel <- CatalogChannel
  Terms <- ChannelTerms
  Never <- NeverRules
  Scoped <- ScopedRules
  Snapshot <- PinnedPrices
  Rates <- RateTable
  Crews <- SavedCrews
  Entries <- SnapshotEntries
  Stamps <- SnapshotStamps
  Multiplier <- Badges
  Requests <- StaffRequests
  Rows <- SourceRows
  Legacy <- OldLines
  Runs <- RunLines
  Consumptions <- SpentTokens
  Fields <- ReceiptFields
SPECIFICATION FactorySpec
INVARIANTS
  FixedTextIsChronological
  NoTieToBreak
  WorkEndsWithItsAuthority
  DoubtIsDeclared
  
  CleanReportIsTrue
  LaunchesOnHeadroom
  StaffedFairly
  
  
  
  
  NothingDoneIsSaid
PROPERTIES
  DenialStands
  
  
CHECK_DEADLOCK FALSE
