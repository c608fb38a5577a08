SPECIFICATION Reviewing
CONSTANTS
  k1 = k1
  k2 = k2
  Calls <- TwoCalls
  Cacheable <- ReadOnly
  InitialCalls <- FirstRead
  MaxRound = 2
  MaxSteps = 3
  MaxToolOutput = 10
  LowBudget = 1
  Sizes = {0, 3, 5}
  Hunks <- HunkHeaders
  MaxPatch = 5
  FileLines = 6
  Definitions <- SymbolSets
  Limits = {1, 2, 3, 4, 5}
  MaxSymbols = 2
  PullRequests <- FileLists
  PageSize = 2
  MaxPages = 2
  MaxDiffLines = 4
  MaxFileContexts = 3
  FetchConcurrency = 2
  FileBytes <- ContentSizes
  MaxFileBytes = 3
  MaxTotalBytes = 4
  MaxPushes = 2
  MaxArchives = 3
  Entries <- ArchiveItems
  MaxEntries = 4
  MaxBytes = 5
  MaxEntryBytes = 2
  MaxScanned = 2
  MaxResults = 3
  TopK = 2
  ExpectedFindings <- ExpectedKinds
  Predictions <- PredictedKinds
  MaxFindings = 3
INVARIANT BudgetKept
INVARIANT CitedIsShown
INVARIANT AnswerIsChecked
INVARIANT EvidenceIsExact
INVARIANT ReadersAgree
INVARIANT ContextShowsTargets
INVARIANT DiffIsComplete
INVARIANT ContextsInOrder
INVARIANT FilesAccounted
INVARIANT UntruncatedIsComplete
INVARIANT MatchingIsMaximum
CHECK_DEADLOCK FALSE
