SPECIFICATION Spec
CONSTANTS
  \* RunLedger
  r1 = r1  r2 = r2  w1 = w1  w2 = w2
  Runs = {r1, r2}
  Users = {"u1", "u2"}
  Convs = {"c1", "c2", "d1"}
  Writers = {w1, w2}
  None = None
  StartConvs = {"c1", "d1"}
  OwnerOf <- MCOwnerOf
  MaxEvents = 2  MaxMessages = 1  MaxClock = 1
  \* ChatRequests
  ChatImages <- MCImages
  ChatAnswers <- MCChatAnswers
  SidePixels = 1  MaxImageBytes = 1  MaxRunEvents = 2
  \* McpServers
  o1 = o1  s1 = s1  n1 = n1  p1 = p1  p2 = p2
  McpOwners = {o1}
  McpIds = {s1}
  ServerNames = {n1}
  Profiles = {p1, p2}
  TransportOf <- MCTransportOf
  RemoteNames = {"t"}
  Listings <- MCListings
  Enforceable = {"a", "b"}
  Jobs = {1, 2}
  MaxToolIds = 2
  \* McpServers: the client
  Cursors = {"c", "d"}
  PageTools <- MCPageTools
  MaxPages = 3  MaxBytes = 2  MaxListed = 1  ReconnectAttempts = 2
  \* SkillStore
  u1 = u1  cx = cx  a1 = a1  h1 = h1  h2 = h2  i1 = i1  i2 = i2
  x1 = x1
  SkillOwners = {u1}
  Bundled = cx
  SkillNames = {a1}
  Hashes = {h1, h2}
  Installers = {i1, i2}
  SkillRuns = {x1}
  InstallAttempts = 2
  \* RequestContext: instructions
  none = none
  Files = {"a", "b", "c", "d"}
  FileTrees <- MCFileTrees
  DirectoryFiles <- MCCandidates
  MaxFiles = 3  MaxImportDepth = 2
  Scanners = {1, 2}
  NoRevision = none
  AppendAttempts = 3
  \* RequestContext
  SkillSets <- MCSkillSets
  Decisions <- MCDecisions
  InstructionCost = 1  ContextBudget = 5  SelectionLimit = 2
  HistoryLimit = 2  KeepRecent = 1  TokenThreshold = 2
  Toggled = {1}
  Attempts = {p1, p2}
  MaxMessage = 3
  \* Evaluations: candidates
  c1 = c1  q1 = q1  q2 = q2  s2 = s2  e1 = e1  e2 = e2
  Proposals = {c1}
  Receipts = {q1, q2}
  Sessions = {s1, s2}
  Evaluated = {e1, e2}
  DriftPairs = {}
  ReceiptTtl = 1  MaxCandClock = 2
  NoReceipt = NoReceipt
  \* Evaluations
  d1 = d1  d2 = d2
  EvalIds = {e1, e2}
  FixtureCases <- MCFixtureCases
  SourceRuns = {1, 2, 3, 4}
  RunFacts <- MCRunFacts
  Deletable = {2}
  PageSize = 2  PassScore = 2
  Comparers = {d1, d2}
  MinimumSamples = {2, 3}  PassDrop = 1  ScoreDrop = 1
  \* DocumentIndex
  u2 = u2
  Uploads = {u1, u2}
  Scopes = {s1, s2}
  Texts <- MCTexts
  Separators <- MCSeparators
  ChunkSize = 3  ChunkOverlap = 1  MaxCharacters = 9
  MaxDocuments = 1  MaxChunks = 4  TopK = 2
  \* ScopedMemory
  m1 = m1  m2 = m2
  MemProcesses = {m1, m2}
  MemScopes = {s1}
  Contents <- MCContents
  KeyVersions = {1, 2}
  FactIds = {1, 2}
  MaxChars = 3  BatchSize = 1  MaxStarts = 3
  \* RunQueries: exports
  g1 = g1
  Exporters = {e1, e2}
  Grants = {g1}
  Recipients = {r1, r2}
  Purposes = {"audit"}
  Lifetime = 1  ExportPage = 1  MaxExported = 2  RunLength = 3  MaxTime = 2
  \* RequestAccess
  Names = {"ann", "bob"}
  AccessAttempts = {"a1", "a2"}
  AdminNames = {"ann"}
  Secrets = {"ours", "theirs"}
  OurSecret = "ours"
  TokenLife = 1  RateWindow = 2  Limit = 2
  Processes = {"p1", "p2", "p3"}
  MaxAccessClock = 3  MaxVerdicts = 6
  \* RunQueries
  QueryRuns = {1, 2}
  RunPageLimit = 1  EventPageLimit = 1  ViewLimit = 2
  MaxLogged = 2  MaxStarted = 2
  \* Conversations
  ConvUsers = {"u1", "u2"}
  ConvIds = {"c1"}
  Posts = {"p1", "p2"}
  Deletions = {"x1", "x2"}
  HistoryWindow = 2
  \* Conversations: sessions
  ContentKinds <- MCKinds
  LongTexts = {"long"}
  Keeps <- MCKeeps
  MaxCompactionCycles = 3
  MaxNodes = 2  MaxSaid = 3  MaxCommands = 3
CHECK_DEADLOCK FALSE
INVARIANTS
  RecordsAreWhole 
  LimitsAndScopesHold NothingSaidIsLost
  LoadedSkillsAreVouchedFor
