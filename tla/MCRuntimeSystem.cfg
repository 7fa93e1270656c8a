SPECIFICATION FairSpec
CONSTANTS
  \* AgentRun
  k1 = k1  k2 = k2  k3 = k3
  Keys = {k1, k2, k3}
  MaxIterations = 2  MaxToolCalls = 2  MaxTokens = 2
  MaxStructuredRetries = 1  MaxBatch = 2
  \* ToolPolicy
  ToolNames = {"files", "web_search"}
  Definitions <- MCDefinitions
  RuleBook <- MCRuleBook
  Calls <- MCCalls
  MaxRules = 2
  \* RunObservers: hooks
  e1 = e1
  HookPool <- MCHookPool
  Emits = {e1}
  EventData = {{"command", "secret", "evidence"}, {"secret"}}
  MaxHooks = 3
  \* RunObservers: spans
  CallIds = {"a", "b"}
  MaxSpanTurns = 2  MaxToolSpans = 3
  \* EvidenceVerifier
  Claims = {"c1", "c2"}
  Delegated <- MCDelegated
  Answers <- MCAnswers
  Estimate = 1  InputTokens = 3  OutputTokens = 2  Retries = 1
  \* Delegation: envelopes
  Nonces = {"n1", "n2"}
  ChildRuns = {"k1", "k2"}
  KeyVersions = {1}
  ActiveKey = 1
  MaxAge = 1  FutureSkew = 1  MaxWall = 4
  \* Delegation: teams
  Profiles <- MCProfiles
  ParentTools <- MCParentTools
  AllowedTools = {"read_file", "web_search"}
  TaskSeconds = 3  ChildSeconds = 2  TotalSeconds = 4  CleanupSeconds = 1
  \* ProviderAdapters: the chain
  Chain <- MCChain
  ChainRequests = {"q1", "q2"}
  MaxFailures = 2
  \* WorkerPatterns: the pipeline
  MaxRetries = 2  TokenLife = 1  MaxHour = 2
  \* WorkerPatterns
  Workers = {"w1", "w2"}
  Tasks <- MCTasks
  MaxPeers = 2
  BatchCalls <- MCBatchCalls
  Classes <- MCClasses
  \* EvidenceVerifier: its value
  Fixture <- MCFixture
  MaxObserved = 3
  \* GroundedAnswers
  SearchResults <- MCSearchResults
  ModelAnswers <- MCModelAnswers
  \* ModelPricing
  Models = {"opus", "gpt", "new"}
  PriceTable <- MCPriceTable
  ProviderNames = {"anthropic", "foundry", "openai", "openaiadapter"}
  FamilyOf <- MCFamilyOf
  PerNano = 2  PerMicro = 10  MaxTokensIn = 2  MaxTokensOut = 1  PriceLimit = 100
  MaxRecorded = 2
  \* ReflectionLoop
  ReflectionVerdicts <- MCVerdicts
  DraftLines = 1  RequestLines = 1  CritiqueSize = 2  RevisionSize = 2
  CritiqueCap = 2  MaxReflectionIn = 4  MaxReflectionOut = 3
  MaxReflectionTotal = 8  InputPrice = 1  OutputPrice = 1
  MaxReflectionCost = 6  ReflectionTime = 2  MaxRevisions = 1
  ReportedExtra = 2
  \* SandboxRunner
  t1 = t1  health = health  probe = probe
  ToolCalls = {t1}
  HealthCheck = health
  ProbeCall = probe
  Units = {"plain", "broken"}
  OutputLimit = 1  FrameLimit = 5  MaxWritten = 2
  \* ProviderAdapters
  Providers = {"openai", "ollama", "anthropic", "foundry"}
  Declared <- MCDeclared
  s1 = s1
  ServerIds = {s1}
  Reasons = {"stop", "tool_calls"}
  MaxTurns = 2  MaxCalls = 2  MaxCount = 1
  \* ServerLifecycle
  Features = {"memory", "execution", "redis"}
CHECK_DEADLOCK FALSE
INVARIANTS
  RunsEndTruthfully OnlyPermittedWorkIsDone
  AnswersAreEarned HistoryStaysWellFormed
PROPERTIES
  NoWorkAfterTheEnd EveryoneIsAnswered
