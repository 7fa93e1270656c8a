------------------------------- MODULE StoredSystem -------------------------------
(*****************************************************************************)
(* The parts of the server whose state outlives a request: the run ledger    *)
(* and the routes that read and export it, conversations and session trees,  *)
(* chat requests, skills, project instructions and the context made of them, *)
(* MCP servers, documents, scoped memory, evaluations and their optimization *)
(* candidates, accounts and rate limits.  Each part holds the rows it works  *)
(* on, with their writers, so one behaviour of this specification exercises  *)
(* one of them, the scenario, and leaves the others as they start; every     *)
(* scenario is an initial state.                                             *)
(*****************************************************************************)
EXTENDS Integers, Sequences, FiniteSets

CONSTANTS
    \* RunLedger
    Runs, Users, Convs, Writers, None, StartConvs, OwnerOf, MaxEvents,
    MaxMessages, MaxClock,
    \* ChatRequests
    ChatImages, ChatAnswers, SidePixels, MaxImageBytes, MaxRunEvents,
    \* McpServers
    McpOwners, McpIds, ServerNames, Profiles, TransportOf, RemoteNames,
    Listings, Enforceable, Jobs, MaxToolIds, Cursors, PageTools, MaxPages,
    MaxBytes, MaxListed, ReconnectAttempts,
    \* SkillStore
    SkillOwners, Bundled, SkillNames, Hashes, Installers, SkillRuns,
    InstallAttempts,
    \* RequestContext
    Files, FileTrees, DirectoryFiles, MaxFiles, MaxImportDepth, Scanners,
    NoRevision, AppendAttempts, SkillSets, Decisions, InstructionCost,
    ContextBudget, SelectionLimit, HistoryLimit, KeepRecent, TokenThreshold,
    Toggled, Attempts, MaxMessage,
    \* Evaluations
    EvalIds, FixtureCases, SourceRuns, RunFacts, Deletable, PageSize,
    PassScore, Comparers, MinimumSamples, PassDrop, ScoreDrop, Proposals,
    Receipts, Sessions, Evaluated, DriftPairs, ReceiptTtl, MaxCandClock,
    NoReceipt,
    \* DocumentIndex
    Uploads, Scopes, Texts, Separators, ChunkSize, ChunkOverlap,
    MaxCharacters, MaxDocuments, MaxChunks, TopK,
    \* ScopedMemory
    MemProcesses, MemScopes, Contents, KeyVersions, FactIds, MaxChars,
    BatchSize, MaxStarts,
    \* RunQueries
    QueryRuns, RunPageLimit, EventPageLimit, ViewLimit, MaxLogged,
    MaxStarted, Exporters, Grants, Recipients, Purposes, Lifetime,
    ExportPage, MaxExported, RunLength, MaxTime,
    \* RequestAccess
    Names, AccessAttempts, AdminNames, Secrets, OurSecret, TokenLife,
    RateWindow, Limit, Processes, MaxAccessClock, MaxVerdicts,
    \* Conversations
    ConvUsers, ConvIds, Posts, Deletions, HistoryWindow, ContentKinds,
    LongTexts, Keeps, MaxCompactionCycles, MaxNodes, MaxSaid, MaxCommands

ASSUME ReceiptAssumption == NoReceipt \notin Receipts /\ ReceiptTtl \in Nat
ASSUME FilesAssumption == FileTrees \subseteq [Files -> Seq(Files)] /\ DirectoryFiles \in Seq(Files)
\* RateLimiter.__init__() and check(): both are positive
ASSUME RateAssumption == Limit \in Nat \ {0} /\ RateWindow \in Nat \ {0}
\* mcp/models.py:124; a cursor is a string, its absence is None
ASSUME ClientAssumption == MaxPages \in Nat \ {0} /\ ReconnectAttempts \in Nat /\ "none" \notin Cursors
ASSUME QuotaAssumption == IsFiniteSet(Uploads) /\ MaxDocuments \in Nat /\ "none" \notin Scopes
\* key versions are 1..255 (memory/keys.py); the ids stand for the order of creation
ASSUME MemoryAssumption ==
    /\ FactIds \subseteq Nat /\ FactIds # {} /\ IsFiniteSet(FactIds)
    /\ KeyVersions \subseteq Nat \ {0} /\ MaxChars \in Nat /\ "none" \notin MemScopes
    /\ \A c \in Contents : IsFiniteSet(c)
\* CapabilityDescriptor.__post_init__(); an id names one skill
ASSUME SkillsAssumption ==
    /\ ContextBudget \in Nat /\ InstructionCost \in Nat /\ SelectionLimit \in Nat
    /\ \A S \in SkillSets :
           /\ IsFiniteSet(S)
           /\ \A d \in S : d.id \in Nat /\ d.cost \in Nat /\ d.length \in Nat /\ d.relevance \in Int
           /\ \A d, e \in S : d.id = e.id => d = e
\* "none" stands for a conversation without a row
ASSUME TalkAssumption == "none" \notin ConvUsers /\ IsFiniteSet(Posts)

VARIABLES
    scenario,   \* the part this behaviour exercises
    \* RunLedger
    runs, events, convs, messages, checkpoints, drafts, pending, ledgerClock,
    \* ChatRequests
    chat, offeredTools, parentTools, runRow, runTask, emitted, outbox,
    shown, pendingAsk, costCalls, chatAnswer, artifactRows, billed, lostWrites,
    \* McpServers
    server, toolRows, toolIds, mcpTask, bindings, consents, mcpSent,
    listing, remoteCall, probe,
    \* SkillStore
    packages, revisions, skillBinding, install, skillRun, adminWord,
    \* RequestContext
    workspaceFiles, loader, snapshots, workspace, appending, endorsed,
    offered, disabledIds, history, asked, prep, recorded,
    \* Evaluations
    liveRuns, evalRow, evalJob, driftRows, comparer, candidate, receipt,
    candEvents, session, candClock,
    \* DocumentIndex
    docRows, upload, scopeLock, localModel, docQuery,
    \* ScopedMemory
    keyState, ring, facts, charsUsed, retired, rotated, starts,
    \* RunQueries
    runTable, eventLog, reader, xRun, exporter, exportRows, grants, redeem,
    bundlesRead, xNow,
    \* RequestAccess
    accessClock, accounts, apiKeys, tokens, caller, localWindow,
    sharedWindow, checks, verdicts, entering,
    \* Conversations
    convOwner, stored, lastId, post, deletion, erased, heap, nodes, active,
    held, said, commands

Ledger == INSTANCE RunLedger
Chat == INSTANCE ChatRequests
Mcp == INSTANCE McpServers
Skill == INSTANCE SkillStore
Context == INSTANCE RequestContext
Evaluation == INSTANCE Evaluations
Document == INSTANCE DocumentIndex
Memory == INSTANCE ScopedMemory
Reader == INSTANCE RunQueries
Access == INSTANCE RequestAccess
Conversation == INSTANCE Conversations

(* The variables of each part. *)
ledgerPart == <<runs, events, convs, messages, checkpoints, drafts, pending,
    ledgerClock>>
chatPart == <<chat, offeredTools, parentTools, runRow, runTask, emitted,
    outbox, shown, pendingAsk, costCalls, chatAnswer, artifactRows, billed,
    lostWrites>>
mcpPart == <<server, toolRows, toolIds, mcpTask, bindings, consents,
    mcpSent>>
clientPart == <<listing, remoteCall, probe>>
skillsPart == <<packages, revisions, skillBinding, install, skillRun,
    adminWord>>
instructionsPart == <<workspaceFiles, loader, snapshots, workspace,
    appending, endorsed>>
contextPart == <<offered, disabledIds, history, asked, prep, recorded>>
proposalsPart == <<candidate, receipt, candEvents, session, candClock>>
evaluationsPart == <<liveRuns, evalRow, evalJob, driftRows, comparer>>
documentsPart == <<docRows, upload, scopeLock, localModel, docQuery>>
memoryPart == <<keyState, ring, facts, charsUsed, retired, rotated, starts>>
exportsPart == <<xRun, exporter, exportRows, grants, redeem, bundlesRead,
    xNow>>
accessPart == <<accessClock, accounts, apiKeys, tokens, caller, localWindow,
    sharedWindow, checks, verdicts, entering>>
queriesPart == <<runTable, eventLog, reader>>
conversationsPart == <<convOwner, stored, lastId, post, deletion, erased>>
sessionsPart == <<heap, nodes, active, held, said, commands>>

vars ==
    <<scenario,
      ledgerPart, chatPart, mcpPart, clientPart, skillsPart,
      instructionsPart, contextPart, proposalsPart, evaluationsPart,
      documentsPart, memoryPart, exportsPart, accessPart, queriesPart,
      conversationsPart, sessionsPart>>

(* The scenarios of each part. *)
Scenarios ==
    {"ledger", "chat", "mcp", "client", "skills", "instructions", "context",
     "proposals", "evaluations", "documents", "memory", "exports",
     "accounts", "local", "shared", "queries", "conversations",
     "sessions"}

(* A part that is not exercised starts in one of its initial states. *)
Init ==
    /\ scenario \in Scenarios
    /\ IF scenario = "instructions" THEN TRUE ELSE workspaceFiles = CHOOSE t \in FileTrees : TRUE
    /\ IF scenario = "context" THEN TRUE ELSE offered = CHOOSE s \in SkillSets : TRUE
    /\ Ledger!LedgerInit /\ Chat!ChatInit /\ Mcp!McpInit /\ Mcp!ClientInit
    /\ Skill!SkillInit /\ Context!InstructionInit /\ Context!ContextInit
    /\ Evaluation!CandidateInit /\ Evaluation!EvaluationInit
    /\ Document!DocumentInit /\ Memory!MemoryInit /\ Reader!ExportInit
    /\ Access!AccessInit /\ Reader!QueryInit
    /\ Conversation!ConversationInit /\ Conversation!SessionInit
    /\ IF scenario = "documents" THEN TRUE ELSE \A u \in Uploads : upload[u].process = 1

(* Every part but the one with these variables stays as it is. *)
Rest(part) ==
    /\ UNCHANGED scenario
    /\ IF part = "ledger" THEN TRUE ELSE UNCHANGED ledgerPart
    /\ IF part = "chat" THEN TRUE ELSE UNCHANGED chatPart
    /\ IF part = "mcp" THEN TRUE ELSE UNCHANGED mcpPart
    /\ IF part = "client" THEN TRUE ELSE UNCHANGED clientPart
    /\ IF part = "skills" THEN TRUE ELSE UNCHANGED skillsPart
    /\ IF part = "instructions" THEN TRUE ELSE UNCHANGED instructionsPart
    /\ IF part = "context" THEN TRUE ELSE UNCHANGED contextPart
    /\ IF part = "proposals" THEN TRUE ELSE UNCHANGED proposalsPart
    /\ IF part = "evaluations" THEN TRUE ELSE UNCHANGED evaluationsPart
    /\ IF part = "documents" THEN TRUE ELSE UNCHANGED documentsPart
    /\ IF part = "memory" THEN TRUE ELSE UNCHANGED memoryPart
    /\ IF part = "exports" THEN TRUE ELSE UNCHANGED exportsPart
    /\ IF part = "access" THEN TRUE ELSE UNCHANGED accessPart
    /\ IF part = "queries" THEN TRUE ELSE UNCHANGED queriesPart
    /\ IF part = "conversations" THEN TRUE ELSE UNCHANGED conversationsPart
    /\ IF part = "sessions" THEN TRUE ELSE UNCHANGED sessionsPart

LedgerStep == scenario = "ledger" /\ Ledger!LedgerNext /\ Rest("ledger")
ChatStep == scenario = "chat" /\ Chat!ChatNext /\ Rest("chat")
McpStep == scenario = "mcp" /\ Mcp!McpNext /\ Rest("mcp")
ClientStep == scenario = "client" /\ Mcp!ClientNext /\ Rest("client")
SkillsStep == scenario = "skills" /\ Skill!SkillNext /\ Rest("skills")
InstructionsStep == scenario = "instructions" /\ Context!InstructionNext /\ Rest("instructions")
ContextStep == scenario = "context" /\ Context!ContextNext /\ Rest("context")
ProposalsStep == scenario = "proposals" /\ Evaluation!CandidateNext /\ Rest("proposals")
EvaluationsStep == scenario = "evaluations" /\ Evaluation!EvaluationNext /\ Rest("evaluations")
DocumentsStep == scenario = "documents" /\ Document!DocumentNext /\ Rest("documents")
MemoryStep == scenario = "memory" /\ Memory!MemoryNext /\ Rest("memory")
ExportsStep == scenario = "exports" /\ Reader!ExportNext /\ Rest("exports")
AccountsStep == scenario = "accounts" /\ Access!AccountsNext /\ Rest("access")
LocalStep == scenario = "local" /\ Access!LocalNext /\ Rest("access")
SharedStep == scenario = "shared" /\ Access!SharedNext /\ Rest("access")
QueriesStep == scenario = "queries" /\ Reader!QueryNext /\ Rest("queries")
ConversationsStep == scenario = "conversations" /\ Conversation!ConversationNext /\ Rest("conversations")
SessionsStep == scenario = "sessions" /\ Conversation!SessionNext /\ Rest("sessions")

Next ==
    \/ LedgerStep \/ ChatStep \/ McpStep \/ ClientStep \/ SkillsStep
    \/ InstructionsStep \/ ContextStep \/ ProposalsStep \/ EvaluationsStep
    \/ DocumentsStep \/ MemoryStep \/ ExportsStep \/ AccountsStep
    \/ LocalStep \/ SharedStep \/ QueriesStep \/ ConversationsStep
    \/ SessionsStep

Spec == Init /\ [][Next]_vars

-----------------------------------------------------------------------------
(* What is read is a whole and true record, although it is written         *)
(* meanwhile: the events of a run are numbered densely and end with the    *)
(* terminal one, forks show the past and their lineage resolves; pages,    *)
(* views and export bundles skip nothing; a stream says done only of a run *)
(* that ended and leaves nothing behind; a completed evaluation holds      *)
(* every case and its reports stay true (run_ledger.py, routes/runs.py,    *)
(* run_exports.py, routes/stream.py, eval/service.py, eval/drift.py).      *)
RecordsAreWhole ==
    /\ scenario = "ledger" =>
        /\ Ledger!DenseSequences
        /\ Ledger!TerminalEventIsLast
        /\ Ledger!LineageResolves
        /\ Ledger!ForksShowThePast
    /\ scenario = "chat" =>
        /\ Chat!DoneTellsTheTruth
        /\ Chat!ClosedRequestsLeaveNothing
    /\ scenario = "queries" =>
        /\ Reader!PagesSkipNothing
        /\ Reader!EventPagesAreWhole
        /\ Reader!ViewsCoverTheirRow
    /\ scenario = "exports" => Reader!BundlesAreWhole
    /\ scenario = "evaluations" =>
        /\ Evaluation!CompletedIsWhole
        /\ Evaluation!ReportsStayTrue

(* What is used was agreed to as it is now: an MCP call has the owner's    *)
(* consent to that very schema, an inventory is of the profile it is       *)
(* stored with; a review is the last word on a skill's revision; the       *)
(* effective instructions are the endorsed ones and hold every file they   *)
(* include; a candidate is approved by an exact receipt; an export is read *)
(* while its grant is good; a run stays within its tools and a caller is   *)
(* who the token says (mcp/, skills/persistence.py,                        *)
(* instructions/loaders.py, eval/candidates.py, run_exports.py,            *)
(* routes/stream.py, db_store.py).                                         *)
NothingWithoutConsent ==
    /\ scenario = "chat" => Chat!RunsStayInTheirTools
    /\ scenario = "mcp" =>
        /\ Mcp!CallsHaveConsent
        /\ Mcp!InventoryIsOfTheProfile
    /\ scenario = "skills" =>
        /\ Skill!ReviewIsTheLastWord
        /\ Skill!RevisionsAreDense
    /\ scenario = "instructions" =>
        /\ Context!EffectiveIsEndorsed
        /\ Context!LoadedIsTheReachableTree
    /\ scenario = "proposals" =>
        /\ Evaluation!ApprovedByExactReceipt
        /\ Evaluation!NoReceiptOutlivesTheProposal
    /\ scenario = "exports" => Reader!ReadWhileGranted
    /\ scenario \in {"accounts", "local", "shared"} => Access!CallersAreWhoTheySay

(* Limits hold over all who share them: the windows and the bucket of the  *)
(* rate limiter, the quota of documents, the characters of a scope's       *)
(* memory, the pages and reconnects of an MCP client, the budget of a      *)
(* context; a search answers from its own scope, and no retired key        *)
(* encrypts a fact (rate_limiter.py, documents.py,                         *)
(* sql_json_vector_store.py, memory/scoped.py, mcp/client.py,              *)
(* capabilities/selector.py).                                              *)
LimitsAndScopesHold ==
    /\ scenario \in {"accounts", "local", "shared"} =>
        /\ Access!WindowsHoldTheLimit
        /\ Access!SharedBucketHoldsTheLimit
    /\ scenario = "documents" =>
        /\ Document!QuotaHolds
        /\ Document!AnswersStayInScope
    /\ scenario = "memory" =>
        /\ Memory!RetiredKeysAreUnused
        /\ Memory!CharsAreAccounted
    /\ scenario = "client" =>
        /\ Mcp!ListingIsWholeAndBounded
        /\ Mcp!ReconnectsAreBounded
    /\ scenario = "context" => Context!BudgetsAreUsedFairly

(* What was said is kept, once and where it belongs: a transcript keeps    *)
(* its turns, belongs to one user and stays deleted; branches of a session *)
(* share only their past; a compaction accounts for every message and      *)
(* keeps the recent ones; a run has one context, whose lineage is a        *)
(* partition; the chunks are the document; a process with the current keys *)
(* reads every fact (db_store.py, session_tree.py, multi_layer_compact.py, *)
(* auto_compact.py, context_snapshots.py, chunker.py, memory/scoped.py).   *)
NothingSaidIsLost ==
    /\ scenario = "conversations" =>
        /\ Conversation!TranscriptsKeepTheTurns
        /\ Conversation!ConversationsAreOneUsers
        /\ Conversation!DeletedStaysDeleted
    /\ scenario = "sessions" =>
        /\ Conversation!BranchesShareOnlyThePast
        /\ Conversation!CompactionAccountsForAll
        /\ Conversation!RecentMessagesStay
    /\ scenario = "context" =>
        /\ Context!RunHasOneContext
        /\ Context!LineageIsAPartition
    /\ scenario = "documents" => Document!ChunksAreTheDocument
    /\ scenario = "memory" => Memory!CurrentProcessesReadEverything

(* Every skill text in a run's context had an administrator's word when it *)
(* was read, however long ago the run selected it and whatever was         *)
(* installed, revoked or bound meanwhile, and it is the one revision of    *)
(* that skill in the run (skills/context.py:89-97, capabilities/index.py). *)
LoadedSkillsAreVouchedFor == Skill!LoadedSkillsAreVouchedFor

=============================================================================
