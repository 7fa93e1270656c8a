--------------------------- MODULE RequestContext ----------------------------
(***************************************************************************)
(* What the model is told besides the message: the project's instructions, *)
(* and the context of a call that is made of them, of skills and of the    *)
(* history.  The two share no state; each has its own variables, initial   *)
(* states and next-state relation.                                         *)
(***************************************************************************)
EXTENDS Integers, Sequences, FiniteSets, FiniteSetsExt, SequencesExt

CONSTANTS
    Files,              \* files of a workspace
    FileTrees,          \* workspaces: [Files -> sequence of included files]
    DirectoryFiles,         \* the candidate file of each directory, root first
    MaxFiles, MaxImportDepth,   \* InstructionLimits
    Scanners,           \* requests that append a snapshot
    NoRevision, AppendAttempts,
    SkillSets,          \* the descriptors a project may offer, one set per project
    Decisions,          \* permission -> "allow" | "ask" | "deny"
    InstructionCost,    \* bytes of the approved instructions
    ContextBudget,      \* max_context_bytes
    SelectionLimit,     \* selection_limit
    HistoryLimit, KeepRecent, TokenThreshold,   \* 20, KEEP_RECENT, threshold in messages
    Toggled,            \* bound: the descriptors whose preference the user changes
    Attempts,           \* preparations of the same run
    MaxMessage          \* bound: messages of the conversation

VARIABLES
    workspaceFiles, \* the files on disk
    loader,         \* the scan of load_project_instructions()
    snapshots,      \* rows of project_instruction_revisions with their sources
    workspace,      \* the row of project_workspaces
    appending,      \* [Scanners -> the append_sources() under way]
    endorsed,       \* history: the snapshots an administrator has approved
    offered,        \* the visible skill descriptors
    disabledIds,    \* preferences with enabled = False
    history,        \* ids of the conversation's messages, oldest first
    asked,          \* id of the run's own user message
    prep,           \* [Attempts -> the preparation]
    recorded        \* the run's row of context_snapshots, a set of at most one

-----------------------------------------------------------------------------
(***************************************************************************)
(* Instructions of a project: loading a tree of files with includes        *)
(* (instructions/loaders.py), immutable snapshots of what was loaded       *)
(* (ProjectInstructionRepository in skills/persistence.py), their approval *)
(* and use (routes/project_instructions.py, skills/context.py).            *)
(***************************************************************************)

instructionVars == <<workspaceFiles, loader, snapshots, workspace, appending, endorsed>>

NoAppend == [stage |-> "idle", attempt |-> 1]

InstructionInit ==
    /\ workspaceFiles \in FileTrees
    /\ loader = [stage |-> "scanning", dirs |-> DirectoryFiles, stack |-> <<>>, seen |-> {},
                 sources |-> <<>>, error |-> ""]
    /\ snapshots = {} /\ endorsed = {}
    /\ workspace = [exists |-> FALSE, current |-> NoRevision]
    /\ appending = [s \in Scanners |-> NoAppend]

-----------------------------------------------------------------------------
(* _load_file() calls itself for every include: the frames of the stack are *)
(* the files being loaded with the includes left to follow.                 *)
Active == {loader.stack[i].file : i \in DOMAIN loader.stack}

LoadFails(code) ==
    loader' = [loader EXCEPT !.stage = "failed", !.error = code, !.stack = <<>>, !.sources = <<>>]

(* A file that is being loaded includes itself, directly or not. *)
Cycle(file) == file \in Active

(* The checks and the reading of one file, given the frames that lead to it.*)
LoadFile(file, stack, dirs) ==
    IF Len(stack) > MaxImportDepth THEN LoadFails("depth")
    ELSE IF Cycle(file) THEN LoadFails("cycle")
    ELSE IF file \in loader.seen THEN loader' = [loader EXCEPT !.stack = stack, !.dirs = dirs]
    ELSE IF Cardinality(loader.seen) >= MaxFiles THEN LoadFails("count")
    ELSE loader' = [loader EXCEPT !.seen = @ \cup {file}, !.sources = Append(@, file), !.dirs = dirs,
                                  !.stack = Append(stack, [file |-> file, left |-> workspaceFiles[file]])]

NextDirectory ==
    /\ loader.stage = "scanning" /\ loader.stack = <<>> /\ loader.dirs # <<>>
    /\ LoadFile(Head(loader.dirs), <<>>, Tail(loader.dirs))
    /\ UNCHANGED <<workspaceFiles, snapshots, workspace, appending, endorsed>>

FollowInclude ==
    LET top == Last(loader.stack)
    IN  /\ loader.stage = "scanning" /\ loader.stack # <<>> /\ top.left # <<>>
        /\ LoadFile(Head(top.left),
                    Append(Front(loader.stack), [top EXCEPT !.left = Tail(top.left)]), loader.dirs)
        /\ UNCHANGED <<workspaceFiles, snapshots, workspace, appending, endorsed>>

LeaveFile ==
    /\ loader.stage = "scanning" /\ loader.stack # <<>> /\ Last(loader.stack).left = <<>>
    /\ loader' = [loader EXCEPT !.stack = Front(@)]
    /\ UNCHANGED <<workspaceFiles, snapshots, workspace, appending, endorsed>>

(* A file the kernel refuses (link, size, encoding) ends the scan. *)
ReadRefused ==
    /\ loader.stage = "scanning" /\ (loader.stack # <<>> \/ loader.dirs # <<>>)
    /\ LoadFails("unreadable")
    /\ UNCHANGED <<workspaceFiles, snapshots, workspace, appending, endorsed>>

ScanEnds ==
    /\ loader.stage = "scanning" /\ loader.stack = <<>> /\ loader.dirs = <<>>
    /\ loader' = [loader EXCEPT !.stage = "loaded"]
    /\ UNCHANGED <<workspaceFiles, snapshots, workspace, appending, endorsed>>

-----------------------------------------------------------------------------
(* scan() appends what was loaded, create_instruction() one manual source.  *)
AppendBegins(s, sources) ==
    /\ appending[s].stage = "idle" /\ sources # <<>>
    /\ sources = <<"manual">> \/ (loader.stage = "loaded" /\ sources = loader.sources)
    /\ appending' = [appending EXCEPT ![s] =
           [stage |-> "read", attempt |-> 1, sources |-> sources, fresh |-> ~workspace.exists]]
    /\ UNCHANGED <<workspaceFiles, loader, snapshots, workspace, endorsed>>

(* A pending snapshot leaves the current one alone. *)
CurrentAfterAppend(digest) == workspace.current

(* _append_sources_once(): a workspace that appeared meanwhile is a         *)
(* conflict and retried; known content (by its hash, here the sources       *)
(* themselves) is returned as it is; revision numbers are allocated under   *)
(* the workspace's lock.                                                    *)
AppendWrites(s) ==
    LET a == appending[s]
        known == {r \in snapshots : r.sources = a.sources}
        row == [sources |-> a.sources, number |-> Max({0} \cup {r.number : r \in snapshots}) + 1,
                review |-> "pending"]
    IN  /\ a.stage = "read" /\ ~(a.fresh /\ workspace.exists)
        /\ snapshots' = IF known = {} THEN snapshots \cup {row} ELSE snapshots
        /\ workspace' = [exists |-> TRUE, current |-> CurrentAfterAppend(a.sources)]
        /\ appending' = [appending EXCEPT ![s] = NoAppend]
        /\ UNCHANGED <<workspaceFiles, loader, endorsed>>

(* The workspace's key is taken or the database reports an error (a lock,   *)
(* a lost connection): append_sources() tries again from the start, and     *)
(* the last attempt answers with ProjectInstructionConflictError.           *)
AppendConflicts(s) ==
    LET a == appending[s]
    IN  /\ a.stage = "read"
        /\ appending' = [appending EXCEPT ![s] =
               IF a.attempt = AppendAttempts THEN NoAppend
               ELSE [a EXCEPT !.attempt = a.attempt + 1, !.fresh = ~workspace.exists]]
        /\ UNCHANGED <<workspaceFiles, loader, snapshots, workspace, endorsed>>

EnsureWorkspace ==
    /\ ~workspace.exists
    /\ workspace' = [workspace EXCEPT !.exists = TRUE]
    /\ UNCHANGED <<workspaceFiles, loader, snapshots, appending, endorsed>>

(* approve() by an administrator: set_current() marks the row approved.     *)
ApproveSnapshot(r) ==
    /\ workspace.exists
    /\ snapshots' = (snapshots \ {r}) \cup {[r EXCEPT !.review = "approved"]}
    /\ workspace' = [workspace EXCEPT !.current = r.sources]
    /\ endorsed' = endorsed \cup {r.sources}
    /\ UNCHANGED <<workspaceFiles, loader, appending>>

(* revoke() by the owner clears the pointer and leaves the row as it is.    *)
RevokeCurrent ==
    /\ workspace.exists /\ workspace.current # NoRevision
    /\ workspace' = [workspace EXCEPT !.current = NoRevision]
    /\ UNCHANGED <<workspaceFiles, loader, snapshots, appending, endorsed>>

(* current_snapshot(), as resolve() and enrich() use it. *)
Effective == {r \in snapshots : r.sources = workspace.current /\ r.review = "approved"}

InstructionNext ==
    \/ NextDirectory \/ FollowInclude \/ LeaveFile \/ ReadRefused \/ ScanEnds
    \/ \E s \in Scanners : AppendBegins(s, <<"manual">>) \/ AppendBegins(s, loader.sources)
    \/ \E s \in Scanners : AppendWrites(s) \/ AppendConflicts(s)
    \/ EnsureWorkspace \/ RevokeCurrent
    \/ \E r \in snapshots : ApproveSnapshot(r)

-----------------------------------------------------------------------------
(* Files reached from a set by includes, the set itself included: the       *)
(* smallest set that holds it and what its members include.                 *)
FollowsIncludes(S) == \A x \in S : ToSet(workspaceFiles[x]) \subseteq S

Reached(from) == {y \in Files : \A S \in SUBSET Files : from \subseteq S /\ FollowsIncludes(S) => y \in S}

(* A scan that succeeds has read every file the directories' candidates     *)
(* reach by includes, each once, a file before what it includes for the     *)
(* first time, and there was no cycle among them (_load_file,               *)
(* loaders.py:235).                                                         *)
LoadedIsTheReachableTree ==
    loader.stage = "loaded" =>
        /\ ToSet(loader.sources) = Reached(ToSet(DirectoryFiles)) /\ IsInjective(loader.sources)
        /\ \A x \in ToSet(loader.sources) : x \notin Reached(ToSet(workspaceFiles[x]))

(* The instructions a run is given were approved by an administrator, and   *)
(* appending or scanning again, however often an attempt fails, neither     *)
(* makes others current nor stores content twice nor leaves a gap in the    *)
(* numbers (append_sources, set_current).                                   *)
EffectiveIsEndorsed ==
    /\ workspace.current # NoRevision => workspace.current \in endorsed /\ Effective # {}
    /\ {r.number : r \in snapshots} = 1..Cardinality(snapshots)
    /\ \A r, q \in snapshots : r.sources = q.sources => r = q

-----------------------------------------------------------------------------
(***************************************************************************)
(* How the context of a model call is put together and recorded:           *)
(* RequestContextPreparationService (services/request_context.py) with     *)
(* capabilities/selector.py, skills/context.py, runtime/context.py,        *)
(* services/auto_compact.py and services/context_snapshots.py.  A run may  *)
(* be prepared again (a retried request or job) while the user changes     *)
(* preferences and the conversation grows.                                 *)
(***************************************************************************)

contextVars == <<offered, disabledIds, history, asked, prep, recorded>>

NoPrep == [stage |-> "idle"]

ContextInit ==
    /\ offered \in SkillSets
    /\ disabledIds = {}
    /\ history = <<1>> /\ asked = 1
    /\ prep = [a \in Attempts |-> NoPrep]
    /\ recorded = {}

-----------------------------------------------------------------------------
(* select_capabilities(): what is disabled or needs a denied permission is  *)
(* hidden, what the intent excludes or does not touch is rejected.          *)
Hidden(d, disabled) ==
    \/ ~d.enabled \/ d.id \in disabled
    \/ \E p \in d.needs : p \notin DOMAIN Decisions \/ Decisions[p] = "deny"

Score(d) == d.relevance + IF d.pinned THEN 10000 ELSE 0

Relevant(d) == ~d.excluded /\ Score(d) > 0

(* The order of the selection: by score, then by id. *)
Better(x, d) == Score(x) > Score(d) \/ (Score(x) = Score(d) /\ x.id < d.id)

Ranked(ds) ==
    [i \in 1..Cardinality(ds) |->
        CHOOSE d \in ds : Cardinality({x \in ds : Better(x, d)}) = i - 1]

(* One step of the greedy choice under a count and a byte budget: what does *)
(* not fit is passed over, what comes after it may still fit.               *)
Takes(acc, d, budget, limit) ==
    IF Len(acc.taken) >= limit \/ acc.spent + d.cost > budget THEN acc
    ELSE [taken |-> Append(acc.taken, d), spent |-> acc.spent + d.cost]

Greedy(seq, budget, limit, spent) ==
    LET after[i \in 0..Len(seq)] ==
            IF i = 0 THEN [taken |-> <<>>, spent |-> spent]
            ELSE Takes(after[i - 1], seq[i], budget, limit)
    IN  after[Len(seq)]

(* The selector goes by the cost the manifest declares. *)
SelectCapabilities(disabled) ==
    Greedy(Ranked({d \in offered : ~Hidden(d, disabled) /\ Relevant(d)}),
           ContextBudget, SelectionLimit, 0).taken

-----------------------------------------------------------------------------
(* scope_policy(): the preferences as they are when the request arrives. *)
ReadScopePolicy(a) ==
    /\ prep[a] = NoPrep
    /\ prep' = [prep EXCEPT ![a] = [stage |-> "scoped", disabled |-> disabledIds]]
    /\ UNCHANGED <<offered, disabledIds, history, asked, recorded>>

(* discover(): the selection, from the preferences read before. *)
Discover(a) ==
    /\ prep[a].stage = "scoped"
    /\ prep' = [prep EXCEPT ![a] = [stage |-> "discovered", disabled |-> prep[a].disabled,
                                    chosen |-> SelectCapabilities(prep[a].disabled)]]
    /\ UNCHANGED <<offered, disabledIds, history, asked, recorded>>

(* The ContextBlock of a selected skill: it costs the bytes of its text,    *)
(* whatever its manifest declares.                                          *)
SkillBlock(d) == [id |-> d.id, cost |-> d.length]

(* enrich(): the instructions come first and must fit; each selected skill  *)
(* is added unless its text does not fit what is left.                      *)
Enrich(a) ==
    LET blocks == [i \in DOMAIN prep[a].chosen |-> SkillBlock(prep[a].chosen[i])]
        kept == Greedy(blocks, ContextBudget, Len(blocks), InstructionCost)
    IN  /\ prep[a].stage = "discovered"
        /\ prep' = [prep EXCEPT ![a] =
               IF InstructionCost > ContextBudget THEN [stage |-> "refused"]
               ELSE [stage |-> "enriched", disabled |-> prep[a].disabled,
                     skills |-> [i \in DOMAIN kept.taken |-> kept.taken[i].id], bytes |-> kept.spent]]
        /\ UNCHANGED <<offered, disabledIds, history, asked, recorded>>

(* A selected revision is no longer there when its text is read: enrich()   *)
(* raises, and prepare() with it.                                           *)
EnrichFails(a) ==
    /\ prep[a].stage = "discovered" /\ prep[a].chosen # <<>>
    /\ prep' = [prep EXCEPT ![a] = [stage |-> "refused"]]
    /\ UNCHANGED <<offered, disabledIds, history, asked, recorded>>

(* _assemble_messages(): the last messages of the conversation, the run's   *)
(* own among them.                                                          *)
Window == SubSeq(history, Max({1, Len(history) - HistoryLimit + 1}), Len(history))

AssembleMessages(a) ==
    /\ prep[a].stage = "enriched"
    /\ prep' = [prep EXCEPT ![a] =
           IF asked \notin ToSet(Window) THEN [stage |-> "refused"]
           ELSE [stage |-> "assembled", skills |-> prep[a].skills, bytes |-> prep[a].bytes,
                 selected |-> Window, summarized |-> <<>>]]
    /\ UNCHANGED <<offered, disabledIds, history, asked, recorded>>

(* auto_compact_context(): everything but the most recent messages is       *)
(* replaced by a summary; after_compaction() keeps the lineage.             *)
Compact(msgs) ==
    LET keep == Min({KeepRecent, Max({1, Len(msgs) - 1})})
    IN  [selected |-> SubSeq(msgs, Len(msgs) - keep + 1, Len(msgs)),
         summarized |-> SubSeq(msgs, 1, Len(msgs) - keep)]

CompactContext(a) ==
    LET msgs == prep[a].selected
        cut == Compact(msgs)
    IN  /\ prep[a].stage = "assembled"
        /\ prep' = [prep EXCEPT ![a].stage = "compacted",
                ![a].selected = IF Len(msgs) < TokenThreshold \/ Len(msgs) < 2 THEN msgs ELSE cut.selected,
                ![a].summarized = IF Len(msgs) < TokenThreshold \/ Len(msgs) < 2 THEN <<>> ELSE cut.summarized]
        /\ UNCHANGED <<offered, disabledIds, history, asked, recorded>>

(* What the manifest's hash covers. *)
Manifest(p) == [skills |-> p.skills, bytes |-> p.bytes, selected |-> p.selected,
                summarized |-> p.summarized]

(* INSERT ... ON CONFLICT (run_id) DO NOTHING. *)
RecordedAfter(m) == IF recorded = {} THEN {m} ELSE recorded

(* record(): the row that is there must carry this very manifest.           *)
RecordSnapshot(a) ==
    LET m == Manifest(prep[a])
    IN  /\ prep[a].stage = "compacted"
        /\ recorded' = RecordedAfter(m)
        /\ prep' = [prep EXCEPT ![a].stage = IF m \in recorded' THEN "ready" ELSE "conflict"]
        /\ UNCHANGED <<offered, disabledIds, history, asked>>

-----------------------------------------------------------------------------
SetPreference(id, on) ==
    /\ disabledIds' = IF on THEN disabledIds \ {id} ELSE disabledIds \cup {id}
    /\ UNCHANGED <<offered, history, asked, prep, recorded>>

MessageArrives ==
    /\ Len(history) < MaxMessage
    /\ history' = Append(history, Len(history) + 1)
    /\ UNCHANGED <<offered, disabledIds, asked, prep, recorded>>

ContextNext ==
    \/ \E a \in Attempts :
           \/ ReadScopePolicy(a) \/ Discover(a) \/ Enrich(a) \/ EnrichFails(a)
           \/ AssembleMessages(a) \/ CompactContext(a) \/ RecordSnapshot(a)
    \/ \E id \in Toggled, on \in BOOLEAN : SetPreference(id, on)
    \/ MessageArrives

-----------------------------------------------------------------------------
(* However often a run is prepared, the model is called only with the       *)
(* context that the run's one snapshot describes: a second preparation that *)
(* selected anything else is refused (record, context_snapshots.py:94).     *)
RunHasOneContext ==
    /\ Cardinality(recorded) <= 1
    /\ \A a \in Attempts : prep[a].stage = "ready" => Manifest(prep[a]) \in recorded

(* The messages of a prepared context are split into a suffix that is sent  *)
(* and a prefix that is summarised, without loss or overlap, in the order   *)
(* of the conversation (after_compaction, context_provenance.py:271).       *)
LineageIsAPartition ==
    \A a \in Attempts :
        prep[a].stage \in {"compacted", "ready"} =>
            LET all == prep[a].summarized \o prep[a].selected
            IN  IsInjective(all) /\ \E i \in DOMAIN history : all = SubSeq(history, i, i + Len(all) - 1)

(* Everything admitted fits the byte budget, and a relevant visible skill   *)
(* is left out only for a reason of its rank: the limit's number of better  *)
(* ones exists, or it and the better ones do not all fit, by what the       *)
(* manifests declare or by what the texts take with the instructions        *)
(* (select_capabilities, selector.py:115; enrich, skills/context.py:89).    *)
BudgetsAreUsedFairly ==
    \A a \in Attempts :
        prep[a].stage = "enriched" =>
            /\ prep[a].bytes <= ContextBudget
            /\ \A d \in offered :
                   LET better == {x \in offered : /\ ~Hidden(x, prep[a].disabled)
                                                 /\ Relevant(x) /\ Better(x, d)}
                   IN  /\ ~Hidden(d, prep[a].disabled) /\ Relevant(d)
                       /\ d.id \notin ToSet(prep[a].skills)
                       => \/ Cardinality(better) >= SelectionLimit
                          \/ d.cost + MapThenSumSet(LAMBDA x : x.cost, better) > ContextBudget
                          \/ InstructionCost + d.length
                                 + MapThenSumSet(LAMBDA x : x.cost, {SkillBlock(x) : x \in better})
                                 > ContextBudget

=============================================================================
