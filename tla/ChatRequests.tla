------------------------------ MODULE ChatRequests ------------------------------
(***************************************************************************)
(* A chat request, from admission to its last byte (routes/chat.py,        *)
(* routes/stream.py).  POST /chat answers with the result; POST            *)
(* /chat/stream starts the run as a task and forwards its events through a *)
(* queue of its own until the task has ended and the queue is empty, and   *)
(* stops the task when the client goes away.  The run itself (modelled by  *)
(* AgentRun) is reduced to the events it emits; costs are counted in model *)
(* responses; the answer is the sequence of its blocks.                    *)
(***************************************************************************)
EXTENDS Integers, Sequences, FiniteSets, Functions

CONSTANTS
    ChatImages,     \* images sent along: records, see AcceptsImage
    ChatAnswers,    \* answers of the run: sequences of blocks, see DetectArtifacts
    SidePixels,     \* ImageLimits.max_width
    MaxImageBytes,  \* ImageLimits.max_bytes
    MaxRunEvents    \* bound on the events of a run before the terminal one

VARIABLES
    chat,           \* the request: [pc, transport, equipped, disabled, denied, mode]
    offeredTools,   \* the request's registry, as registered
    parentTools,    \* the registry of the runtime
    runRow,         \* status of the RunRow: "none", "running" or "ended"
    runTask,        \* runtime.run(): "none", "running", "cancelling", "ended", "raised"
    emitted,        \* every event given to the sink
    outbox,         \* the queue of the stream
    shown,          \* the events the client has been sent
    pendingAsk,     \* a tool call waits for the owner
    costCalls,      \* ResponseCostEventSink.calls
    chatAnswer,     \* content of the result
    artifactRows,   \* artifacts saved for the conversation
    billed,         \* the cost of finalize_metadata(), see CostOfRun; -1 before it
    lostWrites      \* writes that failed: "terminal", "approvals"

chatVars == <<chat, offeredTools, parentTools, runRow, runTask, emitted, outbox, shown,
              pendingAsk, costCalls, chatAnswer, artifactRows, billed, lostWrites>>

-----------------------------------------------------------------------------
(* Admission. *)

(* ImageAttachmentStore.add(): what is declared is what the bytes are, an   *)
(* allowed format of allowed size, before and after it is encoded again.    *)
AddImage(image) ==
    /\ image.bytes \in 1 .. MaxImageBytes
    /\ image.actual \in {"png", "jpeg", "webp", "gif"} /\ image.declared = image.actual
    /\ image.width \in 1 .. SidePixels
    /\ image.clean <= MaxImageBytes

(* add_data_uri(): the data URI is decoded first. *)
AcceptsImage(image) == image.encoded /\ AddImage(image)

NoImage == [encoded |-> FALSE, declared |-> "none", actual |-> "none", width |-> 0, bytes |-> 0, clean |-> 0]
NoChat == [pc |-> "idle", transport |-> "sync", equipped |-> FALSE,
           disabled |-> {}, denied |-> {}, mode |-> "solo"]

ChatInit ==
    /\ chat = NoChat /\ offeredTools = {} /\ parentTools = {}
    /\ runRow = "none" /\ runTask = "none" /\ emitted = <<>> /\ outbox = <<>> /\ shown = <<>>
    /\ pendingAsk = FALSE /\ costCalls = 0 /\ chatAnswer = <<>> /\ artifactRows = <<>> /\ billed = -1
    /\ lostWrites = {}

(* Only the request moves; the rest of the state is as it was. *)
ChatMoves(pc) ==
    /\ chat' = [chat EXCEPT !.pc = pc]
    /\ UNCHANGED <<runTask, emitted, outbox, shown, pendingAsk, costCalls, chatAnswer,
                   artifactRows, billed, lostWrites>>

(* Rate limit, compliance, image and conversation: 429, 422, 422 or 404. *)
Admit(transport, image, refused) ==
    /\ chat.pc = "idle"
    /\ chat' = [chat EXCEPT !.transport = transport,
                            !.pc = IF refused \/ (image # NoImage /\ ~AcceptsImage(image))
                                   THEN "refused" ELSE "scope"]
    /\ UNCHANGED <<offeredTools, parentTools, runRow, runTask, emitted, outbox, shown, pendingAsk,
                   costCalls, chatAnswer, artifactRows, billed, lostWrites>>

-----------------------------------------------------------------------------
(* The tools of the request. *)

Tool(name, risks, ask) == [name |-> name, risks |-> risks, ask |-> ask]

NativeTools ==
    {Tool("calculator", {"read"}, FALSE), Tool("web_search", {"network"}, FALSE),
     Tool("image_gen", {"network", "external"}, FALSE), Tool("session_search", {"read"}, FALSE)}
WorkspaceTools == {Tool("read_file", {"read"}, FALSE), Tool("write_file", {"write"}, TRUE)}
MemoryTools == {Tool("memory", {"read", "write"}, TRUE)}
SandboxTools == {Tool("terminal", {"execute"}, TRUE)}

(* SecureToolRegistry.register() leaves out what the scope has disabled or  *)
(* whose risk it denies.                                                    *)
CreateToolRegistry(equipped, disabled, denied) ==
    {t \in NativeTools \union (IF equipped THEN WorkspaceTools \union MemoryTools \union SandboxTools ELSE {}) :
        t.name \notin disabled /\ t.risks \intersect denied = {}}

(* scope_policy() and the registry; a workspace, encrypted memory and a     *)
(* sandbox are there or not.                                                *)
PrepareTools(equipped, disabled, denied) ==
    /\ chat.pc = "scope"
    /\ chat' = [chat EXCEPT !.pc = "ensure", !.equipped = equipped, !.disabled = disabled, !.denied = denied]
    /\ offeredTools' = CreateToolRegistry(equipped, disabled, denied)
    /\ UNCHANGED <<parentTools, runRow, runTask, emitted, outbox, shown, pendingAsk, costCalls,
                   chatAnswer, artifactRows, billed, lostWrites>>

(* ensure_run(), then the message of the user and the context of the run.   *)
EnsureRunRow ==
    /\ chat.pc = "ensure" /\ runRow' = "running" /\ ChatMoves("route")
    /\ UNCHANGED <<offeredTools, parentTools>>

(* The message is not stored, the context cannot be prepared, or the client *)
(* leaves before there is a task: nobody ends the run's row.                *)
FailBeforeRun ==
    /\ chat.pc \in {"ensure", "route"} /\ ChatMoves("failed")
    /\ UNCHANGED <<offeredTools, parentTools, runRow>>

(* The parent of a team only writes the synthesis. *)
ParentTools(mode) == IF mode = "team" THEN {} ELSE offeredTools

(* prepare_hybrid_messages(): the routing is the first event of the run,    *)
(* put in the queue before anyone reads it.                                 *)
RouteRequest(mode) ==
    /\ chat.pc = "route"
    /\ chat' = [chat EXCEPT !.pc = "run", !.mode = mode]
    /\ parentTools' = ParentTools(mode) /\ runTask' = "running"
    /\ emitted' = <<"routed">>
    /\ outbox' = IF chat.transport = "stream" THEN <<"routed">> ELSE <<>>
    /\ UNCHANGED <<offeredTools, runRow, shown, pendingAsk, costCalls, chatAnswer,
                   artifactRows, billed, lostWrites>>

-----------------------------------------------------------------------------
(* The run, as far as the request sees it. *)

(* ResponseCostEventSink.emit() and QueueEventSink.emit() *)
EmitEvent(kind) ==
    /\ emitted' = Append(emitted, kind)
    /\ costCalls' = IF chat.transport = "stream" /\ kind = "response" THEN costCalls + 1 ELSE costCalls
    /\ outbox' = IF chat.transport = "stream" THEN Append(outbox, kind) ELSE outbox

RunEmits(kind) ==
    /\ runTask = "running" /\ Len(emitted) <= MaxRunEvents /\ EmitEvent(kind)
    /\ UNCHANGED <<chat, offeredTools, parentTools, runRow, runTask, shown, pendingAsk, chatAnswer,
                   artifactRows, billed, lostWrites>>

(* A call of a tool; without an authorizer a call that must be asked for is *)
(* denied, with one it waits.                                               *)
RunCalls(tool) ==
    /\ runTask = "running" /\ Len(emitted) <= MaxRunEvents /\ ~pendingAsk
    /\ EmitEvent(IF tool.ask /\ chat.transport = "sync" THEN "denied"
                 ELSE IF tool.ask THEN "approval" ELSE "completed")
    /\ pendingAsk' = (tool.ask /\ chat.transport = "stream")
    /\ UNCHANGED <<chat, offeredTools, parentTools, runRow, runTask, shown, chatAnswer,
                   artifactRows, billed, lostWrites>>

(* POST /approve answers the call the stream has shown. *)
OwnerDecides ==
    /\ pendingAsk /\ "approval" \in Range(shown) /\ runTask = "running"
    /\ pendingAsk' = FALSE /\ EmitEvent("decided")
    /\ UNCHANGED <<chat, offeredTools, parentTools, runRow, runTask, shown, chatAnswer,
                   artifactRows, billed, lostWrites>>

(* _emit(RUN_STOPPED): the terminal event ends the row and goes to the      *)
(* sinks, or its write fails or is interrupted.                             *)
PersistTerminal(written) ==
    IF written
    THEN runRow' = "ended" /\ EmitEvent("stopped") /\ UNCHANGED lostWrites
    ELSE lostWrites' = lostWrites \union {"terminal"} /\ UNCHANGED <<runRow, emitted, costCalls, outbox>>

(* The run returns a result.  Only a deadline returns one although the      *)
(* terminal event is not written; it leaves the call it interrupts pending. *)
RunEnds(answer, written) ==
    /\ runTask = "running" /\ runTask' = "ended" /\ chatAnswer' = answer
    /\ PersistTerminal(written)
    /\ UNCHANGED <<chat, offeredTools, parentTools, shown, pendingAsk, artifactRows, billed>>

(* An event, the answer or the terminal event cannot be stored: run() raises. *)
RunRaises ==
    /\ runTask = "running" /\ runTask' = "raised" /\ PersistTerminal(FALSE)
    /\ UNCHANGED <<chat, offeredTools, parentTools, shown, pendingAsk, chatAnswer, artifactRows, billed>>

(* A cancelled run writes its terminal event too; a second cancellation     *)
(* interrupts it.                                                           *)
CancelledRunEnds(written) ==
    /\ runTask = "cancelling" /\ runTask' = "ended" /\ PersistTerminal(written)
    /\ UNCHANGED <<chat, offeredTools, parentTools, shown, pendingAsk, chatAnswer, artifactRows, billed>>

(* When that write raises, so does the await of finally, which only         *)
(* suppresses CancelledError: cancel_run() is not reached.                  *)
CancelledRunRaises ==
    /\ runTask = "cancelling" /\ runTask' = "raised" /\ chat' = [chat EXCEPT !.pc = "left"]
    /\ lostWrites' = lostWrites \union {"terminal", "approvals"}
    /\ UNCHANGED <<offeredTools, parentTools, runRow, emitted, outbox, shown, pendingAsk, costCalls,
                   chatAnswer, artifactRows, billed>>

(* The task that writes the terminal event is shielded: it may finish after *)
(* run() was interrupted.                                                   *)
TerminalLate ==
    /\ "terminal" \in lostWrites /\ runTask \in {"ended", "raised"} /\ runRow = "running"
    /\ runRow' = "ended" /\ EmitEvent("stopped")
    /\ UNCHANGED <<chat, offeredTools, parentTools, runTask, shown, pendingAsk, chatAnswer, artifactRows,
                   billed, lostWrites>>

-----------------------------------------------------------------------------
(* The stream. *)

(* The branches of the loop: these kinds have an event of their own. *)
ShownKinds == {"routed", "iteration", "delta", "completed", "approval", "decided", "denied"}

Streaming == chat.pc = "run" /\ chat.transport = "stream"

ForwardEvent ==
    /\ Streaming /\ outbox # <<>>
    /\ outbox' = Tail(outbox)
    /\ shown' = IF Head(outbox) \in ShownKinds THEN Append(shown, Head(outbox)) ELSE shown
    /\ UNCHANGED <<chat, offeredTools, parentTools, runRow, runTask, emitted, pendingAsk, costCalls,
                   chatAnswer, artifactRows, billed, lostWrites>>

(* task.done() *)
TaskDone == runTask \in {"ended", "raised"}

(* while not task.done() or not queue.empty() *)
Drained == TaskDone /\ outbox = <<>>

(* cancel_run(): the approvals of the run are cancelled, unless the store   *)
(* fails or the await is cancelled.                                         *)
CancelApprovals(cleared) ==
    /\ pendingAsk' = (pendingAsk /\ ~cleared)
    /\ lostWrites' = IF cleared THEN lostWrites ELSE lostWrites \union {"approvals"}

(* The loop is left; finally calls cancel_run(), and the result of the task *)
(* is awaited: either may raise.                                            *)
LoopEnds(cleared) ==
    /\ Streaming /\ Drained
    /\ chat' = [chat EXCEPT !.pc = IF cleared /\ runTask = "ended" THEN "artifacts" ELSE "failed"]
    /\ CancelApprovals(cleared)
    /\ UNCHANGED <<offeredTools, parentTools, runRow, runTask, emitted, outbox, shown,
                   costCalls, chatAnswer,
                   artifactRows, billed>>

(* The client goes away: the task is cancelled. *)
ClientLeaves ==
    /\ Streaming
    /\ chat' = [chat EXCEPT !.pc = "closing"]
    /\ runTask' = IF runTask = "running" THEN "cancelling" ELSE runTask
    /\ UNCHANGED <<offeredTools, parentTools, runRow, emitted, outbox, shown, pendingAsk, costCalls,
                   chatAnswer, artifactRows, billed, lostWrites>>

(* with suppress(CancelledError): await task *)
TaskAwaited == TaskDone

CleanUp(cleared) ==
    /\ chat.pc = "closing" /\ TaskAwaited
    /\ chat' = [chat EXCEPT !.pc = "left"] /\ CancelApprovals(cleared)
    /\ UNCHANGED <<offeredTools, parentTools, runRow, runTask, emitted, outbox, shown,
                   costCalls, chatAnswer,
                   artifactRows, billed>>

-----------------------------------------------------------------------------
(* After the run. *)

(* The first closed block of a kind, as a sequence. *)
FirstClosed(answer, kind) ==
    LET found == SelectSeq(answer, LAMBDA b : b.kind = kind /\ b.closed)
    IN IF found = <<>> THEN <<>> ELSE <<Head(found).kind>>

(* detect_artifact_in_response(): an HTML document, an SVG image, every     *)
(* code block of some length, a diagram, in this order.  A block that is    *)
(* not closed ends the search for code.                                     *)
DetectArtifacts(answer) ==
    LET code == SelectSeq(answer, LAMBDA b : b.kind = "code" /\ b.closed /\ b.long)
    IN FirstClosed(answer, "html") \o FirstClosed(answer, "svg")
       \o [i \in DOMAIN code |-> "code"] \o FirstClosed(answer, "mermaid")

(* ArtifactStore.save(), one artifact at a time. *)
SaveArtifact ==
    /\ chat.pc = "artifacts" /\ Len(artifactRows) < Len(DetectArtifacts(chatAnswer))
    /\ artifactRows' = Append(artifactRows, DetectArtifacts(chatAnswer)[Len(artifactRows) + 1])
    /\ UNCHANGED <<chat, offeredTools, parentTools, runRow, runTask, emitted, outbox, shown, pendingAsk,
                   costCalls, chatAnswer, billed, lostWrites>>

NoCost == -2        \* None
BudgetFigure == -3  \* run_spent_nusd of the durable budget (MonetaryBudget)

(* What the durable budget has spent, where it is enabled and has a row;    *)
(* else the totals of the tracker, for a stream, and no cost for a request  *)
(* that waits.                                                              *)
CostOfRun(budget) ==
    IF budget THEN BudgetFigure ELSE IF chat.transport = "stream" THEN costCalls ELSE NoCost

(* finalize_metadata() and the done event: after the artifacts of a stream, *)
(* before those of a request that waits.                                    *)
FinishStream(budget) ==
    /\ chat.pc = "artifacts" /\ chat.transport = "stream"
    /\ artifactRows = DetectArtifacts(chatAnswer)
    /\ chat' = [chat EXCEPT !.pc = "done"] /\ billed' = CostOfRun(budget)
    /\ UNCHANGED <<offeredTools, parentTools, runRow, runTask, emitted, outbox, shown,
                   pendingAsk, costCalls,
                   chatAnswer, artifactRows, lostWrites>>

FinalizeSync(budget) ==
    /\ chat.pc = "run" /\ chat.transport = "sync" /\ runTask = "ended"
    /\ chat' = [chat EXCEPT !.pc = "artifacts"] /\ billed' = CostOfRun(budget)
    /\ UNCHANGED <<offeredTools, parentTools, runRow, runTask, emitted, outbox, shown,
                   pendingAsk, costCalls,
                   chatAnswer, artifactRows, lostWrites>>

AnswerSync ==
    /\ chat.pc = "artifacts" /\ chat.transport = "sync"
    /\ artifactRows = DetectArtifacts(chatAnswer)
    /\ ChatMoves("done") /\ UNCHANGED <<offeredTools, parentTools, runRow>>

(* run() raises in a request that waits, or its cost cannot be stored. *)
SyncFails ==
    /\ chat.pc = "run" /\ chat.transport = "sync" /\ TaskDone
    /\ ChatMoves("failed") /\ UNCHANGED <<offeredTools, parentTools, runRow>>

(* The client leaves between two artifacts, or one cannot be stored. *)
LeaveLate(pc) ==
    /\ chat.pc = "artifacts" /\ (chat.transport = "stream" \/ pc = "failed")
    /\ ChatMoves(pc) /\ UNCHANGED <<offeredTools, parentTools, runRow>>

ChatNext ==
    \/ \E transport \in {"sync", "stream"}, image \in ChatImages \union {NoImage}, refused \in BOOLEAN :
           Admit(transport, image, refused)
    \/ \E equipped \in BOOLEAN, disabled \in {{}, {"memory"}}, denied \in {{}, {"write"}} :
           PrepareTools(equipped, disabled, denied)
    \/ EnsureRunRow \/ FailBeforeRun \/ \E mode \in {"solo", "team"} : RouteRequest(mode)
    \/ \E kind \in {"iteration", "response", "delta"} : RunEmits(kind)
    \/ \E tool \in parentTools : RunCalls(tool)
    \/ \E answer \in ChatAnswers, written \in BOOLEAN : RunEnds(answer, written)
    \/ \E written \in BOOLEAN : CancelledRunEnds(written)
    \/ OwnerDecides \/ RunRaises \/ CancelledRunRaises \/ TerminalLate
    \/ \E cleared \in BOOLEAN : LoopEnds(cleared) \/ CleanUp(cleared)
    \/ \E budget \in BOOLEAN : FinishStream(budget) \/ FinalizeSync(budget)
    \/ ForwardEvent \/ ClientLeaves \/ SaveArtifact \/ AnswerSync \/ SyncFails
    \/ \E pc \in {"left", "failed"} : LeaveLate(pc)

-----------------------------------------------------------------------------
(* The done event tells the truth: the run has ended, in its row too unless *)
(* the terminal write failed; everything it emitted for the client was      *)
(* sent, in order; the cost of a stream is what the budget spent or holds   *)
(* every model response, that of a request that waits is the budget's or    *)
(* none; and the artifacts of the answer are stored (the loop over the      *)
(* queue, finalize_metadata(), ArtifactStore.save()).                       *)
DoneTellsTheTruth ==
    /\ LET due == SelectSeq(emitted, LAMBDA k : k \in ShownKinds)
       IN  Len(shown) <= Len(due) /\ shown = SubSeq(due, 1, Len(shown))
    /\ chat.pc = "done" =>
           /\ runTask = "ended" /\ (runRow = "ended" \/ "terminal" \in lostWrites)
           /\ chat.transport = "stream" => shown = SelectSeq(emitted, LAMBDA k : k \in ShownKinds)
           /\ \/ billed = BudgetFigure
              \/ billed = IF chat.transport = "sync" THEN NoCost
                          ELSE Len(SelectSeq(emitted, LAMBDA k : k = "response"))
           /\ artifactRows = DetectArtifacts(chatAnswer)

(* Once a request is over, however it ended, so is its run's task.  An      *)
(* approval is still pending only if a write of the cleanup failed, and     *)
(* never after a done event; a row still says "running" only if the request *)
(* failed before its run was started or the terminal write failed (the      *)
(* finally of event_stream(), _deadline_result()).                          *)
ClosedRequestsLeaveNothing ==
    chat.pc \in {"done", "left", "failed"} =>
        /\ runTask \in {"none", "ended", "raised"}
        /\ pendingAsk => "approvals" \in lostWrites /\ chat.pc # "done"
        /\ runRow = "running" => runTask = "none" \/ "terminal" \in lostWrites

(* The parent of a team runs no tool, and asks for none.  An approval is    *)
(* only asked on a stream, the one that has an authorizer, and for an       *)
(* equipped request; where the scope denies writing, only while the sandbox *)
(* is offered, the one tool left that must be asked for                     *)
(* (_create_tool_registry(), parent_tools, the missing authorizer).         *)
RunsStayInTheirTools ==
    /\ {"completed", "approval"} \cap Range(emitted) # {} => chat.mode = "solo"
    /\ "approval" \in Range(emitted) =>
           /\ chat.transport = "stream" /\ chat.equipped
           /\ "write" \in chat.denied => SandboxTools \subseteq offeredTools
=============================================================================
