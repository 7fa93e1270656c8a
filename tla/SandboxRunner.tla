----------------------------- MODULE SandboxRunner -----------------------------
(***************************************************************************)
(* The sandbox daemon (sandbox_runner/server.py), its client               *)
(* (tools/sandbox_client.py) and the status route (routes/sandbox.py).     *)
(* Every request has a connection of its own; the daemon executes one      *)
(* request at a time in a process group of its own.  Output is a sequence  *)
(* of units: "plain" is one byte everywhere, "broken" is not UTF-8: it is  *)
(* decoded to the replacement character, three bytes for the client and    *)
(* six in the JSON frame.                                                  *)
(***************************************************************************)
EXTENDS Integers, Sequences, FiniteSets, FiniteSetsExt

CONSTANTS
    ToolCalls,      \* requests of tools: execute()
    HealthCheck,    \* the two requests of the status route's preflight()
    ProbeCall,
    Units,          \* subset of {"plain", "broken"}
    OutputLimit,    \* output_bytes
    FrameLimit,     \* MAX_FRAME_BYTES, without the fixed part of a frame
    MaxWritten      \* bound: units a program writes, all of one kind

VARIABLES
    executionActive,  \* EXECUTION_ACTIVE
    boxCaller,        \* [requests -> the client's side]
    boxHandler,       \* [requests -> the daemon's side]
    groups,           \* [requests -> live processes of its group]
    pipes,            \* [requests -> written, read and kept output]
    available         \* what the status route answered

sandboxVars == <<executionActive, boxCaller, boxHandler, groups, pipes, available>>

BoxRequests == ToolCalls \cup {HealthCheck, ProbeCall}
Streams == {"stdout", "stderr"}
NoOutput == [s \in Streams |-> <<>>]
BoxError(code) == [status |-> code, output |-> NoOutput, timedOut |-> FALSE, truncated |-> FALSE]
Unanswered == BoxError("none")
FreshPipes == [wrote |-> NoOutput, unread |-> NoOutput, got |-> NoOutput, closed |-> {},
               truncated |-> FALSE, timedOut |-> FALSE]

SandboxInit ==
    /\ executionActive = FALSE
    /\ boxCaller = [q \in BoxRequests |-> [stage |-> "idle", result |-> Unanswered]]
    /\ boxHandler = [q \in BoxRequests |-> [stage |-> "none", response |-> Unanswered]]
    /\ groups = [q \in BoxRequests |-> {}]
    /\ pipes = [q \in BoxRequests |-> FreshPipes]
    /\ available = "unknown"

Kept(output) == Len(output["stdout"]) + Len(output["stderr"])

\* ---------------------------------------------------------------- the client

(* _request(): a connection is opened and the frame written.  The probe    *)
(* follows a good health answer; a request may also be cut short.          *)
Connect(q) ==
    /\ boxCaller[q].stage = "idle"
    /\ q = ProbeCall => available = "healthy"
    /\ boxCaller' = [boxCaller EXCEPT ![q].stage = "waiting"]
    /\ \E op \in (IF q = HealthCheck THEN {"health"}
                   ELSE IF q = ProbeCall THEN {"execute"} ELSE {"execute", "invalid", "cut"}) :
           boxHandler' = [boxHandler EXCEPT ![q].stage = op]
    /\ UNCHANGED <<executionActive, groups, pipes, available>>

(* The timeout of _request() or a cancellation of the caller: the          *)
(* connection is closed.                                                   *)
LeaveRunner(q) ==
    /\ boxCaller[q].stage = "waiting"
    /\ boxCaller' = [boxCaller EXCEPT ![q].stage = "left"]
    /\ available' = IF q \in {HealthCheck, ProbeCall} THEN "no" ELSE available
    /\ UNCHANGED <<executionActive, boxHandler, groups, pipes>>

(* Bytes of a text once the answer is encoded again by the client. *)
ClientBytes(seq) == MapThenSumSet(LAMBDA i : IF seq[i] = "broken" THEN 3 ELSE 1, DOMAIN seq)

(* The checks of execute() on an answer; codes of errors become exceptions. *)
ValidResponse(r) ==
    /\ r.status = "ok"
    /\ ClientBytes(r.output["stdout"]) + ClientBytes(r.output["stderr"]) <= OutputLimit

(* preflight() is satisfied by a clean probe only. *)
CleanProbe(r) ==
    /\ ValidResponse(r)
    /\ r.output = [stdout |-> <<"plain">>, stderr |-> <<>>]
    /\ ~r.timedOut /\ ~r.truncated

(* What the status route knows after an answer to a request of its own. *)
StatusAfter(q, r) ==
    CASE q = HealthCheck -> IF r.status = "ok" THEN "healthy" ELSE "no"
      [] q = ProbeCall   -> IF CleanProbe(r) THEN "yes" ELSE "no"
      [] OTHER           -> available

(* The line is read and judged. *)
ReceiveAnswer(q) ==
    /\ boxCaller[q].stage = "waiting" /\ boxHandler[q].stage = "closed"
    /\ LET r == boxHandler[q].response IN
       /\ pipes' = IF ValidResponse(r) THEN pipes ELSE [pipes EXCEPT ![q] = FreshPipes]
       /\ boxCaller' = [boxCaller EXCEPT ![q] =
              [stage |-> IF ValidResponse(r) THEN "accepted" ELSE "refused",
               result |-> IF ValidResponse(r) THEN r ELSE Unanswered]]
       /\ available' = StatusAfter(q, r)
    /\ UNCHANGED <<executionActive, boxHandler, groups>>

\* ---------------------------------------------------------------- the daemon

(* Bytes of a unit in the frame: json.dumps() with ensure_ascii. *)
FrameBytes(seq) == MapThenSumSet(LAMBDA i : IF seq[i] = "plain" THEN 1 ELSE 6, DOMAIN seq)
Fits(output) == FrameBytes(output["stdout"]) + FrameBytes(output["stderr"]) <= FrameLimit

(* The first `keep` units of stdout followed by stderr. *)
Shortened(output, keep) ==
    LET first == Min({Len(output["stdout"]), keep}) IN
    [s \in Streams |-> SubSeq(output[s], 1, IF s = "stdout" THEN first ELSE keep - first)]

(* _encode_response(): the bisection finds the longest prefix that fits. *)
EncodeResponse(r) ==
    IF Fits(r.output) THEN r
    ELSE [r EXCEPT !.truncated = TRUE,
                   !.output = Shortened(r.output, Max({0} \cup
                       {k \in 0..Kept(r.output) : Fits(Shortened(r.output, k))}))]

Answer(q, r) == boxHandler' = [boxHandler EXCEPT ![q] = [stage |-> "closed", response |-> EncodeResponse(r)]]

(* handle() before an execution: frames that end there, with _error(). *)
Handle(q) ==
    /\ \/ boxHandler[q].stage = "health" /\ Answer(q, [Unanswered EXCEPT !.status = "ok"])
       \/ boxHandler[q].stage = "cut" /\ Answer(q, BoxError("invalid_frame"))
       \/ /\ boxHandler[q].stage \in {"execute", "invalid"} /\ executionActive
          /\ Answer(q, BoxError("runner_busy"))
    /\ UNCHANGED <<executionActive, boxCaller, groups, pipes, available>>

(* The flag is taken, the execution task created, the process spawned. *)
BeginExecution(q) ==
    /\ boxHandler[q].stage \in {"execute", "invalid"} /\ ~executionActive
    /\ executionActive' = TRUE
    /\ boxHandler' = [boxHandler EXCEPT ![q].stage =
           IF boxHandler[q].stage = "invalid" THEN "rejecting" ELSE "spawning"]
    /\ groups' = IF boxHandler[q].stage = "invalid" THEN groups ELSE [groups EXCEPT ![q] = {"leader"}]
    /\ UNCHANGED <<boxCaller, pipes, available>>

(* create_subprocess_exec() returns, the readers start and stdin is fed. *)
Spawned(q) ==
    /\ boxHandler[q].stage = "spawning"
    /\ boxHandler' = [boxHandler EXCEPT ![q].stage = "running"]
    /\ UNCHANGED <<executionActive, boxCaller, groups, pipes, available>>

(* An exception of the spawn ends the task: nothing was started. *)
SpawnFails(q) ==
    /\ boxHandler[q].stage = "spawning"
    /\ groups' = [groups EXCEPT ![q] = {}]
    /\ boxHandler' = [boxHandler EXCEPT ![q] = [stage |-> "finishing", response |-> BoxError("execution_failed")]]
    /\ UNCHANGED <<executionActive, boxCaller, pipes, available>>

(* execute() refuses a request out of its bounds. *)
RejectRequest(q) ==
    /\ boxHandler[q].stage = "rejecting"
    /\ boxHandler' = [boxHandler EXCEPT ![q] = [stage |-> "finishing", response |-> BoxError("invalid_request")]]
    /\ UNCHANGED <<executionActive, boxCaller, groups, pipes, available>>

(* What the program does: write, start a process that keeps the pipes or   *)
(* one that does not (one child at a time), let a process exit.  The probe *)
(* writes a line at most.                                                  *)
ProgramSteps(q) ==
    /\ boxHandler[q].stage = "running" /\ groups[q] # {}
    /\ \/ /\ groups[q] # {"quiet"} /\ Kept(pipes[q].wrote) < MaxWritten
          /\ \E s \in Streams, u \in (IF q = ProbeCall THEN {"plain"} ELSE Units) :
                 /\ \A t \in Streams : \A i \in DOMAIN pipes[q].wrote[t] : pipes[q].wrote[t][i] = u
                 /\ q = ProbeCall => s = "stdout" /\ pipes[q].wrote[s] = <<>>
                 /\ pipes' = [pipes EXCEPT ![q].wrote[s] = Append(@, u),
                                           ![q].unread[s] = IF s \in pipes[q].closed THEN @ ELSE Append(@, u)]
          /\ UNCHANGED groups
       \/ /\ groups[q] = {"leader"} /\ q # ProbeCall
          /\ \E p \in {"holder", "quiet"} : groups' = [groups EXCEPT ![q] = @ \cup {p}]
          /\ UNCHANGED pipes
       \/ /\ \E p \in groups[q] : groups' = [groups EXCEPT ![q] = @ \ {p}]
          /\ UNCHANGED pipes
    /\ UNCHANGED <<executionActive, boxCaller, boxHandler, available>>

Full(chunk, remaining) == remaining <= 0 \/ Len(chunk) >= remaining

(* read(): a chunk is kept up to the limit the two streams share; the      *)
(* reader that meets the limit says so and returns.                        *)
ReadChunk(q, s) ==
    /\ boxHandler[q].stage \in {"running", "stopping"}
    /\ s \notin pipes[q].closed /\ pipes[q].unread[s] # <<>>
    /\ LET chunk == pipes[q].unread[s]
           remaining == OutputLimit - Kept(pipes[q].got)
           kept == SubSeq(chunk, 1, Min({Len(chunk), Max({remaining, 0})}))
           full == Full(chunk, remaining)
       IN pipes' = [pipes EXCEPT ![q].got[s] = @ \o kept,
                                 ![q].unread[s] = <<>>,
                                 ![q].truncated = @ \/ full,
                                 ![q].closed = IF full THEN @ \cup {s} ELSE @]
    /\ UNCHANGED <<executionActive, boxCaller, boxHandler, groups, available>>

(* _kill_group() *)
KillGroup(q) == groups' = [groups EXCEPT ![q] = {}]

(* The limit is reached while the leader lives: the group is killed. *)
CapReached(q) ==
    /\ boxHandler[q].stage = "running" /\ pipes[q].truncated /\ "leader" \in groups[q]
    /\ groups' = [groups EXCEPT ![q] = {}]
    /\ UNCHANGED <<executionActive, boxCaller, boxHandler, pipes, available>>

(* A reader returns at the end of its pipe: nobody holds it any more. *)
ReaderDone(q, s) == s \in pipes[q].closed \/ (pipes[q].unread[s] = <<>> /\ groups[q] \subseteq {"quiet"})

(* The leader has exited and both readers have returned. *)
ExecutionEnds(q) ==
    /\ boxHandler[q].stage = "running"
    /\ "leader" \notin groups[q] /\ \A s \in Streams : ReaderDone(q, s)
    /\ boxHandler' = [boxHandler EXCEPT ![q].stage = "stopping"]
    /\ UNCHANGED <<executionActive, boxCaller, groups, pipes, available>>

ExecutionTimesOut(q) ==
    /\ boxHandler[q].stage = "running"
    /\ boxHandler' = [boxHandler EXCEPT ![q].stage = "stopping"]
    /\ groups' = [groups EXCEPT ![q] = {}]
    /\ pipes' = [pipes EXCEPT ![q].timedOut = TRUE]
    /\ UNCHANGED <<executionActive, boxCaller, available>>

(* The finally of execute(): the group is killed whatever happened, the    *)
(* readers are cancelled and the answer is put together.                   *)
ExecutionCleanup(q) ==
    /\ boxHandler[q].stage = "stopping"
    /\ KillGroup(q)
    /\ boxHandler' = [boxHandler EXCEPT ![q] =
           [stage |-> "finishing",
            response |-> [status |-> "ok", output |-> pipes[q].got,
                          timedOut |-> pipes[q].timedOut, truncated |-> pipes[q].truncated]]]
    /\ pipes' = [pipes EXCEPT ![q] = [FreshPipes EXCEPT !.wrote = pipes[q].wrote]]
    /\ UNCHANGED <<executionActive, boxCaller, available>>

(* The peer's end of file is seen first: the execution is cancelled, which *)
(* kills the group (or the process being spawned), and waited for.         *)
PeerReadReturns(q) ==
    /\ boxHandler[q].stage \in {"spawning", "running", "stopping", "rejecting"}
    /\ boxCaller[q].stage = "left"
    /\ KillGroup(q)
    /\ boxHandler' = [boxHandler EXCEPT ![q] = [stage |-> "finishing", response |-> BoxError("client_disconnected")]]
    /\ pipes' = [pipes EXCEPT ![q] = FreshPipes]
    /\ UNCHANGED <<executionActive, boxCaller, available>>

(* The finally of handle(), then the answer is written and the connection  *)
(* closed.                                                                 *)
HandlerEnds(q) ==
    /\ boxHandler[q].stage = "finishing"
    /\ executionActive' = FALSE
    /\ Answer(q, boxHandler[q].response)
    /\ UNCHANGED <<boxCaller, groups, pipes, available>>

SandboxNext ==
    \E q \in BoxRequests :
        \/ Connect(q) \/ LeaveRunner(q) \/ ReceiveAnswer(q)
        \/ Handle(q) \/ BeginExecution(q) \/ Spawned(q) \/ SpawnFails(q) \/ RejectRequest(q)
        \/ ProgramSteps(q) \/ CapReached(q)
        \/ ExecutionEnds(q) \/ ExecutionTimesOut(q) \/ ExecutionCleanup(q)
        \/ PeerReadReturns(q) \/ HandlerEnds(q)
        \/ \E s \in Streams : ReadChunk(q, s)

(* The event loop runs what is ready and timers fire; nothing is assumed   *)
(* of the program or of the client.                                        *)
SandboxFairness ==
    \A q \in BoxRequests :
        /\ WF_sandboxVars(Spawned(q)) /\ WF_sandboxVars(RejectRequest(q))
        /\ WF_sandboxVars(ExecutionTimesOut(q)) /\ WF_sandboxVars(ExecutionCleanup(q))
        /\ WF_sandboxVars(HandlerEnds(q))

\* ---------------------------------------------------------------- properties

(* No process of a request lives once its answer is sent, and no two       *)
(* requests ever have live processes, whatever the programs leave behind   *)
(* and whenever clients go: the next program starts in an empty sandbox.   *)
GroupsDoNotOutliveTheirTurn ==
    /\ \A q \in BoxRequests : boxHandler[q].stage \in {"finishing", "closed"} => groups[q] = {}
    /\ Cardinality({q \in BoxRequests : groups[q] # {}}) <= 1
    /\ ~executionActive => \A q \in BoxRequests : groups[q] = {}

IsPrefixOf(s, t) == Len(s) <= Len(t) /\ SubSeq(t, 1, Len(s)) = s

(* A result the client accepts is within output_bytes, is a prefix of what *)
(* the program wrote on each stream, and is everything it wrote unless the *)
(* result says it was truncated or timed out.                              *)
ResultsAreWholeOrFlagged ==
    \A q \in BoxRequests \ {HealthCheck} : boxCaller[q].stage = "accepted" =>
        LET r == boxCaller[q].result IN
        /\ Kept(r.output) <= OutputLimit
        /\ \A s \in Streams : IsPrefixOf(r.output[s], pipes[q].wrote[s])
        /\ r.truncated \/ r.timedOut \/ r.output = pipes[q].wrote

(* A busy runner becomes free again although programs may run for ever and *)
(* clients may go: the timeout and the two finally blocks see to it.       *)
RunnerBecomesFree == executionActive ~> ~executionActive

=============================================================================
