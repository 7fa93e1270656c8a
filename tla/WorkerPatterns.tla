--------------------------- MODULE WorkerPatterns ----------------------------
(***************************************************************************)
(* Patterns of several agents: workers that share a queue or a batch, and  *)
(* the pipeline of specialists.  The two share no state; each has its own  *)
(* variables, initial states and next-state relation.                      *)
(***************************************************************************)
EXTENDS Integers, Sequences, FiniteSets

CONSTANTS
    Workers,
    Tasks,          \* [worker, tools]: sequence of delegated tasks
    MaxPeers,       \* _max_peers
    BatchCalls,     \* sequence of tool names of a batch
    Classes,        \* [tool name -> [readOnly, concurrentSafe]], known tools only
    MaxRetries,     \* max_retries
    TokenLife,      \* ttl_seconds of an agent token
    MaxHour         \* bound: clock

VARIABLES
    delegated,      \* coordinator: [mode, state of each task, results]
    peers,          \* swarm: registered peers
    taskQueue,      \* swarm: tasks not claimed
    claimed,        \* swarm history: <<task, peer>> in order
    posted,         \* swarm: [Workers -> number of the task whose result is kept]
    forked,         \* fork: contexts that exist and whether each is forked
    wave,           \* tool batch: [Indices -> waiting, running, done, failed]
    resilient,      \* which coordinator: fixed for a run
    secret,         \* channel_secret is set: tokens and signatures
    stage,          \* the specialist that runs next, 1 .. 4, or 5
    tries,          \* attempts of the present specialist
    consulting,     \* its model call is awaited
    steps,          \* the results so far
    hour,           \* clock; tokens are issued at 0
    spent,          \* tokens recorded per specialist
    crashed         \* orchestrate() raised

-----------------------------------------------------------------------------
(***************************************************************************)
(* Delegation to workers (delegation/patterns.py): the coordinator that    *)
(* gathers its workers, the swarm that shares a queue, the single-level    *)
(* fork; and the batches of tool calls that run in parallel where that is  *)
(* safe (tools/concurrency.py).                                            *)
(***************************************************************************)

workerVars == <<delegated, peers, taskQueue, claimed, posted, forked, wave>>

WorkersInit ==
    /\ delegated \in [parallel : BOOLEAN, of : {[i \in DOMAIN Tasks |-> "waiting"]}, result : {<<>>}]
    /\ peers = {} /\ taskQueue = <<>> /\ claimed = <<>> /\ posted = [w \in Workers |-> 0]
    /\ forked = {FALSE}
    /\ wave = [i \in DOMAIN BatchCalls |-> "waiting"]

-----------------------------------------------------------------------------
(* CoordinatorDelegation *)
StartWorker(i) ==
    /\ delegated.of[i] = "waiting"
    /\ ~delegated.parallel => \A j \in DOMAIN Tasks : j < i => delegated.of[j] \in {"completed", "failed"}
    /\ delegated' = [delegated EXCEPT !.of[i] = "running"]
    /\ UNCHANGED <<peers, taskQueue, claimed, posted, forked, wave>>

(* _execute_worker(): a worker that raises is a failed result, not an error. *)
EndWorker(i, status) ==
    /\ delegated.of[i] = "running" /\ status \in {"completed", "failed"}
    /\ delegated' = [delegated EXCEPT !.of[i] = status]
    /\ UNCHANGED <<peers, taskQueue, claimed, posted, forked, wave>>

(* The results, in the order of the tasks. *)
Gather ==
    /\ delegated.result = <<>> /\ \A i \in DOMAIN Tasks : delegated.of[i] \in {"completed", "failed"}
    /\ delegated' = [delegated EXCEPT !.result =
           [i \in DOMAIN Tasks |-> [worker |-> Tasks[i].worker, status |-> delegated.of[i]]]]
    /\ UNCHANGED <<peers, taskQueue, claimed, posted, forked, wave>>

(* ForkDelegation: a child of a fork cannot fork. *)
Fork(isForked) ==
    /\ isForked \in forked /\ ~isForked
    /\ forked' = forked \cup {TRUE}
    /\ UNCHANGED <<delegated, peers, taskQueue, claimed, posted, wave>>

-----------------------------------------------------------------------------
(* SwarmDelegation *)
RegisterPeer(w) ==
    /\ Cardinality(peers) < MaxPeers /\ w \notin peers /\ peers' = peers \cup {w}
    /\ UNCHANGED <<delegated, taskQueue, claimed, posted, forked, wave>>

UnregisterPeer(w) ==
    /\ w \in peers /\ peers' = peers \ {w}
    /\ UNCHANGED <<delegated, taskQueue, claimed, posted, forked, wave>>

SubmitTask ==
    LET n == Len(taskQueue) + Len(claimed) + 1
    IN  /\ n <= Len(Tasks) /\ taskQueue' = Append(taskQueue, n)
        /\ UNCHANGED <<delegated, peers, claimed, posted, forked, wave>>

ClaimTask(w) ==
    /\ w \in peers /\ taskQueue # <<>>
    /\ claimed' = Append(claimed, <<Head(taskQueue), w>>) /\ taskQueue' = Tail(taskQueue)
    /\ UNCHANGED <<delegated, peers, posted, forked, wave>>

(* post_result() keeps the latest result of a worker. *)
PostResult(w) ==
    \E i \in DOMAIN claimed :
        /\ claimed[i][2] = w /\ posted[w] < claimed[i][1]
        /\ posted' = [posted EXCEPT ![w] = claimed[i][1]]
        /\ UNCHANGED <<delegated, peers, taskQueue, claimed, forked, wave>>

-----------------------------------------------------------------------------
(* classify_tool(): what is not known is unsafe. *)
Safe(name) == name \in DOMAIN Classes /\ Classes[name].concurrentSafe

Ended(i) == wave[i] \in {"done", "failed"}

(* execute_tool_batch(): the safe calls together, then the others in turn. *)
StartCall(i) ==
    /\ wave[i] = "waiting"
    /\ \A j \in DOMAIN BatchCalls : wave[j] # "aborted"
    /\ ~Safe(BatchCalls[i]) =>
           \A j \in DOMAIN BatchCalls : Safe(BatchCalls[j]) \/ j < i => Ended(j)
    /\ wave' = [wave EXCEPT ![i] = "running"]
    /\ UNCHANGED <<delegated, peers, taskQueue, claimed, posted, forked>>

(* A failure of a safe call is its result; one of another ends the batch.   *)
EndCall(i, ok) ==
    /\ wave[i] = "running"
    /\ wave' = IF ok THEN [wave EXCEPT ![i] = "done"]
                ELSE IF Safe(BatchCalls[i]) THEN [wave EXCEPT ![i] = "failed"]
                ELSE [j \in DOMAIN wave |-> IF wave[j] = "waiting" \/ j = i THEN "aborted" ELSE wave[j]]
    /\ UNCHANGED <<delegated, peers, taskQueue, claimed, posted, forked>>

CoordinatorNext ==
    \/ \E i \in DOMAIN Tasks : StartWorker(i) \/ \E s \in {"completed", "failed"} : EndWorker(i, s)
    \/ Gather \/ \E b \in BOOLEAN : Fork(b)
SwarmNext ==
    \/ SubmitTask
    \/ \E w \in Workers : RegisterPeer(w) \/ UnregisterPeer(w) \/ ClaimTask(w) \/ PostResult(w)
BatchNext == \E i \in DOMAIN BatchCalls : StartCall(i) \/ \E ok \in BOOLEAN : EndCall(i, ok)

-----------------------------------------------------------------------------
(* A task of the swarm is handed out once, in the order of submission,      *)
(* whichever peers come and go meanwhile (claim_task, patterns.py:250-256). *)
ClaimedOnceInOrder == \A i \in DOMAIN claimed : claimed[i][1] = i

(* A call that is not known to be safe runs alone, after all safe ones      *)
(* (execute_tool_batch, concurrency.py:110-146).                            *)
UnsafeCallsRunAlone ==
    \A i, j \in DOMAIN BatchCalls :
        wave[i] = "running" /\ wave[j] = "running" /\ i # j =>
            \A k \in {i, j} : BatchCalls[k] \in DOMAIN Classes /\ Classes[BatchCalls[k]].concurrentSafe

-----------------------------------------------------------------------------
(***************************************************************************)
(* The pipeline of specialists (agents/multi_agent.py) and its resilient   *)
(* form with retries, timeouts and fallbacks (agents/resilient_            *)
(* coordinator.py); the scoped, expiring tokens of the specialists         *)
(* (agents/agent_auth.py) and their signed messages (agents/secure_        *)
(* channel.py).  A response is a record of where its content comes from.   *)
(***************************************************************************)

pipelineVars == <<resilient, secret, stage, tries, consulting, steps, hour, spent, crashed>>

Team == <<"planner", "retriever", "validator", "synthesizer">>

(* _ROLE_PERMISSION_MAP and ROLE_PERMISSIONS *)
Needs == [planner |-> "plan", retriever |-> "search", validator |-> "evaluate", synthesizer |-> "synthesize"]
Grants == [planner |-> {"plan", "decompose"}, retriever |-> {"search", "retrieve"},
           validator |-> {"evaluate", "flag"}, synthesizer |-> {"synthesize", "cite"}]

PipelineInit ==
    /\ resilient \in BOOLEAN /\ secret \in BOOLEAN
    /\ resilient => ~secret         \* its constructor passes no channel secret
    /\ stage = 1 /\ tries = 0 /\ consulting = FALSE /\ steps = <<>> /\ hour = 0 /\ crashed = FALSE
    /\ spent = [i \in 1 .. 4 |-> 0]

(* check_permission() with verify_agent_token() *)
CheckPermission(i) == hour < TokenLife /\ Needs[Team[i]] \in Grants[Team[i]]

(* What a specialist is given: its predecessors' responses. *)
Given(i) ==
    CASE i = 1 -> {} [] i = 2 -> {1} [] i = 3 -> {2} [] i = 4 -> {2, 3}

Step(i, kind) == [agent |-> Team[i], kind |-> kind, given |-> Given(i), signed |-> kind = "answer" /\ secret]

Advance(step) ==
    /\ steps' = Append(steps, step) /\ stage' = stage + 1 /\ tries' = 0 /\ consulting' = FALSE

(* SpecialistAgent.execute(): a token that is expired or lacks the          *)
(* permission answers with a refusal, not with an error.  The token is      *)
(* looked at once, before the model is asked.                               *)
Denied == secret /\ ~CheckPermission(stage)

Refuse ==
    /\ stage <= 4 /\ ~crashed /\ ~consulting /\ Denied
    /\ Advance(Step(stage, "denied"))
    /\ UNCHANGED <<resilient, secret, hour, spent, crashed>>

Ask ==
    /\ stage <= 4 /\ ~crashed /\ ~consulting /\ ~Denied
    /\ resilient => tries < MaxRetries
    /\ consulting' = TRUE
    /\ UNCHANGED <<resilient, secret, stage, tries, steps, hour, spent, crashed>>

(* The answer arrives and is signed, whatever became of the token meanwhile. *)
Execute(tokens) ==
    /\ consulting
    /\ Advance(Step(stage, "answer"))
    /\ spent' = IF resilient THEN [spent EXCEPT ![stage] = @ + tokens] ELSE spent
    /\ UNCHANGED <<resilient, secret, hour, crashed>>

(* The model raises, or exceeds timeout_seconds: only the resilient         *)
(* coordinator tries again.                                                 *)
Fail ==
    /\ consulting /\ consulting' = FALSE
    /\ IF resilient THEN tries' = tries + 1 /\ UNCHANGED crashed
       ELSE crashed' = TRUE /\ UNCHANGED tries
    /\ UNCHANGED <<resilient, secret, stage, steps, hour, spent>>

(* All attempts failed: a fixed text, for the synthesizer the retrieval.    *)
FallBack ==
    /\ stage <= 4 /\ ~consulting /\ resilient /\ tries = MaxRetries
    /\ Advance(Step(stage, "fallback"))
    /\ UNCHANGED <<resilient, secret, hour, spent, crashed>>

Hour ==
    /\ hour < MaxHour /\ hour' = hour + 1
    /\ UNCHANGED <<resilient, secret, stage, tries, consulting, steps, spent, crashed>>

PipelineStep == Refuse \/ Ask \/ (\E t \in 0 .. 1 : Execute(t)) \/ Fail \/ FallBack
PipelineNext == PipelineStep \/ Hour

-----------------------------------------------------------------------------
(* Once a specialist's token has expired it turns to the model no more:     *)
(* the call that was under way may still be answered, and signed, and       *)
(* everything after it is a refusal, which is never signed as an answer     *)
(* (execute, multi_agent.py:68-120).                                        *)
ExpiredTokensDoNoWork ==
    [][secret /\ hour >= TokenLife /\ ~consulting =>
            /\ ~consulting'
            /\ \A i \in DOMAIN steps' : i \notin DOMAIN steps
                    => steps'[i].kind = "denied" /\ ~steps'[i].signed]_pipelineVars

(* The resilient pipeline gives an answer whatever its specialists do: the  *)
(* attempts are bounded and every specialist has a fallback (orchestrate,   *)
(* resilient_coordinator.py:110-168).                                       *)
PipelineEnds == resilient => <>(stage = 5)

(* timeout_seconds bounds every attempt of the resilient coordinator. *)
PipelineFairness == WF_pipelineVars(resilient /\ PipelineStep)

=============================================================================
