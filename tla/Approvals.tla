------------------------------ MODULE Approvals ------------------------------
(***************************************************************************)
(* Durable human approvals of tool calls: the approval_requests table      *)
(* (security/approval_repository.py), the DurableApprovalBroker that polls *)
(* it (security/live_approvals.py), the ASK protocol of the agent runtime  *)
(* (_prepare_policy_batch() and _enforce_policy() in runtime/engine.py)    *)
(* and the SSE route that owns a run (routes/stream.py).                   *)
(*                                                                         *)
(* Four kinds of actors meet in a row of the table: the run that reserves  *)
(* it and cleans it up, the authorization task that polls it, owners that  *)
(* decide it, and lookups that persist its expiry.  Every action is one    *)
(* database transaction or one stretch of a coroutine between two awaits.  *)
(***************************************************************************)
EXTENDS Integers, Sequences

CONSTANTS
    Users, Runs, Calls, Ids, Signatures,
    Owner,          \* [Runs -> Users]
    Batches,        \* run -> its provider answers, each a sequence of calls
    Id,             \* [Calls -> Ids]: tool_call_id
    Signature,      \* [Calls -> Signatures]: tool name and arguments
    Policy,         \* [Calls -> {"allow", "ask", "deny"}]
    ApprovalTicks,  \* settings.approval_timeout_seconds
    RunTicks,       \* RuntimeBudget.max_seconds
    MaxDelay,       \* how old a clock reading may be when its UPDATE runs
    MaxClock        \* bound: end of time

ASSUME ConstantTypes ==
    /\ Signatures # {}
    /\ Owner \in [Runs -> Users]
    /\ Batches \in [Runs -> Seq(Seq(Calls))]
    /\ Id \in [Calls -> Ids]
    /\ Signature \in [Calls -> Signatures]
    /\ Policy \in [Calls -> {"allow", "ask", "deny"}]
    /\ ApprovalTicks \in Nat \ {0} /\ RunTicks \in Nat \ {0}
    /\ MaxDelay \in Nat /\ MaxClock \in Nat

VARIABLES
    now,        \* the clock
    row,        \* [Keys -> Row]: table approval_requests
    run,        \* [Runs -> RunState]: the coroutine _run()
    task,       \* [Runs -> TaskState]: authorization_task of the run
    route,      \* [Runs -> Routes]: the event_stream() that owns the run
    answered,   \* history: decisions acknowledged with True
    executed    \* history: positions <<run, batch, index>> of the executed calls

vars == <<now, row, run, task, route, answered, executed>>

(* The unique key: owner, run and tool_call_id; a run has one owner. *)
Keys == Runs \X Ids

Verdicts == {"approved", "denied"}
Statuses == Verdicts \cup {"pending", "expired", "cancelled"}
Row == [status : Statuses \cup {"none"}, signature : Signatures, expires : Nat, decided : Nat]
NoRow == [status |-> "none", signature |-> CHOOSE s \in Signatures : TRUE, expires |-> 0,
          decided |-> 0]

RunPCs == {"new", "batch", "prepare", "prepared", "wait", "cleanup", "cancelling",
           "execute", "ended", "dead"}
Outcomes == Statuses \cup {"none", "error", "timeout", "cancelled"}
RunState == [pc : RunPCs, batch : Nat, pos : Nat, started : Nat, timer : Nat,
             outcome : Outcomes, cleanup : {"good", "failed"}]
TaskPCs == {"none", "first", "poll", "cancelling", "done"}
TaskState == [pc : TaskPCs, result : Outcomes]
Routes == {"open", "closing", "closed"}
Answers == [user : Users, key : Keys, verdict : Verdicts]

Init ==
    /\ now = 0
    /\ row = [k \in Keys |-> NoRow]
    /\ run = [r \in Runs |-> [pc |-> "new", batch |-> 1, pos |-> 1, started |-> 0, timer |-> 0,
                              outcome |-> "none", cleanup |-> "good"]]
    /\ task = [r \in Runs |-> [pc |-> "none", result |-> "none"]]
    /\ route = [r \in Runs |-> "open"]
    /\ answered = {}
    /\ executed = {}

-----------------------------------------------------------------------------
(* ApprovalRepository: every operation reads the clock, then runs its       *)
(* UPDATEs.                                                                 *)

Readings == {t \in 0 .. now : now - t <= MaxDelay}

Settled(x, status, t) == [x EXCEPT !.status = status, !.decided = t]

(* Mutant: a status the table's CHECK constraint does not list. *)
ExpiredAsTimeout(rows, K, t) ==
    [k \in Keys |-> IF k \in K /\ rows[k].status = "pending" /\ rows[k].expires <= t
                    THEN Settled(rows[k], "timeout", t) ELSE rows[k]]

(* The UPDATE that persists the expiry of the due rows among K. *)
Expired(rows, K, t) ==
    [k \in Keys |-> IF k \in K /\ rows[k].status = "pending" /\ rows[k].expires <= t
                    THEN Settled(rows[k], "expired", t) ELSE rows[k]]

(* reserve(): the unique constraint admits one row for a key. *)
Insert(k, signature, t) ==
    /\ row[k].status = "none"
    /\ row' = [row EXCEPT ![k] = [status |-> "pending", signature |-> signature,
                                  expires |-> t + ApprovalTicks, decided |-> 0]]

(* Mutant: a decision does not require the row to be pending. *)
LiveUnchecked(x, t) == x.status # "none" /\ x.expires > t

(* The condition of the UPDATE of the three decide operations. *)
Live(x, t) == x.status = "pending" /\ x.expires > t

DecideRow(rows, k, verdict, t) ==
    IF Live(rows[k], t) THEN [rows EXCEPT ![k] = Settled(rows[k], verdict, t)] ELSE rows

Acknowledge(u, rows, k, verdict, t) ==
    answered' = IF Live(rows[k], t)
                THEN answered \cup {[user |-> u, key |-> k, verdict |-> verdict]}
                ELSE answered

OfOwner(u, i) == {k \in Keys : Owner[k[1]] = u /\ k[2] = i}

(* decide_exact_for_owner(), behind POST /approve/{tool_call_id} *)
DecideExact(u, k, verdict, t) ==
    /\ Owner[k[1]] = u
    /\ LET rows == Expired(row, {k}, t) IN
         /\ row' = DecideRow(rows, k, verdict, t)
         /\ Acknowledge(u, rows, k, verdict, t)
    /\ UNCHANGED <<now, run, task, route, executed>>

(* decide_for_owner(): by approval id, without persisting the expiry *)
DecideById(u, k, verdict, t) ==
    /\ Owner[k[1]] = u
    /\ row' = DecideRow(row, k, verdict, t)
    /\ Acknowledge(u, row, k, verdict, t)
    /\ UNCHANGED <<now, run, task, route, executed>>

(* decide_unique_for_owner(): only when one live row has the tool_call_id *)
DecideUnique(u, k, verdict, t) ==
    LET rows == Expired(row, OfOwner(u, k[2]), t)
        live == {x \in OfOwner(u, k[2]) : Live(rows[x], t)}
    IN  /\ Owner[k[1]] = u
        /\ IF live = {k}
           THEN row' = DecideRow(rows, k, verdict, t) /\ Acknowledge(u, rows, k, verdict, t)
           ELSE row' = rows /\ UNCHANGED answered
        /\ UNCHANGED <<now, run, task, route, executed>>

(* get_owner(), find_pending_by_tool_call(), expire_due(), pending_count() *)
Lookup(K, t) ==
    /\ row' = Expired(row, K, t)
    /\ UNCHANGED <<now, run, task, route, answered, executed>>

(* Mutant: an expired request is cancelled as well. *)
CancelOneUnlessDecided(k, signature, t) ==
    row' = IF row[k].status \in {"pending", "expired"} /\ row[k].signature = signature
           THEN [row EXCEPT ![k] = Settled(row[k], "cancelled", t)] ELSE row

(* cancel_one() of an exact binding *)
CancelOne(k, signature, t) ==
    row' = IF row[k].status = "pending" /\ row[k].signature = signature
           THEN [row EXCEPT ![k] = Settled(row[k], "cancelled", t)] ELSE row

(* cancel_run() *)
CancelAll(r, t) ==
    row' = [k \in Keys |-> IF k[1] = r /\ row[k].status = "pending"
                           THEN Settled(row[k], "cancelled", t) ELSE row[k]]

-----------------------------------------------------------------------------
(* The runtime: batches, their calls and the key of the call at hand *)

Batch(r) == Batches[r][run[r].batch]
Current(r) == Batch(r)[run[r].pos]
Key(r) == <<r, Id[Current(r)]>>

(* seen_calls: a call repeats the tool and the arguments of an earlier one. *)
DuplicateAt(r, b, i) ==
    \E c \in 1 .. b : \E j \in 1 .. Len(Batches[r][c]) :
        /\ c < b \/ j < i
        /\ Signature[Batches[r][c][j]] = Signature[Batches[r][b][i]]
Duplicate(r) == DuplicateAt(r, run[r].batch, run[r].pos)

At(r, pc) == run[r].pc = pc
Goto(r, pc) == run' = [run EXCEPT ![r].pc = pc]

(* Mutant: a run that ends by itself does not reach the finally block. *)
EndKeepingRoute(r) == run' = [run EXCEPT ![r].pc = "ended"] /\ UNCHANGED route

(* The coroutine returns or raises and its route starts its finally block. *)
End(r) ==
    /\ run' = [run EXCEPT ![r].pc = "ended"]
    /\ route' = [route EXCEPT ![r] = IF route[r] = "open" THEN "closing" ELSE route[r]]

(* run() sets the deadline; the clock's bound leaves time for it to pass. *)
Start(r) ==
    /\ At(r, "new")
    /\ now + RunTicks < MaxClock
    /\ run' = [run EXCEPT ![r].pc = "batch", ![r].started = now]
    /\ UNCHANGED <<now, row, task, route, answered, executed>>

(* Every call of the batch is authorised. *)
BatchPrepared(r) ==
    /\ At(r, "batch")
    /\ run[r].batch <= Len(Batches[r])
    /\ run[r].pos > Len(Batch(r))
    /\ run' = [run EXCEPT ![r].pc = "execute", ![r].pos = 1]
    /\ UNCHANGED <<now, row, task, route, answered, executed>>

(* _prepare_policy_batch() and _enforce_policy() up to the decision: a      *)
(* duplicate is skipped, an allowed call is bound, ASK goes on.             *)
Evaluate(r) ==
    /\ At(r, "batch")
    /\ run[r].batch <= Len(Batches[r])
    /\ run[r].pos <= Len(Batch(r))
    /\ Duplicate(r) \/ Policy[Current(r)] # "deny"
    /\ run' = IF Duplicate(r) \/ Policy[Current(r)] = "allow"
              THEN [run EXCEPT ![r].pos = run[r].pos + 1]
              ELSE [run EXCEPT ![r].pc = "prepare"]
    /\ UNCHANGED <<now, row, task, route, answered, executed>>

(* DENY, missing metadata, a policy engine that fails, a binding that       *)
(* changed; or the run has no further batch and completes.                  *)
Refuse(r) ==
    /\ At(r, "batch")
    /\ End(r)
    /\ UNCHANGED <<now, row, task, answered, executed>>

(* prepare(): reserve() commits and answers *)
Prepare(r) ==
    /\ At(r, "prepare") /\ route[r] = "open"
    /\ \E t \in Readings : Insert(Key(r), Signature[Current(r)], t)
    /\ Goto(r, "prepared")
    /\ UNCHANGED <<now, task, route, answered, executed>>

(* Mutant: a failed prepare() is not cleaned up. *)
PrepareFailsUncleaned(r) ==
    /\ At(r, "prepare")
    /\ \/ UNCHANGED row
       \/ \E t \in Readings : Insert(Key(r), Signature[Current(r)], t)
    /\ End(r)
    /\ UNCHANGED <<now, task, answered, executed>>

(* prepare() raises: the key is taken, the database failed before or after  *)
(* the commit, or the run was interrupted.                                  *)
PrepareFails(r) ==
    /\ At(r, "prepare")
    /\ \/ UNCHANGED row
       \/ \E t \in Readings : Insert(Key(r), Signature[Current(r)], t)
    /\ Goto(r, "cancelling")
    /\ UNCHANGED <<now, task, route, answered, executed>>

(* DeadlineExceededError between prepare() and the event: nothing is        *)
(* cancelled here.                                                          *)
PreparedTooLate(r) ==
    /\ At(r, "prepared")
    /\ now >= run[r].started + RunTicks
    /\ End(r)
    /\ UNCHANGED <<now, row, task, answered, executed>>

MinOf(a, b) == IF a <= b THEN a ELSE b

(* APPROVAL_REQUIRED is emitted and authorize() starts as a task. *)
Announce(r) ==
    /\ At(r, "prepared")
    /\ now < run[r].started + RunTicks
    /\ run' = [run EXCEPT ![r].pc = "wait",
                          ![r].timer = MinOf(run[r].started + RunTicks, now + ApprovalTicks)]
    /\ task' = [task EXCEPT ![r] = [pc |-> "first", result |-> "none"]]
    /\ UNCHANGED <<now, row, route, answered, executed>>

(* The event sink raises, or no time is left after the event. *)
AnnounceFails(r) ==
    /\ At(r, "prepared")
    /\ Goto(r, "cancelling")
    /\ UNCHANGED <<now, row, task, route, answered, executed>>

(* authorization_task.cancel() of a task that is not done; it is detached. *)
Detached(x) ==
    IF x.pc \in {"first", "poll"} THEN [pc |-> "cancelling", result |-> "none"]
    ELSE [pc |-> "none", result |-> "none"]

(* asyncio.wait() returns in time with the task done. *)
Decided(r) ==
    /\ At(r, "wait")
    /\ task[r].pc = "done"
    /\ now < run[r].timer
    /\ run' = [run EXCEPT ![r].pc = "cleanup", ![r].outcome = task[r].result]
    /\ task' = [task EXCEPT ![r] = [pc |-> "none", result |-> "none"]]
    /\ UNCHANGED <<now, row, route, answered, executed>>

(* It times out, or the task's result comes too late. *)
WaitTimeout(r) ==
    /\ At(r, "wait")
    /\ now >= run[r].timer
    /\ run' = [run EXCEPT ![r].pc = "cleanup", ![r].outcome = "timeout"]
    /\ task' = [task EXCEPT ![r] = Detached(task[r])]
    /\ UNCHANGED <<now, row, route, answered, executed>>

(* Mutant: whatever the task returns but a denial authorises the call. *)
AfterCleanupFailOpen(r, cleanup) ==
    IF run[r].outcome \in {"approved", "expired", "error"}
    THEN /\ run' = [run EXCEPT ![r].pc = "batch", ![r].pos = run[r].pos + 1,
                               ![r].outcome = "none", ![r].cleanup = cleanup]
         /\ UNCHANGED route
    ELSE /\ run' = [run EXCEPT ![r].pc = "ended", ![r].cleanup = cleanup]
         /\ route' = [route EXCEPT ![r] = IF route[r] = "open" THEN "closing" ELSE route[r]]

(* The finally block's cancel(), whose errors are suppressed; an approval   *)
(* binds the call, everything else ends the run.                            *)
AfterCleanup(r, cleanup) ==
    IF run[r].outcome = "approved"
    THEN /\ run' = [run EXCEPT ![r].pc = "batch", ![r].pos = run[r].pos + 1,
                               ![r].outcome = "none", ![r].cleanup = cleanup]
         /\ UNCHANGED route
    ELSE /\ run' = [run EXCEPT ![r].pc = "ended", ![r].cleanup = cleanup]
         /\ route' = [route EXCEPT ![r] = IF route[r] = "open" THEN "closing" ELSE route[r]]

Cleanup(r) ==
    /\ At(r, "cleanup")
    /\ \/ /\ \E t \in Readings : CancelOne(Key(r), Signature[Current(r)], t)
          /\ AfterCleanup(r, run[r].cleanup)
       \/ UNCHANGED row /\ AfterCleanup(r, "failed")
    /\ UNCHANGED <<now, task, answered, executed>>

(* cancel() on the way out of prepare() and of the event *)
CancelAndEnd(r) ==
    /\ At(r, "cancelling")
    /\ \/ /\ \E t \in Readings : CancelOne(Key(r), Signature[Current(r)], t)
          /\ run' = [run EXCEPT ![r].pc = "ended"]
       \/ /\ UNCHANGED row
          /\ run' = [run EXCEPT ![r].pc = "ended", ![r].cleanup = "failed"]
    /\ route' = [route EXCEPT ![r] = IF route[r] = "open" THEN "closing" ELSE route[r]]
    /\ UNCHANGED <<now, task, answered, executed>>

(* The calls of a prepared batch are dispatched one by one; the next        *)
(* provider answer follows.                                                 *)
Execute(r) ==
    /\ At(r, "execute")
    /\ IF run[r].pos <= Len(Batch(r))
       THEN /\ run' = [run EXCEPT ![r].pos = run[r].pos + 1]
            /\ executed' = IF Duplicate(r) THEN executed ELSE executed \cup {<<r, run[r].batch, run[r].pos>>}
       ELSE /\ run' = [run EXCEPT ![r].pc = "batch", ![r].batch = run[r].batch + 1, ![r].pos = 1]
            /\ UNCHANGED executed
    /\ UNCHANGED <<now, row, task, route, answered>>

(* CancelledError at the await where the coroutine stands: the deadline of  *)
(* run() fired or the client disconnected.  The coroutine is detached: a    *)
(* reserve() in flight may still commit, and its cleanup runs while its     *)
(* route goes on.                                                           *)
Interrupted(r) ==
    /\ route[r] = "open"
    /\ route' = [route EXCEPT ![r] = "closing"]
    /\ \/ /\ run[r].pc \in {"batch", "execute"}
          /\ Goto(r, "ended") /\ UNCHANGED <<row, task>>
       \/ /\ At(r, "prepare")
          /\ UNCHANGED <<row, run, task>>
       \/ /\ At(r, "prepared")
          /\ Goto(r, "cancelling") /\ UNCHANGED <<row, task>>
       \/ /\ At(r, "wait")
          /\ run' = [run EXCEPT ![r].pc = "cleanup", ![r].outcome = "cancelled"]
          /\ task' = [task EXCEPT ![r] = Detached(task[r])]
          /\ UNCHANGED row
       \/ /\ run[r].pc \in {"cleanup", "cancelling"}
          /\ \/ UNCHANGED row
             \/ \E t \in Readings : CancelOne(Key(r), Signature[Current(r)], t)
          /\ Goto(r, "ended") /\ UNCHANGED task
    /\ UNCHANGED <<now, answered, executed>>

Disconnect(r) == Interrupted(r)
DeadlineFires(r) == now >= run[r].started + RunTicks /\ Interrupted(r)

-----------------------------------------------------------------------------
(* DurableApprovalBroker.wait_for_decision() *)

Matching(r) == row[Key(r)].status # "none" /\ row[Key(r)].signature = Signature[Current(r)]

(* get_exact_binding(); at the deadline it is asked as of expires_at. *)
Poll(r) ==
    /\ task[r].pc \in {"first", "poll"}
    /\ \E t \in IF task[r].pc = "poll" /\ now >= row[Key(r)].expires
                THEN {row[Key(r)].expires} ELSE Readings :
         LET rows == Expired(row, IF Matching(r) THEN {Key(r)} ELSE {}, t) IN
           /\ row' = rows
           /\ task' = [task EXCEPT ![r] =
                 IF ~Matching(r) THEN [pc |-> "done", result |-> "error"]
                 ELSE IF rows[Key(r)].status = "pending" THEN [pc |-> "poll", result |-> "none"]
                 ELSE [pc |-> "done", result |-> rows[Key(r)].status]]
    /\ UNCHANGED <<now, run, route, answered, executed>>

(* A database error while polling ends the task. *)
PollFails(r) ==
    /\ task[r].pc \in {"first", "poll"}
    /\ task' = [task EXCEPT ![r] = [pc |-> "done", result |-> "error"]]
    /\ UNCHANGED <<now, row, run, route, answered, executed>>

(* The cancelled task cancels its reservation and ends. *)
TaskCancelled(r) ==
    /\ task[r].pc = "cancelling"
    /\ \/ \E t \in Readings : CancelOne(Key(r), Signature[Current(r)], t)
       \/ UNCHANGED row
    /\ task' = [task EXCEPT ![r] = [pc |-> "none", result |-> "none"]]
    /\ UNCHANGED <<now, run, route, answered, executed>>

-----------------------------------------------------------------------------
(* The finally block of event_stream() *)
CancelRun(r) ==
    /\ route[r] = "closing"
    /\ \/ /\ \E t \in Readings : CancelAll(r, t)
          /\ UNCHANGED run
       \/ /\ run' = [run EXCEPT ![r].cleanup = "failed"]
          /\ UNCHANGED row
    /\ route' = [route EXCEPT ![r] = "closed"]
    /\ UNCHANGED <<now, task, answered, executed>>

(* The process dies with the run, its task and its route. *)
Crash(r) ==
    /\ run[r].pc \notin {"new", "dead"}
    /\ run' = [run EXCEPT ![r].pc = "dead"]
    /\ task' = [task EXCEPT ![r] = [pc |-> "none", result |-> "none"]]
    /\ route' = [route EXCEPT ![r] = "closed"]
    /\ UNCHANGED <<now, row, answered, executed>>

Tick ==
    /\ now < MaxClock
    /\ now' = now + 1
    /\ UNCHANGED <<row, run, task, route, answered, executed>>

-----------------------------------------------------------------------------
Engine(r) ==
    \/ Start(r) \/ BatchPrepared(r) \/ Evaluate(r) \/ Refuse(r)
    \/ Prepare(r) \/ PrepareFails(r) \/ PreparedTooLate(r) \/ Announce(r) \/ AnnounceFails(r)
    \/ Decided(r) \/ WaitTimeout(r) \/ Cleanup(r) \/ CancelAndEnd(r) \/ Execute(r)

Broker(r) == Poll(r) \/ PollFails(r) \/ TaskCancelled(r)

Deciders ==
    \E u \in Users, k \in Keys, verdict \in Verdicts, t \in Readings :
        \/ DecideExact(u, k, verdict, t)
        \/ DecideById(u, k, verdict, t)
        \/ DecideUnique(u, k, verdict, t)

Lookups ==
    \E t \in Readings :
        \/ Lookup(Keys, t)
        \/ \E k \in Keys : Lookup({k}, t)
        \/ \E u \in Users, i \in Ids : Lookup(OfOwner(u, i), t)

Next ==
    \/ \E r \in Runs : Engine(r) \/ Broker(r) \/ CancelRun(r) \/ Crash(r)
                       \/ Disconnect(r) \/ DeadlineFires(r)
    \/ Deciders \/ Lookups \/ Tick

Spec == Init /\ [][Next]_vars

(* Time passes, timers fire and coroutines run on; nobody has to decide. *)
FairSpec ==
    /\ Spec
    /\ WF_vars(Tick)
    /\ \A r \in Runs : /\ WF_vars(Engine(r)) /\ WF_vars(Broker(r))
                       /\ WF_vars(CancelRun(r)) /\ WF_vars(DeadlineFires(r))

-----------------------------------------------------------------------------
(* Properties *)

(* Every variable has its type: a receipt has one of the statuses that the  *)
(* table's CHECK constraint lists.                                          *)
TypeOK ==
    /\ now \in Nat
    /\ row \in [Keys -> Row]
    /\ run \in [Runs -> RunState]
    /\ task \in [Runs -> TaskState]
    /\ route \in [Runs -> Routes]
    /\ answered \subseteq Answers
    /\ executed \subseteq Runs \X Nat \X Nat

(* The owner of run r approved exactly this call before the request expired. *)
Consent(r, c) ==
    LET k == <<r, Id[c]>> IN
    /\ row[k].status = "approved"
    /\ row[k].signature = Signature[c]
    /\ row[k].decided < row[k].expires
    /\ [user |-> Owner[r], key |-> k, verdict |-> "approved"] \in answered

(* A tool runs only when every call of its batch that is not a duplicate    *)
(* is allowed by the policy or was approved by the owner in time, under its *)
(* own arguments, whatever timeouts, expiries, late decisions, reused       *)
(* tool_call_ids and interruptions it met.                                  *)
ExecutedOnlyWithConsent ==
    \A x \in executed : \A i \in 1 .. Len(Batches[x[1]][x[2]]) :
        LET c == Batches[x[1]][x[2]][i] IN
        \/ DuplicateAt(x[1], x[2], i)
        \/ Policy[c] = "allow"
        \/ Policy[c] = "ask" /\ Consent(x[1], c)

(* A decision that was acknowledged to an owner stands: no later decision,  *)
(* expiry, cancellation or reservation changes the receipt.                 *)
AcknowledgedDecisionsStand ==
    \A a \in answered : Owner[a.key[1]] = a.user /\ row[a.key].status = a.verdict

(* When a run has ended, its task has ended and its route has closed, no    *)
(* request of the run is left pending, unless a database error or a crash   *)
(* stopped a cleanup.                                                       *)
EndedRunsLeaveNothingPending ==
    \A r \in Runs :
        /\ run[r].pc = "ended" /\ run[r].cleanup = "good"
        /\ task[r].pc = "none" /\ route[r] = "closed"
        => \A i \in Ids : row[<<r, i>>].status # "pending"

(* A receipt is an audit record: once terminal it never changes again. *)
ReceiptsAreFinal ==
    [][\A k \in Keys : row[k].status \notin {"none", "pending"} => row'[k] = row[k]]_vars

(* Every run ends and its route closes, though nobody decides. *)
EveryRunEnds ==
    \A r \in Runs : run[r].pc = "batch" ~>
        run[r].pc \in {"ended", "dead"} /\ route[r] = "closed" /\ task[r].pc = "none"
==============================================================================
