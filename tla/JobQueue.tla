------------------------------ MODULE JobQueue ------------------------------
(***************************************************************************)
(* The durable background-job queue: the rows of background_jobs, the      *)
(* create calls of the task API, the owner's cancel and retry, and the     *)
(* worker loops that recover, claim, run, renew and report jobs            *)
(* (backend/app/services/task_queue.py, backend/app/workers/jobs.py).      *)
(*                                                                         *)
(* Time is relative: a stored deadline is the number of ticks from the     *)
(* present instant to it, so that Tick decrements it and no clock grows.   *)
(* Every transaction compares stored deadlines with a clock reading taken  *)
(* before the transaction began, on some host: the reading is the present  *)
(* instant plus an error in -MaxSkew .. MaxSkew, chosen afresh per call.   *)
(***************************************************************************)
EXTENDS Integers, FiniteSets

CONSTANTS
    Jobs,          \* job_id values (uuid4)
    Calls,         \* create() calls, each made once
    Keys,          \* (owner, project, idempotency_key) triples
    NoKey,         \* a create() without an idempotency key
    Kinds,         \* job kind together with its payload
    Limits,        \* the max_attempts values callers ask for
    Workers,       \* worker processes
    WorkerIds,     \* worker_id values
    WorkerId,      \* [Workers -> WorkerIds], not necessarily injective
    Handlers,      \* [Workers -> SUBSET Kinds], the registered handlers
    NoJob, NoWorker,
    LeaseTicks,    \* lease_seconds
    BaseBackoff,   \* base_backoff_seconds
    HandlerTicks,  \* handler_timeout_seconds
    MaxSkew,       \* bound on the error of a clock reading
    MaxRetries     \* bound on the manual retries of one job

(* base_backoff * 2 ** (attempts - 1): the delay before the next attempt.   *)
Backoff(attempts) == BaseBackoff * 2^(attempts - 1)

ASSUME SetAssumption ==
    /\ Kinds # {} /\ Limits # {}
    /\ NoKey \notin Keys
    /\ NoJob \notin Jobs
    /\ "none" \notin Jobs /\ "conflict" \notin Jobs
    /\ NoWorker \notin WorkerIds
    /\ WorkerId \in [Workers -> WorkerIds]
    /\ Handlers \in [Workers -> SUBSET Kinds]
ASSUME NumberAssumption ==
    /\ Limits \subseteq Nat \ {0}
    /\ LeaseTicks \in Nat \ {0}
    /\ HandlerTicks \in Nat \ {0}
    /\ BaseBackoff \in Nat
    /\ MaxSkew \in Nat
    /\ MaxRetries \in Nat
ASSUME BackoffAssumption ==
    \A limit \in Limits : \A n \in 1 .. limit : Backoff(n) \in Nat

VARIABLES
    row,      \* the table background_jobs
    retries,  \* manual retries made so far of each job
    call,     \* the create() calls
    worker    \* the worker loops

vars == <<row, retries, call, worker>>

-----------------------------------------------------------------------------
(* Clock readings and relative deadlines.                                   *)

Readings == (-MaxSkew) .. MaxSkew
Long == -(MaxSkew + 1)     \* passed on every host's clock
Null == -(MaxSkew + 2)     \* SQL NULL in a DateTime column

Elapse(t) == IF t > Long THEN t - 1 ELSE t

-----------------------------------------------------------------------------
(* Rows.  status "absent" is a job_id no row has yet.  result is the lease  *)
(* generation whose result_json is stored, 0 for NULL.                      *)

Live == {"pending", "running"}
Retryable == {"failed", "dead_letter"}
Terminal == {"succeeded", "cancelled"} \cup Retryable
Status == {"absent"} \cup Live \cup Terminal

Row == [status : Status, key : Keys \cup {NoKey}, kind : Kinds, limit : Limits,
        attempts : Nat, gen : Nat, worker : WorkerIds \cup {NoWorker},
        lease : Int, avail : Int, completed : {"null", "set"}, result : Nat]

(* A job_id without a row; its columns are placeholders.                    *)
NoRow == [status |-> "absent", key |-> NoKey, kind |-> CHOOSE k \in Kinds : TRUE,
          limit |-> CHOOSE n \in Limits : TRUE, attempts |-> 0, gen |-> 0,
          worker |-> NoWorker, lease |-> Null, avail |-> Null,
          completed |-> "null", result |-> 0]

Exists(j) == row[j].status # "absent"

(* The columns every statement that ends a lease sets: worker_id,           *)
(* lease_expires_at, status and completed_at.                               *)
Released(x, status) ==
    [x EXCEPT !.status = status, !.worker = NoWorker, !.lease = Null,
              !.completed = IF status \in Terminal THEN "set" ELSE "null"]

(* A claim is the ClaimedJob a worker holds; max_attempts never changes, so *)
(* it is read from the row.                                                 *)
NoClaim == [job |-> NoJob, attempts |-> 0, gen |-> 0]
Claims == [job : Jobs, attempts : Nat, gen : Nat]

(* Mutant: the ownership test without lease_generation.                     *)
OwnsNoFence(w, c, now) ==
    LET x == row[c.job] IN
    /\ x.worker = WorkerId[w]
    /\ x.attempts = c.attempts
    /\ x.status = "running"
    /\ x.lease > now

(* The WHERE clause shared by heartbeat, succeed and fail.                  *)
Owns(w, c, now) ==
    LET x == row[c.job] IN
    /\ x.worker = WorkerId[w]
    /\ x.attempts = c.attempts
    /\ x.gen = c.gen
    /\ x.status = "running"
    /\ x.lease > now

-----------------------------------------------------------------------------
(* create(): the lookup by idempotency key and the insert are two           *)
(* statements; the unique constraint turns a lost race into IntegrityError. *)

Request == [key : Keys \cup {NoKey}, kind : Kinds, limit : Limits]
AnyRequest == CHOOSE req \in Request : TRUE   \* not read before the lookup
Reply == Jobs \cup {"none", "conflict"}
CallState == [pc : {"start", "insert", "done"}, req : Request, reply : Reply]

ExistingJobs(key) == {j \in Jobs : key # NoKey /\ Exists(j) /\ row[j].key = key}

ExistingView(j, req) ==
    IF row[j].kind = req.kind /\ row[j].limit = req.limit THEN j ELSE "conflict"

CreateLookup(c, req) ==
    /\ call[c].pc = "start"
    /\ call' = [call EXCEPT ![c] =
         IF ExistingJobs(req.key) = {}
           THEN [pc |-> "insert", req |-> req, reply |-> "none"]
           ELSE LET j == CHOOSE k \in ExistingJobs(req.key) : TRUE
                IN  [pc |-> "done", req |-> req, reply |-> ExistingView(j, req)]]
    /\ UNCHANGED <<row, retries, worker>>

(* Mutant: no unique constraint on the idempotency key.                     *)
CreateInsertUnchecked(c, j, now) ==
    LET req == call[c].req IN
    /\ call[c].pc = "insert"
    /\ ~Exists(j)
    /\ row' = [row EXCEPT ![j] =
         [status |-> "pending", key |-> req.key, kind |-> req.kind,
          limit |-> req.limit, attempts |-> 0, gen |-> 0,
          worker |-> NoWorker, lease |-> Null, avail |-> now,
          completed |-> "null", result |-> 0]]
    /\ call' = [call EXCEPT ![c].pc = "done", ![c].reply = j]
    /\ UNCHANGED <<retries, worker>>

CreateInsert(c, j, now) ==
    LET req == call[c].req IN
    /\ call[c].pc = "insert"
    /\ ExistingJobs(req.key) = {}
    /\ ~Exists(j)
    /\ row' = [row EXCEPT ![j] =
         [status |-> "pending", key |-> req.key, kind |-> req.kind,
          limit |-> req.limit, attempts |-> 0, gen |-> 0,
          worker |-> NoWorker, lease |-> Null, avail |-> now,
          completed |-> "null", result |-> 0]]
    /\ call' = [call EXCEPT ![c].pc = "done", ![c].reply = j]
    /\ UNCHANGED <<retries, worker>>

CreateRaceLost(c) ==
    LET req == call[c].req IN
    /\ call[c].pc = "insert"
    /\ \E j \in ExistingJobs(req.key) :
         call' = [call EXCEPT ![c].pc = "done", ![c].reply = ExistingView(j, req)]
    /\ UNCHANGED <<row, retries, worker>>

-----------------------------------------------------------------------------
(* cancel() and retry() by the owner.  A caller outside the job's scope     *)
(* matches no row.                                                          *)

(* Mutant: cancel() without its status condition.                           *)
CancelAnything(j) ==
    /\ Exists(j)
    /\ row' = [row EXCEPT ![j] = Released(@, "cancelled")]
    /\ UNCHANGED <<retries, call, worker>>

Cancel(j) ==
    /\ row[j].status \in Live
    /\ row' = [row EXCEPT ![j] = Released(@, "cancelled")]
    /\ UNCHANGED <<retries, call, worker>>

Retry(j, now) ==
    /\ row[j].status \in Retryable
    /\ retries[j] < MaxRetries
    /\ row' = [row EXCEPT ![j].status = "pending", ![j].attempts = 0,
                          ![j].avail = now, ![j].completed = "null"]
    /\ retries' = [retries EXCEPT ![j] = @ + 1]
    /\ UNCHANGED <<call, worker>>

-----------------------------------------------------------------------------
(* The worker loop.  pc: "poll" before recover_expired, "claim" before      *)
(* claim, "handle" while the handler runs, "report" before succeed or fail. *)
(* left is the time to the handler's deadline.                              *)

Reports == {"none", "succeed", "retryable", "permanent"}
Idle == [pc |-> "poll", claim |-> NoClaim, left |-> 0, report |-> "none"]
WorkerState == [pc : {"poll", "claim", "handle", "report"},
                claim : Claims \cup {NoClaim}, left : Nat, report : Reports]

RecoveredStillLeased(x, now) ==
    IF x.status # "running" \/ x.lease >= now THEN x
    ELSE [x EXCEPT !.status = "pending", !.avail = now]

RecoveredNeverDead(x, now) ==
    IF x.status = "running" /\ x.lease < now /\ x.attempts < x.limit
      THEN [Released(x, "pending") EXCEPT !.avail = now]
      ELSE x

(* recover_expired(): both UPDATEs of its transaction.                      *)
Recovered(x, now) ==
    IF x.status # "running" \/ x.lease >= now THEN x
    ELSE IF x.attempts < x.limit
           THEN [Released(x, "pending") EXCEPT !.avail = now]
           ELSE Released(x, "dead_letter")

RecoverExpired(w, now) ==
    /\ worker[w].pc = "poll"
    /\ row' = [j \in Jobs |-> Recovered(row[j], now)]
    /\ worker' = [worker EXCEPT ![w].pc = "claim"]
    /\ UNCHANGED <<retries, call>>

Claimable(now) ==
    {j \in Jobs : /\ row[j].status = "pending"
                  /\ row[j].avail <= now
                  /\ row[j].attempts < row[j].limit}

(* Mutants of claim: the generation, or the attempt, is not counted.        *)
ClaimRowSameFence(x, w, now) ==
    [x EXCEPT !.status = "running", !.worker = WorkerId[w],
              !.attempts = @ + 1, !.lease = now + LeaseTicks]

ClaimRowSameAttempt(x, w, now) ==
    [x EXCEPT !.status = "running", !.worker = WorkerId[w],
              !.gen = @ + 1, !.lease = now + LeaseTicks]

(* The row claim() writes. *)
ClaimRow(x, w, now) ==
    [x EXCEPT !.status = "running", !.worker = WorkerId[w],
              !.attempts = x.attempts + 1, !.gen = x.gen + 1,
              !.lease = now + LeaseTicks]

(* claim(): the oldest claimable job, ordered by available_at.              *)
Claim(w, j, now) ==
    LET x == ClaimRow(row[j], w, now)
        c == [job |-> j, attempts |-> x.attempts, gen |-> x.gen]
    IN
    /\ worker[w].pc = "claim"
    /\ j \in Claimable(now)
    /\ \A k \in Claimable(now) : row[j].avail <= row[k].avail
    /\ row' = [row EXCEPT ![j] = x]
    /\ worker' = [worker EXCEPT ![w] =
         IF x.kind \in Handlers[w]
           THEN [pc |-> "handle", claim |-> c, left |-> HandlerTicks, report |-> "none"]
           ELSE [pc |-> "report", claim |-> c, left |-> 0, report |-> "permanent"]]
    /\ UNCHANGED <<retries, call>>

ClaimNothing(w, now) ==
    /\ worker[w].pc = "claim"
    /\ Claimable(now) = {}
    /\ worker' = [worker EXCEPT ![w] = Idle]
    /\ UNCHANGED <<row, retries, call>>

Reporting(w, report) ==
    worker' = [worker EXCEPT ![w].pc = "report", ![w].left = 0, ![w].report = report]

(* The handler returns, fails or is cancelled ("retryable"), or raises      *)
(* PermanentJobError.  A finished task is noticed before the deadline is.   *)
HandlerEnds(w, report) ==
    /\ worker[w].pc = "handle"
    /\ Reporting(w, report)
    /\ UNCHANGED <<row, retries, call>>

HandlerTimeout(w) ==
    /\ worker[w].pc = "handle"
    /\ worker[w].left = 0
    /\ Reporting(w, "retryable")
    /\ UNCHANGED <<row, retries, call>>

(* heartbeat(): a lost lease abandons the job without a report.             *)
Heartbeat(w, now) ==
    LET c == worker[w].claim IN
    /\ worker[w].pc = "handle"
    /\ worker[w].left > 0
    /\ IF Owns(w, c, now)
         THEN /\ row' = [row EXCEPT ![c.job].lease = now + LeaseTicks]
              /\ UNCHANGED worker
         ELSE /\ worker' = [worker EXCEPT ![w] = Idle]
              /\ UNCHANGED row
    /\ UNCHANGED <<retries, call>>

(* heartbeat() raises a database error, before or after its commit: the     *)
(* exception reaches run_once, which reports handler_failed.                *)
HeartbeatError(w, now) ==
    LET c == worker[w].claim IN
    /\ worker[w].pc = "handle"
    /\ worker[w].left > 0
    /\ \/ UNCHANGED row
       \/ /\ Owns(w, c, now)
          /\ row' = [row EXCEPT ![c.job].lease = now + LeaseTicks]
    /\ Reporting(w, "retryable")
    /\ UNCHANGED <<retries, call>>

(* succeed() *)
SucceedRow(x, c) == [Released(x, "succeeded") EXCEPT !.result = c.gen]

Succeed(w, now) ==
    LET c == worker[w].claim IN
    /\ worker[w].pc = "report"
    /\ worker[w].report = "succeed"
    /\ row' = IF Owns(w, c, now) THEN [row EXCEPT ![c.job] = SucceedRow(@, c)] ELSE row
    /\ worker' = [worker EXCEPT ![w] = Idle]
    /\ UNCHANGED <<retries, call>>

(* succeed() raises: the result is not safe JSON, or the database fails     *)
(* before or after the commit.  run_once then calls fail() on the same      *)
(* claim.                                                                   *)
SucceedError(w, now) ==
    LET c == worker[w].claim IN
    /\ worker[w].pc = "report"
    /\ worker[w].report = "succeed"
    /\ \/ UNCHANGED row
       \/ /\ Owns(w, c, now)
          /\ row' = [row EXCEPT ![c.job] = SucceedRow(@, c)]
    /\ Reporting(w, "retryable")
    /\ UNCHANGED <<retries, call>>

(* fail() *)
FailRow(x, c, report, now) ==
    IF report = "permanent"
      THEN [Released(x, "failed") EXCEPT !.avail = now]
    ELSE IF c.attempts < x.limit
      THEN [Released(x, "pending") EXCEPT !.avail = now + Backoff(c.attempts)]
      ELSE [Released(x, "dead_letter") EXCEPT !.avail = now]

Fail(w, now) ==
    LET c == worker[w].claim IN
    /\ worker[w].pc = "report"
    /\ worker[w].report \in {"retryable", "permanent"}
    /\ row' = IF Owns(w, c, now)
                THEN [row EXCEPT ![c.job] = FailRow(@, c, worker[w].report, now)]
                ELSE row
    /\ worker' = [worker EXCEPT ![w] = Idle]
    /\ UNCHANGED <<retries, call>>

(* The process dies or is shut down, a database error escapes run_once, or  *)
(* claim() finds its candidate taken by a concurrent UPDATE and returns     *)
(* None.                                                                    *)
Abandon(w) ==
    /\ worker[w].pc # "poll"
    /\ worker' = [worker EXCEPT ![w] = Idle]
    /\ UNCHANGED <<row, retries, call>>

Tick ==
    /\ row' = [j \in Jobs |-> [row[j] EXCEPT !.lease = Elapse(@), !.avail = Elapse(@)]]
    /\ worker' = [w \in Workers |-> [worker[w] EXCEPT !.left = IF @ > 0 THEN @ - 1 ELSE 0]]
    /\ UNCHANGED <<retries, call>>

-----------------------------------------------------------------------------
Init ==
    /\ row = [j \in Jobs |-> NoRow]
    /\ retries = [j \in Jobs |-> 0]
    /\ call = [c \in Calls |-> [pc |-> "start", req |-> AnyRequest, reply |-> "none"]]
    /\ worker = [w \in Workers |-> Idle]

Create ==
    \E c \in Calls :
      \/ \E req \in Request : CreateLookup(c, req)
      \/ \E j \in Jobs, now \in Readings : CreateInsert(c, j, now)
      \/ CreateRaceLost(c)

Owner == \E j \in Jobs : Cancel(j) \/ \E now \in Readings : Retry(j, now)

WorkerStep(w) ==
    \/ \E now \in Readings :
         \/ RecoverExpired(w, now)
         \/ \E j \in Jobs : Claim(w, j, now)
         \/ ClaimNothing(w, now)
         \/ Heartbeat(w, now)
         \/ HeartbeatError(w, now)
         \/ Succeed(w, now)
         \/ SucceedError(w, now)
         \/ Fail(w, now)
    \/ \E report \in Reports \ {"none"} : HandlerEnds(w, report)
    \/ HandlerTimeout(w)
    \/ Abandon(w)

Next == Create \/ Owner \/ (\E w \in Workers : WorkerStep(w)) \/ Tick

Spec == Init /\ [][Next]_vars

(* The worker loop never ends and its database calls do not fail forever:   *)
(* run_forever() swallows every exception and polls again, so a worker      *)
(* polls, and claims what is claimable, again and again (strong fairness: a *)
(* crash may interrupt any one round).  A handler is left at its deadline   *)
(* at the latest, a report is made, and time passes.  Owners and callers    *)
(* owe nothing.                                                             *)
Fairness ==
    /\ WF_vars(Tick)
    /\ \A w \in Workers :
         /\ WF_vars(HandlerTimeout(w))
         /\ WF_vars(\E now \in Readings : Succeed(w, now) \/ Fail(w, now))
         /\ WF_vars(\E now \in Readings : ClaimNothing(w, now))
         /\ SF_vars(\E now \in Readings : RecoverExpired(w, now))
         /\ SF_vars(\E j \in Jobs, now \in Readings : Claim(w, j, now))

FairSpec == Spec /\ Fairness

-----------------------------------------------------------------------------
(* Properties.                                                              *)

(* Every variable has its type. *)
TypeOK ==
    /\ row \in [Jobs -> Row]
    /\ retries \in [Jobs -> Nat]
    /\ call \in [Calls -> CallState]
    /\ worker \in [Workers -> WorkerState]

(* The CHECK constraints ck_background_jobs_attempts, _lease_state and      *)
(* _completion_state: were one false after an UPDATE the database would     *)
(* raise IntegrityError out of recover_expired, fail or cancel and the job  *)
(* could never leave its state.                                             *)
RowConstraints ==
    \A j \in Jobs :
      LET x == row[j] IN
      /\ x.attempts <= x.limit
      /\ (x.status = "running") <=> (x.worker # NoWorker)
      /\ (x.status = "running") <=> (x.lease # Null)
      /\ (x.completed = "set") <=> (x.status \in Terminal)

(* Fencing: a result is stored only if it was produced under the latest     *)
(* lease ever granted on the job, even when a worker that reuses the same   *)
(* worker_id reports late, after an expiry and a manual retry that reset    *)
(* attempts (the ABA case of succeed's WHERE clause).                       *)
ResultIsFenced ==
    \A j \in Jobs : row[j].status = "succeeded" => row[j].result = row[j].gen

(* Two worker processes never both pass the ownership test of heartbeat,    *)
(* succeed and fail on the same job, whatever their clocks read.            *)
ExclusiveLease ==
    \A v, w \in Workers :
      /\ worker[v].claim # NoClaim
      /\ worker[w].claim # NoClaim
      /\ worker[v].claim.job = worker[w].claim.job
      /\ Owns(v, worker[v].claim, Long - 1)
      /\ Owns(w, worker[w].claim, Long - 1)
      => v = w

(* Retries terminate: a job is handed to a handler at most max_attempts     *)
(* times, plus max_attempts for each manual retry, however leases expire    *)
(* and reports get lost.                                                    *)
BoundedExecutions ==
    \A j \in Jobs : row[j].gen <= row[j].limit * retries[j] + row[j].attempts

(* Concurrent create() calls with one idempotency key yield one job: no two *)
(* rows share a key, and calls that got a job id got the same one.          *)
IdempotentCreate ==
    /\ \A j, k \in Jobs :
         /\ Exists(j) /\ Exists(k)
         /\ row[j].key # NoKey
         /\ row[j].key = row[k].key
         => j = k
    /\ \A c, d \in Calls :
         /\ call[c].reply \in Jobs /\ call[d].reply \in Jobs
         /\ call[c].req.key # NoKey
         /\ call[c].req.key = call[d].req.key
         => call[c].reply = call[d].reply /\ call[c].req = call[d].req

(* A job neither waits nor runs forever: it succeeds, fails, is cancelled   *)
(* or ends in the dead-letter state, though every worker may crash at every *)
(* attempt.                                                                 *)
EveryJobSettles ==
    \A j \in Jobs : row[j].status \in Live ~> row[j].status \in Terminal

(* The queue implements the documented life cycle: a succeeded or cancelled *)
(* job never changes again, only the owner revives a failed one, and each   *)
(* start takes a new fence.                                                 *)
Lifecycle == INSTANCE JobLifecycle
    WITH phase <- [j \in Jobs |-> row[j].status],
         fence <- [j \in Jobs |-> row[j].gen],
         stored <- [j \in Jobs |-> row[j].result]

ImplementsLifecycle == Lifecycle!Spec
=============================================================================
