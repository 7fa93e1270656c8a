--------------------------- MODULE JobQueueProofs ---------------------------
(***************************************************************************)
(* Type correctness, lease fencing, the table's constraints, the bound on  *)
(* executions, idempotent creation and the refinement of JobLifecycle, for *)
(* every number of jobs, workers and calls, every lease length and every   *)
(* clock error.  FenceInv is about claims and fences; TableInv adds what   *)
(* the rows and the calls under way say of each other.                     *)
(***************************************************************************)
EXTENDS JobQueue, TLAPS

(* A worker holds a claim exactly while it handles or reports a job.        *)
ClaimsHeld ==
    \A w \in Workers :
      IF worker[w].pc \in {"handle", "report"}
        THEN /\ worker[w].claim \in Claims
             /\ worker[w].claim.attempts >= 1
             /\ worker[w].claim.gen <= row[worker[w].claim.job].gen
        ELSE worker[w].claim = NoClaim

(* No two workers hold claims with the same fence on the same job.          *)
DistinctFences ==
    \A v, w \in Workers :
      /\ v # w
      /\ worker[v].claim \in Claims
      /\ worker[w].claim \in Claims
      /\ worker[v].claim.job = worker[w].claim.job
      => worker[v].claim.gen # worker[w].claim.gen

(* A job_id without a row has granted no lease. *)
AbsentUnfenced == \A j \in Jobs : row[j].status = "absent" => row[j].gen = 0

(* The inductive invariant.  Fencing needs it: ResultIsFenced alone says    *)
(* nothing of the claims that late reporters still hold.                    *)
FenceInv ==
    TypeOK /\ ClaimsHeld /\ DistinctFences /\ AbsentUnfenced /\ ResultIsFenced

-----------------------------------------------------------------------------
LEMMA NumberFacts ==
    /\ Null \in Int /\ Long \in Int
    /\ \A now \in Readings : now \in Int /\ now + LeaseTicks \in Int
    /\ \A t \in Int : Elapse(t) \in Int
  BY NumberAssumption DEF Null, Long, Readings, Elapse

LEMMA ReleasedType ==
    ASSUME NEW x \in Row, NEW s \in Status
    PROVE  /\ Released(x, s) \in Row
           /\ Released(x, s).status = s
           /\ Released(x, s).gen = x.gen
           /\ Released(x, s).result = x.result
           /\ Released(x, s).limit = x.limit
           /\ Released(x, s).attempts = x.attempts
<1>1. PICK done \in {"null", "set"} : done = IF s \in Terminal THEN "set" ELSE "null"
  OBVIOUS
<1>2. Released(x, s) =
        [x EXCEPT !.status = s, !.worker = NoWorker, !.lease = Null, !.completed = done]
  BY <1>1 DEF Released
<1>. QED
  BY <1>2, NumberFacts DEF Row

LEMMA RecoveredType ==
    ASSUME NEW x \in Row, NEW now \in Readings
    PROVE  /\ Recovered(x, now) \in Row
           /\ Recovered(x, now).gen = x.gen
           /\ Recovered(x, now).status \in {"succeeded", "absent"} => Recovered(x, now) = x
  <1>1. {"pending", "dead_letter"} \subseteq Status
    BY DEF Status, Live, Terminal, Retryable
  <1>2. now \in Int
    BY NumberFacts
  <1>3. CASE x.status # "running" \/ x.lease >= now
    BY <1>3 DEF Recovered
  <1>4. CASE ~(x.status # "running" \/ x.lease >= now) /\ x.attempts < x.limit
    <2>1. Recovered(x, now) = [Released(x, "pending") EXCEPT !.avail = now]
      BY <1>4 DEF Recovered
    <2>2. QED
      BY <1>1, <1>2, <2>1, ReleasedType DEF Row
  <1>5. CASE ~(x.status # "running" \/ x.lease >= now) /\ ~(x.attempts < x.limit)
    <2>1. Recovered(x, now) = Released(x, "dead_letter")
      BY <1>5 DEF Recovered
    <2>2. QED
      BY <1>1, <2>1, ReleasedType
  <1>6. QED
    BY <1>3, <1>4, <1>5

(* ClaimRow with the new column values as parameters, so that the provers   *)
(* meet no arithmetic inside a record.                                      *)
Leased(x, id, a, g, l) ==
    [x EXCEPT !.status = "running", !.worker = id, !.attempts = a, !.gen = g, !.lease = l]

LEMMA LeasedRowType ==
    ASSUME NEW x \in Row, NEW id \in WorkerIds,
           NEW a \in Nat, NEW g \in Nat, NEW l \in Int
    PROVE  /\ Leased(x, id, a, g, l) \in Row
           /\ Leased(x, id, a, g, l).gen = g
           /\ Leased(x, id, a, g, l).attempts = a
           /\ Leased(x, id, a, g, l).status = "running"
  <1>1. "running" \in Status
    BY DEF Status, Live
  <1>2. QED
    BY <1>1 DEF Leased, Row

LEMMA ClaimRowType ==
    ASSUME NEW x \in Row, NEW w \in Workers, NEW now \in Readings
    PROVE  /\ ClaimRow(x, w, now) \in Row
           /\ ClaimRow(x, w, now).gen = x.gen + 1
           /\ ClaimRow(x, w, now).attempts = x.attempts + 1
           /\ ClaimRow(x, w, now).status = "running"
  <1>1. PICK id \in WorkerIds : id = WorkerId[w]
    BY SetAssumption
  <1>2. PICK l \in Int : l = now + LeaseTicks
    BY NumberFacts
  <1>3. PICK a \in Nat, g \in Nat : a = x.attempts + 1 /\ g = x.gen + 1
    BY DEF Row
  <1>4. ClaimRow(x, w, now) = Leased(x, id, a, g, l)
    BY <1>1, <1>2, <1>3 DEF ClaimRow, Leased
  <1>5. /\ Leased(x, id, a, g, l) \in Row
        /\ Leased(x, id, a, g, l).gen = g
        /\ Leased(x, id, a, g, l).attempts = a
        /\ Leased(x, id, a, g, l).status = "running"
    BY LeasedRowType
  <1>6. QED
    BY <1>3, <1>4, <1>5

LEMMA SucceedRowType ==
    ASSUME NEW x \in Row, NEW c \in Claims
    PROVE  /\ SucceedRow(x, c) \in Row
           /\ SucceedRow(x, c).gen = x.gen
           /\ SucceedRow(x, c).result = c.gen
           /\ SucceedRow(x, c).status = "succeeded"
  <1>1. "succeeded" \in Status
    BY DEF Status, Terminal
  <1>2. QED
    BY <1>1, ReleasedType DEF SucceedRow, Row, Claims

LEMMA FailRowType ==
    ASSUME NEW x \in Row, NEW c \in Claims, NEW report, NEW now \in Readings,
           c.attempts >= 1
    PROVE  /\ FailRow(x, c, report, now) \in Row
           /\ FailRow(x, c, report, now).gen = x.gen
           /\ FailRow(x, c, report, now).status \notin {"succeeded", "absent"}
  <1>1. {"failed", "pending", "dead_letter"} \subseteq Status
    BY DEF Status, Live, Terminal, Retryable
  <1>2. now \in Int
    BY NumberFacts
  <1>3. CASE report = "permanent"
    <2>1. FailRow(x, c, report, now) = [Released(x, "failed") EXCEPT !.avail = now]
      BY <1>3 DEF FailRow
    <2>2. QED
      BY <1>1, <1>2, <2>1, ReleasedType DEF Row
  <1>4. CASE report # "permanent" /\ c.attempts < x.limit
    <2>1. FailRow(x, c, report, now)
            = [Released(x, "pending") EXCEPT !.avail = now + Backoff(c.attempts)]
      BY <1>4 DEF FailRow
    <2>2. Backoff(c.attempts) \in Nat
      <3>1. x.limit \in Limits /\ c.attempts \in Nat
        BY DEF Row, Claims
      <3>2. x.limit \in Nat
        BY <3>1, NumberAssumption
      <3>3. c.attempts \in 1 .. x.limit
        BY <1>4, <3>1, <3>2
      <3>4. QED
        BY <3>1, <3>3, BackoffAssumption
    <2>3. QED
      BY <1>1, <1>2, <2>1, <2>2, ReleasedType DEF Row
  <1>5. CASE report # "permanent" /\ ~(c.attempts < x.limit)
    <2>1. FailRow(x, c, report, now) = [Released(x, "dead_letter") EXCEPT !.avail = now]
      BY <1>5 DEF FailRow
    <2>2. QED
      BY <1>1, <1>2, <2>1, ReleasedType DEF Row
  <1>6. QED
    BY <1>3, <1>4, <1>5

-----------------------------------------------------------------------------
(* Steps that leave the workers' claims alone, or drop them, keep the       *)
(* invariant if they grow no fence and store no foreign result.             *)
LEMMA QuietStep ==
    ASSUME FenceInv, TypeOK',
           \A j \in Jobs : /\ row'[j].gen = row[j].gen
                           /\ row'[j].status = "absent" => row[j].status = "absent"
                           /\ row'[j].status = "succeeded" => row'[j].result = row[j].gen,
           \A w \in Workers :
             \/ /\ worker'[w].claim = worker[w].claim
                /\ (worker[w].pc \in {"handle", "report"})
                   <=> (worker'[w].pc \in {"handle", "report"})
             \/ worker'[w].claim = NoClaim /\ worker'[w].pc \notin {"handle", "report"}
    PROVE  FenceInv'
  <1>1. NoClaim \notin Claims
    BY SetAssumption DEF NoClaim, Claims
  <1>2. ClaimsHeld'
    <2> SUFFICES ASSUME NEW w \in Workers
                 PROVE  IF worker'[w].pc \in {"handle", "report"}
                          THEN /\ worker'[w].claim \in Claims
                               /\ worker'[w].claim.attempts >= 1
                               /\ worker'[w].claim.gen <= row'[worker'[w].claim.job].gen
                          ELSE worker'[w].claim = NoClaim
      BY DEF ClaimsHeld
    <2>1. CASE worker'[w].claim = NoClaim /\ worker'[w].pc \notin {"handle", "report"}
      BY <2>1
    <2>2. CASE /\ worker'[w].claim = worker[w].claim
               /\ (worker[w].pc \in {"handle", "report"})
                  <=> (worker'[w].pc \in {"handle", "report"})
      <3>1. CASE worker[w].pc \in {"handle", "report"}
        <4>1. /\ worker[w].claim \in Claims
              /\ worker[w].claim.attempts >= 1
              /\ worker[w].claim.gen <= row[worker[w].claim.job].gen
          BY <3>1 DEF FenceInv, ClaimsHeld
        <4>2. worker[w].claim.job \in Jobs
          BY <4>1 DEF Claims
        <4>3. QED
          BY <2>2, <3>1, <4>1, <4>2
      <3>2. CASE worker[w].pc \notin {"handle", "report"}
        <4>1. worker[w].claim = NoClaim
          BY <3>2 DEF FenceInv, ClaimsHeld
        <4>2. QED
          BY <2>2, <3>2, <4>1
      <3>3. QED
        BY <3>1, <3>2
    <2>3. QED
      BY <2>1, <2>2
  <1>3. DistinctFences'
    <2> SUFFICES ASSUME NEW v \in Workers, NEW w \in Workers, v # w,
                        worker'[v].claim \in Claims, worker'[w].claim \in Claims,
                        worker'[v].claim.job = worker'[w].claim.job
                 PROVE  worker'[v].claim.gen # worker'[w].claim.gen
      BY DEF DistinctFences
    <2>1. worker'[v].claim = worker[v].claim /\ worker'[w].claim = worker[w].claim
      BY <1>1
    <2>2. QED
      BY <2>1 DEF FenceInv, DistinctFences
  <1>4. ResultIsFenced'
    BY DEF ResultIsFenced
  <1>5. AbsentUnfenced'
    BY DEF FenceInv, AbsentUnfenced
  <1>6. QED
    BY <1>2, <1>3, <1>4, <1>5 DEF FenceInv

-----------------------------------------------------------------------------
(* create() *)

LEMMA ViewType ==
    ASSUME NEW j \in Jobs, NEW req
    PROVE  ExistingView(j, req) \in Reply
  BY DEF ExistingView, Reply

LEMMA FreshRowType ==
    ASSUME NEW req \in Request, NEW now \in Int
    PROVE  [status |-> "pending", key |-> req.key, kind |-> req.kind,
            limit |-> req.limit, attempts |-> 0, gen |-> 0,
            worker |-> NoWorker, lease |-> Null, avail |-> now,
            completed |-> "null", result |-> 0] \in Row
  BY NumberFacts DEF Row, Request, Status, Live

LEMMA CreateLookupStep ==
    ASSUME FenceInv, NEW c \in Calls, NEW req \in Request, CreateLookup(c, req)
    PROVE  FenceInv'
  <1>1. TypeOK'
    <2>1. call' \in [Calls -> CallState]
      <3>1. CASE ExistingJobs(req.key) = {}
        BY <3>1 DEF CreateLookup, FenceInv, TypeOK, CallState, Reply
      <3>2. CASE ExistingJobs(req.key) # {}
        <4>1. PICK j \in Jobs : j = CHOOSE k \in ExistingJobs(req.key) : TRUE
          BY <3>2 DEF ExistingJobs
        <4>2. call' = [call EXCEPT ![c] = [pc |-> "done", req |-> req,
                                            reply |-> ExistingView(j, req)]]
          BY <3>2, <4>1 DEF CreateLookup
        <4>3. QED
          BY <4>2, ViewType DEF FenceInv, TypeOK, CallState
      <3>3. QED
        BY <3>1, <3>2
    <2>2. QED
      BY <2>1 DEF FenceInv, TypeOK, CreateLookup
  <1>2. QED
    BY <1>1, QuietStep DEF CreateLookup, FenceInv, ResultIsFenced

LEMMA CreateInsertStep ==
    ASSUME FenceInv, NEW c \in Calls, NEW j \in Jobs, NEW now \in Readings,
           CreateInsert(c, j, now)
    PROVE  FenceInv'
  <1> DEFINE new == [status |-> "pending", key |-> call[c].req.key,
                     kind |-> call[c].req.kind, limit |-> call[c].req.limit,
                     attempts |-> 0, gen |-> 0, worker |-> NoWorker,
                     lease |-> Null, avail |-> now,
                     completed |-> "null", result |-> 0]
  <1>1. new \in Row /\ new.gen = 0 /\ new.status = "pending"
    <2>1. call[c].req \in Request
      BY DEF FenceInv, TypeOK, CallState
    <2>2. QED
      BY <2>1, FreshRowType, NumberFacts
  <1>2. /\ row' = [row EXCEPT ![j] = new]
        /\ call' = [call EXCEPT ![c].pc = "done", ![c].reply = j]
        /\ UNCHANGED <<retries, worker>>
    BY DEF CreateInsert
  <1> HIDE DEF new
  <1>3. TypeOK'
    <2>1. row' \in [Jobs -> Row]
      BY <1>1, <1>2 DEF FenceInv, TypeOK
    <2>2. call' \in [Calls -> CallState]
      BY <1>2 DEF FenceInv, TypeOK, CallState, Reply
    <2>3. QED
      BY <1>2, <2>1, <2>2 DEF FenceInv, TypeOK
  <1>4. row[j].gen = 0
    BY DEF CreateInsert, Exists, FenceInv, AbsentUnfenced
  <1>5. QED
    BY <1>1, <1>2, <1>3, <1>4, QuietStep DEF FenceInv, TypeOK, ResultIsFenced

LEMMA CreateRaceLostStep ==
    ASSUME FenceInv, NEW c \in Calls, CreateRaceLost(c)
    PROVE  FenceInv'
  <1>1. PICK j \in Jobs :
          call' = [call EXCEPT ![c].pc = "done",
                               ![c].reply = ExistingView(j, call[c].req)]
    BY DEF CreateRaceLost, ExistingJobs
  <1>2. TypeOK'
    BY <1>1, ViewType DEF CreateRaceLost, FenceInv, TypeOK, CallState
  <1>3. QED
    BY <1>2, QuietStep DEF CreateRaceLost, FenceInv, ResultIsFenced

-----------------------------------------------------------------------------
(* cancel() and retry() *)

LEMMA CancelStep ==
    ASSUME FenceInv, NEW j \in Jobs, Cancel(j)
    PROVE  FenceInv'
  <1>1. row[j] \in Row
    BY DEF FenceInv, TypeOK
  <1>2. "cancelled" \in Status
    BY DEF Status, Terminal
  <1>3. /\ Released(row[j], "cancelled") \in Row
        /\ Released(row[j], "cancelled").status = "cancelled"
        /\ Released(row[j], "cancelled").gen = row[j].gen
    BY <1>1, <1>2, ReleasedType
  <1>4. /\ row' = [row EXCEPT ![j] = Released(row[j], "cancelled")]
        /\ UNCHANGED <<retries, call, worker>>
    BY DEF Cancel
  <1>5. TypeOK'
    BY <1>3, <1>4 DEF FenceInv, TypeOK
  <1>6. QED
    BY <1>3, <1>4, <1>5, QuietStep DEF FenceInv, TypeOK, ResultIsFenced

LEMMA RetryStep ==
    ASSUME FenceInv, NEW j \in Jobs, NEW now \in Readings, Retry(j, now)
    PROVE  FenceInv'
  <1> DEFINE new == [row[j] EXCEPT !.status = "pending", !.attempts = 0,
                                   !.avail = now, !.completed = "null"]
  <1>1. row[j] \in Row /\ now \in Int /\ "pending" \in Status
    BY NumberFacts DEF FenceInv, TypeOK, Status, Live
  <1>2. new \in Row /\ new.status = "pending" /\ new.gen = row[j].gen
    BY <1>1 DEF Row
  <1>3. row' = [row EXCEPT ![j] = new] /\ UNCHANGED <<call, worker>>
    BY <1>1 DEF Retry, FenceInv, TypeOK
  <1>4. retries' \in [Jobs -> Nat]
    BY DEF Retry, FenceInv, TypeOK
  <1> HIDE DEF new
  <1>5. TypeOK'
    BY <1>2, <1>3, <1>4 DEF FenceInv, TypeOK
  <1>6. QED
    BY <1>2, <1>3, <1>5, QuietStep DEF FenceInv, TypeOK, ResultIsFenced

-----------------------------------------------------------------------------
(* The worker loop *)

LEMMA RecoverExpiredStep ==
    ASSUME FenceInv, NEW w \in Workers, NEW now \in Readings, RecoverExpired(w, now)
    PROVE  FenceInv'
  <1>1. \A j \in Jobs :
          /\ Recovered(row[j], now) \in Row
          /\ Recovered(row[j], now).gen = row[j].gen
          /\ Recovered(row[j], now).status \in {"succeeded", "absent"}
             => Recovered(row[j], now) = row[j]
    BY RecoveredType DEF FenceInv, TypeOK
  <1>2. TypeOK'
    BY <1>1 DEF RecoverExpired, FenceInv, TypeOK, WorkerState
  <1>3. \A j \in Jobs :
          /\ row'[j].gen = row[j].gen
          /\ row'[j].status = "absent" => row[j].status = "absent"
          /\ row'[j].status = "succeeded" => row'[j].result = row[j].gen
    BY <1>1 DEF RecoverExpired, FenceInv, ResultIsFenced
  <1>4. \A v \in Workers :
          /\ worker'[v].claim = worker[v].claim
          /\ (worker[v].pc \in {"handle", "report"})
             <=> (worker'[v].pc \in {"handle", "report"})
    BY DEF RecoverExpired, FenceInv, TypeOK
  <1>5. QED
    BY <1>2, <1>3, <1>4, QuietStep

(* The workers' part of a step that ends in Idle, or stays at a claim.      *)
LEMMA IdleType == Idle \in WorkerState /\ Idle.claim = NoClaim /\ Idle.pc = "poll"
  BY DEF Idle, WorkerState, Reports

LEMMA ToIdle ==
    ASSUME TypeOK, NEW w \in Workers, worker' = [worker EXCEPT ![w] = Idle]
    PROVE  /\ worker' \in [Workers -> WorkerState]
           /\ \A v \in Workers :
                \/ /\ worker'[v].claim = worker[v].claim
                   /\ (worker[v].pc \in {"handle", "report"})
                      <=> (worker'[v].pc \in {"handle", "report"})
                \/ worker'[v].claim = NoClaim /\ worker'[v].pc \notin {"handle", "report"}
  BY IdleType DEF TypeOK

LEMMA ToReport ==
    ASSUME TypeOK, NEW w \in Workers, NEW report \in Reports, Reporting(w, report),
           worker[w].pc \in {"handle", "report"}
    PROVE  /\ worker' \in [Workers -> WorkerState]
           /\ \A v \in Workers :
                /\ worker'[v].claim = worker[v].claim
                /\ (worker[v].pc \in {"handle", "report"})
                   <=> (worker'[v].pc \in {"handle", "report"})
  BY DEF TypeOK, Reporting, WorkerState

LEMMA QuietWorkerStep ==
    ASSUME FenceInv, NEW w \in Workers,
           \/ \E now \in Readings : ClaimNothing(w, now)
           \/ \E report \in Reports \ {"none"} : HandlerEnds(w, report)
           \/ HandlerTimeout(w)
           \/ Abandon(w)
    PROVE  FenceInv'
  <1>1. UNCHANGED <<row, retries, call>>
    BY DEF ClaimNothing, HandlerEnds, HandlerTimeout, Abandon
  <1>2. CASE worker' = [worker EXCEPT ![w] = Idle]
    <2>1. TypeOK'
      BY <1>1, <1>2, ToIdle DEF FenceInv, TypeOK
    <2>2. QED
      BY <1>1, <1>2, <2>1, ToIdle, QuietStep DEF FenceInv, ResultIsFenced
  <1>3. CASE \E report \in Reports : Reporting(w, report) /\ worker[w].pc = "handle"
    <2>1. TypeOK'
      BY <1>1, <1>3, ToReport DEF FenceInv, TypeOK
    <2>2. QED
      BY <1>1, <1>3, <2>1, ToReport, QuietStep DEF FenceInv, ResultIsFenced
  <1>4. QED
    BY <1>2, <1>3 DEF ClaimNothing, HandlerEnds, HandlerTimeout, Abandon, Reports

(* What a worker that handles or reports a job holds. *)
LEMMA HeldClaim ==
    ASSUME FenceInv, NEW w \in Workers, worker[w].pc \in {"handle", "report"}
    PROVE  /\ worker[w].claim \in Claims
           /\ worker[w].claim.job \in Jobs
           /\ worker[w].claim.attempts >= 1
           /\ row[worker[w].claim.job] \in Row
  BY DEF FenceInv, TypeOK, ClaimsHeld, Claims

(* A renewed lease changes no other column. *)
LEMMA RenewedRows ==
    ASSUME FenceInv, NEW j \in Jobs, NEW now \in Readings,
           row' = row \/ row' = [row EXCEPT ![j].lease = now + LeaseTicks]
    PROVE  /\ row' \in [Jobs -> Row]
           /\ \A k \in Jobs :
                /\ row'[k].gen = row[k].gen
                /\ row'[k].status = "absent" => row[k].status = "absent"
                /\ row'[k].status = "succeeded" => row'[k].result = row[k].gen
  <1>1. PICK l \in Int : l = now + LeaseTicks
    BY NumberFacts
  <1>2. row \in [Jobs -> Row] /\ ResultIsFenced
    BY DEF FenceInv, TypeOK
  <1>3. CASE row' = row
    BY <1>2, <1>3 DEF ResultIsFenced
  <1>4. CASE row' = [row EXCEPT ![j].lease = now + LeaseTicks]
    <2>1. row' = [row EXCEPT ![j] = [row[j] EXCEPT !.lease = l]]
      BY <1>1, <1>2, <1>4
    <2>2. [row[j] EXCEPT !.lease = l] \in Row
      BY <1>2 DEF Row
    <2>3. /\ [row[j] EXCEPT !.lease = l].gen = row[j].gen
          /\ [row[j] EXCEPT !.lease = l].status = row[j].status
          /\ [row[j] EXCEPT !.lease = l].result = row[j].result
      BY <1>2 DEF Row
    <2>4. QED
      BY <1>2, <2>1, <2>2, <2>3 DEF ResultIsFenced
  <1>5. QED
    BY <1>3, <1>4

LEMMA HeartbeatStep ==
    ASSUME FenceInv, NEW w \in Workers, NEW now \in Readings,
           Heartbeat(w, now) \/ HeartbeatError(w, now)
    PROVE  FenceInv'
  <1>1. worker[w].pc = "handle" /\ UNCHANGED <<retries, call>>
    BY DEF Heartbeat, HeartbeatError
  <1>2. worker[w].claim.job \in Jobs
    BY <1>1, HeldClaim
  <1>3. row' = row \/ row' = [row EXCEPT ![worker[w].claim.job].lease = now + LeaseTicks]
    BY DEF Heartbeat, HeartbeatError
  <1>4. /\ row' \in [Jobs -> Row]
        /\ \A k \in Jobs :
             /\ row'[k].gen = row[k].gen
             /\ row'[k].status = "absent" => row[k].status = "absent"
             /\ row'[k].status = "succeeded" => row'[k].result = row[k].gen
    BY <1>2, <1>3, RenewedRows
  <1>5. /\ worker' \in [Workers -> WorkerState]
        /\ \A v \in Workers :
             \/ /\ worker'[v].claim = worker[v].claim
                /\ (worker[v].pc \in {"handle", "report"})
                   <=> (worker'[v].pc \in {"handle", "report"})
             \/ worker'[v].claim = NoClaim /\ worker'[v].pc \notin {"handle", "report"}
    <2>1. CASE UNCHANGED worker
      BY <2>1 DEF FenceInv, TypeOK
    <2>2. CASE worker' = [worker EXCEPT ![w] = Idle]
      BY <2>2, ToIdle DEF FenceInv
    <2>3. CASE Reporting(w, "retryable")
      BY <1>1, <2>3, ToReport DEF FenceInv, Reports
    <2>4. QED
      BY <2>1, <2>2, <2>3 DEF Heartbeat, HeartbeatError
  <1>6. TypeOK'
    BY <1>1, <1>4, <1>5 DEF FenceInv, TypeOK
  <1>7. QED
    BY <1>4, <1>5, <1>6, QuietStep

(* Reports: the row changes only where the claim's fence is the row's.      *)
LEMMA ReportedRows ==
    ASSUME FenceInv, NEW w \in Workers, NEW now \in Readings,
           worker[w].pc = "report",
           LET c == worker[w].claim IN
             \/ row' = row
             \/ /\ Owns(w, c, now)
                /\ row' = [row EXCEPT ![c.job] = SucceedRow(row[c.job], c)]
             \/ \E report \in Reports :
                  row' = [row EXCEPT ![c.job] = FailRow(row[c.job], c, report, now)]
    PROVE  /\ row' \in [Jobs -> Row]
           /\ \A k \in Jobs :
                /\ row'[k].gen = row[k].gen
                /\ row'[k].status = "absent" => row[k].status = "absent"
                /\ row'[k].status = "succeeded" => row'[k].result = row[k].gen
  <1> DEFINE c == worker[w].claim
  <1>1. c \in Claims /\ c.job \in Jobs /\ c.attempts >= 1 /\ row[c.job] \in Row
    BY HeldClaim
  <1>2. row \in [Jobs -> Row] /\ ResultIsFenced
    BY DEF FenceInv, TypeOK
  <1>3. CASE row' = row
    BY <1>2, <1>3 DEF ResultIsFenced
  <1>4. CASE Owns(w, c, now) /\ row' = [row EXCEPT ![c.job] = SucceedRow(row[c.job], c)]
    <2>1. row[c.job].gen = c.gen
      BY <1>4 DEF Owns
    <2>2. /\ SucceedRow(row[c.job], c) \in Row
          /\ SucceedRow(row[c.job], c).gen = row[c.job].gen
          /\ SucceedRow(row[c.job], c).result = c.gen
          /\ SucceedRow(row[c.job], c).status = "succeeded"
      BY <1>1, SucceedRowType
    <2>3. QED
      BY <1>1, <1>2, <1>4, <2>1, <2>2 DEF ResultIsFenced
  <1>5. ASSUME NEW report \in Reports,
               row' = [row EXCEPT ![c.job] = FailRow(row[c.job], c, report, now)]
        PROVE  /\ row' \in [Jobs -> Row]
               /\ \A k \in Jobs :
                    /\ row'[k].gen = row[k].gen
                    /\ row'[k].status = "absent" => row[k].status = "absent"
                    /\ row'[k].status = "succeeded" => row'[k].result = row[k].gen
    <2>1. /\ FailRow(row[c.job], c, report, now) \in Row
          /\ FailRow(row[c.job], c, report, now).gen = row[c.job].gen
          /\ FailRow(row[c.job], c, report, now).status \notin {"succeeded", "absent"}
      BY <1>1, FailRowType
    <2>2. QED
      BY <1>1, <1>2, <1>5, <2>1 DEF ResultIsFenced
  <1>6. QED
    BY <1>3, <1>4, <1>5

LEMMA ReportStep ==
    ASSUME FenceInv, NEW w \in Workers, NEW now \in Readings,
           Succeed(w, now) \/ SucceedError(w, now) \/ Fail(w, now)
    PROVE  FenceInv'
  <1>1. worker[w].pc = "report" /\ UNCHANGED <<retries, call>>
    BY DEF Succeed, SucceedError, Fail
  <1>2. LET c == worker[w].claim IN
          \/ row' = row
          \/ /\ Owns(w, c, now)
             /\ row' = [row EXCEPT ![c.job] = SucceedRow(row[c.job], c)]
          \/ \E report \in Reports :
               row' = [row EXCEPT ![c.job] = FailRow(row[c.job], c, report, now)]
    BY DEF Succeed, SucceedError, Fail, Reports
  <1>3. /\ row' \in [Jobs -> Row]
        /\ \A k \in Jobs :
             /\ row'[k].gen = row[k].gen
             /\ row'[k].status = "absent" => row[k].status = "absent"
             /\ row'[k].status = "succeeded" => row'[k].result = row[k].gen
    BY <1>1, <1>2, ReportedRows
  <1>4. /\ worker' \in [Workers -> WorkerState]
        /\ \A v \in Workers :
             \/ /\ worker'[v].claim = worker[v].claim
                /\ (worker[v].pc \in {"handle", "report"})
                   <=> (worker'[v].pc \in {"handle", "report"})
             \/ worker'[v].claim = NoClaim /\ worker'[v].pc \notin {"handle", "report"}
    <2>1. CASE worker' = [worker EXCEPT ![w] = Idle]
      BY <2>1, ToIdle DEF FenceInv
    <2>2. CASE Reporting(w, "retryable")
      BY <1>1, <2>2, ToReport DEF FenceInv, Reports
    <2>3. QED
      BY <2>1, <2>2 DEF Succeed, SucceedError, Fail
  <1>5. TypeOK'
    BY <1>1, <1>3, <1>4 DEF FenceInv, TypeOK
  <1>6. QED
    BY <1>3, <1>4, <1>5, QuietStep

(* claim() takes a fence above every one held, which keeps fences distinct. *)
LEMMA ClaimStep ==
    ASSUME FenceInv, NEW w \in Workers, NEW j \in Jobs, NEW now \in Readings,
           Claim(w, j, now)
    PROVE  FenceInv'
  <1>1. PICK x \in Row : /\ x = ClaimRow(row[j], w, now)
                         /\ x.gen = row[j].gen + 1
                         /\ x.attempts = row[j].attempts + 1
                         /\ x.status = "running"
    <2>1. row[j] \in Row
      BY DEF FenceInv, TypeOK
    <2>2. QED
      BY <2>1, ClaimRowType
  <1>2. PICK c \in Claims : c = [job |-> j, attempts |-> x.attempts, gen |-> x.gen]
    BY DEF Claims, Row
  <1>3. c.job = j /\ c.gen = row[j].gen + 1 /\ c.attempts >= 1
    BY <1>1, <1>2 DEF FenceInv, TypeOK, Row
  <1>4. PICK s \in WorkerState : /\ s.claim = c
                                 /\ s.pc \in {"handle", "report"}
                                 /\ worker' = [worker EXCEPT ![w] = s]
    <2>1. CASE x.kind \in Handlers[w]
      <3>1. worker' = [worker EXCEPT ![w] =
              [pc |-> "handle", claim |-> c, left |-> HandlerTicks, report |-> "none"]]
        BY <1>1, <1>2, <2>1 DEF Claim
      <3>2. QED
        BY <3>1, NumberAssumption DEF WorkerState, Reports
    <2>2. CASE x.kind \notin Handlers[w]
      <3>1. worker' = [worker EXCEPT ![w] =
              [pc |-> "report", claim |-> c, left |-> 0, report |-> "permanent"]]
        BY <1>1, <1>2, <2>2 DEF Claim
      <3>2. QED
        BY <3>1 DEF WorkerState, Reports
    <2>3. QED
      BY <2>1, <2>2
  <1>5. row' = [row EXCEPT ![j] = x] /\ UNCHANGED <<retries, call>>
    BY <1>1 DEF Claim
  <1>6. TypeOK'
    BY <1>4, <1>5 DEF FenceInv, TypeOK
  <1>7. ClaimsHeld'
    <2> SUFFICES ASSUME NEW v \in Workers
                 PROVE  IF worker'[v].pc \in {"handle", "report"}
                          THEN /\ worker'[v].claim \in Claims
                               /\ worker'[v].claim.attempts >= 1
                               /\ worker'[v].claim.gen <= row'[worker'[v].claim.job].gen
                          ELSE worker'[v].claim = NoClaim
      BY DEF ClaimsHeld
    <2>1. CASE v = w
      <3>1. worker'[v] = s
        BY <1>4, <2>1 DEF FenceInv, TypeOK
      <3>2. row'[j].gen = row[j].gen + 1 /\ row[j].gen \in Nat
        BY <1>1, <1>5 DEF FenceInv, TypeOK, Row
      <3>3. QED
        BY <1>3, <1>4, <3>1, <3>2
    <2>2. CASE v # w
      <3>1. worker'[v] = worker[v]
        BY <1>4, <2>2 DEF FenceInv, TypeOK
      <3>2. CASE worker[v].pc \in {"handle", "report"}
        <4>1. /\ worker[v].claim \in Claims
              /\ worker[v].claim.attempts >= 1
              /\ worker[v].claim.gen <= row[worker[v].claim.job].gen
          BY <3>2 DEF FenceInv, ClaimsHeld
        <4>2. worker[v].claim.job \in Jobs /\ worker[v].claim.gen \in Nat
          BY <4>1 DEF Claims
        <4>3. \A k \in Jobs : row[k].gen \in Nat /\ row'[k].gen \in Nat
                                /\ row[k].gen <= row'[k].gen
          BY <1>1, <1>5 DEF FenceInv, TypeOK, Row
        <4>4. QED
          BY <3>1, <3>2, <4>1, <4>2, <4>3
      <3>3. CASE worker[v].pc \notin {"handle", "report"}
        BY <3>1, <3>3 DEF FenceInv, ClaimsHeld
      <3>4. QED
        BY <3>2, <3>3
    <2>3. QED
      BY <2>1, <2>2
  <1>8. DistinctFences'
    <2>1. ASSUME NEW v \in Workers, v # w, worker[v].claim \in Claims,
                 worker[v].claim.job = j
          PROVE  worker[v].claim.gen # c.gen
      <3>1. worker[v].pc \in {"handle", "report"}
        BY <2>1, SetAssumption DEF FenceInv, ClaimsHeld, NoClaim, Claims
      <3>2. worker[v].claim.gen <= row[j].gen
        BY <2>1, <3>1 DEF FenceInv, ClaimsHeld
      <3>3. worker[v].claim.gen \in Nat /\ row[j].gen \in Nat
        BY <2>1 DEF Claims, FenceInv, TypeOK, Row
      <3>4. QED
        BY <1>3, <3>2, <3>3
    <2>2. worker'[w].claim = c
      BY <1>4 DEF FenceInv, TypeOK
    <2>3. \A v \in Workers : v # w => worker'[v] = worker[v]
      BY <1>4 DEF FenceInv, TypeOK
    <2>4. QED
      BY <1>3, <2>1, <2>2, <2>3 DEF FenceInv, DistinctFences
  <1>9. AbsentUnfenced' /\ ResultIsFenced'
    BY <1>1, <1>5 DEF FenceInv, TypeOK, AbsentUnfenced, ResultIsFenced
  <1>10. QED
    BY <1>6, <1>7, <1>8, <1>9 DEF FenceInv

LEMMA TickStep ==
    ASSUME FenceInv, Tick
    PROVE  FenceInv'
  <1>1. ASSUME NEW j \in Jobs
        PROVE  /\ row'[j] \in Row
               /\ row'[j].gen = row[j].gen
               /\ row'[j].status = row[j].status
               /\ row'[j].result = row[j].result
    <2>1. row[j] \in Row
      BY DEF FenceInv, TypeOK
    <2>2. PICK l \in Int, a \in Int : l = Elapse(row[j].lease) /\ a = Elapse(row[j].avail)
      BY <2>1, NumberFacts DEF Row
    <2>3. row'[j] = [row[j] EXCEPT !.lease = l, !.avail = a]
      BY <2>1, <2>2 DEF Tick, Row
    <2>4. QED
      BY <2>1, <2>3 DEF Row
  <1>2. ASSUME NEW w \in Workers
        PROVE  /\ worker'[w] \in WorkerState
               /\ worker'[w].claim = worker[w].claim
               /\ worker'[w].pc = worker[w].pc
    <2>1. worker[w] \in WorkerState
      BY DEF FenceInv, TypeOK
    <2>2. worker[w].left \in Nat
      BY <2>1 DEF WorkerState
    <2>3. PICK n \in Nat : n = IF worker[w].left > 0 THEN worker[w].left - 1 ELSE 0
      BY <2>2
    <2>4. worker'[w] = [worker[w] EXCEPT !.left = n]
      BY <2>3, Zenon DEF Tick
    <2>5. QED
      BY <2>1, <2>4 DEF WorkerState
  <1>3. TypeOK'
    <2>1. row' \in [Jobs -> Row]
      BY <1>1 DEF Tick
    <2>2. worker' \in [Workers -> WorkerState]
      BY <1>2 DEF Tick
    <2>3. QED
      BY <2>1, <2>2 DEF Tick, FenceInv, TypeOK
  <1>4. QED
    BY <1>1, <1>2, <1>3, QuietStep DEF FenceInv, ResultIsFenced

-----------------------------------------------------------------------------
LEMMA InitFence == Init => FenceInv
  <1> SUFFICES ASSUME Init PROVE FenceInv
    OBVIOUS
  <1>1. NoRow \in Row /\ NoRow.status = "absent" /\ NoRow.gen = 0
    BY SetAssumption, NumberFacts DEF NoRow, Row, Status
  <1>2. [pc |-> "start", req |-> AnyRequest, reply |-> "none"] \in CallState
    <2>1. AnyRequest \in Request
      <3>1. PICK k \in Kinds, n \in Limits : TRUE
        BY SetAssumption
      <3>2. [key |-> NoKey, kind |-> k, limit |-> n] \in Request
        BY DEF Request
      <3>3. QED
        BY <3>2 DEF AnyRequest
    <2>2. QED
      BY <2>1 DEF CallState, Reply
  <1>3. TypeOK
    BY <1>1, <1>2, IdleType DEF Init, TypeOK
  <1>4. \A w \in Workers : worker[w].claim = NoClaim /\ worker[w].pc = "poll"
    BY IdleType DEF Init
  <1>5. NoClaim \notin Claims
    BY SetAssumption DEF NoClaim, Claims
  <1>6. QED
    BY <1>1, <1>3, <1>4, <1>5
    DEF Init, FenceInv, ClaimsHeld, DistinctFences, AbsentUnfenced, ResultIsFenced

LEMMA StepFence == FenceInv /\ [Next]_vars => FenceInv'
  <1> SUFFICES ASSUME FenceInv, [Next]_vars PROVE FenceInv'
    OBVIOUS
  <1>1. CASE Create
    BY <1>1, CreateLookupStep, CreateInsertStep, CreateRaceLostStep DEF Create
  <1>2. CASE Owner
    BY <1>2, CancelStep, RetryStep DEF Owner
  <1>3. ASSUME NEW w \in Workers, WorkerStep(w) PROVE FenceInv'
    BY <1>3, RecoverExpiredStep, ClaimStep, HeartbeatStep, ReportStep, QuietWorkerStep
    DEF WorkerStep
  <1>4. CASE Tick
    BY <1>4, TickStep
  <1>5. CASE UNCHANGED vars
    BY <1>5
    DEF vars, FenceInv, TypeOK, ClaimsHeld, DistinctFences, AbsentUnfenced, ResultIsFenced
  <1>6. QED
    BY <1>1, <1>2, <1>3, <1>4, <1>5 DEF Next

(* The inductive invariant holds in every reachable state of the queue.     *)
THEOREM FenceInvariant == Spec => []FenceInv
  BY InitFence, StepFence, PTL DEF Spec

(* Every variable of the queue keeps its type, whatever the clocks read.    *)
THEOREM TypeCorrect == Spec => []TypeOK
  <1>1. FenceInv => TypeOK
    BY DEF FenceInv
  <1>2. QED
    BY <1>1, FenceInvariant, PTL

(* succeed()'s WHERE clause fences late reporters: a stored result always   *)
(* comes from the latest lease, for any number of workers sharing ids.      *)
THEOREM FencingCorrect == Spec => []ResultIsFenced
  <1>1. FenceInv => ResultIsFenced
    BY DEF FenceInv
  <1>2. QED
    BY <1>1, FenceInvariant, PTL

(* At most one worker process passes the ownership test on a job.           *)
THEOREM LeaseExclusive == Spec => []ExclusiveLease
  <1>1. FenceInv => ExclusiveLease
    <2> SUFFICES ASSUME FenceInv, NEW v \in Workers, NEW w \in Workers,
                        worker[v].claim # NoClaim, worker[w].claim # NoClaim,
                        worker[v].claim.job = worker[w].claim.job,
                        Owns(v, worker[v].claim, Long - 1),
                        Owns(w, worker[w].claim, Long - 1),
                        v # w
                 PROVE  FALSE
      BY DEF ExclusiveLease
    <2>1. worker[v].claim \in Claims /\ worker[w].claim \in Claims
      BY DEF FenceInv, ClaimsHeld
    <2>2. worker[v].claim.gen = worker[w].claim.gen
      BY DEF Owns
    <2>3. QED
      BY <2>1, <2>2 DEF FenceInv, DistinctFences
  <1>2. QED
    BY <1>1, FenceInvariant, PTL

-----------------------------------------------------------------------------
(* What one step does to the table, whichever action takes it: the effects  *)
(* below are the only ones.  The constraints, the bound on executions, the  *)
(* identity columns and the refinement are then read off the effects.       *)

(* The columns create() writes and no later statement touches. *)
SameRequest(x, y) == y.key = x.key /\ y.kind = x.kind /\ y.limit = x.limit

(* Nothing but a deadline moves, and no lease is granted or lost. *)
Quiet(x, y) ==
    /\ SameRequest(x, y)
    /\ y.status = x.status /\ y.worker = x.worker /\ y.completed = x.completed
    /\ y.attempts = x.attempts /\ y.gen = x.gen /\ y.result = x.result
    /\ x.lease = Null => y.lease = Null
    /\ x.lease >= Long => y.lease >= Long

(* The lease ends and the row takes status s. *)
Ended(x, y, s) ==
    /\ SameRequest(x, y)
    /\ y.status = s /\ y.worker = NoWorker /\ y.lease = Null
    /\ (y.completed = "set") <=> (s \in Terminal)
    /\ y.attempts = x.attempts /\ y.gen = x.gen

OthersQuiet(j) == \A k \in Jobs : k # j => Quiet(row[k], row'[k])

NoEffect == (\A k \in Jobs : Quiet(row[k], row'[k])) /\ retries' = retries

Submitted(j) ==
    LET y == row'[j] IN
    /\ row[j].status = "absent"
    /\ y.status = "pending" /\ y.worker = NoWorker /\ y.lease = Null
    /\ y.completed = "null" /\ y.attempts = 0 /\ y.gen = 0 /\ y.result = 0
    /\ OthersQuiet(j) /\ retries' = retries

Started(j) ==
    LET x == row[j]
        y == row'[j]
    IN
    /\ SameRequest(x, y)
    /\ x.status = "pending" /\ x.attempts < x.limit
    /\ y.status = "running" /\ y.worker # NoWorker /\ y.lease >= Long
    /\ y.completed = x.completed /\ y.result = x.result
    /\ y.attempts = x.attempts + 1 /\ y.gen = x.gen + 1
    /\ OthersQuiet(j) /\ retries' = retries

Completed(j) ==
    /\ row[j].status = "running"
    /\ Ended(row[j], row'[j], "succeeded") /\ row'[j].result = row[j].gen
    /\ OthersQuiet(j) /\ retries' = retries

Given(j, s) ==
    /\ \/ row[j].status = "running" /\ s \in {"failed", "cancelled"}
       \/ row[j].status = "pending" /\ s = "cancelled"
    /\ Ended(row[j], row'[j], s) /\ row'[j].result = row[j].result
    /\ OthersQuiet(j) /\ retries' = retries

Interrupted ==
    /\ \A k \in Jobs :
         \/ Quiet(row[k], row'[k])
         \/ /\ row[k].status = "running"
            /\ \E s \in {"pending", "dead_letter"} : Ended(row[k], row'[k], s)
            /\ row'[k].result = row[k].result
    /\ retries' = retries

Resubmitted(j) ==
    LET x == row[j]
        y == row'[j]
    IN
    /\ SameRequest(x, y)
    /\ x.status \in Retryable
    /\ y.status = "pending" /\ y.worker = x.worker /\ y.lease = x.lease
    /\ y.completed = "null" /\ y.result = x.result
    /\ y.attempts = 0 /\ y.gen = x.gen
    /\ OthersQuiet(j) /\ retries' = [retries EXCEPT ![j] = @ + 1]

TableEffect ==
    \/ NoEffect
    \/ Interrupted
    \/ \E j \in Jobs :
         \/ Started(j) \/ Completed(j) \/ Resubmitted(j)
         \/ \E s \in {"failed", "cancelled"} : Given(j, s)

(* Every step is a row insert or has one of the effects on existing rows.   *)
StepEffect == TableEffect \/ \E j \in Jobs : Submitted(j)

LEMMA QuietSame == \A x : Quiet(x, x)
  BY DEF Quiet, SameRequest

LEMMA DeadlineFacts ==
    /\ Null < Long
    /\ \A now \in Readings : now + LeaseTicks >= Long
    /\ Elapse(Null) = Null
    /\ \A t \in Int : t >= Long => Elapse(t) >= Long
  BY NumberAssumption DEF Null, Long, Readings, Elapse

LEMMA ReleasedEnds ==
    ASSUME NEW x \in Row, NEW s \in Status
    PROVE  Ended(x, Released(x, s), s) /\ Released(x, s).result = x.result
  <1>1. PICK done \in {"null", "set"} :
          /\ done = IF s \in Terminal THEN "set" ELSE "null"
          /\ (done = "set") <=> (s \in Terminal)
    OBVIOUS
  <1>2. Released(x, s) =
          [x EXCEPT !.status = s, !.worker = NoWorker, !.lease = Null, !.completed = done]
    BY <1>1 DEF Released
  <1>3. QED
    BY <1>1, <1>2 DEF Row, Ended, SameRequest

(* A release that also writes available_at is still a release. *)
LEMMA ReleasedAvailEnds ==
    ASSUME NEW x \in Row, NEW s \in Status, NEW t \in Int
    PROVE  LET y == [Released(x, s) EXCEPT !.avail = t]
           IN  Ended(x, y, s) /\ y.result = x.result
  <1>1. Released(x, s) \in Row
    BY ReleasedType
  <1>2. Ended(x, Released(x, s), s) /\ Released(x, s).result = x.result
    BY ReleasedEnds
  <1>3. QED
    BY <1>1, <1>2 DEF Row, Ended, SameRequest

LEMMA RecoveredEffect ==
    ASSUME NEW x \in Row, NEW now \in Readings
    PROVE  \/ Recovered(x, now) = x
           \/ /\ x.status = "running"
              /\ \E s \in {"pending", "dead_letter"} : Ended(x, Recovered(x, now), s)
              /\ Recovered(x, now).result = x.result
  <1>1. "pending" \in Status /\ "dead_letter" \in Status
    BY DEF Status, Live, Terminal, Retryable
  <1>2. now \in Int
    BY NumberFacts
  <1>3. CASE x.status # "running" \/ x.lease >= now
    BY <1>3 DEF Recovered
  <1>4. CASE ~(x.status # "running" \/ x.lease >= now) /\ x.attempts < x.limit
    <2>1. Recovered(x, now) = [Released(x, "pending") EXCEPT !.avail = now]
      BY <1>4 DEF Recovered
    <2>2. QED
      BY <1>1, <1>2, <1>4, <2>1, ReleasedAvailEnds
  <1>5. CASE ~(x.status # "running" \/ x.lease >= now) /\ ~(x.attempts < x.limit)
    <2>1. Recovered(x, now) = Released(x, "dead_letter")
      BY <1>5 DEF Recovered
    <2>2. QED
      BY <1>1, <1>5, <2>1, ReleasedEnds
  <1>6. QED
    BY <1>3, <1>4, <1>5

LEMMA SucceedRowEffect ==
    ASSUME NEW x \in Row, NEW c \in Claims
    PROVE  Ended(x, SucceedRow(x, c), "succeeded") /\ SucceedRow(x, c).result = c.gen
  <1>1. "succeeded" \in Status
    BY DEF Status, Terminal
  <1>2. Released(x, "succeeded") \in Row /\ Ended(x, Released(x, "succeeded"), "succeeded")
    BY <1>1, ReleasedType, ReleasedEnds
  <1>3. QED
    BY <1>2 DEF SucceedRow, Row, Claims, Ended, SameRequest

LEMMA FailRowEffect ==
    ASSUME NEW x \in Row, NEW c \in Claims, NEW report, NEW now \in Readings,
           c.attempts >= 1
    PROVE  LET y == FailRow(x, c, report, now) IN
           /\ y.result = x.result
           /\ \E s \in {"failed", "pending", "dead_letter"} : Ended(x, y, s)
  <1>1. "failed" \in Status /\ "pending" \in Status /\ "dead_letter" \in Status
    BY DEF Status, Live, Terminal, Retryable
  <1>2. now \in Int
    BY NumberFacts
  <1>3. CASE report = "permanent"
    <2>1. FailRow(x, c, report, now) = [Released(x, "failed") EXCEPT !.avail = now]
      BY <1>3 DEF FailRow
    <2>2. QED
      BY <1>1, <1>2, <2>1, ReleasedAvailEnds
  <1>4. CASE report # "permanent" /\ c.attempts < x.limit
    <2>1. PICK t \in Int : t = now + Backoff(c.attempts)
      <3>1. x.limit \in Limits /\ c.attempts \in Nat
        BY DEF Row, Claims
      <3>2. x.limit \in Nat
        BY <3>1, NumberAssumption
      <3>3. c.attempts \in 1 .. x.limit
        BY <1>4, <3>1, <3>2
      <3>4. Backoff(c.attempts) \in Nat
        BY <3>1, <3>3, BackoffAssumption
      <3>5. QED
        BY <1>2, <3>4
    <2>2. FailRow(x, c, report, now) = [Released(x, "pending") EXCEPT !.avail = t]
      BY <1>4, <2>1 DEF FailRow
    <2>3. QED
      BY <1>1, <2>2, ReleasedAvailEnds
  <1>5. CASE report # "permanent" /\ ~(c.attempts < x.limit)
    <2>1. FailRow(x, c, report, now) = [Released(x, "dead_letter") EXCEPT !.avail = now]
      BY <1>5 DEF FailRow
    <2>2. QED
      BY <1>1, <1>2, <2>1, ReleasedAvailEnds
  <1>6. QED
    BY <1>3, <1>4, <1>5

-----------------------------------------------------------------------------
(* The effect of each action. *)

LEMMA CreateInsertEffect ==
    ASSUME FenceInv, NEW c \in Calls, NEW j \in Jobs, NEW now \in Readings,
           CreateInsert(c, j, now)
    PROVE  /\ Submitted(j)
           /\ row'[j].key = call[c].req.key
           /\ row'[j].kind = call[c].req.kind
           /\ row'[j].limit = call[c].req.limit
  <1>1. row \in [Jobs -> Row]
    BY DEF FenceInv, TypeOK
  <1>2. OthersQuiet(j)
    BY <1>1, QuietSame DEF CreateInsert, OthersQuiet
  <1>3. QED
    BY <1>1, <1>2 DEF CreateInsert, Submitted, Exists

LEMMA CancelEffect ==
    ASSUME FenceInv, NEW j \in Jobs, Cancel(j)
    PROVE  Given(j, "cancelled")
  <1>1. row \in [Jobs -> Row] /\ "cancelled" \in Status
    BY DEF FenceInv, TypeOK, Status, Terminal
  <1>2. row' = [row EXCEPT ![j] = Released(row[j], "cancelled")] /\ retries' = retries
    BY DEF Cancel
  <1>3. OthersQuiet(j)
    BY <1>1, <1>2, QuietSame DEF OthersQuiet
  <1>4. /\ Ended(row[j], row'[j], "cancelled")
        /\ row'[j].result = row[j].result
    BY <1>1, <1>2, ReleasedEnds
  <1>5. QED
    BY <1>2, <1>3, <1>4 DEF Given, Cancel, Live

LEMMA RetryEffect ==
    ASSUME FenceInv, NEW j \in Jobs, NEW now \in Readings, Retry(j, now)
    PROVE  Resubmitted(j)
  <1>1. row \in [Jobs -> Row] /\ row[j] \in Row
    BY DEF FenceInv, TypeOK
  <1>2. row' = [row EXCEPT ![j] = [row[j] EXCEPT !.status = "pending", !.attempts = 0,
                                                 !.avail = now, !.completed = "null"]]
    BY <1>1 DEF Retry
  <1>3. OthersQuiet(j)
    BY <1>1, <1>2, QuietSame DEF OthersQuiet
  <1>4. QED
    BY <1>1, <1>2, <1>3 DEF Retry, Resubmitted, SameRequest, Row

LEMMA RecoverExpiredEffect ==
    ASSUME FenceInv, NEW w \in Workers, NEW now \in Readings, RecoverExpired(w, now)
    PROVE  Interrupted
  <1>1. retries' = retries
    BY DEF RecoverExpired
  <1>2. ASSUME NEW k \in Jobs
        PROVE  \/ Quiet(row[k], row'[k])
               \/ /\ row[k].status = "running"
                  /\ \E s \in {"pending", "dead_letter"} : Ended(row[k], row'[k], s)
                  /\ row'[k].result = row[k].result
    <2>1. row[k] \in Row /\ row'[k] = Recovered(row[k], now)
      BY DEF RecoverExpired, FenceInv, TypeOK
    <2>2. QED
      BY <2>1, RecoveredEffect, QuietSame
  <1>3. QED
    BY <1>1, <1>2 DEF Interrupted

LEMMA ClaimEffect ==
    ASSUME FenceInv, NEW w \in Workers, NEW j \in Jobs, NEW now \in Readings,
           Claim(w, j, now)
    PROVE  Started(j)
  <1>1. row \in [Jobs -> Row] /\ row[j] \in Row
    BY DEF FenceInv, TypeOK
  <1>2. row' = [row EXCEPT ![j] = ClaimRow(row[j], w, now)] /\ retries' = retries
    BY DEF Claim
  <1>3. OthersQuiet(j)
    BY <1>1, <1>2, QuietSame DEF OthersQuiet
  <1>4. row[j].status = "pending" /\ row[j].attempts < row[j].limit
    BY DEF Claim, Claimable
  <1>5. PICK id \in WorkerIds, l \in Int :
          id = WorkerId[w] /\ id # NoWorker /\ l = now + LeaseTicks /\ l >= Long
    BY SetAssumption, NumberFacts, DeadlineFacts
  <1>6. PICK a \in Nat, g \in Nat : a = row[j].attempts + 1 /\ g = row[j].gen + 1
    BY <1>1 DEF Row
  <1>7. row'[j] = Leased(row[j], id, a, g, l)
    BY <1>1, <1>2, <1>5, <1>6 DEF ClaimRow, Leased
  <1>8. QED
    BY <1>1, <1>2, <1>3, <1>4, <1>5, <1>6, <1>7 DEF Started, SameRequest, Leased, Row

LEMMA RenewedEffect ==
    ASSUME FenceInv, NEW j \in Jobs, NEW now \in Readings, retries' = retries,
           \/ row' = row
           \/ /\ row[j].status = "running"
              /\ row' = [row EXCEPT ![j].lease = now + LeaseTicks],
           row[j].lease # Null
    PROVE  NoEffect
  <1>1. PICK l \in Int : l = now + LeaseTicks /\ l >= Long
    BY NumberFacts, DeadlineFacts
  <1>2. row \in [Jobs -> Row]
    BY DEF FenceInv, TypeOK
  <1>3. CASE row' = row
    BY <1>3, QuietSame DEF NoEffect
  <1>4. CASE row' = [row EXCEPT ![j].lease = now + LeaseTicks]
    <2>1. row' = [row EXCEPT ![j] = [row[j] EXCEPT !.lease = l]]
      BY <1>1, <1>2, <1>4
    <2>2. Quiet(row[j], [row[j] EXCEPT !.lease = l])
      BY <1>1, <1>2 DEF Quiet, SameRequest, Row
    <2>3. QED
      BY <1>2, <2>1, <2>2, QuietSame DEF NoEffect
  <1>5. QED
    BY <1>3, <1>4

(* succeed() and fail() change the row only under the ownership test, whose *)
(* fence makes the stored result the row's own.                             *)
LEMMA ReportEffect ==
    ASSUME FenceInv, NEW w \in Workers, NEW now \in Readings,
           Succeed(w, now) \/ SucceedError(w, now) \/ Fail(w, now)
    PROVE  TableEffect
  <1> DEFINE c == worker[w].claim
  <1>1. worker[w].pc = "report" /\ retries' = retries
    BY DEF Succeed, SucceedError, Fail
  <1>2. /\ c \in Claims /\ c.job \in Jobs /\ c.attempts >= 1 /\ row[c.job] \in Row
        /\ row \in [Jobs -> Row]
    BY <1>1, HeldClaim DEF FenceInv, TypeOK
  <1>3. \/ row' = row
        \/ /\ Owns(w, c, now)
           /\ row' = [row EXCEPT ![c.job] = SucceedRow(row[c.job], c)]
        \/ /\ Owns(w, c, now)
           /\ \E report \in Reports :
                row' = [row EXCEPT ![c.job] = FailRow(row[c.job], c, report, now)]
    BY DEF Succeed, SucceedError, Fail, Reports
  <1>4. CASE row' = row
    BY <1>1, <1>4, QuietSame DEF TableEffect, NoEffect
  <1>5. CASE Owns(w, c, now) /\ row' = [row EXCEPT ![c.job] = SucceedRow(row[c.job], c)]
    <2>1. row[c.job].gen = c.gen /\ row[c.job].status = "running"
      BY <1>5 DEF Owns
    <2>2. /\ Ended(row[c.job], row'[c.job], "succeeded")
          /\ row'[c.job].result = c.gen
      BY <1>2, <1>5, SucceedRowEffect
    <2>3. OthersQuiet(c.job)
      BY <1>2, <1>5, QuietSame DEF OthersQuiet
    <2>4. Completed(c.job)
      BY <1>1, <2>1, <2>2, <2>3 DEF Completed
    <2>5. QED
      BY <1>2, <2>4 DEF TableEffect
  <1>6. ASSUME Owns(w, c, now), NEW report \in Reports,
               row' = [row EXCEPT ![c.job] = FailRow(row[c.job], c, report, now)]
        PROVE  TableEffect
    <2>1. row[c.job].status = "running"
      BY <1>6 DEF Owns
    <2>2. PICK s \in {"failed", "pending", "dead_letter"} :
            Ended(row[c.job], row'[c.job], s) /\ row'[c.job].result = row[c.job].result
      BY <1>2, <1>6, FailRowEffect
    <2>3. OthersQuiet(c.job)
      BY <1>2, <1>6, QuietSame DEF OthersQuiet
    <2>4. CASE s = "failed"
      <3>1. Given(c.job, "failed")
        BY <1>1, <2>1, <2>2, <2>3, <2>4 DEF Given
      <3>2. QED
        BY <1>2, <3>1 DEF TableEffect
    <2>5. CASE s \in {"pending", "dead_letter"}
      <3>1. Interrupted
        BY <1>1, <2>1, <2>2, <2>3, <2>5 DEF Interrupted, OthersQuiet
      <3>2. QED
        BY <3>1 DEF TableEffect
    <2>6. QED
      BY <2>4, <2>5
  <1>7. QED
    BY <1>3, <1>4, <1>5, <1>6

LEMMA TickEffect ==
    ASSUME FenceInv, Tick
    PROVE  NoEffect
  <1>1. ASSUME NEW k \in Jobs PROVE Quiet(row[k], row'[k])
    <2>1. row[k] \in Row
      BY DEF FenceInv, TypeOK
    <2>2. PICK l \in Int, a \in Int : l = Elapse(row[k].lease) /\ a = Elapse(row[k].avail)
      BY <2>1, NumberFacts DEF Row
    <2>3. row'[k] = [row[k] EXCEPT !.lease = l, !.avail = a]
      BY <2>1, <2>2 DEF Tick, Row
    <2>4. /\ row[k].lease = Null => l = Null
          /\ row[k].lease >= Long => l >= Long
      BY <2>1, <2>2, DeadlineFacts DEF Row
    <2>5. QED
      BY <2>1, <2>3, <2>4 DEF Quiet, SameRequest, Row
  <1>2. QED
    BY <1>1 DEF Tick, NoEffect

LEMMA HeartbeatEffect ==
    ASSUME FenceInv, NEW w \in Workers, NEW now \in Readings,
           Heartbeat(w, now) \/ HeartbeatError(w, now)
    PROVE  NoEffect
  <1> DEFINE c == worker[w].claim
  <1>1. worker[w].pc = "handle" /\ retries' = retries
    BY DEF Heartbeat, HeartbeatError
  <1>2. c.job \in Jobs /\ row[c.job] \in Row
    BY <1>1, HeldClaim
  <1>3. CASE row' = row
    BY <1>1, <1>3, QuietSame DEF NoEffect
  <1>4. CASE Owns(w, c, now) /\ row' = [row EXCEPT ![c.job].lease = now + LeaseTicks]
    <2>1. row[c.job].status = "running" /\ row[c.job].lease > now
      BY <1>4 DEF Owns
    <2>2. now > Null
      BY NumberAssumption DEF Readings, Null
    <2>3. row[c.job].lease # Null
      BY <1>2, <2>1, <2>2, NumberFacts DEF Row
    <2>4. QED
      BY <1>1, <1>2, <1>4, <2>1, <2>3, RenewedEffect
  <1>5. QED
    BY <1>3, <1>4 DEF Heartbeat, HeartbeatError

LEMMA WorkerEffect ==
    ASSUME FenceInv, NEW w \in Workers, WorkerStep(w)
    PROVE  TableEffect
  <1>1. ASSUME UNCHANGED <<row, retries>> PROVE TableEffect
    BY <1>1, QuietSame DEF TableEffect, NoEffect
  <1>2. ASSUME NEW now \in Readings, RecoverExpired(w, now) PROVE TableEffect
    BY <1>2, RecoverExpiredEffect DEF TableEffect
  <1>3. ASSUME NEW now \in Readings, NEW j \in Jobs, Claim(w, j, now) PROVE TableEffect
    BY <1>3, ClaimEffect DEF TableEffect
  <1>4. ASSUME NEW now \in Readings, Heartbeat(w, now) \/ HeartbeatError(w, now)
        PROVE  TableEffect
    BY <1>4, HeartbeatEffect DEF TableEffect
  <1>5. ASSUME NEW now \in Readings, Succeed(w, now) \/ SucceedError(w, now) \/ Fail(w, now)
        PROVE  TableEffect
    BY <1>5, ReportEffect
  <1>6. ASSUME \/ \E now \in Readings : ClaimNothing(w, now)
               \/ \E report \in Reports \ {"none"} : HandlerEnds(w, report)
               \/ HandlerTimeout(w)
               \/ Abandon(w)
        PROVE  UNCHANGED <<row, retries>>
    BY <1>6 DEF ClaimNothing, HandlerEnds, HandlerTimeout, Abandon
  <1>7. QED
    BY <1>1, <1>2, <1>3, <1>4, <1>5, <1>6 DEF WorkerStep

(* Every step of the specification but an insert has a table effect. *)
LEMMA NextEffect ==
    ASSUME FenceInv, [Next]_vars
    PROVE  \/ TableEffect
           \/ \E c \in Calls, j \in Jobs, now \in Readings : CreateInsert(c, j, now)
  <1>1. ASSUME UNCHANGED <<row, retries>> PROVE TableEffect
    BY <1>1, QuietSame DEF TableEffect, NoEffect
  <1>2. CASE Create
    <2>1. ASSUME NEW c \in Calls, NEW req \in Request, CreateLookup(c, req)
          PROVE  TableEffect
      BY <1>1, <2>1 DEF CreateLookup
    <2>2. ASSUME NEW c \in Calls, CreateRaceLost(c) PROVE TableEffect
      BY <1>1, <2>2 DEF CreateRaceLost
    <2>3. QED
      BY <1>2, <2>1, <2>2 DEF Create
  <1>3. CASE Owner
    <2>1. PICK j \in Jobs : Cancel(j) \/ \E now \in Readings : Retry(j, now)
      BY <1>3 DEF Owner
    <2>2. QED
      BY <2>1, CancelEffect, RetryEffect DEF TableEffect
  <1>4. CASE \E w \in Workers : WorkerStep(w)
    BY <1>4, WorkerEffect
  <1>5. CASE Tick
    BY <1>5, TickEffect DEF TableEffect
  <1>6. CASE UNCHANGED vars
    BY <1>1, <1>6 DEF vars
  <1>7. QED
    BY <1>2, <1>3, <1>4, <1>5, <1>6 DEF Next

LEMMA AllEffects ==
    ASSUME FenceInv, [Next]_vars
    PROVE  StepEffect
  BY NextEffect, CreateInsertEffect DEF StepEffect

-----------------------------------------------------------------------------
(* The table's own invariant, row by row.  RowConstraints alone is not      *)
(* inductive: a renewal must find, and a tick must leave, a lease that is   *)
(* not NULL.  n is the number of manual retries of the job.                 *)

RowHolds(x, n) ==
    /\ IF x.status = "running"
         THEN x.worker # NoWorker /\ x.lease >= Long
         ELSE x.worker = NoWorker /\ x.lease = Null
    /\ x.attempts <= x.limit
    /\ (x.completed = "set") <=> (x.status \in Terminal)
    /\ x.status = "absent" => x.result = 0
    /\ x.gen <= x.limit * n + x.attempts

TableInv == \A j \in Jobs : RowHolds(row[j], retries[j])

LEMMA RowNumbers ==
    ASSUME NEW x \in Row
    PROVE  /\ x.attempts \in Nat /\ x.gen \in Nat /\ x.limit \in Nat /\ x.lease \in Int
           /\ x.result \in Nat
  BY NumberAssumption DEF Row

LEMMA StatusFacts ==
    /\ "absent" \notin Terminal /\ "pending" \notin Terminal /\ "running" \notin Terminal
    /\ Retryable = {"failed", "dead_letter"}
    /\ Retryable \subseteq Terminal
  BY DEF Terminal, Retryable

LEMMA QuietHolds ==
    ASSUME NEW x, NEW y, NEW n, RowHolds(x, n), Quiet(x, y)
    PROVE  RowHolds(y, n)
  BY DEF RowHolds, Quiet, SameRequest

LEMMA EndedHolds ==
    ASSUME NEW x, NEW y, NEW n, RowHolds(x, n),
           NEW s \in {"pending", "failed", "dead_letter", "succeeded", "cancelled"},
           Ended(x, y, s)
    PROVE  RowHolds(y, n)
  BY DEF RowHolds, Ended, SameRequest

LEMMA StartedHolds ==
    ASSUME NEW j \in Jobs, TypeOK, TypeOK', RowHolds(row[j], retries[j]), Started(j)
    PROVE  RowHolds(row'[j], retries'[j])
  <1>1. row[j] \in Row /\ row'[j] \in Row /\ retries[j] \in Nat
    BY DEF TypeOK
  <1>2. PICK p \in Nat : p = row[j].limit * retries[j]
    BY <1>1, RowNumbers
  <1>3. row[j].gen <= p + row[j].attempts
    BY <1>2 DEF RowHolds
  <1>4. row'[j].limit * retries'[j] = p
    BY <1>2 DEF Started, SameRequest
  <1>5. row'[j].gen <= row'[j].limit * retries'[j] + row'[j].attempts
    <2>1. row'[j].gen = row[j].gen + 1 /\ row'[j].attempts = row[j].attempts + 1
      BY DEF Started
    <2>2. row[j].gen + 1 <= p + (row[j].attempts + 1)
      BY <1>1, <1>3, RowNumbers
    <2>3. QED
      BY <1>4, <2>1, <2>2
  <1>6. row'[j].attempts <= row'[j].limit
    BY <1>1, RowNumbers DEF Started, SameRequest
  <1>7. (row'[j].completed = "set") <=> (row'[j].status \in Terminal)
    BY StatusFacts DEF Started, RowHolds
  <1>8. QED
    BY <1>5, <1>6, <1>7 DEF Started, RowHolds

LEMMA ResubmittedHolds ==
    ASSUME NEW j \in Jobs, TypeOK, TypeOK', RowHolds(row[j], retries[j]), Resubmitted(j)
    PROVE  RowHolds(row'[j], retries'[j])
  <1>1. row[j] \in Row /\ row'[j] \in Row /\ retries[j] \in Nat
    BY DEF TypeOK
  <1>2. PICK m \in Nat : m = row[j].limit
    BY <1>1, RowNumbers
  <1>3. row'[j].gen <= row'[j].limit * retries'[j] + row'[j].attempts
    <2>1. row[j].gen <= m * retries[j] + row[j].attempts /\ row[j].attempts <= m
      BY <1>2 DEF RowHolds
    <2>2. retries'[j] = retries[j] + 1
      BY <1>1 DEF Resubmitted, TypeOK
    <2>3. m * (retries[j] + 1) = m * retries[j] + m
      BY <1>1, <1>2
    <2>4. m * retries[j] \in Nat
      BY <1>1, <1>2
    <2>5. row[j].gen <= m * retries[j] + m
      BY <1>1, <1>2, <2>1, <2>4, RowNumbers
    <2>6. /\ row'[j].gen = row[j].gen
          /\ row'[j].limit = m
          /\ row'[j].attempts = 0
      BY <1>2 DEF Resubmitted, SameRequest
    <2>7. QED
      BY <1>1, <1>2, <2>2, <2>3, <2>4, <2>5, <2>6
  <1>4. row'[j].worker = NoWorker /\ row'[j].lease = Null /\ row'[j].status = "pending"
    BY StatusFacts DEF Resubmitted, RowHolds
  <1>5. row'[j].attempts <= row'[j].limit
    BY <1>1, <1>2, RowNumbers DEF Resubmitted, SameRequest
  <1>6. QED
    BY <1>3, <1>4, <1>5, StatusFacts DEF Resubmitted, RowHolds

LEMMA SubmittedHolds ==
    ASSUME NEW j \in Jobs, TypeOK, TypeOK', Submitted(j)
    PROVE  RowHolds(row'[j], retries'[j])
  <1>1. row'[j] \in Row /\ retries'[j] \in Nat
    BY DEF TypeOK
  <1>2. row'[j].limit * retries'[j] \in Nat
    BY <1>1, RowNumbers
  <1>3. QED
    BY <1>1, <1>2, StatusFacts, RowNumbers DEF Submitted, RowHolds

LEMMA TableStep ==
    ASSUME FenceInv, TypeOK', TableInv, StepEffect
    PROVE  TableInv'
  <1> SUFFICES ASSUME NEW k \in Jobs PROVE RowHolds(row'[k], retries'[k])
    BY DEF TableInv
  <1>0. RowHolds(row[k], retries[k]) /\ TypeOK
    BY DEF TableInv, FenceInv
  <1>1. CASE NoEffect \/ Interrupted
    <2>1. retries' = retries
      BY <1>1 DEF NoEffect, Interrupted
    <2>2. CASE Quiet(row[k], row'[k])
      BY <1>0, <2>1, <2>2, QuietHolds
    <2>3. CASE \E s \in {"pending", "dead_letter"} : Ended(row[k], row'[k], s)
      BY <1>0, <2>1, <2>3, EndedHolds
    <2>4. QED
      BY <1>1, <2>2, <2>3 DEF NoEffect, Interrupted
  <1>2. ASSUME NEW j \in Jobs, j # k, OthersQuiet(j), retries'[k] = retries[k]
        PROVE  RowHolds(row'[k], retries'[k])
    BY <1>0, <1>2, QuietHolds DEF OthersQuiet
  <1>3. ASSUME NEW j \in Jobs, Started(j) PROVE RowHolds(row'[k], retries'[k])
    <2>1. OthersQuiet(j) /\ retries' = retries
      BY <1>3 DEF Started
    <2>2. QED
      BY <1>0, <1>2, <1>3, <2>1, StartedHolds
  <1>4. ASSUME NEW j \in Jobs, Completed(j) PROVE RowHolds(row'[k], retries'[k])
    <2>1. OthersQuiet(j) /\ retries' = retries /\ Ended(row[j], row'[j], "succeeded")
      BY <1>4 DEF Completed
    <2>2. QED
      BY <1>0, <1>2, <2>1, EndedHolds
  <1>5. ASSUME NEW j \in Jobs, NEW s \in {"failed", "cancelled"}, Given(j, s)
        PROVE  RowHolds(row'[k], retries'[k])
    <2>1. OthersQuiet(j) /\ retries' = retries /\ Ended(row[j], row'[j], s)
      BY <1>5 DEF Given
    <2>2. QED
      BY <1>0, <1>2, <2>1, EndedHolds
  <1>6. ASSUME NEW j \in Jobs, Resubmitted(j) PROVE RowHolds(row'[k], retries'[k])
    <2>1. OthersQuiet(j) /\ (j # k => retries'[k] = retries[k])
      BY <1>0, <1>6 DEF Resubmitted, TypeOK
    <2>2. QED
      BY <1>0, <1>2, <1>6, <2>1, ResubmittedHolds
  <1>7. ASSUME NEW j \in Jobs, Submitted(j) PROVE RowHolds(row'[k], retries'[k])
    <2>1. OthersQuiet(j) /\ retries' = retries
      BY <1>7 DEF Submitted
    <2>2. QED
      BY <1>0, <1>2, <1>7, <2>1, SubmittedHolds
  <1>8. QED
    BY <1>1, <1>3, <1>4, <1>5, <1>6, <1>7 DEF StepEffect, TableEffect

LEMMA InitTable == Init => TableInv
  <1> SUFFICES ASSUME Init, NEW j \in Jobs PROVE RowHolds(row[j], retries[j])
    BY DEF TableInv
  <1>1. NoRow \in Row
    BY SetAssumption, NumberFacts DEF NoRow, Row, Status
  <1>2. NoRow.limit * 0 = 0 /\ NoRow.limit \in Nat
    BY <1>1, RowNumbers
  <1>3. row[j] = NoRow /\ retries[j] = 0
    BY DEF Init
  <1>4. QED
    BY <1>2, <1>3, StatusFacts DEF NoRow, RowHolds

(* The rows stay within the table's constraints and the bound on executions *)
(* in every reachable state.                                                *)
THEOREM TableInvariant == Spec => []TableInv
  <1>1. FenceInv /\ FenceInv' /\ TableInv /\ [Next]_vars => TableInv'
    BY AllEffects, TableStep DEF FenceInv
  <1>2. QED
    BY <1>1, InitTable, FenceInvariant, PTL DEF Spec

(* No UPDATE of the queue ever meets one of the CHECK constraints of        *)
(* background_jobs, so none of them fails with IntegrityError.              *)
THEOREM ConstraintsHold == Spec => []RowConstraints
  <1>1. TableInv => RowConstraints
    <2> SUFFICES ASSUME TableInv, NEW j \in Jobs
                 PROVE  /\ row[j].attempts <= row[j].limit
                        /\ (row[j].status = "running") <=> (row[j].worker # NoWorker)
                        /\ (row[j].status = "running") <=> (row[j].lease # Null)
                        /\ (row[j].completed = "set") <=> (row[j].status \in Terminal)
      BY DEF RowConstraints
    <2>1. RowHolds(row[j], retries[j])
      BY DEF TableInv
    <2>2. ~(Null >= Long)
      BY DeadlineFacts, NumberFacts
    <2>3. QED
      BY <2>1, <2>2 DEF RowHolds
  <1>2. QED
    BY <1>1, TableInvariant, PTL

(* However leases expire and reports get lost, a handler starts at most     *)
(* max_attempts times per submission or manual retry.                       *)
THEOREM ExecutionsBounded == Spec => []BoundedExecutions
  <1>1. TableInv => BoundedExecutions
    BY DEF TableInv, RowHolds, BoundedExecutions
  <1>2. QED
    BY <1>1, TableInvariant, PTL

-----------------------------------------------------------------------------
(* Idempotent creation.  What a call was answered must be tied to the row   *)
(* that answers it: two calls then meet at the row their key names.         *)

KeysUnique ==
    \A j, k \in Jobs :
      /\ row[j].status # "absent" /\ row[k].status # "absent"
      /\ row[j].key # NoKey
      /\ row[j].key = row[k].key
      => j = k

Answers(x, req) ==
    /\ x.status # "absent"
    /\ x.key = req.key /\ x.kind = req.kind /\ x.limit = req.limit

RepliesAnswer ==
    \A c \in Calls :
      call[c].reply \in Jobs => Answers(row[call[c].reply], call[c].req)

CreateInv == KeysUnique /\ RepliesAnswer

(* Existing rows keep their request, and only an insert makes a row exist.  *)
LEMMA TableEffectKeeps ==
    ASSUME TableEffect, NEW k \in Jobs
    PROVE  /\ SameRequest(row[k], row'[k])
           /\ row'[k].status = "absent" <=> row[k].status = "absent"
  <1>1. CASE NoEffect \/ Interrupted
    BY <1>1 DEF NoEffect, Interrupted, Quiet, Ended
  <1>2. ASSUME NEW j \in Jobs, OthersQuiet(j), j # k
        PROVE  /\ SameRequest(row[k], row'[k])
               /\ row'[k].status = "absent" <=> row[k].status = "absent"
    BY <1>2 DEF OthersQuiet, Quiet
  <1>3. ASSUME NEW j \in Jobs,
               Started(j) \/ Completed(j) \/ Resubmitted(j)
                 \/ \E s \in {"failed", "cancelled"} : Given(j, s)
        PROVE  /\ OthersQuiet(j)
               /\ SameRequest(row[j], row'[j])
               /\ row'[j].status # "absent" /\ row[j].status # "absent"
    BY <1>3, StatusFacts DEF Started, Completed, Resubmitted, Given, Ended
  <1>4. QED
    BY <1>1, <1>2, <1>3 DEF TableEffect

(* A step that inserts no row and answers no call keeps CreateInv. *)
LEMMA CreateKept ==
    ASSUME CreateInv, TableEffect, call' = call
    PROVE  CreateInv'
  <1>1. KeysUnique'
    BY TableEffectKeeps DEF CreateInv, KeysUnique, SameRequest
  <1>2. RepliesAnswer'
    BY TableEffectKeeps DEF CreateInv, RepliesAnswer, Answers, SameRequest
  <1>3. QED
    BY <1>1, <1>2 DEF CreateInv

LEMMA ViewAnswers ==
    ASSUME NEW req, NEW j \in ExistingJobs(req.key), ExistingView(j, req) \in Jobs
    PROVE  ExistingView(j, req) = j /\ Answers(row[j], req)
  BY SetAssumption DEF ExistingView, ExistingJobs, Exists, Answers

LEMMA LookupCreate ==
    ASSUME FenceInv, CreateInv, NEW c \in Calls, NEW req \in Request, CreateLookup(c, req)
    PROVE  CreateInv'
  <1>1. row' = row /\ call \in [Calls -> CallState]
    BY DEF CreateLookup, FenceInv, TypeOK
  <1>2. \A d \in Calls : d # c => call'[d] = call[d]
    BY <1>1 DEF CreateLookup
  <1>3. ASSUME call'[c].reply \in Jobs PROVE Answers(row[call'[c].reply], call'[c].req)
    <2>1. CASE ExistingJobs(req.key) = {}
      <3>1. call'[c].reply = "none"
        BY <1>1, <2>1 DEF CreateLookup
      <3>2. QED
        BY <1>3, <3>1, SetAssumption
    <2>2. CASE ExistingJobs(req.key) # {}
      <3>1. PICK j \in ExistingJobs(req.key) : j = CHOOSE k \in ExistingJobs(req.key) : TRUE
        BY <2>2
      <3>2. call'[c] = [pc |-> "done", req |-> req, reply |-> ExistingView(j, req)]
        BY <1>1, <2>2, <3>1 DEF CreateLookup
      <3>3. QED
        BY <1>3, <3>1, <3>2, ViewAnswers
    <2>3. QED
      BY <2>1, <2>2
  <1>4. QED
    BY <1>1, <1>2, <1>3 DEF CreateInv, KeysUnique, RepliesAnswer, Answers

LEMMA RaceLostCreate ==
    ASSUME FenceInv, CreateInv, NEW c \in Calls, CreateRaceLost(c)
    PROVE  CreateInv'
  <1>1. row' = row /\ call \in [Calls -> CallState]
    BY DEF CreateRaceLost, FenceInv, TypeOK
  <1>2. PICK j \in ExistingJobs(call[c].req.key) :
          call' = [call EXCEPT ![c].pc = "done", ![c].reply = ExistingView(j, call[c].req)]
    BY DEF CreateRaceLost
  <1>3. \A d \in Calls : d # c => call'[d] = call[d]
    BY <1>1, <1>2
  <1>4. call'[c].reply = ExistingView(j, call[c].req) /\ call'[c].req = call[c].req
    BY <1>1, <1>2 DEF CallState
  <1>5. call'[c].reply \in Jobs => Answers(row[call'[c].reply], call'[c].req)
    BY <1>4, ViewAnswers
  <1>6. QED
    BY <1>1, <1>3, <1>5 DEF CreateInv, KeysUnique, RepliesAnswer, Answers

LEMMA InsertCreate ==
    ASSUME FenceInv, CreateInv, NEW c \in Calls, NEW j \in Jobs, NEW now \in Readings,
           CreateInsert(c, j, now)
    PROVE  CreateInv'
  <1>1. call \in [Calls -> CallState] /\ row[j].status = "absent"
    BY DEF CreateInsert, FenceInv, TypeOK, Exists
  <1>2. /\ row'[j].status = "pending"
        /\ row'[j].key = call[c].req.key
        /\ row'[j].kind = call[c].req.kind
        /\ row'[j].limit = call[c].req.limit
    BY CreateInsertEffect DEF Submitted
  <1>3. \A k \in Jobs : k # j => row'[k] = row[k]
    BY DEF CreateInsert, FenceInv, TypeOK
  <1>4. /\ call'[c].reply = j /\ call'[c].req = call[c].req
        /\ \A d \in Calls : d # c => call'[d] = call[d]
    BY <1>1 DEF CreateInsert, CallState
  <1>5. \A k \in Jobs : /\ row[k].status # "absent"
                        /\ call[c].req.key # NoKey
                        => row[k].key # call[c].req.key
    BY DEF CreateInsert, ExistingJobs, Exists
  <1>6. KeysUnique'
    BY <1>1, <1>2, <1>3, <1>5 DEF CreateInv, KeysUnique
  <1>7. RepliesAnswer'
    <2> SUFFICES ASSUME NEW d \in Calls, call'[d].reply \in Jobs
                 PROVE  Answers(row'[call'[d].reply], call'[d].req)
      BY DEF RepliesAnswer
    <2>1. CASE d = c
      BY <1>2, <1>4, <2>1 DEF Answers
    <2>2. CASE d # c
      <3>1. call'[d] = call[d] /\ Answers(row[call[d].reply], call[d].req)
        BY <1>4, <2>2 DEF CreateInv, RepliesAnswer
      <3>2. call[d].reply # j
        BY <1>1, <3>1 DEF Answers
      <3>3. QED
        BY <1>3, <3>1, <3>2 DEF Answers
    <2>3. QED
      BY <2>1, <2>2
  <1>8. QED
    BY <1>6, <1>7 DEF CreateInv

LEMMA StepCreate == FenceInv /\ CreateInv /\ [Next]_vars => CreateInv'
  <1> SUFFICES ASSUME FenceInv, CreateInv, [Next]_vars PROVE CreateInv'
    OBVIOUS
  <1>1. CASE Create
    BY <1>1, LookupCreate, InsertCreate, RaceLostCreate DEF Create
  <1>2. ASSUME Owner \/ (\E w \in Workers : WorkerStep(w)) \/ Tick \/ UNCHANGED vars
        PROVE  TableEffect /\ call' = call
    <2>1. call' = call
      <3>1. ASSUME NEW w \in Workers, WorkerStep(w) PROVE call' = call
        <4>1. ASSUME NEW now \in Readings, NEW j \in Jobs, Claim(w, j, now)
              PROVE  call' = call
          BY <4>1 DEF Claim
        <4>2. ASSUME NEW now \in Readings, Heartbeat(w, now) \/ HeartbeatError(w, now)
              PROVE  call' = call
          BY <4>2 DEF Heartbeat, HeartbeatError
        <4>3. ASSUME NEW now \in Readings,
                     Succeed(w, now) \/ SucceedError(w, now) \/ Fail(w, now)
              PROVE  call' = call
          BY <4>3 DEF Succeed, SucceedError, Fail
        <4>4. ASSUME NEW now \in Readings, RecoverExpired(w, now) \/ ClaimNothing(w, now)
              PROVE  call' = call
          BY <4>4 DEF RecoverExpired, ClaimNothing
        <4>5. ASSUME \/ \E report \in Reports \ {"none"} : HandlerEnds(w, report)
                     \/ HandlerTimeout(w) \/ Abandon(w)
              PROVE  call' = call
          BY <4>5 DEF HandlerEnds, HandlerTimeout, Abandon
        <4>6. QED
          BY <3>1, <4>1, <4>2, <4>3, <4>4, <4>5 DEF WorkerStep
      <3>2. QED
        BY <1>2, <3>1 DEF Owner, Cancel, Retry, Tick, vars
    <2>2. TableEffect
      <3>1. CASE Owner
        <4>1. PICK j \in Jobs : Cancel(j) \/ \E now \in Readings : Retry(j, now)
          BY <3>1 DEF Owner
        <4>2. QED
          BY <4>1, CancelEffect, RetryEffect DEF TableEffect
      <3>2. CASE UNCHANGED vars
        BY <3>2, QuietSame DEF vars, TableEffect, NoEffect
      <3>3. QED
        BY <1>2, <3>1, <3>2, WorkerEffect, TickEffect DEF TableEffect
    <2>3. QED
      BY <2>1, <2>2
  <1>3. QED
    BY <1>1, <1>2, CreateKept DEF Next

(* Concurrent create() calls with one idempotency key yield one job, for    *)
(* any number of calls racing between the lookup and the insert.            *)
THEOREM CreateIsIdempotent == Spec => []IdempotentCreate
  <1>1. Init => CreateInv
    <2> SUFFICES ASSUME Init PROVE CreateInv
      OBVIOUS
    <2>1. \A j \in Jobs : row[j].status = "absent"
      BY DEF Init, NoRow
    <2>2. \A c \in Calls : call[c].reply \notin Jobs
      BY SetAssumption DEF Init
    <2>3. QED
      BY <2>1, <2>2 DEF CreateInv, KeysUnique, RepliesAnswer
  <1>2. FenceInv /\ CreateInv => IdempotentCreate
    <2> SUFFICES ASSUME FenceInv, CreateInv PROVE IdempotentCreate
      OBVIOUS
    <2>1. ASSUME NEW c \in Calls, NEW d \in Calls,
                 call[c].reply \in Jobs, call[d].reply \in Jobs,
                 call[c].req.key # NoKey, call[c].req.key = call[d].req.key
          PROVE  call[c].reply = call[d].reply /\ call[c].req = call[d].req
      <3>1. /\ Answers(row[call[c].reply], call[c].req)
            /\ Answers(row[call[d].reply], call[d].req)
        BY <2>1 DEF CreateInv, RepliesAnswer
      <3>2. call[c].reply = call[d].reply
        BY <2>1, <3>1 DEF CreateInv, KeysUnique, Answers
      <3>3. call[c].req \in Request /\ call[d].req \in Request
        BY DEF FenceInv, TypeOK, CallState
      <3>4. QED
        BY <3>1, <3>2, <3>3 DEF Answers, Request
    <2>2. QED
      BY <2>1 DEF CreateInv, KeysUnique, IdempotentCreate, Exists
  <1>3. QED
    BY <1>1, <1>2, StepCreate, FenceInvariant, PTL DEF Spec

-----------------------------------------------------------------------------
(* The refinement: each table effect is a step of the documented life cycle *)
(* or changes nothing the life cycle shows.                                 *)

Phase == [j \in Jobs |-> row[j].status]
Fence == [j \in Jobs |-> row[j].gen]
Stored == [j \in Jobs |-> row[j].result]

LEMMA OthersShowNothing ==
    ASSUME NEW j \in Jobs, OthersQuiet(j)
    PROVE  /\ Phase' = [Phase EXCEPT ![j] = row'[j].status]
           /\ Fence' = [Fence EXCEPT ![j] = row'[j].gen]
           /\ Stored' = [Stored EXCEPT ![j] = row'[j].result]
  BY DEF OthersQuiet, Quiet, Phase, Fence, Stored

LEMMA SameEntry ==
    ASSUME NEW f, f = [k \in Jobs |-> f[k]], NEW j \in Jobs
    PROVE  [f EXCEPT ![j] = f[j]] = f
  OBVIOUS

LEMMA StartedRefines ==
    ASSUME NEW j \in Jobs, Started(j)
    PROVE  Lifecycle!Start(j)
  <1>1. OthersQuiet(j)
    BY DEF Started
  <1>2. /\ Phase[j] = "pending"
        /\ row'[j].status = "running"
        /\ row'[j].gen = Fence[j] + 1
        /\ row'[j].result = Stored[j]
    BY DEF Started, Phase, Fence, Stored
  <1>3. Stored' = Stored
    BY <1>1, <1>2, OthersShowNothing, SameEntry DEF Stored
  <1>4. QED
    BY <1>1, <1>2, <1>3, OthersShowNothing
    DEF Lifecycle!Start, Lifecycle!Move, Phase, Fence, Stored

LEMMA CompletedRefines ==
    ASSUME NEW j \in Jobs, Completed(j)
    PROVE  Lifecycle!Complete(j)
  <1>1. OthersQuiet(j)
    BY DEF Completed
  <1>2. /\ Phase[j] = "running"
        /\ row'[j].status = "succeeded"
        /\ row'[j].gen = Fence[j]
        /\ row'[j].result = Fence[j]
    BY DEF Completed, Ended, Phase, Fence
  <1>3. Fence' = Fence
    BY <1>1, <1>2, OthersShowNothing, SameEntry DEF Fence
  <1>4. QED
    BY <1>1, <1>2, <1>3, OthersShowNothing
    DEF Lifecycle!Complete, Lifecycle!Move, Phase, Fence, Stored

LEMMA GivenRefines ==
    ASSUME NEW j \in Jobs, NEW s \in {"failed", "cancelled"}, Given(j, s)
    PROVE  Lifecycle!Give(j)
  <1>1. OthersQuiet(j)
    BY DEF Given
  <1>2. /\ \/ Phase[j] = "running" /\ s \in {"failed", "cancelled"}
           \/ Phase[j] = "pending" /\ s = "cancelled"
        /\ row'[j].status = s
        /\ row'[j].gen = Fence[j]
        /\ row'[j].result = Stored[j]
    BY DEF Given, Ended, Phase, Fence, Stored
  <1>3. Fence' = Fence /\ Stored' = Stored
    BY <1>1, <1>2, OthersShowNothing, SameEntry DEF Fence, Stored
  <1>4. QED
    BY <1>1, <1>2, <1>3, OthersShowNothing
    DEF Lifecycle!Give, Lifecycle!Move, Phase, Fence, Stored

LEMMA ResubmittedRefines ==
    ASSUME NEW j \in Jobs, Resubmitted(j)
    PROVE  Lifecycle!Resubmit(j)
  <1>1. OthersQuiet(j)
    BY DEF Resubmitted
  <1>2. /\ Phase[j] \in {"failed", "dead_letter"}
        /\ row'[j].status = "pending"
        /\ row'[j].gen = Fence[j]
        /\ row'[j].result = Stored[j]
    BY StatusFacts DEF Resubmitted, Phase, Fence, Stored
  <1>3. Fence' = Fence /\ Stored' = Stored
    BY <1>1, <1>2, OthersShowNothing, SameEntry DEF Fence, Stored
  <1>4. QED
    BY <1>1, <1>2, <1>3, OthersShowNothing
    DEF Lifecycle!Resubmit, Lifecycle!Move, Phase, Fence, Stored

LEMMA SubmittedRefines ==
    ASSUME FenceInv, TableInv, NEW j \in Jobs, Submitted(j)
    PROVE  Lifecycle!Submit(j)
  <1>1. OthersQuiet(j)
    BY DEF Submitted
  <1>2. row[j].gen = 0 /\ row[j].result = 0
    BY DEF Submitted, FenceInv, AbsentUnfenced, TableInv, RowHolds
  <1>3. /\ Phase[j] = "absent"
        /\ row'[j].status = "pending"
        /\ row'[j].gen = Fence[j]
        /\ row'[j].result = Stored[j]
    BY <1>2 DEF Submitted, Phase, Fence, Stored
  <1>4. Fence' = Fence /\ Stored' = Stored
    BY <1>1, <1>3, OthersShowNothing, SameEntry DEF Fence, Stored
  <1>5. QED
    BY <1>1, <1>3, <1>4, OthersShowNothing
    DEF Lifecycle!Submit, Lifecycle!Move, Phase, Fence, Stored

(* recover_expired() may end several leases in one transaction. *)
LEMMA InterruptedRefines ==
    ASSUME Interrupted
    PROVE  \E S \in SUBSET Jobs : \E to \in [S -> {"pending", "dead_letter"}] :
             Lifecycle!Interrupt(S, to)
  <1> DEFINE S == {k \in Jobs : row'[k].status # row[k].status}
             to == [k \in S |-> row'[k].status]
  <1>1. \A k \in Jobs : row'[k].gen = row[k].gen /\ row'[k].result = row[k].result
    BY DEF Interrupted, Quiet, Ended
  <1>2. \A k \in S : row[k].status = "running" /\ row'[k].status \in {"pending", "dead_letter"}
    BY DEF Interrupted, Quiet, Ended
  <1>3. S \in SUBSET Jobs /\ to \in [S -> {"pending", "dead_letter"}]
    BY <1>2
  <1>4. Fence' = Fence /\ Stored' = Stored
    BY <1>1 DEF Fence, Stored
  <1>5. Phase' = [k \in Jobs |-> IF k \in S THEN to[k] ELSE Phase[k]]
    BY DEF Phase
  <1>6. \A k \in S : Phase[k] = "running" /\ to[k] \in {"pending", "dead_letter"}
    BY <1>2, <1>3 DEF Phase
  <1> HIDE DEF S, to
  <1>7. PICK T \in SUBSET Jobs : T = S
    BY <1>3
  <1>8. PICK u \in [T -> {"pending", "dead_letter"}] : u = to
    BY <1>3, <1>7
  <1>9. /\ \A k \in T : Phase[k] = "running" /\ u[k] \in {"pending", "dead_letter"}
        /\ Phase' = [k \in Jobs |-> IF k \in T THEN u[k] ELSE Phase[k]]
    BY <1>5, <1>6, <1>7, <1>8
  <1>10. QED
    BY <1>4, <1>9 DEF Lifecycle!Interrupt, Phase, Fence, Stored

LEMMA NoEffectRefines ==
    ASSUME NoEffect
    PROVE  UNCHANGED Lifecycle!lifecycle
  <1>1. Phase' = Phase /\ Fence' = Fence /\ Stored' = Stored
    BY DEF NoEffect, Quiet, Phase, Fence, Stored
  <1>2. QED
    BY <1>1 DEF Lifecycle!lifecycle, Phase, Fence, Stored

(* The queue, with its leases, clocks, crashes and racing workers,          *)
(* implements the documented life cycle of a job.                           *)
THEOREM LifecycleImplemented == Spec => ImplementsLifecycle
  <1>1. Init => Lifecycle!Init
    <2> SUFFICES ASSUME Init PROVE Lifecycle!Init
      OBVIOUS
    <2>1. \A j \in Jobs : /\ row[j].status = "absent"
                          /\ row[j].gen = 0
                          /\ row[j].result = 0
      BY DEF Init, NoRow
    <2>2. QED
      BY <2>1 DEF Lifecycle!Init
  <1>2. FenceInv /\ TableInv /\ [Next]_vars => [Lifecycle!Next]_(Lifecycle!lifecycle)
    <2> SUFFICES ASSUME FenceInv, TableInv, [Next]_vars
                 PROVE  [Lifecycle!Next]_(Lifecycle!lifecycle)
      OBVIOUS
    <2>1. StepEffect
      BY AllEffects
    <2>2. CASE NoEffect
      BY <2>2, NoEffectRefines
    <2>3. CASE Interrupted
      BY <2>3, InterruptedRefines DEF Lifecycle!Next
    <2>4. ASSUME NEW j \in Jobs,
                 \/ Submitted(j) \/ Started(j) \/ Completed(j) \/ Resubmitted(j)
                 \/ \E s \in {"failed", "cancelled"} : Given(j, s)
          PROVE  Lifecycle!Next
      BY <2>4, SubmittedRefines, StartedRefines, CompletedRefines, ResubmittedRefines,
         GivenRefines DEF Lifecycle!Next
    <2>5. QED
      BY <2>1, <2>2, <2>3, <2>4 DEF StepEffect, TableEffect
  <1>3. QED
    BY <1>1, <1>2, FenceInvariant, TableInvariant, PTL
    DEF Spec, ImplementsLifecycle, Lifecycle!Spec
=============================================================================
