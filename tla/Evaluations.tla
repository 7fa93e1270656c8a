----------------------------- MODULE Evaluations -----------------------------
(***************************************************************************)
(* Evaluations of recorded runs, and the optimization candidates that      *)
(* refer to them.  The two share no state; each has its own variables,     *)
(* initial states and next-state relation.                                 *)
(***************************************************************************)
EXTENDS Integers, Sequences, FiniteSets
LOCAL INSTANCE SequencesExt

CONSTANTS
    EvalIds,            \* evaluations, each requested once
    FixtureCases,       \* the dataset: a sequence of [key, grounded, contains, forbids]
    SourceRuns,
    RunFacts,           \* [SourceRuns -> [done, model, says, events]], immutable once done
    Deletable,          \* bound: runs that a user may delete
    PageSize,           \* events per page
    PassScore,          \* threshold, in checks of a case
    Comparers,          \* requests for a drift report
    MinimumSamples,     \* minimum_sample_size, as requests give it
    PassDrop, ScoreDrop,
    Proposals,      \* candidate ids
    Receipts,       \* ids of approval requests
    Sessions,       \* concurrent requests
    Evaluated,      \* completed evaluations of the project
    DriftPairs,     \* pairs of evaluations with a drift report
    ReceiptTtl, MaxCandClock,   \* life of a receipt; bound of the clock
    NoReceipt

VARIABLES
    liveRuns,       \* runs that are still in the ledger
    evalRow,        \* rows of eval_runs with their cases: [EvalIds -> row]
    evalJob,        \* [EvalIds -> the evaluate() call]
    driftRows,      \* rows of eval_drift_reports
    comparer,       \* [Comparers -> the compare() call]
    candidate,      \* rows of optimization_candidates: [Proposals -> row]
    receipt,        \* rows of approval_requests for candidates: [Receipts -> row]
    candEvents,     \* rows of optimization_candidate_events: [Proposals -> Seq]
    session,        \* [Sessions -> the transaction under way]
    candClock

-----------------------------------------------------------------------------
(***************************************************************************)
(* Evaluations of recorded runs (eval/service.py, eval/persistence.py) and *)
(* drift reports between them (eval/drift.py).  An evaluation reads the    *)
(* stored trajectories page by page, creates its row, appends one result   *)
(* per case and finalises; a failure anywhere in the second half makes the *)
(* row terminal; a crash leaves it running.  Runs may be deleted meanwhile.*)
(***************************************************************************)

evaluationVars == <<liveRuns, evalRow, evalJob, driftRows, comparer>>

NoEval == [status |-> "none", results |-> <<>>]
NoJob == [stage |-> "idle"]
Cases == Len(FixtureCases)

EvaluationInit ==
    /\ liveRuns = SourceRuns
    /\ evalRow = [e \in EvalIds |-> NoEval]
    /\ evalJob = [e \in EvalIds |-> NoJob]
    /\ driftRows = {}
    /\ comparer = [d \in Comparers |-> NoJob]

-----------------------------------------------------------------------------
(* _evaluate_case(): the last event that tells a count wins.                *)
Grounding(events) ==
    FoldLeft(LAMBDA acc, e :
                CASE e.kind = "claim_verified" ->
                        [acc EXCEPT !.supported = e.supported, !.unsupported = e.unsupported]
                  [] e.kind = "grounded_answer" ->
                        [seen |-> TRUE, supported |-> e.supported, unsupported |-> e.unsupported]
                  [] OTHER -> acc,
             [seen |-> FALSE, supported |-> 0, unsupported |-> 0], events)

Grounded(events) ==
    LET g == Grounding(events) IN g.seen /\ g.supported > 0 /\ g.unsupported = 0

(* One check for grounding, one per expected and per forbidden phrase.      *)
Score(case, run, events) ==
    (IF Grounded(events) = case.grounded THEN 1 ELSE 0)
      + Cardinality(case.contains \cap RunFacts[run].says)
      + Cardinality(case.forbids \ RunFacts[run].says)

CaseResult(i, run, events) ==
    LET score == Score(FixtureCases[i], run, events)
    IN  [key |-> FixtureCases[i].key, run |-> run, score |-> score, passed |-> score >= PassScore]

(* _validate_mapping(): every case once, every run once, in fixture order.  *)
Mappings == {m \in [1..Cases -> SourceRuns] : IsInjective(m)}

BeginEvaluation(e, mapping) ==
    /\ evalJob[e] = NoJob
    /\ evalJob' = [evalJob EXCEPT ![e] =
           [stage |-> "loading", mapping |-> mapping, at |-> 1, read |-> <<>>, after |-> 0,
            found |-> FALSE, computed |-> <<>>]]
    /\ UNCHANGED <<liveRuns, evalRow, driftRows, comparer>>

Refuse(e) == evalJob' = [evalJob EXCEPT ![e] = [stage |-> "refused"]]

(* The run of the next case must exist and be completed. *)
LoadRun(e) ==
    LET job == evalJob[e]
        run == job.mapping[job.at]
    IN  /\ job.stage = "loading" /\ ~job.found /\ job.at <= Cases
        /\ IF run \in liveRuns /\ RunFacts[run].done
           THEN evalJob' = [evalJob EXCEPT ![e].found = TRUE]
           ELSE Refuse(e)
        /\ UNCHANGED <<liveRuns, evalRow, driftRows, comparer>>

(* RunRepository.events(): the events behind a sequence number.             *)
PageAfter(run, after) ==
    LET events == RunFacts[run].events
    IN  SubSeq(events, after + 1, Min({after + PageSize, Len(events)}))

LastPage(page) == Len(page) < PageSize

(* _stored_events(): pages until a short one; the run may disappear in      *)
(* between.                                                                 *)
ReadEvents(e) ==
    LET job == evalJob[e]
        run == job.mapping[job.at]
        page == PageAfter(run, job.after)
        read == job.read \o page
    IN  /\ job.stage = "loading" /\ job.found
        /\ IF run \notin liveRuns THEN Refuse(e)
           ELSE IF LastPage(page)
           THEN evalJob' = [evalJob EXCEPT ![e] =
                    [job EXCEPT !.at = job.at + 1, !.read = <<>>, !.after = 0, !.found = FALSE,
                                !.computed = Append(job.computed, CaseResult(job.at, run, read))]]
           ELSE evalJob' = [evalJob EXCEPT ![e] =
                    [job EXCEPT !.read = read, !.after = job.after + Len(page)]]
        /\ UNCHANGED <<liveRuns, evalRow, driftRows, comparer>>

Models(mapping) == {RunFacts[mapping[i]].model : i \in DOMAIN mapping}

(* EvaluationRepository.create(), when all runs used one model. *)
CreateEvaluation(e) ==
    LET job == evalJob[e]
    IN  /\ job.stage = "loading" /\ job.at > Cases
        /\ IF Cardinality(Models(job.mapping)) # 1
           THEN Refuse(e) /\ UNCHANGED evalRow
           ELSE /\ evalRow' = [evalRow EXCEPT ![e] = [status |-> "running", results |-> <<>>,
                                                      runs |-> ToSet(job.mapping)]]
                /\ evalJob' = [evalJob EXCEPT ![e] = [stage |-> "writing", computed |-> job.computed]]
        /\ UNCHANGED <<liveRuns, driftRows, comparer>>

(* append_case() of a running evaluation, for a run that is part of it.     *)
AppendCase(e) ==
    LET job == evalJob[e]
        row == evalRow[e]
        result == job.computed[Len(row.results) + 1]
    IN  /\ job.stage = "writing" /\ row.status = "running" /\ Len(row.results) < Cases
        /\ result.run \in row.runs
        /\ evalRow' = [evalRow EXCEPT ![e].results = Append(@, result)]
        /\ UNCHANGED <<liveRuns, evalJob, driftRows, comparer>>

(* finalize(): UPDATE ... WHERE status = 'running'. *)
Finalize(e, status, passed) ==
    evalRow' = IF evalRow[e].status # "running" THEN evalRow
               ELSE [evalRow EXCEPT ![e] = [status |-> status, results |-> evalRow[e].results,
                                            passed |-> passed]]

(* The row is written; its re-reading may still fail the call. *)
CompleteEvaluation(e) ==
    /\ evalJob[e].stage = "writing" /\ Len(evalRow[e].results) = Cases
    /\ Finalize(e, "completed", \A i \in 1..Cases : evalRow[e].results[i].passed)
    /\ \E next \in {"done", "failing"} : evalJob' = [evalJob EXCEPT ![e] = [stage |-> next]]
    /\ UNCHANGED <<liveRuns, driftRows, comparer>>

(* An append fails, or its commit's answer is lost. *)
WritingFails(e) ==
    /\ evalJob[e].stage = "writing" /\ Len(evalRow[e].results) < Cases
    /\ evalJob' = [evalJob EXCEPT ![e] = [stage |-> "failing"]]
    /\ UNCHANGED <<liveRuns, evalRow, driftRows, comparer>>

(* The handler makes the row terminal before the error is raised again.     *)
FailEvaluation(e) ==
    /\ evalJob[e].stage = "failing"
    /\ Finalize(e, "failed", FALSE)
    /\ evalJob' = [evalJob EXCEPT ![e] = [stage |-> "raised"]]
    /\ UNCHANGED <<liveRuns, driftRows, comparer>>

(* The process dies: the row stays as it is, nothing resumes it. *)
EvaluatorCrashes(e) ==
    /\ evalJob[e].stage = "writing"
    /\ evalJob' = [evalJob EXCEPT ![e] = [stage |-> "crashed"]]
    /\ UNCHANGED <<liveRuns, evalRow, driftRows, comparer>>

DeleteSourceRun(r) ==
    /\ r \in liveRuns \cap Deletable
    /\ liveRuns' = liveRuns \ {r}
    /\ UNCHANGED <<evalRow, evalJob, driftRows, comparer>>

-----------------------------------------------------------------------------
(* _quantile(): nearest rank, max(0, ceil(fraction * n) - 1) from zero.     *)
Quantile(values, num, den) ==
    LET ordered == SortSeq(values, LAMBDA x, y : x < y)
        rank == (num * Len(values) + den - 1) \div den
    IN  ordered[Max({0, rank - 1}) + 1]

Scores(e) == [i \in DOMAIN evalRow[e].results |-> evalRow[e].results[i].score]

(* summarize(): rates as counts of the cases. *)
Summarize(e) ==
    [count |-> Len(evalRow[e].results),
     passes |-> Cardinality({i \in DOMAIN evalRow[e].results : evalRow[e].results[i].passed}),
     total |-> FoldLeft(LAMBDA x, y : x + y, 0, Scores(e)),
     p10 |-> Quantile(Scores(e), 1, 10), p50 |-> Quantile(Scores(e), 1, 2), p90 |-> Quantile(Scores(e), 9, 10)]

(* detect_drift(): too few cases are told instead of any comparison.        *)
Warnings(before, after, minimum) ==
    IF before.count < minimum \/ after.count < minimum THEN {"sample_count"}
    ELSE {w \in {"pass_rate", "score_p10"} :
            \/ w = "pass_rate" /\ before.passes - after.passes >= PassDrop
            \/ w = "score_p10" /\ before.p10 - after.p10 >= ScoreDrop}

(* compare(): both evaluations must be completed; the report is computed    *)
(* from what was read ...                                                   *)
CompareReads(d, base, new, minimum) ==
    /\ comparer[d] = NoJob /\ base # new
    /\ evalRow[base].status = "completed" /\ evalRow[new].status = "completed"
    /\ comparer' = [comparer EXCEPT ![d] =
           [stage |-> "computed", pair |-> <<base, new>>, minimum |-> minimum,
            before |-> Summarize(base), after |-> Summarize(new),
            warnings |-> Warnings(Summarize(base), Summarize(new), minimum)]]
    /\ UNCHANGED <<liveRuns, evalRow, evalJob, driftRows>>

Report(c) == [pair |-> c.pair, minimum |-> c.minimum, before |-> c.before, after |-> c.after,
              warnings |-> c.warnings]

(* ... and inserted unless the unique key, the pair with the minimum sample *)
(* size, shows that it is there already.                                    *)
InsertReport(d) ==
    IF \E r \in driftRows : r.pair = comparer[d].pair /\ r.minimum = comparer[d].minimum THEN driftRows
    ELSE driftRows \cup {Report(comparer[d])}

CompareWrites(d) ==
    /\ comparer[d].stage = "computed"
    /\ driftRows' = InsertReport(d)
    /\ comparer' = [comparer EXCEPT ![d] = NoJob]
    /\ UNCHANGED <<liveRuns, evalRow, evalJob>>

EvaluationNext ==
    \/ \E e \in EvalIds :
           \/ \E m \in Mappings : BeginEvaluation(e, m)
           \/ LoadRun(e) \/ ReadEvents(e) \/ CreateEvaluation(e) \/ AppendCase(e)
           \/ CompleteEvaluation(e) \/ WritingFails(e) \/ FailEvaluation(e) \/ EvaluatorCrashes(e)
    \/ \E r \in SourceRuns : DeleteSourceRun(r)
    \/ \E d \in Comparers :
           \/ \E base, new \in EvalIds, n \in MinimumSamples : CompareReads(d, base, new, n)
           \/ CompareWrites(d)

-----------------------------------------------------------------------------
(* A completed evaluation has exactly one result per case, each scored on   *)
(* the run's whole trajectory whatever the page size, and passed iff all    *)
(* did (_stored_events, service.py:146; finalize, persistence.py:198).      *)
CompletedIsWhole ==
    \A e \in EvalIds : evalRow[e].status = "completed" =>
        LET rs == evalRow[e].results
        IN  /\ Len(rs) = Cases /\ evalRow[e].passed = (\A i \in 1..Cases : rs[i].passed)
            /\ \A i \in 1..Cases : rs[i] = CaseResult(i, rs[i].run, RunFacts[rs[i].run].events)

(* Nearest rank by its definition: the smallest value that at least the     *)
(* fraction of all values does not exceed.                                  *)
NearestRank(values, num, den) ==
    CHOOSE v \in ToSet(values) :
        /\ Cardinality({i \in DOMAIN values : values[i] <= v}) * den >= num * Len(values)
        /\ \A w \in ToSet(values) :
               Cardinality({i \in DOMAIN values : values[i] <= w}) * den >= num * Len(values) => v <= w

(* There is one report per pair and minimum sample size, and it says what   *)
(* its two evaluations say now, with quantiles of the nearest rank and no   *)
(* comparison of too few cases (compare, drift.py:245).                     *)
ReportsStayTrue ==
    \A r \in driftRows :
        /\ \A o \in driftRows : o.pair = r.pair /\ o.minimum = r.minimum => o = r
        /\ "sample_count" \in r.warnings
              <=> \E i \in 1..2 : Len(evalRow[r.pair[i]].results) < r.minimum
        /\ LET old == Scores(r.pair[1])
           IN  /\ r.before.count = Len(old) /\ r.before.p10 = NearestRank(old, 1, 10)
               /\ r.before.p50 = NearestRank(old, 1, 2) /\ r.before.p90 = NearestRank(old, 9, 10)

-----------------------------------------------------------------------------
(***************************************************************************)
(* OptimizationCandidateService (eval/candidates.py) and its routes:       *)
(* recommendations that a human approves with an exact, expiring receipt,  *)
(* promotes, rejects or rolls back.  Every operation reads its row in one  *)
(* transaction under a write fence (FOR UPDATE, BEGIN IMMEDIATE) with the  *)
(* version its client last saw, which may be stale.  The reading and the   *)
(* writing half of a transaction are separate steps here, so that the      *)
(* fence is what keeps them together.                                      *)
(***************************************************************************)

candidateVars == <<candidate, receipt, candEvents, session, candClock>>

NoCandidate == [state |-> "none", version |-> 0, approval |-> NoReceipt]
NoRequest == [status |-> "none"]
NoSession == [op |-> "none"]

CandidateInit ==
    /\ candidate = [c \in Proposals |-> NoCandidate]
    /\ receipt = [r \in Receipts |-> NoRequest]
    /\ candEvents = [c \in Proposals |-> <<>>]
    /\ session = [s \in Sessions |-> NoSession]
    /\ candClock = 0

(* _event(): appended in the transaction of the change it tells. *)
Event(c, from, to, version, approval, now) ==
    candEvents' = [candEvents EXCEPT ![c] =
        Append(@, [from |-> from, to |-> to, version |-> version, approval |-> approval, at |-> now])]

(* create(): two different completed evaluations are the evidence, and a    *)
(* drift report, if one is named, must compare exactly these two.           *)
CreateCandidate(c, base, new, drift) ==
    /\ candidate[c] = NoCandidate
    /\ base # new /\ {base, new} \subseteq Evaluated
    /\ drift => <<base, new>> \in DriftPairs
    /\ candidate' = [candidate EXCEPT ![c] = [state |-> "proposed", version |-> 1, approval |-> NoReceipt]]
    /\ Event(c, "none", "proposed", 1, NoReceipt, candClock)
    /\ UNCHANGED <<receipt, session, candClock>>

-----------------------------------------------------------------------------
(* The states a transition may start from. *)
Sources(op) ==
    CASE op \in {"request", "approve"} -> {"proposed"}
      [] op = "promote" -> {"approved"}
      [] op = "reject" -> {"proposed", "approved"}
      [] op = "rollback" -> {"promoted"}

(* _begin_write_fence() and with_for_update(). *)
Unfenced(s, c) == \A o \in Sessions : session[o].op \notin {"none", "begun"} => session[o].of # c

(* A receipt's arguments hash binds owner, candidate, version and evidence. *)
ArgumentsHash(c, version) == <<c, version>>

Exact(r, c, version) == receipt[r].status # "none" /\ receipt[r].args = ArgumentsHash(c, version)

(* _approved_transition() looks for this very receipt. *)
UsableReceipt(r, c, version, now) ==
    Exact(r, c, version) /\ receipt[r].status = "approved" /\ receipt[r].expires > now

(* The time of an operation is taken before it waits for the fence. *)
BeginOperation(s) ==
    /\ session[s] = NoSession
    /\ session' = [session EXCEPT ![s] = [op |-> "begun", now |-> candClock]]
    /\ UNCHANGED <<candidate, receipt, candEvents, candClock>>

(* The reading half: state and version must be what the client expects.     *)
ReadRow(s, op, c, version, r) ==
    LET now == session[s].now
    IN  /\ session[s].op = "begun" /\ Unfenced(s, c)
        /\ candidate[c].state \in Sources(op) /\ candidate[c].version = version
        /\ op = "approve" => UsableReceipt(r, c, version, now)
        /\ op = "promote" => candidate[c].approval # NoReceipt
        /\ session' = [session EXCEPT ![s] = [op |-> op, of |-> c, version |-> version, now |-> now,
                                              previous |-> candidate[c].state, approval |-> r]]
        /\ UNCHANGED <<candidate, receipt, candEvents, candClock>>

(* Anything else is a conflict, and nothing has been written. *)
OperationRefused(s) ==
    /\ session[s].op = "begun"
    /\ session' = [session EXCEPT ![s] = NoSession]
    /\ UNCHANGED <<candidate, receipt, candEvents, candClock>>

(* The UPDATE repeats state and version; under the fence they cannot have   *)
(* changed, so that its "lost race" answer needs no action.                 *)
StillAsRead(t) == candidate[t.of].state = t.previous /\ candidate[t.of].version = t.version

(* request_approval(): reserve_in_session() inserts a pending receipt.      *)
ReserveReceipt(s, r) ==
    LET t == session[s]
    IN  /\ t.op = "request" /\ receipt[r] = NoRequest
        /\ receipt' = [receipt EXCEPT ![r] =
               [status |-> "pending", args |-> ArgumentsHash(t.of, t.version),
                expires |-> candClock + ReceiptTtl]]
        /\ session' = [session EXCEPT ![s] = NoSession]
        /\ UNCHANGED <<candidate, candEvents, candClock>>

CancelPending(c, version, but) ==
    [r \in Receipts |->
        IF Exact(r, c, version) /\ receipt[r].status = "pending" /\ r # but
        THEN [receipt[r] EXCEPT !.status = "cancelled"] ELSE receipt[r]]

WriteRow(s, to, approval) ==
    LET t == session[s]
    IN  /\ StillAsRead(t)
        /\ candidate' = [candidate EXCEPT ![t.of] =
               [state |-> to, version |-> t.version + 1, approval |-> approval]]
        /\ Event(t.of, t.previous, to, t.version + 1, approval, t.now)
        /\ session' = [session EXCEPT ![s] = NoSession]
        /\ UNCHANGED candClock

ApproveCandidate(s) ==
    LET t == session[s]
    IN  /\ t.op = "approve" /\ WriteRow(s, "approved", t.approval)
        /\ receipt' = CancelPending(t.of, t.version, t.approval)

PromoteCandidate(s) ==
    /\ session[s].op = "promote" /\ WriteRow(s, "promoted", candidate[session[s].of].approval)
    /\ UNCHANGED receipt

RejectCandidate(s) ==
    LET t == session[s]
    IN  /\ t.op = "reject" /\ WriteRow(s, "rejected", candidate[t.of].approval)
        /\ receipt' = CancelPending(t.of, t.version, NoReceipt)

RollbackCandidate(s) ==
    /\ session[s].op = "rollback" /\ WriteRow(s, "rolled_back", candidate[session[s].of].approval)
    /\ UNCHANGED receipt

(* ApprovalRepository.decide() by the human, while the receipt lives. *)
DecideReceipt(r, verdict) ==
    /\ receipt[r].status = "pending" /\ receipt[r].expires > candClock
    /\ receipt' = [receipt EXCEPT ![r].status = verdict]
    /\ UNCHANGED <<candidate, candEvents, session, candClock>>

CandidateTick ==
    /\ candClock < MaxCandClock /\ candClock' = candClock + 1
    /\ UNCHANGED <<candidate, receipt, candEvents, session>>

CandidateNext ==
    \/ \E c \in Proposals, pair \in Evaluated \X Evaluated, drift \in BOOLEAN :
           CreateCandidate(c, pair[1], pair[2], drift)
    \/ \E s \in Sessions :
           \/ BeginOperation(s) \/ OperationRefused(s)
           \/ \E op \in {"request", "promote", "reject", "rollback"}, c \in Proposals, v \in 1..3 :
                  ReadRow(s, op, c, v, NoReceipt)
           \/ \E c \in Proposals, v \in 1..3, r \in Receipts : ReadRow(s, "approve", c, v, r)
           \/ \E r \in Receipts : ReserveReceipt(s, r)
           \/ ApproveCandidate(s) \/ PromoteCandidate(s) \/ RejectCandidate(s)
           \/ RollbackCandidate(s)
    \/ \E r \in Receipts, verdict \in {"approved", "denied"} : DecideReceipt(r, verdict)
    \/ CandidateTick

-----------------------------------------------------------------------------
(* A candidate that is or was approved carries the receipt of exactly the   *)
(* version that was reviewed, approved by the human and used before it      *)
(* expired, and no other candidate carries it (candidates.py:382).          *)
ApprovedByExactReceipt ==
    \A c \in Proposals :
        LET r == candidate[c].approval
        IN  r # NoReceipt =>
                /\ receipt[r].status = "approved" /\ receipt[r].args[1] = c
                /\ \E i \in DOMAIN candEvents[c] :
                       /\ candEvents[c][i].to = "approved" /\ candEvents[c][i].approval = r
                       /\ candEvents[c][i].version = receipt[r].args[2] + 1
                       /\ candEvents[c][i].at < receipt[r].expires

(* Nobody is left with a pending request for a candidate that is no longer  *)
(* proposed: a request that raced with the decision was either refused or   *)
(* cancelled (request_approval, candidates.py:261).                         *)
NoReceiptOutlivesTheProposal ==
    \A r \in Receipts :
        receipt[r].status = "pending" => candidate[receipt[r].args[1]].state = "proposed"

=============================================================================
