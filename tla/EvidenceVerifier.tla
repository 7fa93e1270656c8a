-------------------------- MODULE EvidenceVerifier ---------------------------
(***************************************************************************)
(* The verifier child of a run, and the measurement that says whether it   *)
(* is worth its price.  The two share no state; each has its own           *)
(* variables, initial states and next-state relation.                      *)
(***************************************************************************)
EXTENDS Integers, Sequences, FiniteSets, Functions

CONSTANTS
    Claims,         \* claim ids of the request
    Delegated,      \* [Claims -> evidence ids delegated to the claim]
    Answers,        \* what the model may answer: sequences of verdicts
    Estimate,       \* estimate_input_tokens() of the first prompt
    InputTokens,    \* budget.input_tokens
    OutputTokens,   \* budget.output_tokens
    Retries,        \* budget.retries
    Fixture,        \* the cases: [key, outcome, evidence, claims: {[id, label, cites]}]
    MaxObserved     \* bound: observations of a report

VARIABLES
    inner,          \* where _verify() stands
    outer,          \* where verify() stands
    inCancelled,    \* the task of _verify() has been cancelled
    cancelTask,     \* the task of _cancel(): none, pending, done
    vTerminal,      \* _VerifierTerminalState
    task,           \* persist_terminal(): steps done, or none, failed
    childRow,       \* the child's run: absent, child (with its parent), orphan
    childEvents,    \* its events
    used,           \* token usage so far: [in, out]
    prompt,         \* estimate of the messages, grown by a corrective one
    attempts,
    vExpired,       \* the deadline has passed
    returned,       \* what verify() returned, None, or raised
    observations    \* VerificationObservations: [case, claim, label, baseline, child, cost]

-----------------------------------------------------------------------------
(***************************************************************************)
(* The evidence-verifier child (delegation/service.py, delegation/         *)
(* models.py).  verify() waits for the task _verify() until the deadline;  *)
(* the outcome is written by a third task, persist_terminal(), that        *)
(* outlives both.  A fourth task writes the outcome of a cancelled call.   *)
(* Tokens are counted in units.                                            *)
(***************************************************************************)

verifierVars ==
    <<inner, outer, inCancelled, cancelTask, vTerminal, task, childRow, childEvents,
      used, prompt, attempts, vExpired, returned>>

(* _fail_closed() *)
FailClosed(reason) ==
    {[claim |-> c, status |-> "escalate", reason |-> reason, cites |-> {}] : c \in Claims}

NoResult == [status |-> "none", verdicts |-> {}]
Result(status, verdicts) == [status |-> status, verdicts |-> verdicts]

(* The reason code each verdict status admits. *)
ConsistentReason(v) ==
    \/ v.status = "supported" /\ v.reason = "evidence_supports" /\ v.cites # {}
    \/ v.status = "rejected" /\ v.reason = "evidence_contradicts"
    \/ v.status = "escalate" /\ v.reason \in {"insufficient_evidence", "invalid_citation"}

(* validate_verdict_evidence_subset(): nothing outside the request. *)
CitesRequest(v) == v.cites \subseteq UNION {Delegated[c] : c \in Claims}

(* _parse_response(): one verdict per claim, each citing only evidence of   *)
(* its own claim.                                                           *)
Parses(answer) ==
    /\ Len(answer) = Cardinality(Claims) /\ {v.claim : v \in Range(answer)} = Claims
    /\ \A v \in Range(answer) :
           /\ CitesRequest(v) /\ v.cites \subseteq Delegated[v.claim]
           /\ ConsistentReason(v)

VerifierInit ==
    /\ inner = "authorise" /\ outer = "waiting" /\ inCancelled = FALSE /\ cancelTask = "none"
    /\ vTerminal = [started |-> FALSE, persisted |-> FALSE, result |-> NoResult]
    /\ task = "none" /\ childRow = "absent" /\ childEvents = <<>>
    /\ used = [in |-> 0, out |-> 0] /\ prompt = Estimate /\ attempts = 0
    /\ vExpired = FALSE /\ returned = NoResult

-----------------------------------------------------------------------------
(* _finish(): the first caller decides the outcome and starts the task that *)
(* persists it; every later caller waits for that task.                     *)
Decides(result) ==
    IF vTerminal.started THEN UNCHANGED <<vTerminal, task>>
    ELSE /\ vTerminal' = [vTerminal EXCEPT !.started = TRUE, !.result = result]
         /\ task' = "completed_event"

Finish(status, verdicts) ==
    /\ Decides(Result(status, verdicts)) /\ inner' = "finish"

(* verify_and_consume() accepts the envelope, or the child never starts. *)
Authorise ==
    /\ inner = "authorise" /\ inner' \in {"ensure", "raised"}
    /\ UNCHANGED <<outer, inCancelled, cancelTask, vTerminal, task, childRow, childEvents,
                   used, prompt, attempts, vExpired, returned>>

(* ensure_child_run(); the deadline is looked at after each of these steps. *)
EnsureChild ==
    /\ inner = "ensure"
    /\ childRow' = IF childRow = "absent" THEN "child" ELSE childRow
    /\ inner' = IF vExpired THEN "deadline" ELSE "request"
    /\ UNCHANGED <<outer, inCancelled, cancelTask, vTerminal, task, childEvents,
                   used, prompt, attempts, vExpired, returned>>

(* _append(): ensure_run() makes up a missing row; an ended run refuses. *)
Appends(kind) ==
    /\ childRow' = IF childRow = "absent" THEN "orphan" ELSE childRow
    /\ childEvents' = Append(childEvents, kind)

Stopped == \E i \in DOMAIN childEvents : childEvents[i] = "run_stopped"

Requested ==
    /\ inner = "request"
    /\ IF Stopped
       THEN inner' = "raised" /\ UNCHANGED <<childRow, childEvents, vTerminal, task>>
       ELSE /\ Appends("delegation_requested")
            /\ IF vExpired THEN inner' = "deadline" /\ UNCHANGED <<vTerminal, task>>
               ELSE IF Estimate > InputTokens
               THEN Finish("failed", FailClosed("budget_exceeded"))
               ELSE inner' = "loop" /\ UNCHANGED <<vTerminal, task>>
    /\ UNCHANGED <<outer, inCancelled, cancelTask, used, prompt, attempts, vExpired, returned>>

(* The guard of a model call, from the estimate and the reported usage. *)
Affordable ==
    /\ InputTokens - used.in >= prompt
    /\ OutputTokens - used.out > 0
    /\ used.in + used.out + prompt <= InputTokens + OutputTokens

Call ==
    /\ inner = "loop"
    /\ \/ Affordable /\ inner' = "call" /\ attempts' = attempts + 1 /\ UNCHANGED <<vTerminal, task>>
       \/ /\ ~Affordable /\ UNCHANGED attempts
          /\ Finish("failed", FailClosed("budget_exceeded"))
    /\ UNCHANGED <<outer, inCancelled, cancelTask, childRow, childEvents, used, prompt, vExpired, returned>>

(* Reported usage is the authority once the response is there. *)
OverBudget(u) == u.in > InputTokens \/ u.out > OutputTokens

Respond(answer, in, out) ==
    LET u == [in |-> used.in + in, out |-> used.out + out]
    IN  /\ inner = "call" /\ used' = u
        /\ IF OverBudget(u) THEN Finish("failed", FailClosed("budget_exceeded")) /\ UNCHANGED prompt
           ELSE IF Parses(answer) THEN Finish("completed", Range(answer)) /\ UNCHANGED prompt
           ELSE IF attempts > Retries
           THEN Finish("failed", FailClosed("malformed_response")) /\ UNCHANGED prompt
           ELSE inner' = "loop" /\ prompt' = prompt + 1 /\ UNCHANGED <<vTerminal, task>>
        /\ UNCHANGED <<outer, inCancelled, cancelTask, childRow, childEvents, attempts, vExpired, returned>>

(* A transient error is retried while retries are left; others are not. *)
CallFails ==
    /\ inner = "call"
    /\ \/ attempts <= Retries /\ inner' = "loop" /\ UNCHANGED <<vTerminal, task>>
       \/ Finish("failed", FailClosed("provider_error"))
    /\ UNCHANGED <<outer, inCancelled, cancelTask, childRow, childEvents, used, prompt, attempts, vExpired, returned>>

(* The inner await_before_deadline() fires before the outer one. *)
CallTimesOut ==
    /\ vExpired /\ inner \in {"loop", "call"}
    /\ Finish("timeout", FailClosed("timeout"))
    /\ UNCHANGED <<outer, inCancelled, cancelTask, childRow, childEvents, used, prompt, attempts, vExpired, returned>>

(* The cancellation reaches _verify(): only a model call is followed by     *)
(* _cancel(), in a shielded task of its own; a shielded write goes on.      *)
CancelArrives ==
    /\ inCancelled /\ inner \in {"authorise", "ensure", "request", "call", "finish"}
    /\ inner' = IF inner = "call" THEN "cancelling" ELSE "raised"
    /\ cancelTask' = IF inner = "call" THEN "pending" ELSE cancelTask
    /\ inCancelled' = FALSE
    /\ UNCHANGED <<outer, vTerminal, task, childRow, childEvents, used, prompt, attempts, vExpired, returned>>

CancelTaskRuns ==
    /\ cancelTask = "pending" /\ cancelTask' = "done"
    /\ Decides(Result("cancelled", FailClosed("provider_error")))
    /\ UNCHANGED <<inner, outer, inCancelled, childRow, childEvents, used, prompt, attempts, vExpired, returned>>

FinishReturns ==
    /\ inner \in {"finish", "cancelling"} /\ task \in {"done", "failed"} /\ cancelTask # "pending"
    /\ inner' = IF inner = "finish" /\ task = "done" THEN "returned" ELSE "raised"
    /\ UNCHANGED <<outer, inCancelled, cancelTask, vTerminal, task, childRow, childEvents,
                   used, prompt, attempts, vExpired, returned>>

-----------------------------------------------------------------------------
(* persist_terminal(): the completion event, run_stopped, the metadata.     *)
PersistStep ==
    /\ task \in {"completed_event", "stopped_event", "metadata"}
    /\ \/ /\ task = "completed_event" /\ Appends("delegation_completed") /\ task' = "stopped_event"
          /\ UNCHANGED vTerminal
       \/ /\ task = "stopped_event" /\ Appends("run_stopped") /\ task' = "metadata"
          /\ UNCHANGED vTerminal
       \/ /\ task = "metadata" /\ task' = "done" /\ vTerminal' = [vTerminal EXCEPT !.persisted = TRUE]
          /\ UNCHANGED <<childRow, childEvents>>
    /\ UNCHANGED <<inner, outer, inCancelled, cancelTask, used, prompt, attempts, vExpired, returned>>

PersistFails ==
    /\ task \in {"completed_event", "stopped_event", "metadata"} /\ task' = "failed"
    /\ UNCHANGED <<inner, outer, inCancelled, cancelTask, vTerminal, childRow, childEvents,
                   used, prompt, attempts, vExpired, returned>>

-----------------------------------------------------------------------------
(* verify() *)
VerifierExpires ==
    /\ ~vExpired /\ vExpired' = TRUE
    /\ UNCHANGED <<inner, outer, inCancelled, cancelTask, vTerminal, task, childRow, childEvents,
                   used, prompt, attempts, returned>>

VerifyReturns ==
    /\ outer = "waiting" /\ inner \in {"returned", "raised"} /\ ~vExpired
    /\ outer' = "ended"
    /\ returned' = IF inner = "returned" THEN vTerminal.result ELSE NoResult
    /\ UNCHANGED <<inner, inCancelled, cancelTask, vTerminal, task, childRow, childEvents,
                   used, prompt, attempts, vExpired>>

Abandon == inCancelled' = (inner \notin {"returned", "raised", "deadline"})

(* DeadlineExceededError: wait for the write that was begun, or begin one. *)
DeadlineHits ==
    /\ outer = "waiting" /\ vExpired /\ Abandon
    /\ outer' = IF vTerminal.started THEN "awaiting" ELSE "finishing"
    /\ UNCHANGED <<inner, cancelTask, vTerminal, task, childRow, childEvents,
                   used, prompt, attempts, vExpired, returned>>

ClientCancels ==
    /\ outer = "waiting" /\ Abandon
    /\ outer' = IF vTerminal.started THEN "ended" ELSE "aborting"
    /\ UNCHANGED <<inner, cancelTask, vTerminal, task, childRow, childEvents,
                   used, prompt, attempts, vExpired, returned>>

(* The task that _bounded_finish() makes of _finish(). *)
BoundedFinish ==
    /\ outer \in {"finishing", "aborting"}
    /\ outer' = IF outer = "finishing" THEN "settling" ELSE "aborted"
    /\ Decides(IF outer = "finishing" THEN Result("timeout", FailClosed("timeout"))
               ELSE Result("cancelled", FailClosed("provider_error")))
    /\ UNCHANGED <<inner, inCancelled, cancelTask, childRow, childEvents, used, prompt, attempts, vExpired, returned>>

(* Written, failed, or _TERMINAL_CLEANUP_SECONDS are over: verify() answers *)
(* with what was decided; the write may still be under way.                 *)
BoundedEnds ==
    /\ outer \in {"settling", "aborted"}
    /\ outer' = "ended"
    /\ returned' = IF outer = "settling" THEN vTerminal.result ELSE NoResult
    /\ UNCHANGED <<inner, inCancelled, cancelTask, vTerminal, task, childRow, childEvents,
                   used, prompt, attempts, vExpired>>

(* A write begun before the deadline is waited for, then cancelled.         *)
AwaitedEnds ==
    /\ outer = "awaiting"
    /\ \/ task \in {"done", "failed"} /\ UNCHANGED task
       \/ task \notin {"done", "failed"} /\ task' \in {task, "failed"}
    /\ outer' = "ended" /\ returned' = vTerminal.result
    /\ UNCHANGED <<inner, inCancelled, cancelTask, vTerminal, childRow, childEvents,
                   used, prompt, attempts, vExpired>>

VerifierOuter ==
    VerifyReturns \/ DeadlineHits \/ BoundedFinish \/ BoundedEnds \/ AwaitedEnds

VerifierNext ==
    \/ Authorise \/ EnsureChild \/ Requested \/ Call \/ CallFails \/ CallTimesOut
    \/ \E answer \in Answers, in, out \in 0 .. 2 : Respond(answer, in, out)
    \/ CancelArrives \/ CancelTaskRuns \/ FinishReturns \/ PersistStep \/ PersistFails
    \/ VerifierExpires \/ ClientCancels \/ VerifierOuter

-----------------------------------------------------------------------------
(* The parent learns that a claim is supported only from an answer that has *)
(* one verdict for every claim, each citing evidence delegated to that very *)
(* claim; every other end, whatever raced with it, escalates all claims     *)
(* (_parse_response and _fail_closed, service.py:105-178).                  *)
VerdictsAreGrounded ==
    returned # NoResult =>
        /\ {v.claim : v \in returned.verdicts} = Claims
        /\ Cardinality(returned.verdicts) = Cardinality(Claims)
        /\ \A v \in returned.verdicts :
               v.status # "escalate" => /\ returned.status = "completed"
                                        /\ v.cites \subseteq Delegated[v.claim]
                                        /\ v.status = "supported" => v.cites # {}

(* What verify() returned is what the child's run says: the deadline, the   *)
(* cancelled call and the loop all reach _finish(), one of them decides     *)
(* (_finish, service.py:575-601).                                           *)
AnswerIsTheDecision ==
    /\ returned # NoResult => returned = vTerminal.result
    /\ \A i, j \in DOMAIN childEvents :
           childEvents[i] = "run_stopped" /\ childEvents[j] = "run_stopped" => i = j
    /\ vTerminal.persisted => childEvents[Len(childEvents)] = "run_stopped"

(* The call ends, even if the model, the store and the cancelled task hang: *)
(* the deadline and the cleanup time bound every wait (await_before_deadline). *)
VerifierAnswers == <>(outer = "ended")

VerifierFairness == WF_verifierVars(VerifierExpires) /\ WF_verifierVars(VerifierOuter)

-----------------------------------------------------------------------------
(***************************************************************************)
(* Whether the verifier child is worth its price (delegation/              *)
(* measurement.py): a fixture of labelled claims is loaded strictly, then  *)
(* the decisions of the baseline and of the child are compared.  A rate is *)
(* kept as a count, the denominators being equal for both sides.           *)
(***************************************************************************)

benefitVars == <<observations>>

(* load_verifier_benchmark_fixture(): the shape of a case. *)
ValidCase(c) ==
    /\ \A claim \in c.claims : claim.cites \subseteq c.evidence /\ claim.label # "no_evidence"
    /\ \A x, y \in c.claims : x.id = y.id => x = y
    /\ IF c.outcome = "no_evidence" THEN c.evidence = {} /\ c.claims = {}
       ELSE c.evidence # {} /\ c.claims # {} /\ \A claim \in c.claims : claim.label = c.outcome

ValidFixture(f) == f # {} /\ (\A c \in f : ValidCase(c)) /\ \A c, d \in f : c.key = d.key => c = d

BenefitInit == observations = {}

(* The verdicts a child may give; none: the claim was not delegated. *)
Verdicts == {"none", "supported", "rejected", "escalate"}

Observe(c, claim, baseline, verdict) ==
    /\ ValidFixture(Fixture)
    /\ Cardinality(observations) < MaxObserved
    /\ \A o \in observations : <<o.case, o.claim>> # <<c.key, claim.id>>
    /\ observations' = observations \cup
           {[case |-> c.key, claim |-> claim.id, label |-> claim.label,
             baseline |-> baseline, child |-> verdict]}

(* A case without evidence has neither a claim nor a delegation. *)
ObserveNothing(c) ==
    /\ ValidFixture(Fixture) /\ c.outcome = "no_evidence"
    /\ Cardinality(observations) < MaxObserved /\ \A o \in observations : o.case # c.key
    /\ observations' = observations \cup
           {[case |-> c.key, claim |-> "none", label |-> "no_evidence",
             baseline |-> FALSE, child |-> "none"]}

BenefitNext ==
    \E c \in Fixture :
        \/ ObserveNothing(c)
        \/ \E claim \in c.claims, baseline \in BOOLEAN, verdict \in Verdicts :
               Observe(c, claim, baseline, verdict)

-----------------------------------------------------------------------------
ChildSupported(o) == IF o.child = "none" THEN o.baseline ELSE o.child = "supported"

Labelled(label) == {o \in observations : o.label = label}
BaselineFalseSupports == Cardinality({o \in Labelled("unsupported") : o.baseline})
ChildFalseSupports == Cardinality({o \in Labelled("unsupported") : ChildSupported(o)})
ChildFalseRejects == Cardinality({o \in Labelled("supported") : ~ChildSupported(o)})

BeneficialRejections ==
    Cardinality({o \in Labelled("unsupported") : o.baseline /\ ~ChildSupported(o)})

Unnecessary ==
    {o \in observations : /\ o.child # "none" /\ o.baseline = ChildSupported(o)
                          /\ o.baseline = (o.label = "supported")}

(* value_added, the acceptable false-reject rate being `tolerated` claims. *)
ValueAdded(tolerated) ==
    /\ ChildFalseSupports < BaselineFalseSupports
    /\ ChildFalseRejects <= tolerated

(* A report that claims value is right: with no tolerated loss, an          *)
(* unsupported claim the baseline had let pass was stopped by a delegation  *)
(* that was needed, and no supported claim was lost, be it by a verdict or  *)
(* by an escalation (measure_verifier_benefit, measurement.py:293-404).     *)
ClaimedValueIsReal ==
    ValueAdded(0) =>
        /\ BeneficialRejections > 0
        /\ \A o \in Labelled("supported") : o.child \in {"supported", "none"}
        /\ \E o \in observations \ Unnecessary :
               o.label = "unsupported" /\ o.child \in {"rejected", "escalate"}

=============================================================================
