----------------------------- MODULE Delegation ------------------------------
(***************************************************************************)
(* Work handed to child runs: the signed envelopes that authorise a child, *)
(* and the team that a request is routed to.  The two share no state; each *)
(* has its own variables, initial states and next-state relation.          *)
(***************************************************************************)
EXTENDS Integers, Sequences, FiniteSets, Functions

CONSTANTS
    Nonces,
    ChildRuns,
    KeyVersions,    \* key versions the service knows
    ActiveKey,      \* the version that signs
    MaxAge,         \* max_age_seconds
    FutureSkew,     \* max_future_skew_seconds
    MaxWall,        \* bound: wall clock
    Profiles,       \* the profiles of the plan, in order
    ParentTools,    \* tools visible to the parent: [name, risks]
    AllowedTools,   \* _READ_ONLY_TOOLS
    TaskSeconds,    \* timeout_seconds of a task
    ChildSeconds,   \* hybrid_orchestration_child_deadline_seconds
    TotalSeconds,   \* hybrid_orchestration_total_deadline_seconds
    CleanupSeconds  \* bound: what a cancelled child takes to end

VARIABLES
    wall,           \* the fastest clock
    sent,           \* envelopes in circulation, genuine or altered
    receipts,       \* DelegationNonceRow
    accepted,       \* history: [nonce, child] of each consumption, with its number
    query,          \* [requested, signals, security, enabled, children]: the request
    route,          \* OrchestrationDecision, or unrouted
    todo,           \* tasks not yet begun
    child,          \* the child under way: [profile, limit, tools], or none
    findings,       \* ChildResults
    teamEvents,     \* events of the parent's run
    elapsed,        \* time since prepare() began with the children
    teamOutcome     \* OrchestrationOutcome, or none

-----------------------------------------------------------------------------
(***************************************************************************)
(* Signed delegation envelopes with one-time receipts                      *)
(* (delegation/envelope.py).  Several processes consume envelopes against  *)
(* one table of receipts; their clocks disagree by at most the future      *)
(* skew the service allows.  Every signature over one payload is equal: an *)
(* envelope that was altered carries a signature of another payload.       *)
(***************************************************************************)

envelopeVars == <<wall, sent, receipts, accepted>>

EnvelopeInit == wall = 1 /\ sent = {} /\ receipts = {} /\ accepted = {}

(* __post_init__(): identifiers, nonce, digest and budget have their form;   *)
(* what remains to tell apart is the time stamp and the key version.         *)
WellFormed(e) == e.issued >= 1 /\ e.key \in 1 .. 255

(* _signature(): a function of the payload and the key. *)
Payload(e) == <<e.child, e.context, e.issued, e.nonce, e.key>>

Issue(n, c) ==
    LET e == [child |-> c, context |-> c, issued |-> wall, nonce |-> n, key |-> ActiveKey]
    IN  /\ \A x \in sent : x.nonce # n
        /\ WellFormed(e)
        /\ sent' = sent \cup {[nonce |-> n, child |-> c, context |-> c, issued |-> wall,
                               key |-> ActiveKey, signature |-> Payload(e)]}
        /\ UNCHANGED <<wall, receipts, accepted>>

Authentic(e) == e.key \in KeyVersions /\ e.signature = Payload(e)

(* An envelope altered on its way: dated anew, or for another child.  One   *)
(* altered envelope in circulation is enough.                               *)
Alter(e, c, t) ==
    /\ \A x \in sent : x.signature = Payload(x)
    /\ WellFormed([e EXCEPT !.child = c, !.issued = t])
    /\ sent' = sent \cup {[e EXCEPT !.child = c, !.context = c, !.issued = t]}
    /\ UNCHANGED <<wall, receipts, accepted>>

Fresh(e, now) == now - MaxAge <= e.issued /\ e.issued <= now + FutureSkew
Scoped(e, c) == e.child = c /\ e.context = c

(* Mutant: receipts are dropped as soon as their envelope is stale here. *)
KeptAfterMaxAge(now) == {r \in receipts : ~(r.issued < now - MaxAge)}

(* Receipts that are older than any process would still accept are dropped. *)
Kept(now) == {r \in receipts : ~(r.issued < now - MaxAge - FutureSkew)}

(* verify_and_consume() in one transaction: prune, then insert the receipt; *)
(* its primary key refuses a nonce that is there.                           *)
VerifyAndConsume(e, c, lag) ==
    LET now == wall - lag
    IN  /\ Authentic(e) /\ Fresh(e, now) /\ Scoped(e, c)
        /\ \A r \in Kept(now) : r.nonce # e.nonce
        /\ receipts' = Kept(now) \cup {[nonce |-> e.nonce, issued |-> e.issued]}
        /\ accepted' = accepted \cup
               {[nonce |-> e.nonce, child |-> e.child,
                 nth |-> 1 + Cardinality({a \in accepted : a.nonce = e.nonce})]}
        /\ UNCHANGED <<wall, sent>>

EnvelopeTick == wall < MaxWall /\ wall' = wall + 1 /\ UNCHANGED <<sent, receipts, accepted>>

EnvelopeNext ==
    \/ \E n \in Nonces, c \in ChildRuns : Issue(n, c)
    \/ \E e \in sent : \E c \in ChildRuns, t \in {e.issued, wall} : Alter(e, c, t)
    \/ \E e \in sent, c \in ChildRuns, lag \in 0 .. FutureSkew : VerifyAndConsume(e, c, lag)
    \/ EnvelopeTick

-----------------------------------------------------------------------------
(* An authorisation starts one child: an envelope is consumed at most once, *)
(* though receipts are pruned and the clocks of the processes disagree      *)
(* (verify_and_consume, envelope.py:167-219).                               *)
ConsumedOnce == \A a \in accepted : a.nth = 1

(* Only the child the parent signed for is ever started: no altered         *)
(* envelope is accepted.                                                    *)
SignedForThisChild ==
    \A a \in accepted : \E e \in sent : e.nonce = a.nonce /\ e.child = a.child /\ e.signature = Payload(e)

-----------------------------------------------------------------------------
(***************************************************************************)
(* Team mode of a chat request (orchestration/*.py): the request is routed, *)
(* up to two children run one after the other with a subset of the tools,  *)
(* and their findings are handed to the parent's synthesis.  Time is       *)
(* counted in units; a child that is timed out still gets its cleanup.     *)
(***************************************************************************)

teamVars == <<query, route, todo, child, findings, teamEvents, elapsed, teamOutcome>>

Least(a, b) == IF a < b THEN a ELSE b
NoChild == [profile |-> "none", limit |-> 0, tools |-> {}]
Queries == [requested : {"auto", "single", "team"}, signals : 0 .. 2, security : BOOLEAN,
            enabled : BOOLEAN, children : 1 .. 2]

TeamInit ==
    /\ query \in Queries
    /\ route = [mode |-> "none"] /\ todo = <<>> /\ child = NoChild /\ findings = <<>>
    /\ teamEvents = <<>> /\ elapsed = 0 /\ teamOutcome = [ready |-> FALSE]

(* resolve_execution_mode(): uncertain requests stay with the single agent. *)
ResolveExecutionMode(q) ==
    LET to(mode, reason, degraded) == [mode |-> mode, reason |-> reason, degraded |-> degraded]
    IN  CASE ~q.enabled -> to("single", "feature_disabled", q.requested = "team")
          [] q.enabled /\ q.requested = "single" -> to("single", "user_forced_single", FALSE)
          [] q.enabled /\ q.requested = "team" -> to("team", "user_forced_team", FALSE)
          [] OTHER -> IF q.signals >= 2 THEN to("team", "security_risk_analysis", FALSE)
                      ELSE IF q.signals = 1 \/ q.security
                      THEN to("single", "insufficient_team_evidence", FALSE)
                      ELSE to("single", "single_default", FALSE)

(* build_pilot_plan() *)
PilotPlan(n) == SubSeq(Profiles, 1, n)

Route ==
    /\ route.mode = "none"
    /\ LET d == ResolveExecutionMode(query)
       IN  /\ route' = d
           /\ teamEvents' = Append(teamEvents, <<"routed", d.mode>>)
           /\ todo' = IF d.mode = "team" THEN PilotPlan(query.children) ELSE <<>>
           /\ teamOutcome' = IF d.mode = "single"
                         THEN [ready |-> TRUE, degraded |-> d.degraded, told |-> <<>>]
                         ELSE teamOutcome
    /\ UNCHANGED <<query, child, findings, elapsed>>

(* build_read_only_registry() *)
Forbidden == {"write", "execute", "external_side_effect"}
BuildRegistry ==
    {t.name : t \in {t \in ParentTools : t.name \in AllowedTools /\ t.risks \cap Forbidden = {}}}

(* RuntimeChildRunner.__call__() caps the task by the settings. *)
Capped(seconds) == Least(seconds, ChildSeconds)

ChildLimit(left) == Least(TaskSeconds, left)

Begin ==
    /\ todo # <<>> /\ child = NoChild
    /\ teamEvents' = Append(teamEvents, <<"requested", Head(todo)>>)
    /\ todo' = Tail(todo)
    /\ child' = [profile |-> Head(todo), limit |-> ChildLimit(TotalSeconds - elapsed),
                 tools |-> BuildRegistry]
    /\ UNCHANGED <<query, route, findings, elapsed, teamOutcome>>

(* The result of a child, its content none or some, appended and announced. *)
Finding(status, content, took) ==
    /\ findings' = Append(findings, [profile |-> child.profile, status |-> status, content |-> content])
    /\ teamEvents' = Append(teamEvents, <<"completed", child.profile>>)
    /\ elapsed' = elapsed + took /\ child' = NoChild
    /\ UNCHANGED <<query, route, todo, teamOutcome>>

(* The child's runtime stopped: completed only with an answer.  Its own     *)
(* budget may run out first.                                                *)
StatusOf(reason, content) ==
    IF reason = "completed" /\ content THEN "completed"
    ELSE IF reason = "time" THEN "timed_out"
    ELSE "failed"

ChildStops(reason, content, took) ==
    /\ child # NoChild /\ child.limit > 0
    /\ took < child.limit /\ took <= Capped(TaskSeconds)
    /\ reason = "time" => took = Capped(TaskSeconds)
    /\ Finding(StatusOf(reason, content), content, took)

(* The envelope, the ledger, the runtime or an over-long report raises.     *)
ChildRaises(took) ==
    /\ child # NoChild /\ child.limit > 0 /\ took < child.limit
    /\ Finding("failed", FALSE, took)

(* wait_for() cancels it and waits for its cleanup; no time is left at all. *)
ChildTimesOut(cleanup) ==
    /\ child # NoChild
    /\ \/ child.limit > 0 /\ Finding("timed_out", FALSE, child.limit + cleanup)
       \/ child.limit <= 0 /\ cleanup = 0 /\ Finding("timed_out", FALSE, 0)

Usable(f) == f.status = "completed" /\ f.content

(* The synthesis sees a finding for a usable result, a reason for others.   *)
Synthesize ==
    /\ route.mode = "team" /\ todo = <<>> /\ child = NoChild /\ ~teamOutcome.ready
    /\ teamOutcome' = [ready |-> TRUE,
                   degraded |-> route.degraded \/ \E i \in DOMAIN findings : ~Usable(findings[i]),
                   told |-> [i \in DOMAIN findings |-> [profile |-> findings[i].profile,
                                                        finding |-> Usable(findings[i])]]]
    /\ UNCHANGED <<query, route, todo, child, findings, teamEvents, elapsed>>

TeamNext ==
    \/ Route \/ Begin \/ Synthesize
    \/ \E reason \in {"completed", "time", "error"}, content \in BOOLEAN, took \in 0 .. TaskSeconds :
           ChildStops(reason, content, took)
    \/ \E took \in 0 .. TaskSeconds : ChildRaises(took)
    \/ \E cleanup \in 0 .. CleanupSeconds : ChildTimesOut(cleanup)

-----------------------------------------------------------------------------
(* How often an event of a child was emitted. *)
Announced(kind, p) == Cardinality({i \in DOMAIN teamEvents : teamEvents[i] = <<kind, p>>})

(* A failed, timed out or silent child is never presented as a finding, and *)
(* the outcome says that it is degraded; each child that was announced has  *)
(* its completion announced before the synthesis (prepare, service.py:58-194). *)
FailedChildIsNoFinding ==
    teamOutcome.ready =>
        /\ \A i \in DOMAIN teamOutcome.told : teamOutcome.told[i].finding => findings[i].status = "completed"
        /\ (\E i \in DOMAIN findings : findings[i].status # "completed") => teamOutcome.degraded
        /\ \A p \in Range(Profiles) : Announced("requested", p) = Announced("completed", p)

(* The children together overrun the request's deadline by no more than the *)
(* cleanup of one: a child is never given time that is not there.           *)
TeamStaysInTime == elapsed <= TotalSeconds + CleanupSeconds

(* No child can act: whatever the parent may do, its registry holds nothing *)
(* that writes, executes or has an external effect (orchestration/tools.py). *)
ChildrenOnlyRead ==
    \A t \in ParentTools : t.name \in child.tools => t.risks \cap Forbidden = {}

=============================================================================
