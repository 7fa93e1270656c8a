--------------------------- MODULE MonetaryBudget ---------------------------
(***************************************************************************)
(* Durable money budgets of runs and projects: the accounts and charges of *)
(* backend/app/services/monetary_budget.py and the wrapper that reserves,  *)
(* dispatches and reconciles every provider call (DurableBudgetedProvider  *)
(* in backend/app/runtime/monetary_budget.py).                             *)
(*                                                                         *)
(* A wrapper numbers its calls from 0; charge_id is a hash of the run and  *)
(* that number, so a second wrapper of the same run meets the charges of   *)
(* the first.  Every transaction may fail before or after its commit, a    *)
(* call may be cancelled at any moment, and its process may die.           *)
(***************************************************************************)
EXTENDS Integers, FiniteSets, FiniteSetsExt

CONSTANTS
    Projects, Runs, ProjectOf,   \* (owner, project) scopes, their runs
    Wrappers, RunOf,             \* DurableBudgetedProvider objects and their runs
    ProjectLimit, RunLimit,      \* [Wrappers -> Nat]: the limits they are built with
    Calls, WrapperOf,            \* complete() calls and the object they are made on
    Quote,                       \* [Calls -> Nat]: quote_model_call_nusd() of the request
    Costs,                       \* price_model_usage_nusd() of what the provider reports
    MaxOrdinal,                  \* the last ordinal, 2^31 - 1
    Faults                       \* BOOLEAN, or {FALSE} for a database that never fails

ASSUME ScopeAssumption ==
    /\ ProjectOf \in [Runs -> Projects]
    /\ RunOf \in [Wrappers -> Runs]
    /\ WrapperOf \in [Calls -> Wrappers]
    /\ IsFiniteSet(Runs)
ASSUME MoneyAssumption ==
    /\ ProjectLimit \in [Wrappers -> Nat] /\ RunLimit \in [Wrappers -> Nat]
    /\ Quote \in [Calls -> Nat] /\ Costs \subseteq Nat
    /\ MaxOrdinal \in Nat /\ Faults \subseteq BOOLEAN

VARIABLES
    project, run,              \* accounts: limit, spent and reserved money
    openProjects, openRuns,    \* scopes that have an account
    charge,                    \* the table model_charges
    opened, nextOrdinal,       \* _opened and _next_ordinal of each wrapper
    ordinal,                   \* the number of each call
    pc, result,                \* where each call is, and what it returned or raised
    cancelled,                 \* calls with a CancelledError on its way
    won, invoked               \* history: reservations answered, providers called

accounts == <<project, run, openProjects, openRuns>>
wrappers == <<opened, nextOrdinal, ordinal>>
history == <<won, invoked>>
vars == <<accounts, charge, wrappers, pc, result, cancelled, history>>

-----------------------------------------------------------------------------
Account == [limit : Nat, spent : Nat, reserved : Nat]
NoAccount == [limit |-> 0, spent |-> 0, reserved |-> 0]

Active == {"reserved", "dispatched"}
States == {"absent", "reconciled", "released", "indeterminate"} \cup Active
Charge == [state : States, quote : Nat, actual : Nat]
NoCharge == [state |-> "absent", quote |-> 0, actual |-> 0]

Ordinals == 0 .. MaxOrdinal
ChargeIds == [run : Runs, ordinal : Ordinals]

RunOfCall(c) == RunOf[WrapperOf[c]]
ChargeId(c) == [run |-> RunOfCall(c), ordinal |-> ordinal[c]]
State(c) == charge[ChargeId(c)].state

(* pc: "release" after a cancelled reservation; "recover", "undo" and       *)
(* "freeze" inside _recover_failed_dispatch(); "provider" in the delegate;  *)
(* "look", "mark" and "verify" inside _mark_indeterminate_if_active().      *)
PCs == {"start", "reserve", "release", "dispatch", "recover", "undo", "freeze", "provider",
        "reconcile", "look", "mark", "verify", "done", "dead"}
Results == {"none", "response", "exhausted", "duplicate", "cancelled", "error", "state_error"}

Goto(c, to) == pc' = [pc EXCEPT ![c] = to] /\ UNCHANGED result
Return(c, r) ==
    /\ pc' = [pc EXCEPT ![c] = "done"]
    /\ result' = [result EXCEPT ![c] = r]
Raise(c, r) == Return(c, IF c \in cancelled THEN "cancelled" ELSE r)

-----------------------------------------------------------------------------
(* The repository *)

Fits(account, quote) == quote <= account.limit - account.spent - account.reserved

(* Mutant: spending leaves the reservation in place. *)
PostedKeepingHold(account, hold, spend) ==
    [limit |-> account.limit, spent |-> account.spent + spend,
     reserved |-> IF spend > 0 THEN account.reserved ELSE account.reserved + hold]

Posted(account, hold, spend) ==
    [limit |-> account.limit, spent |-> account.spent + spend,
     reserved |-> account.reserved + hold]

(* One transaction changes project and run alike. *)
Post(r, hold, spend) ==
    /\ project' = [project EXCEPT ![ProjectOf[r]] = Posted(project[ProjectOf[r]], hold, spend)]
    /\ run' = [run EXCEPT ![r] = Posted(run[r], hold, spend)]
    /\ UNCHANGED <<openProjects, openRuns>>

SetState(id, to) ==
    charge' = [charge EXCEPT ![id] =
                 [state |-> to, quote |-> charge[id].quote, actual |-> charge[id].actual]]

(* open_run(): limits are immutable once opened. *)
OpenRun(w) ==
    LET r == RunOf[w]
        p == ProjectOf[r]
    IN  /\ p \in openProjects => project[p].limit = ProjectLimit[w]
        /\ r \in openRuns => run[r].limit = RunLimit[w]
        /\ project' = IF p \in openProjects THEN project
                      ELSE [project EXCEPT ![p] = [limit |-> ProjectLimit[w], spent |-> 0, reserved |-> 0]]
        /\ run' = IF r \in openRuns THEN run
                  ELSE [run EXCEPT ![r] = [limit |-> RunLimit[w], spent |-> run[r].spent,
                                           reserved |-> run[r].reserved]]
        /\ openProjects' = openProjects \cup {p}
        /\ openRuns' = openRuns \cup {r}

(* Mutant: the run's counter is not compared with its limit. *)
AffordableByProject(r, quote) ==
    /\ ProjectOf[r] \in openProjects /\ Fits(project[ProjectOf[r]], quote)
    /\ r \in openRuns

Affordable(r, quote) ==
    /\ ProjectOf[r] \in openProjects /\ Fits(project[ProjectOf[r]], quote)
    /\ r \in openRuns /\ Fits(run[r], quote)

(* The UPDATEs and the INSERT of reserve_call() *)
Reserve(id, quote) ==
    /\ charge[id].state = "absent"
    /\ Affordable(id.run, quote)
    /\ Post(id.run, quote, 0)
    /\ charge' = [charge EXCEPT ![id] = [state |-> "reserved", quote |-> quote, actual |-> 0]]

Held(id) ==
    /\ project[ProjectOf[id.run]].reserved >= charge[id].quote
    /\ run[id.run].reserved >= charge[id].quote

(* Mutant: a charge already dispatched is released too. *)
ReleasedAnyActive(id) ==
    /\ charge[id].state \in Active
    /\ Held(id)
    /\ Post(id.run, -charge[id].quote, 0)
    /\ SetState(id, "released")

(* _release(), and recover_stale() of a reserved charge *)
Released(id) ==
    /\ charge[id].state = "reserved"
    /\ Held(id)
    /\ Post(id.run, -charge[id].quote, 0)
    /\ SetState(id, "released")

(* _simple_transition() *)
Moved(id, source, target) ==
    /\ charge[id].state \in source
    /\ SetState(id, target)
    /\ UNCHANGED accounts

(* reconcile(): the unused part of the quote returns to the account; a cost *)
(* above the quote freezes the whole quote.                                 *)
Reconciled(id, actual) ==
    /\ charge[id].state = "dispatched"
    /\ actual <= charge[id].quote
    /\ Held(id)
    /\ Post(id.run, -charge[id].quote, actual)
    /\ charge' = [charge EXCEPT ![id] =
                    [state |-> "reconciled", quote |-> charge[id].quote, actual |-> actual]]

QuoteExceeded(id, actual) ==
    /\ actual > charge[id].quote
    /\ Moved(id, {"dispatched"}, "indeterminate")

(* recover_stale(), one transaction per charge; the cutoff is the caller's, *)
(* and no code of the application calls it.                                 *)
RecoverStale(id) ==
    /\ Released(id) \/ Moved(id, {"dispatched"}, "indeterminate")
    /\ UNCHANGED <<wrappers, pc, result, cancelled, history>>

-----------------------------------------------------------------------------
(* complete() *)

Untouched == UNCHANGED <<accounts, charge>>

(* The request is invalid or larger than max_input_tokens. *)
Unquotable(c) ==
    /\ pc[c] = "start"
    /\ Return(c, "exhausted") \/ Return(c, "error")
    /\ Untouched /\ UNCHANGED <<wrappers, cancelled, history>>

(* _ensure_open() and _allocate_ordinal(), with no await between them *)
Open(c) ==
    LET w == WrapperOf[c]
    IN  /\ pc[c] = "start"
        /\ w \in opened \/ c \notin cancelled
        /\ IF w \in opened THEN UNCHANGED accounts ELSE OpenRun(w)
        /\ opened' = opened \cup {w}
        /\ IF nextOrdinal[w] > MaxOrdinal
             THEN Return(c, "error") /\ UNCHANGED <<nextOrdinal, ordinal>>
             ELSE /\ ordinal' = [ordinal EXCEPT ![c] = nextOrdinal[w]]
                  /\ nextOrdinal' = [nextOrdinal EXCEPT ![w] = nextOrdinal[w] + 1]
                  /\ Goto(c, "reserve")
        /\ UNCHANGED <<charge, cancelled, history>>

(* open_run() refuses other limits, fails, or is cancelled, perhaps after   *)
(* its commit, or the call is cancelled while it waits for _open_lock.      *)
OpenFails(c) ==
    /\ pc[c] = "start"
    /\ WrapperOf[c] \notin opened \/ c \in cancelled
    /\ \/ UNCHANGED accounts
       \/ WrapperOf[c] \notin opened /\ OpenRun(WrapperOf[c])
    /\ Raise(c, "error")
    /\ UNCHANGED <<charge, wrappers, cancelled, history>>

ReserveCall(c) ==
    /\ pc[c] = "reserve"
    /\ Reserve(ChargeId(c), Quote[c])
    /\ won' = won \cup {c}
    /\ Goto(c, IF c \in cancelled THEN "release" ELSE "dispatch")
    /\ UNCHANGED <<wrappers, cancelled, invoked>>

(* The charge exists, or an account lacks the money. *)
ReserveRefused(c) ==
    /\ pc[c] = "reserve"
    /\ \/ State(c) # "absent" /\ Raise(c, "duplicate")
       \/ State(c) = "absent" /\ ~Affordable(RunOfCall(c), Quote[c]) /\ Raise(c, "exhausted")
    /\ Untouched /\ UNCHANGED <<wrappers, cancelled, history>>

ReserveError(c) ==
    /\ pc[c] = "reserve" /\ TRUE \in Faults
    /\ Untouched \/ Reserve(ChargeId(c), Quote[c])
    /\ Raise(c, "error")
    /\ UNCHANGED <<wrappers, cancelled, history>>

(* release() of a reservation whose caller was cancelled *)
Release(c, error) ==
    /\ pc[c] = "release"
    /\ Released(ChargeId(c)) \/ (error /\ Untouched)
    /\ Return(c, IF error THEN "state_error" ELSE "cancelled")
    /\ UNCHANGED <<wrappers, cancelled, history>>

(* Mutant: the provider is called although mark_dispatched() failed. *)
MarkDispatchedUnchecked(c, error) ==
    /\ pc[c] = "dispatch"
    /\ Moved(ChargeId(c), {"reserved"}, "dispatched") \/ (error /\ Untouched)
    /\ Goto(c, "provider") /\ invoked' = invoked \cup {c}
    /\ UNCHANGED <<wrappers, cancelled, won>>

(* mark_dispatched(), the last step before the provider is called *)
MarkDispatched(c, error) ==
    /\ pc[c] = "dispatch"
    /\ Moved(ChargeId(c), {"reserved"}, "dispatched") \/ (error /\ Untouched)
    /\ IF error \/ c \in cancelled
         THEN Goto(c, "recover") /\ UNCHANGED invoked
         ELSE Goto(c, "provider") /\ invoked' = invoked \cup {c}
    /\ UNCHANGED <<wrappers, cancelled, won>>

(* _recover_failed_dispatch(): its read and, in another transaction, its    *)
(* release() or mark_indeterminate()                                        *)
RecoverLook(c, error) ==
    /\ pc[c] = "recover"
    /\ CASE error -> Return(c, "state_error")
         [] ~error /\ State(c) = "reserved" -> Goto(c, "undo")
         [] ~error /\ State(c) = "dispatched" -> Goto(c, "freeze")
         [] ~error /\ State(c) \notin Active -> Raise(c, "error")
    /\ Untouched /\ UNCHANGED <<wrappers, cancelled, history>>

RecoverWrite(c, error) ==
    /\ \/ pc[c] = "undo" /\ Released(ChargeId(c))
       \/ pc[c] = "freeze" /\ Moved(ChargeId(c), Active, "indeterminate")
       \/ pc[c] \in {"undo", "freeze"} /\ error /\ Untouched
    /\ IF error THEN Return(c, "state_error") ELSE Raise(c, "error")
    /\ UNCHANGED <<wrappers, cancelled, history>>

(* The delegate returned a response of an allowed provider and model. *)
ProviderReturns(c) ==
    /\ pc[c] = "provider"
    /\ Goto(c, "reconcile")
    /\ cancelled' = cancelled \ {c}
    /\ Untouched /\ UNCHANGED <<wrappers, history>>

(* It raised, was cancelled, or returned what cannot be priced. *)
ProviderFails(c) ==
    /\ pc[c] = "provider"
    /\ Goto(c, "look")
    /\ cancelled' \in {cancelled, cancelled \ {c}}
    /\ Untouched /\ UNCHANGED <<wrappers, history>>

(* Mutant: an error of reconcile() is not noticed. *)
ReconcileUnchecked(c, actual, error) ==
    /\ pc[c] = "reconcile"
    /\ \/ Reconciled(ChargeId(c), actual)
       \/ error /\ (QuoteExceeded(ChargeId(c), actual) \/ Untouched)
    /\ IF c \in cancelled THEN Goto(c, "look") ELSE Return(c, "response")
    /\ UNCHANGED <<wrappers, cancelled, history>>

Reconcile(c, actual, error) ==
    /\ pc[c] = "reconcile"
    /\ \/ Reconciled(ChargeId(c), actual)
       \/ error /\ (QuoteExceeded(ChargeId(c), actual) \/ Untouched)
    /\ IF error \/ c \in cancelled THEN Goto(c, "look") ELSE Return(c, "response")
    /\ UNCHANGED <<wrappers, cancelled, history>>

(* _mark_indeterminate_if_active() *)
CleanupLook(c, error) ==
    /\ pc[c] \in {"look", "verify"}
    /\ CASE error -> Return(c, "state_error")
         [] ~error /\ State(c) \in Active ->
              IF pc[c] = "look" THEN Goto(c, "mark") ELSE Return(c, "state_error")
         [] ~error /\ State(c) \notin Active -> Raise(c, "error")
    /\ Untouched /\ UNCHANGED <<wrappers, cancelled, history>>

(* Mutant: a failed mark_indeterminate() is tried again, for ever. *)
CleanupMarkAgain(c, error) ==
    /\ pc[c] = "mark"
    /\ \/ /\ Moved(ChargeId(c), Active, "indeterminate")
          /\ IF error THEN Return(c, "state_error") ELSE Raise(c, "error")
       \/ error /\ Untouched /\ Goto(c, "look")
       \/ ~error /\ State(c) \notin Active /\ Untouched /\ Goto(c, "verify")
    /\ UNCHANGED <<wrappers, cancelled, history>>

CleanupMark(c, error) ==
    /\ pc[c] = "mark"
    /\ \/ /\ Moved(ChargeId(c), Active, "indeterminate")
          /\ IF error THEN Return(c, "state_error") ELSE Raise(c, "error")
       \/ error /\ Untouched /\ Return(c, "state_error")
       \/ ~error /\ State(c) \notin Active /\ Untouched /\ Goto(c, "verify")
    /\ UNCHANGED <<wrappers, cancelled, history>>

(* The caller cancels: a deadline, a disconnect or a shutdown. *)
Cancel(c) ==
    /\ pc[c] \notin {"done", "dead"}
    /\ c \notin cancelled
    /\ cancelled' = cancelled \cup {c}
    /\ Untouched /\ UNCHANGED <<wrappers, pc, result, history>>

(* The process of a wrapper dies with all its calls. *)
Crash(w) ==
    /\ \E c \in Calls : WrapperOf[c] = w /\ pc[c] \notin {"done", "dead"}
    /\ pc' = [c \in Calls |-> IF WrapperOf[c] = w /\ pc[c] # "done" THEN "dead" ELSE pc[c]]
    /\ Untouched /\ UNCHANGED <<wrappers, result, cancelled, history>>

-----------------------------------------------------------------------------
Init ==
    /\ project = [p \in Projects |-> NoAccount] /\ run = [r \in Runs |-> NoAccount]
    /\ openProjects = {} /\ openRuns = {}
    /\ charge = [id \in ChargeIds |-> NoCharge]
    /\ opened = {} /\ nextOrdinal = [w \in Wrappers |-> 0]
    /\ ordinal = [c \in Calls |-> 0]
    /\ pc = [c \in Calls |-> "start"] /\ result = [c \in Calls |-> "none"]
    /\ cancelled = {} /\ won = {} /\ invoked = {}

Complete(c) ==
    \/ Unquotable(c) \/ Open(c) \/ OpenFails(c)
    \/ ReserveCall(c) \/ ReserveRefused(c) \/ ReserveError(c)
    \/ ProviderReturns(c) \/ ProviderFails(c)
    \/ \E error \in Faults :
         \/ Release(c, error) \/ MarkDispatched(c, error)
         \/ RecoverLook(c, error) \/ RecoverWrite(c, error)
         \/ \E actual \in Costs : Reconcile(c, actual, error)
         \/ CleanupLook(c, error) \/ CleanupMark(c, error)

Next ==
    \/ \E c \in Calls : Complete(c) \/ Cancel(c)
    \/ \E w \in Wrappers : Crash(w)
    \/ \E id \in ChargeIds : RecoverStale(id)

Spec == Init /\ [][Next]_vars

(* A call runs on: the event loop resumes it, the database and the provider *)
(* return or raise.                                                         *)
FairSpec == Spec /\ \A c \in Calls : WF_vars(Complete(c))

-----------------------------------------------------------------------------
(* Properties *)

(* Every variable has its type: no counter becomes negative. *)
TypeOK ==
    /\ project \in [Projects -> Account] /\ run \in [Runs -> Account]
    /\ openProjects \subseteq Projects /\ openRuns \subseteq Runs
    /\ charge \in [ChargeIds -> Charge]
    /\ opened \subseteq Wrappers /\ nextOrdinal \in [Wrappers -> Nat]
    /\ ordinal \in [Calls -> Ordinals]
    /\ pc \in [Calls -> PCs] /\ result \in [Calls -> Results]
    /\ cancelled \subseteq Calls /\ won \subseteq Calls /\ invoked \subseteq Calls

(* No account ever promises or spends more than its limit, over all calls   *)
(* that reserve concurrently and all costs the providers report: the CHECK  *)
(* constraints of runs and project_budgets never refuse an update.          *)
Solvent(account) == account.spent + account.reserved <= account.limit
WithinLimits ==
    (\A p \in Projects : Solvent(project[p])) /\ (\A r \in Runs : Solvent(run[r]))

(* The money a charge ties up *)
Reserved(id) == IF charge[id].state \in Active \cup {"indeterminate"} THEN charge[id].quote ELSE 0
Spent(id) == IF charge[id].state = "reconciled" THEN charge[id].actual ELSE 0

Balanced(account, ids) ==
    /\ account.reserved = MapThenSumSet(Reserved, ids)
    /\ account.spent = MapThenSumSet(Spent, ids)

(* The counters agree with the table of charges after every transaction, in *)
(* whatever order reservations, reconciliations, releases and recoveries    *)
(* meet: no money leaks and none is returned twice.                         *)
AccountsBalance ==
    /\ \A r \in Runs : Balanced(run[r], {id \in ChargeIds : id.run = r})
    /\ \A p \in Projects : Balanced(project[p], {id \in ChargeIds : ProjectOf[id.run] = p})

(* A provider is called at most once per charge, and its charge keeps money *)
(* aside or has spent it: a second wrapper of the run, a lost answer or the *)
(* recovery of a stale reservation never lets a call go unpaid.             *)
EveryInvocationIsPaid ==
    /\ \A c, d \in invoked : ChargeId(c) = ChargeId(d) => c = d
    /\ \A c \in invoked : State(c) \in {"dispatched", "reconciled", "indeterminate"}

(* A call that ended without reporting a cleanup failure has settled the    *)
(* charge it reserved, and its response was paid for.                       *)
EndedCallsAreSettled ==
    \A c \in Calls :
      /\ pc[c] = "done" /\ c \in won /\ result[c] # "state_error" => State(c) \notin Active
      /\ result[c] = "response" => State(c) = "reconciled" /\ c \in invoked

(* Every sum of money that can occur as a quote, a cost or a limit *)
Amounts == Range(Quote) \cup Costs \cup Range(ProjectLimit) \cup Range(RunLimit)

(* Accounts, charges and wrappers implement a purse that adds up its        *)
(* charges.                                                                 *)
Purse == INSTANCE BudgetPurse
    WITH state <- [id \in ChargeIds |-> charge[id].state],
         funds <- [id \in ChargeIds |-> Reserved(id) + Spent(id)],
         projectCap <- [p \in Projects |-> IF p \in openProjects THEN project[p].limit ELSE -1],
         runCap <- [r \in Runs |-> IF r \in openRuns THEN run[r].limit ELSE -1]

ImplementsPurse == Purse!Spec

(* Every call comes to an end, though cleanups race with recoveries. *)
EveryCallEnds == \A c \in Calls : pc[c] = "reserve" ~> pc[c] \in {"done", "dead"}

(* The documentation's claim that a cancellation before the dispatch        *)
(* releases the reservation.                                                *)
CancelledBeforeDispatchReleases ==
    \A c \in won \ invoked : result[c] = "cancelled" => State(c) = "released"
=============================================================================
