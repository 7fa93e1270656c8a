---------------------------- MODULE EffectLedger ----------------------------
(***************************************************************************)
(* Durable at-most-once execution of effectful tools: the table of effect  *)
(* tombstones (backend/app/services/effect_ledger.py) and the calls that   *)
(* reserve, dispatch, commit and clean up (DurableEffectToolExecutor in    *)
(* backend/app/runtime/effect_executor.py).                                *)
(*                                                                         *)
(* Every transaction may fail before or after its commit.  A call may be   *)
(* cancelled at any moment, several times, and its process may die.        *)
(* Calls with the same run, tool, arguments, resources and schema name the *)
(* same effect, whatever their tool_call_id.                               *)
(***************************************************************************)
EXTENDS Naturals, FiniteSets

CONSTANTS
    Runs,      \* (owner_id, project_id, run_id) scopes
    Ops,       \* tool, arguments, resources and schema of an effectful call
    Calls,     \* execute() calls of all processes
    CallIds,   \* tool_call_id values
    Request,   \* [Calls -> [run : Runs, op : Ops, id : CallIds]]
    MaxClock   \* bound on the clock that dates reservations

ASSUME RequestAssumption == Request \in [Calls -> [run : Runs, op : Ops, id : CallIds]]
ASSUME ClockAssumption == MaxClock \in Nat

VARIABLES
    row,        \* the table effects
    pc,         \* where each execute() call is
    result,     \* what each call returned or raised
    cancelled,  \* calls to which a CancelledError was sent and not yet raised
    again,      \* calls in the cleanup after a failed commit
    started,    \* history: calls whose tool handler was started
    clock       \* present time

vars == <<row, pc, result, cancelled, again, started, clock>>

-----------------------------------------------------------------------------
(* bind_effect_identity(): the HMAC document leaves tool_call_id out.       *)
EffectIds == [run : Runs, op : Ops]
EffectId(c) == [run |-> Request[c].run, op |-> Request[c].op]

Settled == {"committed", "failed", "indeterminate"}
States == {"absent", "reserved"} \cup Settled
Dispositions == {"confirmed_committed", "confirmed_failed", "requires_compensation"}
Row == [state : States, review : Dispositions \cup {"none"}, at : Nat]

(* pc: "insert" and "read" inside reserve(); "release" before               *)
(* fail("dispatch_cancelled"); "dispatch" and "handler" inside              *)
(* execute_effect(); "reject" before fail("permission_denied"); "look" and  *)
(* "mark" inside _mark_indeterminate(); "dead" after a crash.               *)
Owning == {"release", "dispatch", "handler", "commit", "reject", "look", "mark"}
PCs == {"start", "insert", "read", "done", "dead"} \cup Owning
Results == {"none", "output", "duplicate", "cancelled", "rejected", "indeterminate", "error"}

Goto(c, to) == pc' = [pc EXCEPT ![c] = to] /\ UNCHANGED result
Return(c, r) ==
    /\ pc' = [pc EXCEPT ![c] = "done"]
    /\ result' = [result EXCEPT ![c] = r]

-----------------------------------------------------------------------------
(* The repository *)

(* INSERT ... ON CONFLICT DO NOTHING wins only if there is no row. *)
Insert(e) ==
    /\ row[e].state = "absent"
    /\ row' = [row EXCEPT ![e] = [state |-> "reserved", review |-> "none", at |-> clock]]

(* Mutant: _transition() without its condition on the state. *)
TransitionAnything(e, to, error) ==
    \/ row' = [row EXCEPT ![e].state = to]
    \/ error /\ UNCHANGED row

(* _transition(): the UPDATE succeeds on a reserved row; the call raises on *)
(* any other row, and on a database error before or after the commit.       *)
Transition(e, to, error) ==
    \/ row[e].state = "reserved" /\ row' = [row EXCEPT ![e].state = to]
    \/ error /\ UNCHANGED row

(* Mutant: a state outside the enumeration. *)
RecoveredAsStale(x, cutoff) ==
    IF x.state = "reserved" /\ x.at < cutoff THEN [x EXCEPT !.state = "stale"] ELSE x

Recovered(x, cutoff) ==
    IF x.state = "reserved" /\ x.at < cutoff THEN [x EXCEPT !.state = "indeterminate"] ELSE x

(* recover_stale_reservations(): no code of the application calls it.       *)
RecoverStale(cutoff) ==
    /\ row' = [e \in EffectIds |-> Recovered(row[e], cutoff)]
    /\ UNCHANGED <<pc, result, cancelled, again, started, clock>>

(* review_indeterminate() by the run's owner *)
Review(e, disposition) ==
    /\ row[e].state = "indeterminate"
    /\ row[e].review = "none"
    /\ row' = [row EXCEPT ![e].review = disposition]
    /\ UNCHANGED <<pc, result, cancelled, again, started, clock>>

-----------------------------------------------------------------------------
(* execute() *)

(* An unknown tool, invalid arguments or a compliance rule raise before the *)
(* ledger is touched.                                                       *)
Begin(c) ==
    /\ pc[c] = "start"
    /\ \/ Goto(c, "insert")
       \/ Return(c, "error")
       \/ c \in cancelled /\ Return(c, "cancelled")
    /\ UNCHANGED <<row, cancelled, again, started, clock>>

(* Mutant: an existing reservation is executed again. *)
AfterReserveRetry(c, won) ==
    IF c \in cancelled
      THEN IF won THEN Goto(c, "release") ELSE Return(c, "cancelled")
      ELSE IF won \/ row[EffectId(c)].state = "reserved"
             THEN Goto(c, "dispatch") ELSE Return(c, "duplicate")

(* What follows a finished reservation, cancelled meanwhile or not. *)
AfterReserve(c, won) ==
    IF c \in cancelled
      THEN IF won THEN Goto(c, "release") ELSE Return(c, "cancelled")
      ELSE IF won THEN Goto(c, "dispatch") ELSE Return(c, "duplicate")

ReserveInsert(c) ==
    /\ pc[c] = "insert"
    /\ Insert(EffectId(c))
    /\ AfterReserve(c, TRUE)
    /\ UNCHANGED <<cancelled, again, started, clock>>

ReserveConflict(c) ==
    /\ pc[c] = "insert"
    /\ row[EffectId(c)].state # "absent"
    /\ Goto(c, "read")
    /\ UNCHANGED <<row, cancelled, again, started, clock>>

ReserveRead(c) ==
    /\ pc[c] = "read"
    /\ AfterReserve(c, FALSE)
    /\ UNCHANGED <<row, cancelled, again, started, clock>>

(* reserve() raises, perhaps after its commit: nothing is dispatched. *)
ReserveError(c) ==
    /\ pc[c] \in {"insert", "read"}
    /\ UNCHANGED row \/ (pc[c] = "insert" /\ Insert(EffectId(c)))
    /\ Return(c, IF c \in cancelled THEN "cancelled" ELSE "error")
    /\ UNCHANGED <<cancelled, again, started, clock>>

(* fail("dispatch_cancelled") *)
Release(c, error) ==
    /\ pc[c] = "release"
    /\ Transition(EffectId(c), "failed", error)
    /\ Return(c, IF error THEN "indeterminate" ELSE "cancelled")
    /\ UNCHANGED <<cancelled, again, started, clock>>

(* execute_effect() passes the permission checks and starts the handler. *)
Dispatch(c) ==
    /\ pc[c] = "dispatch"
    /\ Goto(c, "handler")
    /\ started' = started \cup {c}
    /\ UNCHANGED <<row, cancelled, again, clock>>

(* PermissionError, from a permission check or from the handler itself. *)
Forbidden(c) ==
    /\ pc[c] \in {"dispatch", "handler"}
    /\ Goto(c, "reject")
    /\ UNCHANGED <<row, cancelled, again, started, clock>>

(* The handler returned an output with evidence.  A cancellation sent to it *)
(* was swallowed by it.                                                     *)
HandlerReturns(c) ==
    /\ pc[c] = "handler"
    /\ Goto(c, "commit")
    /\ cancelled' = cancelled \ {c}
    /\ UNCHANGED <<row, again, started, clock>>

(* Any other exception, a timeout, the cancellation (or an exception that   *)
(* the handler made of it), or an output without evidence.                  *)
Interrupted(c) ==
    /\ pc[c] \in {"dispatch", "handler"}
    /\ Goto(c, "look")
    /\ cancelled' \in {cancelled, cancelled \ {c}}
    /\ UNCHANGED <<row, again, started, clock>>

(* fail("permission_denied") *)
Reject(c, error) ==
    /\ pc[c] = "reject"
    /\ Transition(EffectId(c), "failed", error)
    /\ Return(c, IF error THEN "indeterminate" ELSE "rejected")
    /\ UNCHANGED <<cancelled, again, started, clock>>

(* Mutant: a failed commit is answered like a successful one. *)
CommitIgnoringError(c, error) ==
    /\ pc[c] = "commit"
    /\ Transition(EffectId(c), "committed", error)
    /\ IF c \in cancelled THEN Goto(c, "look") ELSE Return(c, "output")
    /\ UNCHANGED <<cancelled, again, started, clock>>

(* commit(); a cancellation that arrived meanwhile is raised into the       *)
(* enclosing handler of BaseException.                                      *)
Commit(c, error) ==
    /\ pc[c] = "commit"
    /\ Transition(EffectId(c), "committed", error)
    /\ IF error \/ c \in cancelled THEN Goto(c, "look") ELSE Return(c, "output")
    /\ again' = IF error THEN again \cup {c} ELSE again
    /\ UNCHANGED <<cancelled, started, clock>>

(* Mutant: the second cleanup believes it is the first. *)
AfterCleanupForever(c, error) ==
    IF c \in again
      THEN /\ Goto(c, "look")
           /\ cancelled' = cancelled \ {c}
           /\ UNCHANGED again
      ELSE /\ Return(c, IF c \in cancelled /\ ~error THEN "cancelled" ELSE "indeterminate")
           /\ UNCHANGED <<cancelled, again>>

(* The end of one _mark_indeterminate(): the cleanup after a failed commit  *)
(* raises, forgetting cancellations, into the handler of BaseException,     *)
(* which cleans up a second time.                                           *)
AfterCleanup(c, error) ==
    IF c \in again
      THEN /\ Goto(c, "look")
           /\ cancelled' = cancelled \ {c}
           /\ again' = again \ {c}
      ELSE /\ Return(c, IF c \in cancelled /\ ~error THEN "cancelled" ELSE "indeterminate")
           /\ UNCHANGED <<cancelled, again>>

CleanupLook(c, error) ==
    /\ pc[c] = "look"
    /\ IF ~error /\ row[EffectId(c)].state = "reserved"
         THEN Goto(c, "mark") /\ UNCHANGED <<cancelled, again>>
         ELSE AfterCleanup(c, error)
    /\ UNCHANGED <<row, started, clock>>

CleanupMark(c, error) ==
    /\ pc[c] = "mark"
    /\ Transition(EffectId(c), "indeterminate", error)
    /\ AfterCleanup(c, error)
    /\ UNCHANGED <<started, clock>>

(* The caller cancels the call: a deadline, a disconnect or a shutdown. *)
Cancel(c) ==
    /\ pc[c] \notin {"done", "dead"}
    /\ c \notin cancelled
    /\ cancelled' = cancelled \cup {c}
    /\ UNCHANGED <<row, pc, result, again, started, clock>>

Crash(c) ==
    /\ pc[c] \notin {"start", "done", "dead"}
    /\ Goto(c, "dead")
    /\ UNCHANGED <<row, cancelled, again, started, clock>>

Tick ==
    /\ clock < MaxClock
    /\ clock' = clock + 1
    /\ UNCHANGED <<row, pc, result, cancelled, again, started>>

-----------------------------------------------------------------------------
Init ==
    /\ row = [e \in EffectIds |-> [state |-> "absent", review |-> "none", at |-> 0]]
    /\ pc = [c \in Calls |-> "start"]
    /\ result = [c \in Calls |-> "none"]
    /\ cancelled = {} /\ again = {} /\ started = {}
    /\ clock = 0

Execute(c) ==
    \/ Begin(c) \/ ReserveInsert(c) \/ ReserveConflict(c) \/ ReserveRead(c)
    \/ ReserveError(c)
    \/ Dispatch(c) \/ Forbidden(c) \/ HandlerReturns(c) \/ Interrupted(c)
    \/ \E error \in BOOLEAN :
         \/ Release(c, error) \/ Reject(c, error) \/ Commit(c, error)
         \/ CleanupLook(c, error) \/ CleanupMark(c, error)

Next ==
    \/ \E c \in Calls : Execute(c) \/ Cancel(c) \/ Crash(c)
    \/ \E e \in EffectIds, disposition \in Dispositions : Review(e, disposition)
    \/ \E cutoff \in 0 .. clock : RecoverStale(cutoff)
    \/ Tick

Spec == Init /\ [][Next]_vars

(* A call runs on: the event loop resumes it, database calls return or      *)
(* raise, and wait_for() bounds the handler.  Nothing calls RecoverStale,   *)
(* and reviewers owe nothing.                                               *)
FairSpec == Spec /\ \A c \in Calls : WF_vars(Execute(c))

-----------------------------------------------------------------------------
(* Properties *)

State(c) == row[EffectId(c)].state

(* Every variable has its type. *)
TypeOK ==
    /\ row \in [EffectIds -> Row]
    /\ pc \in [Calls -> PCs]
    /\ result \in [Calls -> Results]
    /\ cancelled \subseteq Calls
    /\ again \subseteq Calls
    /\ started \subseteq Calls
    /\ clock \in Nat

(* At most one call ever starts the handler of an effect, over all          *)
(* processes, provider retries with new call ids, crashes between the       *)
(* reservation and the commit, and reservations whose answer got lost.      *)
AtMostOnce == \A c, d \in started : EffectId(c) = EffectId(d) => c = d

(* What execute() tells the runtime agrees with the ledger, also when       *)
(* transactions fail after their commit and cancellations arrive in the     *)
(* middle: an output is committed, a rejection or a release is recorded as  *)
(* failed, a duplicate did not run, and a cancellation is passed on only if *)
(* the effect it may have interrupted was settled.                          *)
TruthfulResults ==
    \A c \in Calls :
      /\ result[c] = "output" => State(c) = "committed" /\ c \in started
      /\ result[c] = "rejected" => State(c) = "failed"
      /\ result[c] \in {"duplicate", "error"} => c \notin started
      /\ result[c] = "duplicate" => State(c) # "absent"
      /\ result[c] = "cancelled" /\ c \in started => State(c) \in {"committed", "indeterminate"}

(* The ledger and its executors implement the at-most-once promise.         *)
Once == INSTANCE EffectOnce
    WITH Effects <- EffectIds,
         state <- [e \in EffectIds |-> row[e].state],
         runs <- [e \in EffectIds |-> Cardinality({c \in started : EffectId(c) = e})],
         review <- [e \in EffectIds |-> row[e].review]

ImplementsOnce == Once!Spec

(* Every call comes to an end, cancelled or not, though cleanups fail and   *)
(* a failed commit is cleaned up twice.                                     *)
EveryCallEnds ==
    \A c \in Calls : pc[c] = "insert" ~> pc[c] \in {"done", "dead"}

(* The documentation's claim that ambiguous failures after the dispatch     *)
(* become indeterminate: a failed effect never ran.                         *)
FailedNeverRan == \A c \in started : State(c) # "failed"

(* The documentation's claim that an effect whose executor lost contact     *)
(* becomes indeterminate.                                                   *)
LostContactBecomesIndeterminate ==
    \A c \in Calls :
      pc[c] = "dead" /\ c \in started /\ State(c) = "reserved"
        ~> State(c) = "indeterminate"
=============================================================================
