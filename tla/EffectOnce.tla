----------------------------- MODULE EffectOnce -----------------------------
(***************************************************************************)
(* What the effect ledger promises about one logical external effect,      *)
(* without executors, cancellation or database errors: one claim, at most  *)
(* one dispatch and only under the claim, one settlement, one review       *)
(* (docs/course/concepts/idempotency.md: at-most-once orchestration).      *)
(***************************************************************************)
EXTENDS Naturals

CONSTANT Effects

VARIABLES
    state,   \* "absent", "reserved", "committed", "failed" or "indeterminate"
    runs,    \* number of times the tool's handler was started
    review   \* the reviewer's disposition, or "none"

ledger == <<state, runs, review>>

Init ==
    /\ state = [e \in Effects |-> "absent"]
    /\ runs = [e \in Effects |-> 0]
    /\ review = [e \in Effects |-> "none"]

Claim(e) ==
    /\ state[e] = "absent"
    /\ state' = [state EXCEPT ![e] = "reserved"]
    /\ UNCHANGED <<runs, review>>

(* The handler may start late: its reservation may have been recovered.     *)
Dispatch(e) ==
    /\ state[e] \in {"reserved", "indeterminate"}
    /\ runs[e] = 0
    /\ runs' = [runs EXCEPT ![e] = 1]
    /\ UNCHANGED <<state, review>>

(* Any number of stale reservations may be settled at once. *)
Settle(S, to) ==
    /\ \A e \in S : /\ state[e] = "reserved"
                    /\ to[e] = "committed" => runs[e] = 1
    /\ state' = [e \in Effects |-> IF e \in S THEN to[e] ELSE state[e]]
    /\ UNCHANGED <<runs, review>>

Review(e, verdict) ==
    /\ state[e] = "indeterminate"
    /\ review[e] = "none"
    /\ review' = [review EXCEPT ![e] = verdict]
    /\ UNCHANGED <<state, runs>>

Verdicts == {"confirmed_committed", "confirmed_failed", "requires_compensation"}
Outcomes == {"committed", "failed", "indeterminate"}

Next ==
    \/ \E e \in Effects :
         Claim(e) \/ Dispatch(e) \/ \E verdict \in Verdicts : Review(e, verdict)
    \/ \E S \in SUBSET Effects : \E to \in [S -> Outcomes] : Settle(S, to)

Spec == Init /\ [][Next]_ledger
=============================================================================
