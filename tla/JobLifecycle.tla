---------------------------- MODULE JobLifecycle ----------------------------
(***************************************************************************)
(* What the durable queue promises about a job, without leases, clocks or  *)
(* workers: the documented state machine (docs/course/concepts/            *)
(* background-jobs-scheduling.md), a fence that each start of a handler    *)
(* advances, and results stored only under the newest fence.               *)
(***************************************************************************)
EXTENDS Naturals

CONSTANT Jobs

VARIABLES
    phase,   \* the status column, "absent" before the row exists
    fence,   \* lease_generation
    stored   \* the fence under which the stored result was produced, 0: none

lifecycle == <<phase, fence, stored>>

Init ==
    /\ phase = [j \in Jobs |-> "absent"]
    /\ fence = [j \in Jobs |-> 0]
    /\ stored = [j \in Jobs |-> 0]

Move(j, from, to) ==
    /\ phase[j] = from
    /\ phase' = [phase EXCEPT ![j] = to]

Submit(j) == Move(j, "absent", "pending") /\ UNCHANGED <<fence, stored>>

Start(j) ==
    /\ Move(j, "pending", "running")
    /\ fence' = [fence EXCEPT ![j] = @ + 1]
    /\ UNCHANGED stored

Complete(j) ==
    /\ Move(j, "running", "succeeded")
    /\ stored' = [stored EXCEPT ![j] = fence[j]]
    /\ UNCHANGED fence

(* A permanent failure or a cancellation *)
Give(j) ==
    /\ \/ Move(j, "running", "failed")
       \/ Move(j, "pending", "cancelled")
       \/ Move(j, "running", "cancelled")
    /\ UNCHANGED <<fence, stored>>

(* A retryable failure, or the expiry of any number of leases at once *)
Interrupt(S, to) ==
    /\ \A j \in S : phase[j] = "running" /\ to[j] \in {"pending", "dead_letter"}
    /\ phase' = [j \in Jobs |-> IF j \in S THEN to[j] ELSE phase[j]]
    /\ UNCHANGED <<fence, stored>>

Resubmit(j) ==
    /\ Move(j, "failed", "pending") \/ Move(j, "dead_letter", "pending")
    /\ UNCHANGED <<fence, stored>>

Next ==
    \/ \E j \in Jobs :
         Submit(j) \/ Start(j) \/ Complete(j) \/ Give(j) \/ Resubmit(j)
    \/ \E S \in SUBSET Jobs :
         \E to \in [S -> {"pending", "dead_letter"}] : Interrupt(S, to)

Spec == Init /\ [][Next]_lifecycle
=============================================================================
