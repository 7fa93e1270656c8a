----------------------------- MODULE BudgetPurse -----------------------------
(***************************************************************************)
(* What the money budget promises, without counters, wrappers or failures: *)
(* a charge follows the life cycle of docs/course/concepts/                *)
(* cost-usage-budgets.md, and money is promised to a new charge only if    *)
(* all charges of its run and of its project together stay within the      *)
(* caps.                                                                   *)
(***************************************************************************)
EXTENDS Integers, FiniteSetsExt

CONSTANTS Projects, Runs, ProjectOf, ChargeIds, Amounts

VARIABLES
    state,              \* life cycle of each charge
    funds,              \* money each charge ties up
    projectCap, runCap  \* limits, -1 before they are set

purse == <<state, funds, projectCap, runCap>>

Total(ids) == MapThenSumSet(LAMBDA id : funds[id], ids)
OfRun(r) == {id \in ChargeIds : id.run = r}
OfProject(p) == {id \in ChargeIds : ProjectOf[id.run] = p}

Init ==
    /\ state = [id \in ChargeIds |-> "absent"]
    /\ funds = [id \in ChargeIds |-> 0]
    /\ projectCap = [p \in Projects |-> -1]
    /\ runCap = [r \in Runs |-> -1]

(* A cap is set once. *)
SetCaps(r, ofProject, ofRun) ==
    LET p == ProjectOf[r]
    IN  /\ projectCap[p] \in {-1, ofProject} /\ runCap[r] \in {-1, ofRun}
        /\ projectCap' = [projectCap EXCEPT ![p] = ofProject]
        /\ runCap' = [runCap EXCEPT ![r] = ofRun]
        /\ UNCHANGED <<state, funds>>

Change(id, to, money) ==
    /\ state' = [state EXCEPT ![id] = to]
    /\ funds' = [funds EXCEPT ![id] = money]
    /\ UNCHANGED <<projectCap, runCap>>

Promise(id, money) ==
    /\ state[id] = "absent"
    /\ Total(OfRun(id.run)) + money <= runCap[id.run]
    /\ Total(OfProject(ProjectOf[id.run])) + money <= projectCap[ProjectOf[id.run]]
    /\ Change(id, "reserved", money)

Dispatch(id) == state[id] = "reserved" /\ Change(id, "dispatched", funds[id])

GiveBack(id) == state[id] = "reserved" /\ Change(id, "released", 0)

(* A cost never exceeds what was set aside for it. *)
Pay(id, cost) ==
    /\ state[id] = "dispatched"
    /\ cost <= funds[id]
    /\ Change(id, "reconciled", cost)

Freeze(id) == state[id] \in {"reserved", "dispatched"} /\ Change(id, "indeterminate", funds[id])

Next ==
    \/ \E r \in Runs, ofProject, ofRun \in Amounts : SetCaps(r, ofProject, ofRun)
    \/ \E id \in ChargeIds : Dispatch(id) \/ GiveBack(id) \/ Freeze(id)
    \/ \E id \in ChargeIds, money \in Amounts : Promise(id, money) \/ Pay(id, money)

Spec == Init /\ [][Next]_purse
=============================================================================
