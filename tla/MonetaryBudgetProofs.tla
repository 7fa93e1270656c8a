------------------------ MODULE MonetaryBudgetProofs ------------------------
(***************************************************************************)
(* The accounts of MonetaryBudget stay within their limits, calls are paid *)
(* and settled, the counters are the sums over the charges, and the whole  *)
(* implements BudgetPurse, for every number of projects, runs, wrappers    *)
(* and calls, and for all quotes and costs. BudgetInv is about the         *)
(* accounts, PaidInv about the calls under way, BooksAgree about the sums. *)
(***************************************************************************)
EXTENDS MonetaryBudget, FiniteSetTheorems, TLAPS

(* An account that was never opened is empty: open_run() sets a limit only  *)
(* then, and may set any.                                                   *)
Unopened ==
    /\ \A p \in Projects \ openProjects : project[p] = NoAccount
    /\ \A r \in Runs \ openRuns : run[r] = NoAccount

(* Charges are made on open accounts only. *)
ChargedRuns ==
    \A id \in ChargeIds :
      charge[id].state # "absent" => id.run \in openRuns /\ ProjectOf[id.run] \in openProjects

BudgetInv == TypeOK /\ Unopened /\ ChargedRuns /\ WithinLimits

-----------------------------------------------------------------------------
LEMMA CallScope ==
    ASSUME NEW c \in Calls
    PROVE  /\ WrapperOf[c] \in Wrappers /\ RunOfCall(c) \in Runs
           /\ ProjectOf[RunOfCall(c)] \in Projects
           /\ TypeOK => ChargeId(c) \in ChargeIds /\ ChargeId(c).run = RunOfCall(c)
  BY ScopeAssumption DEF RunOfCall, ChargeId, ChargeIds, TypeOK

(* What a transaction has to establish about accounts and charges *)
Charged ==
    charge' \in [ChargeIds -> Charge] /\ ChargedRuns'
Books ==
    /\ project' \in [Projects -> Account] /\ run' \in [Runs -> Account]
    /\ openProjects' \subseteq Projects /\ openRuns' \subseteq Runs
    /\ Unopened' /\ WithinLimits'

LEMMA SameBooks ==
    ASSUME BudgetInv, UNCHANGED accounts
    PROVE  Books
  BY DEF BudgetInv, TypeOK, Unopened, WithinLimits, accounts, Books

(* One account under Posted() *)
LEMMA PostedAccount ==
    ASSUME NEW a \in Account, NEW hold \in Int, NEW spend \in Nat,
           a.reserved + hold >= 0
    PROVE  /\ Posted(a, hold, spend) \in Account
           /\ a.spent + spend + a.reserved + hold <= a.limit => Solvent(Posted(a, hold, spend))
  BY DEF Account, Posted, Solvent

LEMMA PostBooks ==
    ASSUME BudgetInv, NEW r \in openRuns, ProjectOf[r] \in openProjects,
           NEW hold \in Int, NEW spend \in Nat, Post(r, hold, spend),
           project[ProjectOf[r]].reserved + hold >= 0,
           run[r].reserved + hold >= 0,
           project[ProjectOf[r]].spent + spend + project[ProjectOf[r]].reserved + hold
             <= project[ProjectOf[r]].limit,
           run[r].spent + spend + run[r].reserved + hold <= run[r].limit
    PROVE  Books
  <1>1. r \in Runs /\ ProjectOf[r] \in Projects
    BY ScopeAssumption DEF BudgetInv, TypeOK
  <1>2. run[r] \in Account /\ project[ProjectOf[r]] \in Account
    BY <1>1 DEF BudgetInv, TypeOK
  <1>3. PICK a \in Account : a = Posted(project[ProjectOf[r]], hold, spend) /\ Solvent(a)
    BY <1>2, PostedAccount
  <1>4. PICK b \in Account : b = Posted(run[r], hold, spend) /\ Solvent(b)
    BY <1>2, PostedAccount
  <1>5. /\ project' = [project EXCEPT ![ProjectOf[r]] = a]
        /\ run' = [run EXCEPT ![r] = b]
        /\ openProjects' = openProjects /\ openRuns' = openRuns
    BY <1>3, <1>4 DEF Post
  <1>6. project' \in [Projects -> Account] /\ run' \in [Runs -> Account]
    BY <1>5 DEF BudgetInv, TypeOK
  <1>7. Unopened'
    BY <1>1, <1>5 DEF BudgetInv, TypeOK, Unopened
  <1>8. WithinLimits'
    BY <1>1, <1>3, <1>4, <1>5 DEF BudgetInv, TypeOK, WithinLimits
  <1>9. QED
    BY <1>5, <1>6, <1>7, <1>8 DEF BudgetInv, TypeOK, Books

LEMMA SameCharges ==
    ASSUME BudgetInv, UNCHANGED charge,
           openRuns \subseteq openRuns', openProjects \subseteq openProjects'
    PROVE  Charged
  BY DEF BudgetInv, TypeOK, ChargedRuns, Charged

(* A write of one charge, on open accounts *)
LEMMA OneCharge ==
    ASSUME BudgetInv, NEW id \in ChargeIds, NEW x \in Charge,
           charge' = [charge EXCEPT ![id] = x],
           UNCHANGED <<openProjects, openRuns>>,
           id.run \in openRuns, ProjectOf[id.run] \in openProjects
    PROVE  Charged
  BY DEF BudgetInv, TypeOK, ChargedRuns, Charged

LEMMA OpenBooks ==
    ASSUME BudgetInv, NEW w \in Wrappers, OpenRun(w)
    PROVE  /\ Books
           /\ openRuns \subseteq openRuns' /\ openProjects \subseteq openProjects'
  <1> DEFINE r == RunOf[w]
             p == ProjectOf[r]
  <1>1. r \in Runs /\ p \in Projects /\ ProjectLimit[w] \in Nat /\ RunLimit[w] \in Nat
    BY ScopeAssumption, MoneyAssumption
  <1>2. openProjects' = openProjects \cup {p} /\ openRuns' = openRuns \cup {r}
    BY DEF OpenRun
  <1>3. PICK a \in Account : a = [limit |-> ProjectLimit[w], spent |-> 0, reserved |-> 0]
    BY <1>1 DEF Account
  <1>4. PICK b \in Account : b = [limit |-> RunLimit[w], spent |-> run[r].spent,
                                  reserved |-> run[r].reserved]
    BY <1>1 DEF Account, BudgetInv, TypeOK
  <1>5. project' = project \/ (p \notin openProjects /\ project' = [project EXCEPT ![p] = a])
    BY <1>3 DEF OpenRun
  <1>6. run' = run \/ (r \notin openRuns /\ run' = [run EXCEPT ![r] = b])
    BY <1>4 DEF OpenRun
  <1>7. Solvent(a)
    BY <1>1, <1>3 DEF Solvent
  <1>8. r \notin openRuns => Solvent(b)
    BY <1>1, <1>4 DEF Solvent, BudgetInv, Unopened, NoAccount
  <1> HIDE DEF r, p
  <1>9. project' \in [Projects -> Account] /\ run' \in [Runs -> Account]
    BY <1>1, <1>5, <1>6 DEF BudgetInv, TypeOK
  <1>10. Unopened'
    BY <1>1, <1>2, <1>5, <1>6 DEF BudgetInv, TypeOK, Unopened
  <1>11. WithinLimits'
    BY <1>1, <1>5, <1>6, <1>7, <1>8 DEF BudgetInv, TypeOK, WithinLimits
  <1>12. QED
    BY <1>1, <1>2, <1>9, <1>10, <1>11 DEF BudgetInv, TypeOK, Books

LEMMA ReserveBooks ==
    ASSUME BudgetInv, NEW id \in ChargeIds, NEW quote \in Nat, Reserve(id, quote)
    PROVE  Books /\ Charged
  <1>1. id.run \in openRuns /\ ProjectOf[id.run] \in openProjects
    BY DEF Reserve, Affordable
  <1>2. run[id.run] \in Account /\ project[ProjectOf[id.run]] \in Account
    BY <1>1 DEF BudgetInv, TypeOK
  <1>3. /\ project[ProjectOf[id.run]].reserved + quote >= 0
        /\ run[id.run].reserved + quote >= 0
        /\ project[ProjectOf[id.run]].spent + 0 + project[ProjectOf[id.run]].reserved + quote
             <= project[ProjectOf[id.run]].limit
        /\ run[id.run].spent + 0 + run[id.run].reserved + quote <= run[id.run].limit
    BY <1>2 DEF Account, Reserve, Affordable, Fits
  <1>4. Post(id.run, quote, 0) /\ quote \in Int /\ 0 \in Nat
    BY DEF Reserve
  <1>5. Books
    BY <1>1, <1>3, <1>4, PostBooks
  <1>6. PICK x \in Charge : x = [state |-> "reserved", quote |-> quote, actual |-> 0]
    BY DEF Charge, States, Active
  <1>7. charge' = [charge EXCEPT ![id] = x] /\ UNCHANGED <<openProjects, openRuns>>
    BY <1>6 DEF Reserve, Post
  <1>8. QED
    BY <1>1, <1>5, <1>7, OneCharge

LEMMA ChangedState ==
    ASSUME BudgetInv, NEW id \in ChargeIds, NEW to \in States, SetState(id, to),
           charge[id].state # "absent", UNCHANGED <<openProjects, openRuns>>
    PROVE  Charged
  <1>1. charge[id] \in Charge
    BY DEF BudgetInv, TypeOK
  <1>2. PICK x \in Charge : x = [state |-> to, quote |-> charge[id].quote, actual |-> charge[id].actual]
    BY <1>1 DEF Charge
  <1>3. charge' = [charge EXCEPT ![id] = x]
    BY <1>2 DEF SetState
  <1>4. id.run \in openRuns /\ ProjectOf[id.run] \in openProjects
    BY DEF BudgetInv, ChargedRuns
  <1>5. QED
    BY <1>3, <1>4, OneCharge

LEMMA MovedBooks ==
    ASSUME BudgetInv, NEW id \in ChargeIds, NEW source \in SUBSET Active, NEW target \in States,
           Moved(id, source, target)
    PROVE  Books /\ Charged
  <1>1. UNCHANGED accounts /\ SetState(id, target) /\ charge[id].state # "absent"
    BY DEF Moved, Active
  <1>2. UNCHANGED <<openProjects, openRuns>>
    BY <1>1 DEF accounts
  <1>3. QED
    BY <1>1, <1>2, SameBooks, ChangedState

(* The quote of a charge leaves the reserved money, and a cost not above it *)
(* is spent.                                                                *)
LEMMA SettledBooks ==
    ASSUME BudgetInv, NEW id \in ChargeIds, NEW cost \in Nat, cost <= charge[id].quote,
           charge[id].state # "absent", Held(id), Post(id.run, -charge[id].quote, cost)
    PROVE  Books
  <1>1. id.run \in openRuns /\ ProjectOf[id.run] \in openProjects
    BY DEF BudgetInv, ChargedRuns
  <1>2. run[id.run] \in Account /\ project[ProjectOf[id.run]] \in Account /\ charge[id] \in Charge
    BY <1>1 DEF BudgetInv, TypeOK
  <1>3. Solvent(run[id.run]) /\ Solvent(project[ProjectOf[id.run]])
    BY <1>1 DEF BudgetInv, TypeOK, WithinLimits
  <1>4. charge[id].quote \in Nat
    BY <1>2 DEF Charge
  <1>5. PICK hold \in Int : hold = -charge[id].quote
    BY <1>4
  <1>6. /\ project[ProjectOf[id.run]].reserved + hold >= 0
        /\ run[id.run].reserved + hold >= 0
        /\ project[ProjectOf[id.run]].spent + cost + project[ProjectOf[id.run]].reserved + hold
             <= project[ProjectOf[id.run]].limit
        /\ run[id.run].spent + cost + run[id.run].reserved + hold <= run[id.run].limit
    BY <1>2, <1>3, <1>4, <1>5 DEF Account, Held, Solvent
  <1>7. Post(id.run, hold, cost)
    BY <1>5
  <1>8. QED
    BY <1>1, <1>6, <1>7, PostBooks

LEMMA ReleasedBooks ==
    ASSUME BudgetInv, NEW id \in ChargeIds, Released(id)
    PROVE  Books /\ Charged
  <1>1. /\ charge[id].state # "absent" /\ Held(id)
        /\ Post(id.run, -charge[id].quote, 0) /\ SetState(id, "released")
        /\ UNCHANGED <<openProjects, openRuns>>
    BY DEF Released, Post
  <1>2. 0 <= charge[id].quote /\ 0 \in Nat /\ "released" \in States
    BY DEF BudgetInv, TypeOK, Charge, States
  <1>3. QED
    BY <1>1, <1>2, SettledBooks, ChangedState

LEMMA ReconciledBooks ==
    ASSUME BudgetInv, NEW id \in ChargeIds, NEW actual \in Nat, Reconciled(id, actual)
    PROVE  Books /\ Charged
  <1>1. /\ charge[id].state # "absent" /\ Held(id) /\ actual <= charge[id].quote
        /\ Post(id.run, -charge[id].quote, actual)
        /\ UNCHANGED <<openProjects, openRuns>>
    BY DEF Reconciled, Post
  <1>2. Books
    BY <1>1, SettledBooks
  <1>3. charge[id] \in Charge
    BY DEF BudgetInv, TypeOK
  <1>4. PICK x \in Charge : x = [state |-> "reconciled", quote |-> charge[id].quote, actual |-> actual]
    BY <1>3 DEF Charge, States
  <1>5. charge' = [charge EXCEPT ![id] = x]
    BY <1>4 DEF Reconciled
  <1>6. id.run \in openRuns /\ ProjectOf[id.run] \in openProjects
    BY <1>1 DEF BudgetInv, ChargedRuns
  <1>7. QED
    BY <1>1, <1>2, <1>5, <1>6, OneCharge

LEMMA Same ==
    ASSUME BudgetInv, Untouched
    PROVE  Books /\ Charged
  <1>1. UNCHANGED <<openProjects, openRuns>> /\ UNCHANGED accounts /\ UNCHANGED charge
    BY DEF Untouched, accounts
  <1>2. QED
    BY <1>1, SameBooks, SameCharges

-----------------------------------------------------------------------------
(* The part of TypeOK that transactions do not touch *)
CallTypes ==
    /\ opened \subseteq Wrappers /\ nextOrdinal \in [Wrappers -> Nat]
    /\ ordinal \in [Calls -> Ordinals]
    /\ pc \in [Calls -> PCs] /\ result \in [Calls -> Results]
    /\ cancelled \subseteq Calls /\ won \subseteq Calls /\ invoked \subseteq Calls

LEMMA Together ==
    ASSUME BudgetInv, Books, Charged, CallTypes'
    PROVE  BudgetInv'
  BY DEF Books, Charged, CallTypes, BudgetInv, TypeOK

LEMMA CallTypesStep ==
    ASSUME BudgetInv, [Next]_vars
    PROVE  CallTypes'
  <1>1. CallTypes
    BY DEF BudgetInv, TypeOK, CallTypes
  <1>2. ASSUME NEW c \in Calls, Complete(c) PROVE CallTypes'
    <2>1. CASE Unquotable(c)
      BY <1>1, <2>1 DEF CallTypes, Unquotable, Return, PCs, Results, wrappers, history
    <2>2. CASE Open(c)
      <3>1. WrapperOf[c] \in Wrappers /\ nextOrdinal[WrapperOf[c]] \in Nat
        BY <1>1, CallScope DEF CallTypes
      <3>2. UNCHANGED <<cancelled, won, invoked>> /\ opened' \subseteq Wrappers
        BY <1>1, <2>2, <3>1 DEF CallTypes, Open, history
      <3>3. CASE Return(c, "error") /\ UNCHANGED <<nextOrdinal, ordinal>>
        BY <1>1, <3>2, <3>3 DEF CallTypes, Return, PCs, Results
      <3>4. CASE ~(nextOrdinal[WrapperOf[c]] > MaxOrdinal)
        <4>1. PICK n \in Ordinals : n = nextOrdinal[WrapperOf[c]]
          BY <3>1, <3>4, MoneyAssumption DEF Ordinals
        <4>2. n + 1 \in Nat
          BY <4>1, MoneyAssumption DEF Ordinals
        <4>3. /\ ordinal' = [ordinal EXCEPT ![c] = n]
              /\ nextOrdinal' = [nextOrdinal EXCEPT ![WrapperOf[c]] = n + 1]
              /\ Goto(c, "reserve")
          BY <2>2, <3>4, <4>1 DEF Open
        <4>4. QED
          BY <1>1, <3>1, <3>2, <4>2, <4>3 DEF CallTypes, Goto, PCs
      <3>5. QED
        BY <2>2, <3>3, <3>4 DEF Open
    <2>3. CASE OpenFails(c)
      BY <1>1, <2>3 DEF CallTypes, OpenFails, Raise, Return, PCs, Results, wrappers, history
    <2>4. CASE ReserveCall(c)
      BY <1>1, <2>4 DEF CallTypes, ReserveCall, Goto, PCs, wrappers
    <2>5. CASE ReserveRefused(c) \/ ReserveError(c)
      BY <1>1, <2>5 DEF CallTypes, ReserveRefused, ReserveError, Raise, Return, PCs, Results,
                        wrappers, history
    <2>6. CASE ProviderReturns(c) \/ ProviderFails(c)
      BY <1>1, <2>6 DEF CallTypes, ProviderReturns, ProviderFails, Goto, PCs, wrappers, history
    <2>7. ASSUME NEW error \in Faults, Release(c, error) \/ MarkDispatched(c, error)
          PROVE  CallTypes'
      BY <1>1, <2>7 DEF CallTypes, Release, MarkDispatched, Goto, Return, PCs, Results,
                        wrappers, history
    <2>8. ASSUME NEW error \in Faults, RecoverLook(c, error) \/ RecoverWrite(c, error)
          PROVE  CallTypes'
      <3>1. (\E q \in PCs : Goto(c, q)) \/ (\E r \in Results : Return(c, r))
        BY <2>8 DEF RecoverLook, RecoverWrite, Raise, PCs, Results, Active
      <3>2. UNCHANGED <<wrappers, cancelled, history>>
        BY <2>8 DEF RecoverLook, RecoverWrite
      <3>3. QED
        BY <1>1, <3>1, <3>2 DEF CallTypes, Goto, Return, PCs, wrappers, history
    <2>9. ASSUME NEW error \in Faults, NEW actual \in Costs, Reconcile(c, actual, error)
          PROVE  CallTypes'
      BY <1>1, <2>9 DEF CallTypes, Reconcile, Goto, Return, PCs, Results, wrappers, history
    <2>10. ASSUME NEW error \in Faults, CleanupLook(c, error) \/ CleanupMark(c, error)
          PROVE  CallTypes'
      <3>1. (\E q \in PCs : Goto(c, q)) \/ (\E r \in Results : Return(c, r))
        BY <2>10 DEF CleanupLook, CleanupMark, Raise, PCs, Results, Active
      <3>2. UNCHANGED <<wrappers, cancelled, history>>
        BY <2>10 DEF CleanupLook, CleanupMark
      <3>3. QED
        BY <1>1, <3>1, <3>2 DEF CallTypes, Goto, Return, PCs, wrappers, history
    <2>11. QED
      BY <1>2, <2>1, <2>2, <2>3, <2>4, <2>5, <2>6, <2>7, <2>8, <2>9, <2>10 DEF Complete
  <1>3. ASSUME NEW c \in Calls, Cancel(c) PROVE CallTypes'
    BY <1>1, <1>3 DEF CallTypes, Cancel, wrappers, history
  <1>4. ASSUME NEW w \in Wrappers, Crash(w) PROVE CallTypes'
    BY <1>1, <1>4 DEF CallTypes, Crash, PCs, wrappers, history
  <1>5. ASSUME NEW id \in ChargeIds, RecoverStale(id) PROVE CallTypes'
    BY <1>1, <1>5 DEF CallTypes, RecoverStale, wrappers, history
  <1>6. CASE UNCHANGED vars
    BY <1>1, <1>6 DEF CallTypes, vars, wrappers, history
  <1>7. QED
    BY <1>2, <1>3, <1>4, <1>5, <1>6 DEF Next

(* Every step of a call is a transaction or leaves the books alone. *)
LEMMA CompleteBooks ==
    ASSUME BudgetInv, NEW c \in Calls, Complete(c)
    PROVE  Books /\ Charged
  <1>1. /\ ChargeId(c) \in ChargeIds /\ WrapperOf[c] \in Wrappers /\ Quote[c] \in Nat
        /\ "indeterminate" \in States /\ "dispatched" \in States
        /\ Active \in SUBSET Active /\ {"reserved"} \in SUBSET Active
        /\ {"dispatched"} \in SUBSET Active
    BY CallScope, MoneyAssumption DEF BudgetInv, States, Active
  <1>2. ASSUME UNCHANGED accounts \/ OpenRun(WrapperOf[c]), UNCHANGED charge
        PROVE  Books /\ Charged
    <2>1. CASE UNCHANGED accounts
      BY <1>2, <2>1, Same DEF Untouched
    <2>2. CASE OpenRun(WrapperOf[c])
      BY <1>1, <1>2, <2>2, OpenBooks, SameCharges
    <2>3. QED
      BY <1>2, <2>1, <2>2
  <1>3. CASE Unquotable(c) \/ ReserveRefused(c) \/ ProviderReturns(c) \/ ProviderFails(c)
    BY <1>3, Same DEF Unquotable, ReserveRefused, ProviderReturns, ProviderFails
  <1>4. CASE Open(c) \/ OpenFails(c)
    BY <1>2, <1>4 DEF Open, OpenFails
  <1>5. CASE ReserveCall(c) \/ ReserveError(c)
    BY <1>1, <1>5, Same, ReserveBooks DEF ReserveCall, ReserveError
  <1>6. ASSUME NEW error \in Faults, Release(c, error) PROVE Books /\ Charged
    BY <1>1, <1>6, Same, ReleasedBooks DEF Release
  <1>7. ASSUME NEW error \in Faults, MarkDispatched(c, error) PROVE Books /\ Charged
    BY <1>1, <1>7, Same, MovedBooks DEF MarkDispatched
  <1>8. ASSUME NEW error \in Faults, RecoverLook(c, error) \/ CleanupLook(c, error)
        PROVE  Books /\ Charged
    BY <1>8, Same DEF RecoverLook, CleanupLook
  <1>9. ASSUME NEW error \in Faults, RecoverWrite(c, error) PROVE Books /\ Charged
    BY <1>1, <1>9, Same, MovedBooks, ReleasedBooks DEF RecoverWrite
  <1>10. ASSUME NEW error \in Faults, NEW actual \in Costs, Reconcile(c, actual, error)
         PROVE  Books /\ Charged
    <2>1. actual \in Nat
      BY MoneyAssumption
    <2>2. QED
      BY <1>1, <1>10, <2>1, Same, MovedBooks, ReconciledBooks DEF Reconcile, QuoteExceeded
  <1>11. ASSUME NEW error \in Faults, CleanupMark(c, error) PROVE Books /\ Charged
    BY <1>1, <1>11, Same, MovedBooks DEF CleanupMark
  <1>12. QED
    BY <1>3, <1>4, <1>5, <1>6, <1>7, <1>8, <1>9, <1>10, <1>11 DEF Complete

LEMMA InitBudget == Init => BudgetInv
  <1> SUFFICES ASSUME Init PROVE BudgetInv
    OBVIOUS
  <1>1. NoAccount \in Account /\ NoCharge \in Charge /\ Solvent(NoAccount)
    BY DEF NoAccount, Account, NoCharge, Charge, States, Solvent
  <1>2. TypeOK
    BY <1>1, MoneyAssumption DEF Init, TypeOK, Ordinals, PCs, Results
  <1>3. Unopened /\ WithinLimits
    BY <1>1 DEF Init, Unopened, WithinLimits
  <1>4. ChargedRuns
    BY DEF Init, ChargedRuns, NoCharge
  <1>5. QED
    BY <1>2, <1>3, <1>4 DEF BudgetInv

LEMMA NextBudget == BudgetInv /\ [Next]_vars => BudgetInv'
  <1> SUFFICES ASSUME BudgetInv, [Next]_vars PROVE BudgetInv'
    OBVIOUS
  <1>1. Books /\ Charged
    <2>1. ASSUME NEW c \in Calls, Complete(c) PROVE Books /\ Charged
      BY <2>1, CompleteBooks
    <2>2. ASSUME NEW c \in Calls, Cancel(c) PROVE Books /\ Charged
      BY <2>2, Same DEF Cancel
    <2>3. ASSUME NEW w \in Wrappers, Crash(w) PROVE Books /\ Charged
      BY <2>3, Same DEF Crash
    <2>4. ASSUME NEW id \in ChargeIds, RecoverStale(id) PROVE Books /\ Charged
      <3>1. {"dispatched"} \in SUBSET Active /\ "indeterminate" \in States
        BY DEF Active, States
      <3>2. QED
        BY <2>4, <3>1, ReleasedBooks, MovedBooks DEF RecoverStale
    <2>5. CASE UNCHANGED vars
      BY <2>5, Same DEF vars, Untouched
    <2>6. QED
      BY <2>1, <2>2, <2>3, <2>4, <2>5 DEF Next
  <1>2. QED
    BY <1>1, CallTypesStep, Together

(* The inductive invariant holds in every reachable state of the budget.    *)
THEOREM BudgetInvariant == Spec => []BudgetInv
  BY InitBudget, NextBudget, PTL DEF Spec

(* The counters of runs and projects and the table of charges keep their    *)
(* types: no counter becomes negative.                                      *)
THEOREM BudgetTypes == Spec => []TypeOK
  <1>1. BudgetInv => TypeOK
    BY DEF BudgetInv
  <1>2. QED
    BY <1>1, BudgetInvariant, PTL

(* reserve_call(), reconcile(), release() and recover_stale() keep spent    *)
(* and reserved money of every run and project within its limit.            *)
THEOREM NeverOverspent == Spec => []WithinLimits
  <1>1. BudgetInv => WithinLimits
    BY DEF BudgetInv
  <1>2. QED
    BY <1>1, BudgetInvariant, PTL
-----------------------------------------------------------------------------
(* Payment.  A charge has one life, whoever moves it: the call, another     *)
(* wrapper of its run, or recover_stale().                                  *)

Paid == {"dispatched", "reconciled", "indeterminate"}

StateMove(s, t) ==
    \/ t = s
    \/ s = "absent" /\ t = "reserved"
    \/ s = "reserved" /\ t \in {"dispatched", "released", "indeterminate"}
    \/ s = "dispatched" /\ t \in {"reconciled", "indeterminate"}

(* A call that has reserved and is not yet dispatched, and one that is. *)
Holding == {"release", "dispatch", "recover", "undo", "freeze"}
Calling == {"provider", "reconcile", "look", "mark", "verify"}

CallHolds(c) ==
    /\ pc[c] \in Holding => c \in won /\ c \notin invoked
    /\ pc[c] \in Calling => c \in invoked
    /\ c \in won => pc[c] \notin {"start", "reserve"} /\ State(c) # "absent"
    /\ c \in invoked => c \in won /\ State(c) \in Paid
    /\ result[c] # "none" => pc[c] = "done"
    /\ pc[c] = "done" /\ c \in won /\ result[c] # "state_error" => State(c) \notin Active
    /\ result[c] = "response" => State(c) = "reconciled" /\ c \in invoked

OneWinner == \A c, d \in won : ChargeId(c) = ChargeId(d) => c = d

PaidInv == (\A c \in Calls : CallHolds(c)) /\ OneWinner

LEMMA SetStateMoves ==
    ASSUME TypeOK, NEW id \in ChargeIds, NEW to, SetState(id, to),
           StateMove(charge[id].state, to)
    PROVE  /\ \A i \in ChargeIds : StateMove(charge[i].state, charge'[i].state)
           /\ charge'[id].state = to
  BY DEF TypeOK, SetState, StateMove

LEMMA MovedMoves ==
    ASSUME TypeOK, NEW id \in ChargeIds, NEW source, NEW to, Moved(id, source, to),
           \A s \in source : StateMove(s, to)
    PROVE  /\ \A i \in ChargeIds : StateMove(charge[i].state, charge'[i].state)
           /\ charge'[id].state = to
  BY SetStateMoves DEF Moved

LEMMA ReleasedMoves ==
    ASSUME TypeOK, NEW id \in ChargeIds, Released(id)
    PROVE  /\ \A i \in ChargeIds : StateMove(charge[i].state, charge'[i].state)
           /\ charge'[id].state = "released"
  BY SetStateMoves DEF Released, StateMove

LEMMA ReserveMoves ==
    ASSUME TypeOK, NEW id \in ChargeIds, NEW quote, Reserve(id, quote)
    PROVE  /\ \A i \in ChargeIds : StateMove(charge[i].state, charge'[i].state)
           /\ charge'[id].state = "reserved"
  BY DEF TypeOK, Reserve, StateMove

LEMMA ReconciledMoves ==
    ASSUME TypeOK, NEW id \in ChargeIds, NEW actual, Reconciled(id, actual)
    PROVE  /\ \A i \in ChargeIds : StateMove(charge[i].state, charge'[i].state)
           /\ charge'[id].state = "reconciled"
  BY DEF TypeOK, Reconciled, StateMove

LEMMA SameMoves ==
    ASSUME UNCHANGED charge
    PROVE  \A i \in ChargeIds : StateMove(charge[i].state, charge'[i].state)
  BY DEF StateMove

LEMMA LegalMoves ==
    /\ \A s \in {"dispatched"} : StateMove(s, "indeterminate")
    /\ \A s \in {"reserved"} : StateMove(s, "dispatched")
    /\ \A s \in Active : StateMove(s, "indeterminate")
  BY DEF StateMove, Active

LEMMA CompleteMoves ==
    ASSUME TypeOK, NEW c \in Calls, Complete(c)
    PROVE  \A i \in ChargeIds : StateMove(charge[i].state, charge'[i].state)
  <1> DEFINE Goal == \A i \in ChargeIds : StateMove(charge[i].state, charge'[i].state)
  <1>1. ChargeId(c) \in ChargeIds
    BY CallScope
  <1>2. ASSUME UNCHANGED charge PROVE Goal
    BY <1>2, SameMoves
  <1>3. CASE Unquotable(c) \/ ReserveRefused(c) \/ ProviderReturns(c) \/ ProviderFails(c)
             \/ Open(c) \/ OpenFails(c)
    BY <1>2, <1>3 DEF Unquotable, ReserveRefused, ProviderReturns, ProviderFails, Open,
       OpenFails, Untouched
  <1>4. CASE ReserveCall(c) \/ ReserveError(c)
    BY <1>1, <1>2, <1>4, ReserveMoves DEF ReserveCall, ReserveError, Untouched
  <1>5. ASSUME NEW error \in Faults, Release(c, error) PROVE Goal
    BY <1>1, <1>2, <1>5, ReleasedMoves DEF Release, Untouched
  <1>6. ASSUME NEW error \in Faults, MarkDispatched(c, error) PROVE Goal
    BY <1>1, <1>2, <1>6, MovedMoves, LegalMoves DEF MarkDispatched, Untouched
  <1>7. ASSUME NEW error \in Faults, RecoverLook(c, error) \/ CleanupLook(c, error) PROVE Goal
    BY <1>2, <1>7 DEF RecoverLook, CleanupLook, Untouched
  <1>8. ASSUME NEW error \in Faults, RecoverWrite(c, error) PROVE Goal
    BY <1>1, <1>2, <1>8, MovedMoves, ReleasedMoves, LegalMoves DEF RecoverWrite, Untouched
  <1>9. ASSUME NEW error \in Faults, NEW actual \in Costs, Reconcile(c, actual, error) PROVE Goal
    BY <1>1, <1>2, <1>9, MovedMoves, ReconciledMoves, LegalMoves
    DEF Reconcile, QuoteExceeded, Untouched
  <1>10. ASSUME NEW error \in Faults, CleanupMark(c, error) PROVE Goal
    BY <1>1, <1>2, <1>10, MovedMoves, LegalMoves DEF CleanupMark, Untouched
  <1>11. QED
    BY <1>3, <1>4, <1>5, <1>6, <1>7, <1>8, <1>9, <1>10 DEF Complete

LEMMA NextMoves ==
    ASSUME TypeOK, [Next]_vars
    PROVE  \A i \in ChargeIds : StateMove(charge[i].state, charge'[i].state)
  <1>1. ASSUME NEW id \in ChargeIds, RecoverStale(id)
        PROVE  \A i \in ChargeIds : StateMove(charge[i].state, charge'[i].state)
    BY <1>1, ReleasedMoves, MovedMoves, LegalMoves DEF RecoverStale
  <1>2. ASSUME NEW c \in Calls, Cancel(c) PROVE UNCHANGED charge
    BY <1>2 DEF Cancel, Untouched
  <1>3. ASSUME NEW w \in Wrappers, Crash(w) PROVE UNCHANGED charge
    BY <1>3 DEF Crash, Untouched
  <1>4. CASE UNCHANGED vars
    BY <1>4, SameMoves DEF vars
  <1>5. QED
    BY <1>1, <1>2, <1>3, <1>4, CompleteMoves, SameMoves DEF Next

-----------------------------------------------------------------------------
(* A call that a step does not move: it stays, or dies with its process. *)
Bystander(d) ==
    /\ pc'[d] = pc[d] \/ (pc'[d] = "dead" /\ pc[d] # "done")
    /\ result'[d] = result[d] /\ ordinal'[d] = ordinal[d]
    /\ d \in won' <=> d \in won
    /\ d \in invoked' <=> d \in invoked

LEMMA SameCharge ==
    ASSUME NEW d, ordinal'[d] = ordinal[d]
    PROVE  ChargeId(d)' = ChargeId(d) /\ State(d)' = charge'[ChargeId(d)].state
  BY DEF ChargeId, State, RunOfCall

LEMMA BystanderHolds ==
    ASSUME TypeOK, NEW d \in Calls, CallHolds(d), Bystander(d),
           \A i \in ChargeIds : StateMove(charge[i].state, charge'[i].state)
    PROVE  CallHolds(d)'
  <1>1. StateMove(State(d), State(d)')
    BY CallScope, SameCharge DEF State, Bystander
  <1>2. State(d) # "absent" => State(d)' # "absent"
    BY <1>1 DEF StateMove
  <1>3. State(d) \in Paid => State(d)' \in Paid
    BY <1>1 DEF StateMove, Paid
  <1>4. State(d) # "absent" /\ State(d) \notin Active => State(d)' = State(d)
    BY <1>1 DEF StateMove, Active
  <1>5. State(d) = "reconciled" => State(d)' = "reconciled"
    BY <1>1 DEF StateMove
  <1>6. pc'[d] = pc[d] \/ pc'[d] = "dead"
    BY DEF Bystander
  <1>7. QED
    BY <1>2, <1>3, <1>4, <1>5, <1>6 DEF CallHolds, Bystander, Holding, Calling

(* The steps of c leave the other calls alone. *)
LEMMA OthersStand ==
    ASSUME TypeOK, NEW c \in Calls, Complete(c) \/ Cancel(c), NEW d \in Calls, d # c
    PROVE  Bystander(d)
  <1>1. \/ \E p : Goto(c, p)
        \/ \E r : Return(c, r)
        \/ UNCHANGED <<pc, result>>
    <2> DEFINE Goal == \/ \E p : Goto(c, p)
                       \/ \E r : Return(c, r)
                       \/ UNCHANGED <<pc, result>>
    <2>1. ASSUME Cancel(c) \/ Unquotable(c) \/ Open(c) \/ OpenFails(c) PROVE Goal
      BY <2>1 DEF Cancel, Unquotable, Open, OpenFails, Raise
    <2>2. ASSUME ReserveCall(c) \/ ReserveRefused(c) \/ ReserveError(c)
                 \/ ProviderReturns(c) \/ ProviderFails(c)
          PROVE  Goal
      BY <2>2 DEF ReserveCall, ReserveRefused, ReserveError, ProviderReturns, ProviderFails, Raise
    <2>3. ASSUME NEW error \in Faults, Release(c, error) \/ MarkDispatched(c, error) PROVE Goal
      BY <2>3 DEF Release, MarkDispatched
    <2>4. ASSUME NEW error \in Faults, RecoverLook(c, error) \/ RecoverWrite(c, error)
          PROVE  Goal
      <3>1. error \in BOOLEAN
        BY MoneyAssumption
      <3>2. QED
        BY <2>4, <3>1 DEF RecoverLook, RecoverWrite, Raise, Active
    <2>5. ASSUME NEW error \in Faults, NEW actual \in Costs, Reconcile(c, actual, error)
          PROVE  Goal
      BY <2>5 DEF Reconcile
    <2>6. ASSUME NEW error \in Faults, CleanupLook(c, error) \/ CleanupMark(c, error) PROVE Goal
      <3>1. error \in BOOLEAN
        BY MoneyAssumption
      <3>2. QED
        BY <2>6, <3>1 DEF CleanupLook, CleanupMark, Raise
    <2>7. QED
      BY <2>1, <2>2, <2>3, <2>4, <2>5, <2>6 DEF Complete
  <1>2. pc'[d] = pc[d] /\ result'[d] = result[d]
    BY <1>1 DEF Goto, Return, TypeOK
  <1>3. won' \in {won, won \cup {c}} /\ invoked' \in {invoked, invoked \cup {c}}
    BY DEF Complete, Cancel, Unquotable, Open, OpenFails, ReserveCall, ReserveRefused,
       ReserveError, ProviderReturns, ProviderFails, Release, MarkDispatched, RecoverLook,
       RecoverWrite, Reconcile, CleanupLook, CleanupMark, history
  <1>4. ordinal'[d] = ordinal[d]
    <2>1. CASE Open(c)
      BY <2>1 DEF Open, TypeOK
    <2>2. CASE ~Open(c)
      BY <2>2 DEF Complete, Cancel, Unquotable, OpenFails, ReserveCall, ReserveRefused,
         ReserveError, ProviderReturns, ProviderFails, Release, MarkDispatched, RecoverLook,
         RecoverWrite, Reconcile, CleanupLook, CleanupMark, wrappers
    <2>3. QED
      BY <2>1, <2>2
  <1>5. QED
    BY <1>2, <1>3, <1>4 DEF Bystander

-----------------------------------------------------------------------------
(* The call that moves.  It has not reserved yet, *)
LEMMA EarlyHolds ==
    ASSUME TypeOK, NEW c \in Calls, CallHolds(c), pc[c] \in {"start", "reserve"},
           UNCHANGED history,
           \/ Goto(c, "reserve")
           \/ \E q \in Results \ {"none", "response"} : Return(c, q)
    PROVE  CallHolds(c)'
  <1>1. c \notin won /\ c \notin invoked /\ result[c] = "none"
    BY DEF CallHolds
  <1>2. c \notin won' /\ c \notin invoked'
    BY <1>1 DEF history
  <1>3. \/ pc'[c] = "reserve" /\ result'[c] = "none"
        \/ pc'[c] = "done" /\ result'[c] # "response"
    BY <1>1 DEF Goto, Return, TypeOK
  <1>4. QED
    BY <1>2, <1>3 DEF CallHolds, Holding, Calling

(* goes on with its reservation or with its provider call, *)
LEMMA GoOnHolds ==
    ASSUME TypeOK, NEW c \in Calls, CallHolds(c), NEW p, Goto(c, p),
           \/ pc[c] \in Holding /\ p \in Holding
           \/ pc[c] \in Calling /\ p \in Calling,
           UNCHANGED history, UNCHANGED ordinal, StateMove(State(c), State(c)')
    PROVE  CallHolds(c)'
  <1>1. pc[c] \notin {"done", "start", "reserve"} /\ p \notin {"done", "start", "reserve"}
    BY DEF Holding, Calling
  <1>2. pc'[c] = p /\ result'[c] = "none"
    BY <1>1 DEF Goto, TypeOK, CallHolds
  <1>3. (c \in won' <=> c \in won) /\ (c \in invoked' <=> c \in invoked)
    BY DEF history
  <1>4. State(c)' # "absent" /\ (State(c) \in Paid => State(c)' \in Paid)
    BY DEF StateMove, Paid, CallHolds
  <1>5. QED
    BY <1>1, <1>2, <1>3, <1>4 DEF CallHolds, Holding, Calling

(* or gives up with its charge settled, or says that it may not be. *)
LEMMA GiveUpHolds ==
    ASSUME TypeOK, NEW c \in Calls, CallHolds(c), pc[c] \in Holding \cup Calling,
           NEW q \in Results, Return(c, q), q # "response", UNCHANGED history,
           StateMove(State(c), State(c)'),
           q = "state_error" \/ State(c)' \notin Active
    PROVE  CallHolds(c)'
  <1>1. pc'[c] = "done" /\ result'[c] = q
    BY DEF Return, TypeOK
  <1>2. (c \in won' <=> c \in won) /\ (c \in invoked' <=> c \in invoked)
    BY DEF history
  <1>3. c \in won /\ State(c) # "absent"
    BY DEF CallHolds
  <1>4. State(c)' # "absent" /\ (State(c) \in Paid => State(c)' \in Paid)
    BY <1>3 DEF StateMove, Paid
  <1>5. QED
    BY <1>1, <1>2, <1>3, <1>4 DEF CallHolds, Holding, Calling

LEMMA StateStep ==
    ASSUME TypeOK, NEW c \in Calls, UNCHANGED ordinal,
           \A i \in ChargeIds : StateMove(charge[i].state, charge'[i].state)
    PROVE  /\ StateMove(State(c), State(c)')
           /\ ChargeId(c) \in ChargeIds /\ State(c)' = charge'[ChargeId(c)].state
  BY CallScope, SameCharge DEF State

LEMMA CompleteHolds ==
    ASSUME TypeOK, NEW c \in Calls, CallHolds(c), Complete(c)
    PROVE  CallHolds(c)'
  <1>1. \A i \in ChargeIds : StateMove(charge[i].state, charge'[i].state)
    BY CompleteMoves
  <1>3. CASE Unquotable(c) \/ Open(c) \/ OpenFails(c) \/ ReserveRefused(c) \/ ReserveError(c)
    <2>1. pc[c] \in {"start", "reserve"} /\ UNCHANGED history
      BY <1>3 DEF Unquotable, Open, OpenFails, ReserveRefused, ReserveError
    <2>2. \/ Goto(c, "reserve")
          \/ \E q \in Results \ {"none", "response"} : Return(c, q)
      BY <1>3 DEF Unquotable, Open, OpenFails, ReserveRefused, ReserveError, Raise, Results
    <2>3. QED
      BY <2>1, <2>2, EarlyHolds
  <1>4. CASE ReserveCall(c)
    <2>1. /\ pc[c] = "reserve" /\ UNCHANGED ordinal /\ c \in won' /\ invoked' = invoked
          /\ Reserve(ChargeId(c), Quote[c])
      BY <1>4 DEF ReserveCall, wrappers
    <2>2. pc'[c] \in {"release", "dispatch"} /\ result'[c] = result[c]
      BY <1>4 DEF ReserveCall, Goto, TypeOK
    <2>3. c \notin invoked' /\ result'[c] = "none"
      BY <2>1, <2>2 DEF CallHolds
    <2>4. ChargeId(c) \in ChargeIds /\ State(c)' = charge'[ChargeId(c)].state
      BY <1>1, <2>1, StateStep
    <2>5. State(c)' = "reserved"
      BY <2>1, <2>4, ReserveMoves
    <2>6. QED
      BY <2>1, <2>2, <2>3, <2>5 DEF CallHolds, Holding, Calling
  <1>5. CASE ProviderReturns(c) \/ ProviderFails(c)
    <2>1. UNCHANGED ordinal /\ UNCHANGED history /\ pc[c] = "provider"
      BY <1>5 DEF ProviderReturns, ProviderFails, wrappers
    <2>2. PICK p \in {"reconcile", "look"} : Goto(c, p)
      BY <1>5 DEF ProviderReturns, ProviderFails
    <2>3. pc[c] \in Calling /\ p \in Calling
      BY <2>1, <2>2 DEF Calling
    <2>4. QED
      BY <1>1, <2>1, <2>2, <2>3, StateStep, GoOnHolds
  <1>6. ASSUME NEW error \in Faults, Release(c, error) PROVE CallHolds(c)'
    <2>1. UNCHANGED ordinal /\ UNCHANGED history /\ pc[c] \in Holding \cup Calling
      BY <1>6 DEF Release, wrappers, Holding
    <2>2. PICK q \in {"state_error", "cancelled"} :
            Return(c, q) /\ (q = "state_error" \/ Released(ChargeId(c)))
      BY <1>6 DEF Release
    <2>3. /\ StateMove(State(c), State(c)')
          /\ ChargeId(c) \in ChargeIds /\ State(c)' = charge'[ChargeId(c)].state
      BY <1>1, <2>1, StateStep
    <2>4. q = "state_error" \/ State(c)' \notin Active
      BY <2>2, <2>3, ReleasedMoves DEF Active
    <2>5. q \in Results /\ q # "response"
      BY <2>2 DEF Results
    <2>6. QED
      BY <2>1, <2>2, <2>3, <2>4, <2>5, GiveUpHolds
  <1>7. ASSUME NEW error \in Faults, MarkDispatched(c, error) PROVE CallHolds(c)'
    <2>1. UNCHANGED ordinal /\ won' = won /\ pc[c] = "dispatch"
      BY <1>7 DEF MarkDispatched, wrappers
    <2>2. /\ StateMove(State(c), State(c)')
          /\ ChargeId(c) \in ChargeIds /\ State(c)' = charge'[ChargeId(c)].state
      BY <1>1, <2>1, StateStep
    <2>3. CASE Goto(c, "recover") /\ invoked' = invoked
      <3>1. pc[c] \in Holding /\ "recover" \in Holding
        BY <2>1 DEF Holding
      <3>2. UNCHANGED history
        BY <2>1, <2>3 DEF history
      <3>3. QED
        BY <2>1, <2>2, <2>3, <3>1, <3>2, GoOnHolds
    <2>4. CASE /\ Goto(c, "provider") /\ invoked' = invoked \cup {c}
               /\ Moved(ChargeId(c), {"reserved"}, "dispatched")
      <3>1. State(c)' = "dispatched"
        BY <2>2, <2>4, MovedMoves, LegalMoves
      <3>2. pc'[c] = "provider" /\ result'[c] = result[c] /\ c \in won /\ result[c] = "none"
        BY <2>1, <2>4 DEF Goto, TypeOK, CallHolds, Holding
      <3>3. QED
        BY <2>1, <2>4, <3>1, <3>2 DEF CallHolds, Holding, Calling, Paid
    <2>5. QED
      BY <1>7, <2>3, <2>4 DEF MarkDispatched
  <1>8. ASSUME NEW error \in Faults, RecoverLook(c, error) \/ RecoverWrite(c, error)
               \/ CleanupLook(c, error) \/ CleanupMark(c, error)
        PROVE  CallHolds(c)'
    <2>1. UNCHANGED ordinal /\ UNCHANGED history /\ error \in BOOLEAN
      BY <1>8, MoneyAssumption DEF RecoverLook, RecoverWrite, CleanupLook, CleanupMark, wrappers
    <2>2. /\ StateMove(State(c), State(c)')
          /\ ChargeId(c) \in ChargeIds /\ State(c)' = charge'[ChargeId(c)].state
      BY <1>1, <2>1, StateStep
    <2>3. ASSUME pc[c] \in Holding \cup Calling, Return(c, "state_error") PROVE CallHolds(c)'
      <3>1. "state_error" \in Results
        BY DEF Results
      <3>2. QED
        BY <2>1, <2>2, <2>3, <3>1, GiveUpHolds
    <2>4. ASSUME pc[c] \in Holding \cup Calling, Raise(c, "error"), State(c)' \notin Active
          PROVE  CallHolds(c)'
      <3>1. PICK q \in {"error", "cancelled"} : Return(c, q)
        BY <2>4 DEF Raise
      <3>2. q \in Results /\ q # "response"
        BY <3>1 DEF Results
      <3>3. QED
        BY <2>1, <2>2, <2>4, <3>1, <3>2, GiveUpHolds
    <2>5. CASE RecoverLook(c, error)
      <3>1. pc[c] = "recover" /\ pc[c] \in Holding /\ State(c)' = State(c)
        BY <2>2, <2>5 DEF RecoverLook, Holding, Untouched, State
      <3>2. \/ Return(c, "state_error") \/ Goto(c, "undo") \/ Goto(c, "freeze")
            \/ Raise(c, "error") /\ State(c) \notin Active
        BY <2>1, <2>5 DEF RecoverLook, Active
      <3>3. "undo" \in Holding /\ "freeze" \in Holding
        BY DEF Holding
      <3>4. Goto(c, "undo") \/ Goto(c, "freeze") => CallHolds(c)'
        BY <2>1, <2>2, <3>1, <3>3, GoOnHolds
      <3>5. QED
        BY <2>3, <2>4, <3>1, <3>2, <3>4
    <2>6. CASE RecoverWrite(c, error)
      <3>1. pc[c] \in Holding
        BY <2>6 DEF RecoverWrite, Holding
      <3>2. \/ Return(c, "state_error")
            \/ Raise(c, "error") /\ (\/ Released(ChargeId(c))
                                     \/ Moved(ChargeId(c), Active, "indeterminate"))
        BY <2>6 DEF RecoverWrite
      <3>3. Raise(c, "error") /\ ~Return(c, "state_error") => State(c)' \notin Active
        BY <2>2, <3>2, ReleasedMoves, MovedMoves, LegalMoves DEF Active
      <3>4. QED
        BY <2>3, <2>4, <3>1, <3>2, <3>3
    <2>7. CASE CleanupLook(c, error)
      <3>1. pc[c] \in Calling /\ State(c)' = State(c)
        BY <2>2, <2>7 DEF CleanupLook, Calling, Untouched, State
      <3>2. \/ Return(c, "state_error") \/ Goto(c, "mark")
            \/ Raise(c, "error") /\ State(c) \notin Active
        BY <2>1, <2>7 DEF CleanupLook
      <3>3. "mark" \in Calling
        BY DEF Calling
      <3>4. QED
        BY <2>1, <2>2, <2>3, <2>4, <3>1, <3>2, <3>3, GoOnHolds
    <2>8. CASE CleanupMark(c, error)
      <3>1. pc[c] \in Calling /\ "verify" \in Calling
        BY <2>8 DEF CleanupMark, Calling
      <3>2. \/ Return(c, "state_error") \/ Goto(c, "verify")
            \/ Raise(c, "error") /\ Moved(ChargeId(c), Active, "indeterminate")
        BY <2>8 DEF CleanupMark
      <3>3. Moved(ChargeId(c), Active, "indeterminate") => State(c)' \notin Active
        BY <2>2, MovedMoves, LegalMoves DEF Active
      <3>4. QED
        BY <2>1, <2>2, <2>3, <2>4, <3>1, <3>2, <3>3, GoOnHolds
    <2>9. QED
      BY <1>8, <2>5, <2>6, <2>7, <2>8
  <1>9. ASSUME NEW error \in Faults, NEW actual \in Costs, Reconcile(c, actual, error)
        PROVE  CallHolds(c)'
    <2>1. UNCHANGED ordinal /\ UNCHANGED history /\ pc[c] = "reconcile"
      BY <1>9 DEF Reconcile, wrappers
    <2>2. /\ StateMove(State(c), State(c)')
          /\ ChargeId(c) \in ChargeIds /\ State(c)' = charge'[ChargeId(c)].state
      BY <1>1, <2>1, StateStep
    <2>3. CASE Goto(c, "look")
      <3>1. pc[c] \in Calling /\ "look" \in Calling
        BY <2>1 DEF Calling
      <3>2. QED
        BY <2>1, <2>2, <2>3, <3>1, GoOnHolds
    <2>4. CASE Return(c, "response") /\ Reconciled(ChargeId(c), actual)
      <3>1. State(c)' = "reconciled"
        BY <2>2, <2>4, ReconciledMoves
      <3>2. pc'[c] = "done" /\ c \in won' /\ c \in invoked'
        BY <2>1, <2>4 DEF Return, TypeOK, CallHolds, Calling, history
      <3>3. QED
        BY <3>1, <3>2 DEF CallHolds, Holding, Calling, Paid, Active
    <2>5. QED
      BY <1>9, <2>3, <2>4 DEF Reconcile
  <1>10. QED
    BY <1>3, <1>4, <1>5, <1>6, <1>7, <1>8, <1>9 DEF Complete

(* A second winner of a charge would have found it reserved. *)
LEMMA WinnerStep ==
    ASSUME TypeOK, PaidInv, [Next]_vars,
           \A d \in Calls : d \in won => ordinal'[d] = ordinal[d]
    PROVE  OneWinner'
  <1>1. \A d \in won : ChargeId(d)' = ChargeId(d)
    BY SameCharge DEF TypeOK
  <1>2. CASE won' = won
    BY <1>1, <1>2 DEF PaidInv, OneWinner
  <1>3. ASSUME NEW c \in Calls, ReserveCall(c) PROVE OneWinner'
    <2>1. /\ won' = won \cup {c} /\ UNCHANGED ordinal
          /\ charge[ChargeId(c)].state = "absent"
      BY <1>3 DEF ReserveCall, Reserve, wrappers
    <2>2. ChargeId(c)' = ChargeId(c)
      BY <2>1, SameCharge
    <2>3. \A d \in won : ChargeId(d) # ChargeId(c)
      BY <2>1 DEF PaidInv, CallHolds, State, TypeOK
    <2>4. QED
      BY <1>1, <2>1, <2>2, <2>3 DEF PaidInv, OneWinner
  <1>4. ASSUME NEW c \in Calls, Complete(c), ~ReserveCall(c) PROVE won' = won
    BY <1>4 DEF Complete, Unquotable, Open, OpenFails, ReserveRefused, ReserveError,
       ProviderReturns, ProviderFails, Release, MarkDispatched, RecoverLook, RecoverWrite,
       Reconcile, CleanupLook, CleanupMark, history
  <1>5. ASSUME \/ \E c \in Calls : Cancel(c)
               \/ \E w \in Wrappers : Crash(w)
               \/ \E id \in ChargeIds : RecoverStale(id)
               \/ UNCHANGED vars
        PROVE  won' = won
    BY <1>5 DEF Cancel, Crash, RecoverStale, vars, history
  <1>6. QED
    BY <1>2, <1>3, <1>4, <1>5 DEF Next

LEMMA PaidStep == BudgetInv /\ PaidInv /\ [Next]_vars => PaidInv'
  <1> SUFFICES ASSUME BudgetInv, PaidInv, [Next]_vars PROVE PaidInv'
    OBVIOUS
  <1>1. TypeOK /\ \A i \in ChargeIds : StateMove(charge[i].state, charge'[i].state)
    BY NextMoves DEF BudgetInv
  <1>2. ASSUME NEW d \in Calls, Bystander(d) PROVE CallHolds(d)'
    BY <1>1, <1>2, BystanderHolds DEF PaidInv
  <1>3. ASSUME NEW c \in Calls, Complete(c) \/ Cancel(c), NEW d \in Calls
        PROVE  CallHolds(d)' /\ (d \in won => ordinal'[d] = ordinal[d])
    <2>1. CASE d # c
      BY <1>1, <1>2, <1>3, <2>1, OthersStand DEF Bystander
    <2>2. CASE d = c /\ Cancel(c)
      <3>1. Bystander(d)
        BY <2>2 DEF Cancel, Bystander, wrappers, history
      <3>2. QED
        BY <1>2, <3>1 DEF Bystander
    <2>3. CASE d = c /\ Complete(c)
      <3>1. CallHolds(d)'
        BY <1>1, <2>3, CompleteHolds DEF PaidInv
      <3>2. Open(c) => d \notin won
        BY <2>3 DEF Open, PaidInv, CallHolds
      <3>3. ~Open(c) => ordinal' = ordinal
        BY <2>3 DEF Complete, Unquotable, OpenFails, ReserveCall, ReserveRefused,
           ReserveError, ProviderReturns, ProviderFails, Release, MarkDispatched, RecoverLook,
           RecoverWrite, Reconcile, CleanupLook, CleanupMark, wrappers
      <3>4. QED
        BY <3>1, <3>2, <3>3
    <2>4. QED
      BY <1>3, <2>1, <2>2, <2>3
  <1>4. ASSUME \/ \E w \in Wrappers : Crash(w)
               \/ \E id \in ChargeIds : RecoverStale(id)
               \/ UNCHANGED vars,
               NEW d \in Calls
        PROVE  Bystander(d)
    BY <1>4 DEF Crash, RecoverStale, vars, wrappers, history, Bystander
  <1>5. \A d \in Calls : CallHolds(d)' /\ (d \in won => ordinal'[d] = ordinal[d])
    BY <1>2, <1>3, <1>4 DEF Next, Bystander
  <1>6. QED
    BY <1>1, <1>5, WinnerStep DEF PaidInv

LEMMA PaidInit == Init => PaidInv
  BY DEF Init, PaidInv, CallHolds, OneWinner, Holding, Calling

(* The inductive invariant of payment: where a call stands determines       *)
(* whether it owns its charge and whether its provider has been called.     *)
THEOREM PaidInvariant == Spec => [](BudgetInv /\ PaidInv)
  BY InitBudget, NextBudget, PaidInit, PaidStep, PTL DEF Spec

(* No provider is called twice on one charge, and none on a charge whose    *)
(* money was given back: not by a second wrapper that numbers its calls     *)
(* from 0 again, and not after recover_stale().                             *)
THEOREM InvocationsPaid == Spec => []EveryInvocationIsPaid
  <1>1. BudgetInv /\ PaidInv => EveryInvocationIsPaid
    <2> SUFFICES ASSUME BudgetInv, PaidInv PROVE EveryInvocationIsPaid
      OBVIOUS
    <2>1. \A c \in invoked : c \in Calls /\ c \in won /\ State(c) \in Paid
      BY DEF BudgetInv, TypeOK, PaidInv, CallHolds
    <2>2. QED
      BY <2>1 DEF EveryInvocationIsPaid, PaidInv, OneWinner, Paid
  <1>2. QED
    BY <1>1, PaidInvariant, PTL

(* A call that ends without a MonetaryBudgetStateError has settled the      *)
(* charge it won, and a response was reconciled, whatever cancellation,     *)
(* lost commit or concurrent recovery it met on the way.                    *)
THEOREM CallsSettled == Spec => []EndedCallsAreSettled
  <1>1. BudgetInv /\ PaidInv => EndedCallsAreSettled
    BY DEF PaidInv, CallHolds, EndedCallsAreSettled
  <1>2. QED
    BY <1>1, PaidInvariant, PTL

-----------------------------------------------------------------------------
(* Sums over finite sets.  MapThenSumSet adds the members up in the order   *)
(* in which CHOOSE picks them; IsSum is that recursion as an equation, for  *)
(* all subsets at once.  What holds of every sum is shown on a smallest     *)
(* counterexample.                                                          *)

Chosen(s) == CHOOSE x \in s : TRUE

IsSum(g, f, S) ==
    g = [s \in SUBSET S |-> IF s = {} THEN 0 ELSE f[Chosen(s)] + g[s \ {Chosen(s)}]]

Numeric(f, S) == \A x \in S : f[x] \in Int

Sum(f, S) == MapThenSumSet(LAMBDA x : f[x], S)

LEMMA SmallestSet ==
    ASSUME NEW S, IsFiniteSet(S), NEW B, B \subseteq SUBSET S, B # {}
    PROVE  \E U \in B : \A V \in B : V \subseteq U => V = U
  <1>1. IsWellFoundedOn(StrictSubsetOrdering(S), FiniteSubsetsOf(S))
    BY FS_StrictSubsetOrderingWellFounded
  <1>2. B \subseteq FiniteSubsetsOf(S)
    BY FS_FiniteSubsetsOfFinite
  <1>3. PICK U \in B : \A V \in B : ~(<<V, U>> \in StrictSubsetOrdering(S))
    BY <1>1, <1>2, WFMin
  <1>4. ASSUME NEW V \in B, V \subseteq U PROVE V = U
    BY <1>3, <1>4 DEF StrictSubsetOrdering
  <1> QED BY <1>4

LEMMA ChosenIn == \A s : s # {} => Chosen(s) \in s
  BY DEF Chosen

Splits(g, f, S) ==
    /\ g \in [SUBSET S -> Int]
    /\ g[{}] = 0
    /\ \A U \in SUBSET S : \A x \in U : g[U] = f[x] + g[U \ {x}]

LEMMA SumSplit ==
    ASSUME NEW S, IsFiniteSet(S), NEW f, Numeric(f, S), NEW g, IsSum(g, f, S)
    PROVE  Splits(g, f, S)
  <1>1. g = [s \in SUBSET S |-> g[s]]
    BY DEF IsSum
  <1>2. g[{}] = 0
    BY DEF IsSum
  <1>3. \A U \in SUBSET S : U # {} => g[U] = f[Chosen(U)] + g[U \ {Chosen(U)}]
    BY DEF IsSum
  <1>4. ASSUME \E U \in SUBSET S : g[U] \notin Int PROVE FALSE
    <2> DEFINE B == {U \in SUBSET S : g[U] \notin Int}
    <2>0. B \subseteq SUBSET S /\ B # {}
      BY <1>4
    <2>1. PICK U \in B : \A V \in B : V \subseteq U => V = U
      <3> HIDE DEF B
      <3> QED BY <2>0, SmallestSet
    <2>2. U \subseteq S /\ g[U] \notin Int /\ U # {}
      <3>1. U \subseteq S /\ g[U] \notin Int
        BY <2>1
      <3>2. g[{}] \in Int
        BY <1>2
      <3> QED BY <3>1, <3>2
    <2>3. Chosen(U) \in U
      BY <2>2, ChosenIn
    <2>4. g[U \ {Chosen(U)}] \in Int
      BY <2>1, <2>2, <2>3
    <2>5. f[Chosen(U)] \in Int
      BY <2>2, <2>3 DEF Numeric
    <2>6. g[U] = f[Chosen(U)] + g[U \ {Chosen(U)}]
      BY <1>3, <2>2
    <2>7. g[U] \in Int
      BY <2>4, <2>5, <2>6
    <2> QED BY <2>2, <2>7
  <1>5. \A U \in SUBSET S : g[U] \in Int
    BY <1>4
  <1>6. ASSUME \E U \in SUBSET S : \E x \in U : g[U] # f[x] + g[U \ {x}] PROVE FALSE
    <2> DEFINE B == {U \in SUBSET S : \E x \in U : g[U] # f[x] + g[U \ {x}]}
    <2>0. B \subseteq SUBSET S /\ B # {}
      BY <1>6
    <2>1. PICK U \in B : \A V \in B : V \subseteq U => V = U
      <3> HIDE DEF B
      <3> QED BY <2>0, SmallestSet
    <2>2. PICK x \in U : g[U] # f[x] + g[U \ {x}]
      BY <2>1
    <2> DEFINE y == Chosen(U)
    <2>3. U \subseteq S /\ y \in U
      BY <2>1, <2>2, ChosenIn
    <2>4. g[U] = f[y] + g[U \ {y}]
      BY <1>3, <2>2, <2>3
    <2> HIDE DEF y
    <2>5. x # y
      BY <2>2, <2>4
    <2>6. U \ {y} \notin B /\ U \ {x} \notin B
      <3>1. U \ {y} # U /\ U \ {x} # U
        BY <2>2, <2>3
      <3> HIDE DEF B
      <3> QED BY <2>1, <3>1
    <2>7. g[U \ {y}] = f[x] + g[(U \ {y}) \ {x}]
      BY <2>2, <2>3, <2>5, <2>6
    <2>8. g[U \ {x}] = f[y] + g[(U \ {x}) \ {y}]
      BY <2>2, <2>3, <2>5, <2>6
    <2>9. (U \ {y}) \ {x} = (U \ {x}) \ {y}
      OBVIOUS
    <2>10. f[x] \in Int /\ f[y] \in Int /\ g[(U \ {x}) \ {y}] \in Int
      BY <1>5, <2>2, <2>3 DEF Numeric
    <2>11. g[U] = f[y] + (f[x] + g[(U \ {x}) \ {y}])
      BY <2>4, <2>7, <2>9
    <2>12. f[y] + (f[x] + g[(U \ {x}) \ {y}]) = f[x] + (f[y] + g[(U \ {x}) \ {y}])
      BY <2>10
    <2> QED BY <2>2, <2>8, <2>11, <2>12
  <1> QED BY <1>1, <1>2, <1>5, <1>6 DEF Splits

LEMMA LeastNumber ==
    ASSUME NEW B, B \subseteq Nat, B # {}
    PROVE  \E m \in B : \A k \in B : m <= k
  <1>1. IsWellFoundedOn(OpToRel(<, Nat), Nat)
    BY NatLessThanWellFounded
  <1>2. PICK m \in B : \A k \in B : ~(<<k, m>> \in OpToRel(<, Nat))
    BY <1>1, WFMin
  <1>3. ASSUME NEW k \in B PROVE m <= k
    <2>1. k \in Nat /\ m \in Nat
      OBVIOUS
    <2>2. ~(k < m)
      BY <1>2, <2>1 DEF OpToRel
    <2> QED BY <2>1, <2>2
  <1> QED BY <1>3

SumStep(f, g, s) == IF s = {} THEN 0 ELSE f[Chosen(s)] + g[s \ {Chosen(s)}]

LEMMA SumExists ==
    ASSUME NEW S, IsFiniteSet(S), NEW f
    PROVE  \E g : IsSum(g, f, S)
  <1> DEFINE Small(n) == {s \in SUBSET S : Cardinality(s) <= n}
             Ok(g, n) == g = [s \in Small(n) |-> SumStep(f, g, s)]
             Bad == {n \in Nat : \A g : ~Ok(g, n)}
  <1>1. \A s \in SUBSET S : IsFiniteSet(s) /\ Cardinality(s) \in Nat
    BY FS_Subset, FS_CardinalityType
  <1>2. 0 \notin Bad
    <2>1. \A s \in Small(0) : s = {}
      BY <1>1, FS_EmptySet
    <2>2. Ok([s \in Small(0) |-> 0], 0)
      BY <2>1 DEF SumStep
    <2> QED BY <2>2
  <1>3. ASSUME NEW n \in Nat, NEW g, Ok(g, n) PROVE \E h : Ok(h, n + 1)
    <2> DEFINE h == [s \in Small(n + 1) |-> SumStep(f, g, s)]
    <2>1. \A s \in Small(n + 1) : s # {} => s \ {Chosen(s)} \in Small(n)
      <3> TAKE s \in Small(n + 1)
      <3> HAVE s # {}
      <3>1. Chosen(s) \in s /\ s \subseteq S /\ Cardinality(s) <= n + 1
        BY ChosenIn
      <3>2. IsFiniteSet(s) /\ Cardinality(s) \in Nat
        BY <1>1, <3>1
      <3>3. Cardinality(s \ {Chosen(s)}) = Cardinality(s) - 1
        BY <3>1, <3>2, FS_RemoveElement
      <3> QED BY <3>1, <3>2, <3>3
    <2>2. \A s \in Small(n) : s \in Small(n + 1)
      BY <1>1
    <2>3. \A s \in Small(n) : g[s] = SumStep(f, g, s)
      BY <1>3
    <2>4. \A s \in Small(n) : h[s] = g[s]
      <3> HIDE DEF Small
      <3> QED BY <2>2, <2>3
    <2>5. \A s \in Small(n + 1) : SumStep(f, h, s) = SumStep(f, g, s)
      <3> HIDE DEF Small, h
      <3> QED BY <2>1, <2>4 DEF SumStep
    <2>6. h = [s \in Small(n + 1) |-> SumStep(f, h, s)]
      <3> DEFINE k == [s \in Small(n + 1) |-> SumStep(f, h, s)]
      <3>1. \A s \in Small(n + 1) : h[s] = k[s]
        <4> HIDE DEF Small
        <4> QED BY <2>5
      <3> QED BY <3>1
    <2> HIDE DEF h
    <2> QED BY <2>6
  <1>4. Bad = {}
    <2> SUFFICES ASSUME Bad # {} PROVE FALSE
      OBVIOUS
    <2>1. PICK m \in Bad : \A k \in Bad : m <= k
      <3>1. Bad \subseteq Nat
        OBVIOUS
      <3> HIDE DEF Bad
      <3> QED BY <3>1, LeastNumber
    <2>2. m \in Nat /\ m # 0
      BY <1>2, <2>1
    <2>3. m - 1 \in Nat /\ m - 1 \notin Bad
      <3> HIDE DEF Bad
      <3> QED BY <2>1, <2>2
    <2>4. PICK g : Ok(g, m - 1)
      BY <2>3
    <2>5. \E h : Ok(h, (m - 1) + 1)
      <3> HIDE DEF Ok
      <3> QED BY <2>3, <2>4, <1>3
    <2>6. (m - 1) + 1 = m
      BY <2>2
    <2>7. \E h : Ok(h, m)
      BY <2>5, <2>6
    <2> QED BY <2>1, <2>7
  <1>5. Cardinality(S) \in Nat
    BY FS_CardinalityType
  <1>6. PICK g : Ok(g, Cardinality(S))
    BY <1>4, <1>5
  <1>7. Small(Cardinality(S)) = SUBSET S
    BY FS_Subset
  <1>8. g = [s \in SUBSET S |-> SumStep(f, g, s)]
    BY <1>6, <1>7
  <1> QED BY <1>8 DEF IsSum, SumStep

LEMMA SumUnfolds ==
    ASSUME NEW S, IsFiniteSet(S), NEW f, Numeric(f, S)
    PROVE  \E g : IsSum(g, f, S) /\ Sum(f, S) = g[S]
  <1>1. PICK g : IsSum(g, f, S)
    BY SumExists
  <1> QED BY <1>1 DEF IsSum, Sum, MapThenSumSet, MapThenFoldSet, Chosen

LEMMA SumsAgree ==
    ASSUME NEW S, IsFiniteSet(S), NEW T, IsFiniteSet(T), NEW f, NEW e, Numeric(f, S), Numeric(e, T),
           NEW g, IsSum(g, f, S), NEW h, IsSum(h, e, T),
           NEW U, U \subseteq S, U \subseteq T, \A x \in U : f[x] = e[x]
    PROVE  g[U] = h[U]
  <1> SUFFICES ASSUME g[U] # h[U] PROVE FALSE
    OBVIOUS
  <1> DEFINE B == {V \in SUBSET U : g[V] # h[V]}
  <1>1. IsFiniteSet(U)
    BY FS_Subset
  <1>0. B \subseteq SUBSET U /\ U \in B
    OBVIOUS
  <1>2. PICK V \in B : \A W \in B : W \subseteq V => W = V
    <2> HIDE DEF B
    <2> QED BY <1>0, <1>1, SmallestSet
  <1>3. /\ g[{}] = 0 /\ h[{}] = 0
        /\ \A x \in V : g[V] = f[x] + g[V \ {x}]
        /\ \A x \in V : h[V] = e[x] + h[V \ {x}]
    <2>1. V \in SUBSET S /\ V \in SUBSET T
      BY <1>2
    <2>2. g[{}] = 0 /\ \A W \in SUBSET S : \A x \in W : g[W] = f[x] + g[W \ {x}]
      <3>1. Splits(g, f, S)
        BY SumSplit
      <3> QED BY <3>1 DEF Splits
    <2>3. h[{}] = 0 /\ \A W \in SUBSET T : \A x \in W : h[W] = e[x] + h[W \ {x}]
      <3>1. Splits(h, e, T)
        BY SumSplit
      <3> QED BY <3>1 DEF Splits
    <2> QED BY <2>1, <2>2, <2>3
  <1>4. PICK x \in V : TRUE
    BY <1>2, <1>3
  <1>5. V \ {x} \notin B
    <2> HIDE DEF B
    <2> QED BY <1>2, <1>4
  <1>6. g[V \ {x}] = h[V \ {x}] /\ f[x] = e[x]
    BY <1>2, <1>4, <1>5
  <1> QED BY <1>2, <1>3, <1>4, <1>6

LEMMA SumType ==
    ASSUME NEW S, IsFiniteSet(S), NEW f, Numeric(f, S)
    PROVE  Sum(f, S) \in Int
  <1>1. PICK g : IsSum(g, f, S) /\ Sum(f, S) = g[S]
    BY SumUnfolds
  <1>2. g \in [SUBSET S -> Int]
    BY <1>1, SumSplit DEF Splits
  <1> QED BY <1>1, <1>2

LEMMA SumRemove ==
    ASSUME NEW S, IsFiniteSet(S), NEW f, Numeric(f, S), NEW x \in S
    PROVE  Sum(f, S) = f[x] + Sum(f, S \ {x})
  <1>1. IsFiniteSet(S \ {x}) /\ Numeric(f, S \ {x})
    BY FS_RemoveElement DEF Numeric
  <1>2. PICK g : IsSum(g, f, S) /\ Sum(f, S) = g[S]
    BY SumUnfolds
  <1>3. PICK h : IsSum(h, f, S \ {x}) /\ Sum(f, S \ {x}) = h[S \ {x}]
    BY <1>1, SumUnfolds
  <1>4. g[S] = f[x] + g[S \ {x}]
    <2>1. \A U \in SUBSET S : \A y \in U : g[U] = f[y] + g[U \ {y}]
      <3>1. Splits(g, f, S)
        BY <1>2, SumSplit
      <3> QED BY <3>1 DEF Splits
    <2> QED BY <2>1
  <1>5. g[S \ {x}] = h[S \ {x}]
    <2> DEFINE R == S \ {x}
    <2>1. R \subseteq S
      OBVIOUS
    <2> HIDE DEF R
    <2>2. g[R] = h[R]
      BY <1>1, <1>2, <1>3, <2>1, SumsAgree DEF R
    <2> QED BY <2>2 DEF R
  <1> QED BY <1>2, <1>3, <1>4, <1>5

LEMMA SumEmpty ==
    ASSUME NEW f PROVE Sum(f, {}) = 0
  <1>1. IsFiniteSet({}) /\ Numeric(f, {})
    BY FS_EmptySet DEF Numeric
  <1> QED BY <1>1, SumUnfolds, SumSplit DEF Splits

LEMMA SumSame ==
    ASSUME NEW S, IsFiniteSet(S), NEW f, NEW e, Numeric(f, S), \A x \in S : e[x] = f[x]
    PROVE  Sum(e, S) = Sum(f, S)
  <1>1. Numeric(e, S)
    BY DEF Numeric
  <1>2. PICK g : IsSum(g, f, S) /\ Sum(f, S) = g[S]
    BY SumUnfolds
  <1>3. PICK h : IsSum(h, e, S) /\ Sum(e, S) = h[S]
    BY <1>1, SumUnfolds
  <1> QED BY <1>1, <1>2, <1>3, SumsAgree

LEMMA SumChange ==
    ASSUME NEW S, IsFiniteSet(S), NEW f, NEW e, Numeric(f, S), Numeric(e, S), NEW x \in S,
           \A y \in S \ {x} : e[y] = f[y]
    PROVE  Sum(e, S) = Sum(f, S) + (e[x] - f[x])
  <1>1. IsFiniteSet(S \ {x}) /\ Numeric(f, S \ {x})
    BY FS_RemoveElement DEF Numeric
  <1>2. Sum(e, S \ {x}) = Sum(f, S \ {x})
    BY <1>1, SumSame
  <1>3. Sum(f, S \ {x}) \in Int /\ f[x] \in Int /\ e[x] \in Int
    BY <1>1, SumType DEF Numeric
  <1>4. Sum(f, S) = f[x] + Sum(f, S \ {x}) /\ Sum(e, S) = e[x] + Sum(e, S \ {x})
    BY SumRemove
  <1> QED BY <1>2, <1>3, <1>4

LEMMA SumZero ==
    ASSUME NEW S, IsFiniteSet(S), NEW f, \A x \in S : f[x] = 0
    PROVE  Sum(f, S) = 0
  <1> SUFFICES ASSUME Sum(f, S) # 0 PROVE FALSE
    OBVIOUS
  <1> DEFINE B == {V \in SUBSET S : Sum(f, V) # 0}
  <1>0. B \subseteq SUBSET S /\ S \in B
    OBVIOUS
  <1>1. PICK V \in B : \A W \in B : W \subseteq V => W = V
    <2> HIDE DEF B
    <2> QED BY <1>0, SmallestSet
  <1>2. IsFiniteSet(V) /\ Numeric(f, V) /\ V # {} /\ V \subseteq S
    <2>1. V \subseteq S /\ Sum(f, V) # 0
      BY <1>1
    <2>2. V # {}
      BY <2>1, SumEmpty
    <2> QED BY <2>1, <2>2, FS_Subset DEF Numeric
  <1>3. PICK x \in V : TRUE
    BY <1>2
  <1>4. Sum(f, V) = f[x] + Sum(f, V \ {x})
    BY <1>2, <1>3, SumRemove
  <1>5. V \ {x} \notin B
    <2> HIDE DEF B
    <2> QED BY <1>1, <1>3
  <1>6. Sum(f, V \ {x}) = 0 /\ f[x] = 0
    BY <1>2, <1>5
  <1> QED BY <1>1, <1>4, <1>6

LEMMA SumAdd ==
    ASSUME NEW S, IsFiniteSet(S), NEW f, NEW e, NEW h, Numeric(f, S), Numeric(e, S),
           \A x \in S : h[x] = f[x] + e[x]
    PROVE  Sum(h, S) = Sum(f, S) + Sum(e, S)
  <1> SUFFICES ASSUME Sum(h, S) # Sum(f, S) + Sum(e, S) PROVE FALSE
    OBVIOUS
  <1> DEFINE B == {V \in SUBSET S : Sum(h, V) # Sum(f, V) + Sum(e, V)}
  <1>0. B \subseteq SUBSET S /\ S \in B
    OBVIOUS
  <1>1. PICK V \in B : \A W \in B : W \subseteq V => W = V
    <2> HIDE DEF B
    <2> QED BY <1>0, SmallestSet
  <1>2. IsFiniteSet(V) /\ Numeric(f, V) /\ Numeric(e, V) /\ Numeric(h, V) /\ V \subseteq S
    BY <1>1, FS_Subset DEF Numeric
  <1>3. V # {}
    <2>1. Sum(h, V) # Sum(f, V) + Sum(e, V)
      BY <1>1
    <2>2. Sum(h, {}) = 0 /\ Sum(f, {}) = 0 /\ Sum(e, {}) = 0
      BY SumEmpty
    <2> QED BY <2>1, <2>2
  <1>4. PICK x \in V : TRUE
    BY <1>3
  <1>5. /\ Sum(f, V) = f[x] + Sum(f, V \ {x})
        /\ Sum(e, V) = e[x] + Sum(e, V \ {x})
        /\ Sum(h, V) = h[x] + Sum(h, V \ {x})
    BY <1>2, <1>4, SumRemove
  <1>6. V \ {x} \notin B
    <2> HIDE DEF B
    <2> QED BY <1>1, <1>4
  <1>7. Sum(h, V \ {x}) = Sum(f, V \ {x}) + Sum(e, V \ {x}) /\ h[x] = f[x] + e[x]
    BY <1>2, <1>6
  <1>8. IsFiniteSet(V \ {x}) /\ Numeric(f, V \ {x}) /\ Numeric(e, V \ {x})
    BY <1>2, FS_RemoveElement DEF Numeric
  <1>9. Sum(f, V \ {x}) \in Int /\ Sum(e, V \ {x}) \in Int
    BY <1>8, SumType
  <1>10. f[x] \in Int /\ e[x] \in Int
    BY <1>2, <1>4 DEF Numeric
  <1> QED BY <1>1, <1>5, <1>7, <1>9, <1>10

-----------------------------------------------------------------------------
(* The bookkeeping step behind AccountsBalance. *)

Moves(a, b, hold, spend) == b.reserved = a.reserved + hold /\ b.spent = a.spent + spend

MoneyStill ==
    /\ charge' = charge
    /\ \A r \in Runs : Moves(run[r], run'[r], 0, 0)
    /\ \A p \in Projects : Moves(project[p], project'[p], 0, 0)

MoneyMoves(id, hold, spend) ==
    /\ \A j \in ChargeIds : j # id => charge'[j] = charge[j]
    /\ Reserved(id)' = Reserved(id) + hold /\ Spent(id)' = Spent(id) + spend
    /\ \A r \in Runs : IF r = id.run THEN Moves(run[r], run'[r], hold, spend)
                       ELSE run'[r] = run[r]
    /\ \A p \in Projects : IF p = ProjectOf[id.run] THEN Moves(project[p], project'[p], hold, spend)
                           ELSE project'[p] = project[p]

(* A transaction writes one charge at most, and adds to the counters of its *)
(* run and of its project, and to no others, exactly what the charge then   *)
(* ties up or has spent more than before.                                   *)
CountersFollowCharges ==
    [][MoneyStill \/ \E id \in ChargeIds, hold, spend \in Int : MoneyMoves(id, hold, spend)]_vars

LEMMA PostMoves ==
    ASSUME TypeOK, NEW id \in ChargeIds, NEW hold \in Int, NEW spend \in Int,
           Post(id.run, hold, spend), NEW x, charge' = [charge EXCEPT ![id] = x],
           Reserved(id)' = Reserved(id) + hold, Spent(id)' = Spent(id) + spend
    PROVE  MoneyMoves(id, hold, spend)
  <1>1. id.run \in Runs /\ ProjectOf[id.run] \in Projects
    BY ScopeAssumption DEF ChargeIds
  <1>2. \A a : Moves(a, Posted(a, hold, spend), hold, spend)
    BY DEF Moves, Posted
  <1>3. PICK a, b : a = Posted(project[ProjectOf[id.run]], hold, spend)
                    /\ b = Posted(run[id.run], hold, spend)
    OBVIOUS
  <1>4. /\ project' = [project EXCEPT ![ProjectOf[id.run]] = a]
        /\ run' = [run EXCEPT ![id.run] = b]
    BY <1>3 DEF Post
  <1>5. /\ Moves(project[ProjectOf[id.run]], a, hold, spend)
        /\ Moves(run[id.run], b, hold, spend)
    BY <1>2, <1>3
  <1>6. QED
    BY <1>1, <1>4, <1>5 DEF MoneyMoves, TypeOK

LEMMA ChargeMoney ==
    ASSUME TypeOK, NEW id \in ChargeIds, NEW x \in Charge, charge' = [charge EXCEPT ![id] = x]
    PROVE  /\ Reserved(id)' = IF x.state \in Active \cup {"indeterminate"} THEN x.quote ELSE 0
           /\ Spent(id)' = IF x.state = "reconciled" THEN x.actual ELSE 0
           /\ charge[id].quote \in Nat
  <1>1. charge'[id] = x /\ charge[id] \in Charge
    BY DEF TypeOK
  <1>2. QED
    BY <1>1 DEF Reserved, Spent, Charge

LEMMA ReserveMoney ==
    ASSUME TypeOK, NEW id \in ChargeIds, NEW quote \in Nat, Reserve(id, quote)
    PROVE  MoneyMoves(id, quote, 0)
  <1>1. PICK x \in Charge : x = [state |-> "reserved", quote |-> quote, actual |-> 0]
    BY DEF Charge, States, Active
  <1>2. charge' = [charge EXCEPT ![id] = x] /\ charge[id].state = "absent"
    BY <1>1 DEF Reserve
  <1>3. Reserved(id)' = quote /\ Spent(id)' = 0
    BY <1>1, <1>2, ChargeMoney DEF Active
  <1>4. Reserved(id) = 0 /\ Spent(id) = 0
    BY <1>2 DEF Reserved, Spent, Active
  <1>5. Reserved(id)' = Reserved(id) + quote /\ Spent(id)' = Spent(id) + 0
    BY <1>3, <1>4
  <1>6. Post(id.run, quote, 0) /\ quote \in Int /\ 0 \in Int
    BY DEF Reserve
  <1>7. QED
    BY <1>2, <1>5, <1>6, PostMoves

(* The quote of an active charge leaves, and what it cost is spent. *)
LEMMA SettleMoney ==
    ASSUME TypeOK, NEW id \in ChargeIds, NEW x \in Charge, charge' = [charge EXCEPT ![id] = x],
           charge[id].state \in Active, NEW cost \in Nat,
           \/ x.state = "released" /\ cost = 0
           \/ x.state = "reconciled" /\ x.actual = cost,
           Post(id.run, -charge[id].quote, cost)
    PROVE  \E hold, spend \in Int : MoneyMoves(id, hold, spend)
  <1>1. PICK quote \in Nat : quote = charge[id].quote
    BY ChargeMoney
  <1>2. PICK hold \in Int : hold = -quote
    BY <1>1
  <1>3. Reserved(id) = quote /\ Spent(id) = 0
    BY <1>1 DEF Reserved, Spent, Active
  <1>4. Reserved(id)' = 0 /\ Spent(id)' = cost
    BY ChargeMoney DEF Active
  <1>5. Reserved(id)' = Reserved(id) + hold /\ Spent(id)' = Spent(id) + cost
    BY <1>2, <1>3, <1>4
  <1>6. Post(id.run, hold, cost) /\ cost \in Int
    BY <1>1, <1>2
  <1>7. MoneyMoves(id, hold, cost)
    BY <1>5, <1>6, PostMoves
  <1>8. QED
    BY <1>6, <1>7

LEMMA ReleasedMoney ==
    ASSUME TypeOK, NEW id \in ChargeIds, Released(id)
    PROVE  \E hold, spend \in Int : MoneyMoves(id, hold, spend)
  <1>1. charge[id] \in Charge
    BY DEF TypeOK
  <1>2. PICK x \in Charge : x = [state |-> "released", quote |-> charge[id].quote,
                                 actual |-> charge[id].actual]
    BY <1>1 DEF Charge, States
  <1>3. charge' = [charge EXCEPT ![id] = x] /\ charge[id].state \in Active
    BY <1>2 DEF Released, SetState, Active
  <1>4. x.state = "released" /\ Post(id.run, -charge[id].quote, 0) /\ 0 \in Nat
    BY <1>2 DEF Released
  <1>5. QED
    BY <1>3, <1>4, SettleMoney

LEMMA ReconciledMoney ==
    ASSUME TypeOK, NEW id \in ChargeIds, NEW actual \in Nat, Reconciled(id, actual)
    PROVE  \E hold, spend \in Int : MoneyMoves(id, hold, spend)
  <1>1. charge[id] \in Charge
    BY DEF TypeOK
  <1>2. PICK x \in Charge : x = [state |-> "reconciled", quote |-> charge[id].quote,
                                 actual |-> actual]
    BY <1>1 DEF Charge, States
  <1>3. charge' = [charge EXCEPT ![id] = x] /\ charge[id].state \in Active
    BY <1>2 DEF Reconciled, Active
  <1>4. /\ x.state = "reconciled" /\ x.actual = actual
        /\ Post(id.run, -charge[id].quote, actual)
    BY <1>2 DEF Reconciled
  <1>5. QED
    BY <1>3, <1>4, SettleMoney

(* A transition that keeps the quote set aside moves no money. *)
LEMMA MovedMoney ==
    ASSUME TypeOK, NEW id \in ChargeIds, NEW source \in SUBSET Active,
           NEW to \in {"dispatched", "indeterminate"}, Moved(id, source, to)
    PROVE  MoneyMoves(id, 0, 0)
  <1>1. charge[id] \in Charge /\ charge[id].state \in Active
    BY DEF TypeOK, Moved
  <1>2. PICK x \in Charge : x = [state |-> to, quote |-> charge[id].quote,
                                 actual |-> charge[id].actual]
    BY <1>1 DEF Charge, States, Active
  <1>3. charge' = [charge EXCEPT ![id] = x]
    BY <1>2 DEF Moved, SetState
  <1>4. Reserved(id) = charge[id].quote /\ Spent(id) = 0
    BY <1>1 DEF Reserved, Spent, Active
  <1>5. Reserved(id)' = charge[id].quote /\ Spent(id)' = 0 /\ charge[id].quote \in Nat
    BY <1>2, <1>3, ChargeMoney DEF Active
  <1>6. run' = run /\ project' = project
    BY DEF Moved, accounts
  <1>7. \A a \in Account : Moves(a, a, 0, 0)
    BY DEF Moves, Account
  <1>8. QED
    BY <1>3, <1>4, <1>5, <1>6, <1>7 DEF MoneyMoves, TypeOK

LEMMA StillMoney ==
    ASSUME TypeOK, UNCHANGED accounts, UNCHANGED charge
    PROVE  MoneyStill
  <1>1. \A a \in Account : Moves(a, a, 0, 0)
    BY DEF Moves, Account
  <1>2. QED
    BY <1>1 DEF MoneyStill, TypeOK, accounts

LEMMA OpenMoney ==
    ASSUME BudgetInv, NEW w \in Wrappers, OpenRun(w), UNCHANGED charge
    PROVE  MoneyStill
  <1> DEFINE r == RunOf[w]
             p == ProjectOf[r]
  <1>1. TypeOK /\ r \in Runs /\ p \in Projects
    BY ScopeAssumption DEF BudgetInv
  <1>2. \A a \in Account : Moves(a, a, 0, 0)
    BY DEF Moves, Account
  <1>3. PICK a : a = [limit |-> ProjectLimit[w], spent |-> 0, reserved |-> 0]
    OBVIOUS
  <1>4. PICK b : b = [limit |-> RunLimit[w], spent |-> run[r].spent, reserved |-> run[r].reserved]
    OBVIOUS
  <1>5. p \notin openProjects => Moves(project[p], a, 0, 0)
    BY <1>1, <1>3 DEF Moves, BudgetInv, Unopened, NoAccount
  <1>6. Moves(run[r], b, 0, 0)
    BY <1>1, <1>4 DEF Moves, TypeOK, Account
  <1>7. project' = project \/ (p \notin openProjects /\ project' = [project EXCEPT ![p] = a])
    BY <1>3 DEF OpenRun
  <1>8. run' = run \/ run' = [run EXCEPT ![r] = b]
    BY <1>4 DEF OpenRun
  <1> HIDE DEF r, p
  <1>9. \A q \in Projects : Moves(project[q], project'[q], 0, 0)
    BY <1>1, <1>2, <1>5, <1>7 DEF TypeOK
  <1>10. \A s \in Runs : Moves(run[s], run'[s], 0, 0)
    BY <1>1, <1>2, <1>6, <1>8 DEF TypeOK
  <1>11. QED
    BY <1>9, <1>10 DEF MoneyStill

LEMMA CompleteMoney ==
    ASSUME BudgetInv, NEW c \in Calls, Complete(c)
    PROVE  MoneyStill \/ \E id \in ChargeIds, hold, spend \in Int : MoneyMoves(id, hold, spend)
  <1> DEFINE Goal == MoneyStill \/ \E id \in ChargeIds, hold, spend \in Int :
                                       MoneyMoves(id, hold, spend)
  <1>1. /\ ChargeId(c) \in ChargeIds /\ WrapperOf[c] \in Wrappers /\ Quote[c] \in Nat
        /\ TypeOK /\ Active \in SUBSET Active /\ {"reserved"} \in SUBSET Active
        /\ {"dispatched"} \in SUBSET Active /\ 0 \in Int /\ Quote[c] \in Int
    BY CallScope, MoneyAssumption DEF BudgetInv, Active
  <1>2. ASSUME Untouched PROVE Goal
    BY <1>1, <1>2, StillMoney DEF Untouched
  <1>3. ASSUME Reserve(ChargeId(c), Quote[c]) PROVE Goal
    BY <1>1, <1>3, ReserveMoney
  <1>4. ASSUME Released(ChargeId(c)) PROVE Goal
    BY <1>1, <1>4, ReleasedMoney
  <1>5. ASSUME NEW source \in SUBSET Active, NEW to \in {"dispatched", "indeterminate"},
               Moved(ChargeId(c), source, to)
        PROVE  Goal
    BY <1>1, <1>5, MovedMoney
  <1>6. CASE Unquotable(c) \/ ReserveRefused(c) \/ ProviderReturns(c) \/ ProviderFails(c)
    BY <1>2, <1>6 DEF Unquotable, ReserveRefused, ProviderReturns, ProviderFails
  <1>7. CASE Open(c) \/ OpenFails(c)
    <2>1. (UNCHANGED accounts \/ OpenRun(WrapperOf[c])) /\ UNCHANGED charge
      BY <1>7 DEF Open, OpenFails
    <2>2. QED
      BY <1>1, <2>1, OpenMoney, StillMoney
  <1>8. CASE ReserveCall(c) \/ ReserveError(c)
    BY <1>2, <1>3, <1>8 DEF ReserveCall, ReserveError
  <1>9. ASSUME NEW error \in Faults, Release(c, error) PROVE Goal
    BY <1>2, <1>4, <1>9 DEF Release
  <1>10. ASSUME NEW error \in Faults, MarkDispatched(c, error) PROVE Goal
    BY <1>1, <1>2, <1>5, <1>10 DEF MarkDispatched
  <1>11. ASSUME NEW error \in Faults, RecoverLook(c, error) \/ CleanupLook(c, error) PROVE Goal
    BY <1>2, <1>11 DEF RecoverLook, CleanupLook
  <1>12. ASSUME NEW error \in Faults, RecoverWrite(c, error) PROVE Goal
    BY <1>1, <1>2, <1>4, <1>5, <1>12 DEF RecoverWrite
  <1>13. ASSUME NEW error \in Faults, NEW actual \in Costs, Reconcile(c, actual, error) PROVE Goal
    <2>1. actual \in Nat
      BY MoneyAssumption
    <2>2. Reconciled(ChargeId(c), actual) => Goal
      BY <1>1, <2>1, ReconciledMoney
    <2>3. QED
      BY <1>1, <1>2, <1>5, <1>13, <2>2 DEF Reconcile, QuoteExceeded
  <1>14. ASSUME NEW error \in Faults, CleanupMark(c, error) PROVE Goal
    BY <1>1, <1>2, <1>5, <1>14 DEF CleanupMark
  <1>15. QED
    BY <1>6, <1>7, <1>8, <1>9, <1>10, <1>11, <1>12, <1>13, <1>14 DEF Complete

LEMMA MoneyStep ==
    ASSUME BudgetInv, Next
    PROVE  MoneyStill \/ \E id \in ChargeIds, hold, spend \in Int : MoneyMoves(id, hold, spend)
  <1>1. TypeOK
    BY DEF BudgetInv
  <1>2. ASSUME NEW c \in Calls, Cancel(c) PROVE MoneyStill
    BY <1>1, <1>2, StillMoney DEF Cancel, Untouched
  <1>3. ASSUME NEW w \in Wrappers, Crash(w) PROVE MoneyStill
    BY <1>1, <1>3, StillMoney DEF Crash, Untouched
  <1>4. ASSUME NEW id \in ChargeIds, RecoverStale(id)
        PROVE  \E hold, spend \in Int : MoneyMoves(id, hold, spend)
    <2>1. {"dispatched"} \in SUBSET Active /\ 0 \in Int
      BY DEF Active
    <2>2. QED
      BY <1>1, <1>4, <2>1, ReleasedMoney, MovedMoney DEF RecoverStale
  <1>5. QED
    BY <1>2, <1>3, <1>4, CompleteMoney DEF Next

(* Every step keeps the books: the sums that AccountsBalance compares move  *)
(* together, charge by charge.                                              *)
THEOREM BooksKept == Spec => CountersFollowCharges
  <1>1. BudgetInv /\ [Next]_vars
          => [MoneyStill \/ \E id \in ChargeIds, hold, spend \in Int :
                                MoneyMoves(id, hold, spend)]_vars
    BY MoneyStep
  <1>2. QED
    BY <1>1, BudgetInvariant, PTL DEF Spec, CountersFollowCharges

-----------------------------------------------------------------------------
(* The money of each charge, as functions: what AccountsBalance adds up *)
HeldBy == [id \in ChargeIds |-> Reserved(id)]
SpentBy == [id \in ChargeIds |-> Spent(id)]

LEMMA ChargeMoneyType ==
    ASSUME TypeOK, NEW id \in ChargeIds
    PROVE  Reserved(id) \in Nat /\ Spent(id) \in Nat
  <1>1. charge[id] \in Charge
    BY DEF TypeOK
  <1>2. QED
    BY <1>1 DEF Charge, Reserved, Spent

LEMMA ChargeMoneyTypeNext ==
    ASSUME TypeOK', NEW id \in ChargeIds
    PROVE  Reserved(id)' \in Nat /\ Spent(id)' \in Nat
  <1>1. charge'[id] \in Charge
    BY DEF TypeOK
  <1>2. QED
    BY <1>1 DEF Charge, Reserved, Spent

LEMMA NumericMoney ==
    ASSUME TypeOK, NEW S \in SUBSET ChargeIds
    PROVE  Numeric(HeldBy, S) /\ Numeric(SpentBy, S)
  BY ChargeMoneyType DEF Numeric, HeldBy, SpentBy

LEMMA NumericMoneyNext ==
    ASSUME TypeOK', NEW S \in SUBSET ChargeIds
    PROVE  Numeric(HeldBy', S) /\ Numeric(SpentBy', S)
  BY ChargeMoneyTypeNext DEF Numeric, HeldBy, SpentBy

LEMMA FiniteChargeIds == IsFiniteSet(ChargeIds)
  <1>1. IsFiniteSet(Runs \X Ordinals)
    <2>1. IsFiniteSet(Ordinals)
      BY MoneyAssumption, FS_Interval DEF Ordinals
    <2>2. QED
      BY <2>1, ScopeAssumption, FS_Product
  <1> DEFINE f == [q \in Runs \X Ordinals |-> [run |-> q[1], ordinal |-> q[2]]]
  <1>2. f \in Surjection(Runs \X Ordinals, ChargeIds)
    <2>1. f \in [Runs \X Ordinals -> ChargeIds]
      BY DEF ChargeIds
    <2>2. \A id \in ChargeIds : \E q \in Runs \X Ordinals : f[q] = id
      <3> TAKE id \in ChargeIds
      <3>1. <<id.run, id.ordinal>> \in Runs \X Ordinals
        BY DEF ChargeIds
      <3>2. f[<<id.run, id.ordinal>>] = [run |-> id.run, ordinal |-> id.ordinal]
        BY <3>1
      <3>3. id = [run |-> id.run, ordinal |-> id.ordinal]
        BY DEF ChargeIds
      <3>4. QED
        BY <3>1, <3>2, <3>3
    <2>3. QED
      BY <2>1, <2>2 DEF Surjection
  <1>3. QED
    BY <1>1, <1>2, FS_Surjection

(* The sums of AccountsBalance, before and after a step *)
LEMMA TotalsNow ==
    ASSUME TypeOK, NEW S \in SUBSET ChargeIds
    PROVE  /\ MapThenSumSet(Reserved, S) = Sum(HeldBy, S)
           /\ MapThenSumSet(Spent, S) = Sum(SpentBy, S)
  <1>1. IsFiniteSet(S) /\ Numeric(HeldBy, S) /\ Numeric(SpentBy, S)
    BY FiniteChargeIds, FS_Subset, NumericMoney
  <1>2. PICK g : IsSum(g, HeldBy, S) /\ Sum(HeldBy, S) = g[S]
    BY <1>1, SumUnfolds
  <1>3. PICK h : IsSum(h, SpentBy, S) /\ Sum(SpentBy, S) = h[S]
    BY <1>1, SumUnfolds
  <1>4. \A s \in SUBSET S : s # {} => /\ HeldBy[Chosen(s)] = Reserved(Chosen(s))
                                      /\ SpentBy[Chosen(s)] = Spent(Chosen(s))
    BY ChosenIn DEF HeldBy, SpentBy
  <1>5. \E k : IsSum(k, HeldBy, S) /\ MapThenSumSet(Reserved, S) = k[S]
    <2>1. g = [s \in SUBSET S |-> IF s = {} THEN 0 ELSE Reserved(Chosen(s)) + g[s \ {Chosen(s)}]]
      BY <1>2, <1>4 DEF IsSum
    <2>2. PICK k : /\ k = [s \in SUBSET S |-> IF s = {} THEN 0
                                              ELSE Reserved(Chosen(s)) + k[s \ {Chosen(s)}]]
                   /\ MapThenSumSet(Reserved, S) = k[S]
      BY <2>1 DEF MapThenSumSet, MapThenFoldSet, Chosen
    <2>3. IsSum(k, HeldBy, S)
      BY <1>4, <2>2 DEF IsSum
    <2>4. QED
      BY <2>2, <2>3
  <1>6. \E k : IsSum(k, SpentBy, S) /\ MapThenSumSet(Spent, S) = k[S]
    <2>1. h = [s \in SUBSET S |-> IF s = {} THEN 0 ELSE Spent(Chosen(s)) + h[s \ {Chosen(s)}]]
      BY <1>3, <1>4 DEF IsSum
    <2>2. PICK k : /\ k = [s \in SUBSET S |-> IF s = {} THEN 0
                                              ELSE Spent(Chosen(s)) + k[s \ {Chosen(s)}]]
                   /\ MapThenSumSet(Spent, S) = k[S]
      BY <2>1 DEF MapThenSumSet, MapThenFoldSet, Chosen
    <2>3. IsSum(k, SpentBy, S)
      BY <1>4, <2>2 DEF IsSum
    <2>4. QED
      BY <2>2, <2>3
  <1>7. QED
    BY <1>1, <1>2, <1>3, <1>5, <1>6, SumsAgree

LEMMA TotalsNext ==
    ASSUME TypeOK', NEW S \in SUBSET ChargeIds
    PROVE  /\ MapThenSumSet(Reserved, S)' = Sum(HeldBy', S)
           /\ MapThenSumSet(Spent, S)' = Sum(SpentBy', S)
  <1>1. IsFiniteSet(S) /\ Numeric(HeldBy', S) /\ Numeric(SpentBy', S)
    BY FiniteChargeIds, FS_Subset, NumericMoneyNext
  <1>2. PICK g : IsSum(g, HeldBy', S) /\ Sum(HeldBy', S) = g[S]
    BY <1>1, SumUnfolds
  <1>3. PICK h : IsSum(h, SpentBy', S) /\ Sum(SpentBy', S) = h[S]
    BY <1>1, SumUnfolds
  <1>4. \A s \in SUBSET S : s # {} => /\ HeldBy'[Chosen(s)] = Reserved(Chosen(s))'
                                      /\ SpentBy'[Chosen(s)] = Spent(Chosen(s))'
    BY ChosenIn DEF HeldBy, SpentBy
  <1>5. \E k : IsSum(k, HeldBy', S) /\ MapThenSumSet(Reserved, S)' = k[S]
    <2>1. g = [s \in SUBSET S |-> IF s = {} THEN 0 ELSE Reserved(Chosen(s))' + g[s \ {Chosen(s)}]]
      BY <1>2, <1>4 DEF IsSum
    <2>2. PICK k : /\ k = [s \in SUBSET S |-> IF s = {} THEN 0
                                              ELSE Reserved(Chosen(s))' + k[s \ {Chosen(s)}]]
                   /\ MapThenSumSet(Reserved, S)' = k[S]
      BY <2>1 DEF MapThenSumSet, MapThenFoldSet, Chosen
    <2>3. IsSum(k, HeldBy', S)
      BY <1>4, <2>2 DEF IsSum
    <2>4. QED
      BY <2>2, <2>3
  <1>6. \E k : IsSum(k, SpentBy', S) /\ MapThenSumSet(Spent, S)' = k[S]
    <2>1. h = [s \in SUBSET S |-> IF s = {} THEN 0 ELSE Spent(Chosen(s))' + h[s \ {Chosen(s)}]]
      BY <1>3, <1>4 DEF IsSum
    <2>2. PICK k : /\ k = [s \in SUBSET S |-> IF s = {} THEN 0
                                              ELSE Spent(Chosen(s))' + k[s \ {Chosen(s)}]]
                   /\ MapThenSumSet(Spent, S)' = k[S]
      BY <2>1 DEF MapThenSumSet, MapThenFoldSet, Chosen
    <2>3. IsSum(k, SpentBy', S)
      BY <1>4, <2>2 DEF IsSum
    <2>4. QED
      BY <2>2, <2>3
  <1>7. QED
    BY <1>1, <1>2, <1>3, <1>5, <1>6, SumsAgree

(* A step moves the sums over every set of charges as it moves the counters *)
(* of an account that answers for these charges.                            *)
LEMMA SumsStill ==
    ASSUME TypeOK, TypeOK', MoneyStill, NEW S \in SUBSET ChargeIds
    PROVE  Sum(HeldBy', S) = Sum(HeldBy, S) /\ Sum(SpentBy', S) = Sum(SpentBy, S)
  <1>1. HeldBy' = HeldBy /\ SpentBy' = SpentBy
    BY DEF MoneyStill, HeldBy, SpentBy, Reserved, Spent
  <1>2. QED
    BY <1>1

LEMMA SumsMove ==
    ASSUME TypeOK, TypeOK', NEW id \in ChargeIds, NEW hold \in Int, NEW spend \in Int,
           MoneyMoves(id, hold, spend), NEW S \in SUBSET ChargeIds
    PROVE  IF id \in S THEN /\ Sum(HeldBy', S) = Sum(HeldBy, S) + hold
                            /\ Sum(SpentBy', S) = Sum(SpentBy, S) + spend
           ELSE Sum(HeldBy', S) = Sum(HeldBy, S) /\ Sum(SpentBy', S) = Sum(SpentBy, S)
  <1>1. /\ IsFiniteSet(S)
        /\ Numeric(HeldBy, S) /\ Numeric(SpentBy, S)
        /\ Numeric(HeldBy', S) /\ Numeric(SpentBy', S)
    BY FiniteChargeIds, FS_Subset, NumericMoney, NumericMoneyNext
  <1>2. \A j \in ChargeIds : j # id => HeldBy'[j] = HeldBy[j] /\ SpentBy'[j] = SpentBy[j]
    BY DEF MoneyMoves, HeldBy, SpentBy, Reserved, Spent
  <1>3. CASE id \notin S
    <2>1. \A j \in S : HeldBy'[j] = HeldBy[j] /\ SpentBy'[j] = SpentBy[j]
      BY <1>2, <1>3
    <2>2. Sum(HeldBy', S) = Sum(HeldBy, S)
      BY <1>1, <2>1, SumSame
    <2>3. Sum(SpentBy', S) = Sum(SpentBy, S)
      BY <1>1, <2>1, SumSame
    <2>4. QED
      BY <1>3, <2>2, <2>3
  <1>4. CASE id \in S
    <2>1. \A j \in S \ {id} : HeldBy'[j] = HeldBy[j] /\ SpentBy'[j] = SpentBy[j]
      BY <1>2
    <2>2. Sum(HeldBy', S) = Sum(HeldBy, S) + (HeldBy'[id] - HeldBy[id])
      BY <1>1, <1>4, <2>1, SumChange
    <2>3. Sum(SpentBy', S) = Sum(SpentBy, S) + (SpentBy'[id] - SpentBy[id])
      BY <1>1, <1>4, <2>1, SumChange
    <2>4. /\ Reserved(id) \in Nat /\ Spent(id) \in Nat
          /\ HeldBy[id] = Reserved(id) /\ SpentBy[id] = Spent(id)
      BY ChargeMoneyType DEF HeldBy, SpentBy
    <2>5. HeldBy'[id] = Reserved(id) + hold /\ SpentBy'[id] = Spent(id) + spend
      BY DEF HeldBy, SpentBy, MoneyMoves
    <2>6. HeldBy'[id] - HeldBy[id] = hold /\ SpentBy'[id] - SpentBy[id] = spend
      BY <2>4, <2>5
    <2>7. QED
      BY <1>4, <2>2, <2>3, <2>6
  <1>5. QED
    BY <1>3, <1>4

(* AccountsBalance over the functions *)
Agrees(account, held, paid) == account.reserved = held /\ account.spent = paid

OfRun(r) == {id \in ChargeIds : id.run = r}
OfProject(p) == {id \in ChargeIds : ProjectOf[id.run] = p}

BooksAgree ==
    /\ \A r \in Runs : Agrees(run[r], Sum(HeldBy, OfRun(r)), Sum(SpentBy, OfRun(r)))
    /\ \A p \in Projects : Agrees(project[p], Sum(HeldBy, OfProject(p)), Sum(SpentBy, OfProject(p)))

LEMMA BalanceIsAgreement ==
    ASSUME TypeOK
    PROVE  AccountsBalance <=> BooksAgree
  <1>1. ASSUME NEW a, NEW S \in SUBSET ChargeIds
        PROVE  Balanced(a, S) <=> Agrees(a, Sum(HeldBy, S), Sum(SpentBy, S))
    BY <1>1, TotalsNow DEF Balanced, Agrees
  <1>2. /\ \A r \in Runs : OfRun(r) \in SUBSET ChargeIds
        /\ \A p \in Projects : OfProject(p) \in SUBSET ChargeIds
    BY DEF OfRun, OfProject
  <1>3. AccountsBalance <=> /\ \A r \in Runs : Balanced(run[r], OfRun(r))
                            /\ \A p \in Projects : Balanced(project[p], OfProject(p))
    BY DEF AccountsBalance, OfRun, OfProject
  <1>4. QED
    BY <1>1, <1>2, <1>3 DEF BooksAgree

LEMMA BooksAgreeStep ==
    ASSUME TypeOK, TypeOK', BooksAgree,
           MoneyStill \/ \E id \in ChargeIds, hold, spend \in Int : MoneyMoves(id, hold, spend)
    PROVE  BooksAgree'
  <1>1. /\ \A r \in Runs : OfRun(r) \in SUBSET ChargeIds /\ run[r] \in Account /\ run'[r] \in Account
        /\ \A p \in Projects : /\ OfProject(p) \in SUBSET ChargeIds
                               /\ project[p] \in Account /\ project'[p] \in Account
    BY DEF OfRun, OfProject, TypeOK
  <1>2. ASSUME NEW a \in Account, NEW b \in Account, NEW held, NEW paid, Agrees(a, held, paid),
               NEW hold \in Int, NEW spend \in Int, Moves(a, b, hold, spend)
        PROVE  Agrees(b, held + hold, paid + spend)
    BY <1>2 DEF Agrees, Moves
  <1>3. ASSUME NEW a \in Account, NEW b \in Account, NEW held, NEW paid, Agrees(a, held, paid),
               Moves(a, b, 0, 0)
        PROVE  Agrees(b, held, paid)
    BY <1>3 DEF Agrees, Moves, Account
  <1>4. CASE MoneyStill
    <2>1. ASSUME NEW r \in Runs
          PROVE  Agrees(run'[r], Sum(HeldBy', OfRun(r)), Sum(SpentBy', OfRun(r)))
      <3>1. Agrees(run[r], Sum(HeldBy, OfRun(r)), Sum(SpentBy, OfRun(r))) /\ Moves(run[r], run'[r], 0, 0)
        BY <1>4 DEF BooksAgree, MoneyStill
      <3>2. /\ Sum(HeldBy', OfRun(r)) = Sum(HeldBy, OfRun(r))
            /\ Sum(SpentBy', OfRun(r)) = Sum(SpentBy, OfRun(r))
        BY <1>1, <1>4, SumsStill
      <3>3. QED
        BY <1>1, <1>3, <3>1, <3>2
    <2>2. ASSUME NEW p \in Projects
          PROVE  Agrees(project'[p], Sum(HeldBy', OfProject(p)), Sum(SpentBy', OfProject(p)))
      <3>1. /\ Agrees(project[p], Sum(HeldBy, OfProject(p)), Sum(SpentBy, OfProject(p)))
            /\ Moves(project[p], project'[p], 0, 0)
        BY <1>4 DEF BooksAgree, MoneyStill
      <3>2. /\ Sum(HeldBy', OfProject(p)) = Sum(HeldBy, OfProject(p))
            /\ Sum(SpentBy', OfProject(p)) = Sum(SpentBy, OfProject(p))
        BY <1>1, <1>4, SumsStill
      <3>3. QED
        BY <1>1, <1>3, <3>1, <3>2
    <2>3. QED
      BY <2>1, <2>2 DEF BooksAgree, OfRun, OfProject
  <1>5. ASSUME NEW id \in ChargeIds, NEW hold \in Int, NEW spend \in Int, MoneyMoves(id, hold, spend)
        PROVE  BooksAgree'
    <2>1. ASSUME NEW r \in Runs
          PROVE  Agrees(run'[r], Sum(HeldBy', OfRun(r)), Sum(SpentBy', OfRun(r)))
      <3>1. Agrees(run[r], Sum(HeldBy, OfRun(r)), Sum(SpentBy, OfRun(r)))
        BY DEF BooksAgree
      <3>2. id \in OfRun(r) <=> r = id.run
        BY DEF OfRun
      <3>3. IF r = id.run THEN Moves(run[r], run'[r], hold, spend) ELSE run'[r] = run[r]
        BY <1>5 DEF MoneyMoves
      <3>4. IF id \in OfRun(r)
            THEN /\ Sum(HeldBy', OfRun(r)) = Sum(HeldBy, OfRun(r)) + hold
                 /\ Sum(SpentBy', OfRun(r)) = Sum(SpentBy, OfRun(r)) + spend
            ELSE /\ Sum(HeldBy', OfRun(r)) = Sum(HeldBy, OfRun(r))
                 /\ Sum(SpentBy', OfRun(r)) = Sum(SpentBy, OfRun(r))
        BY <1>1, <1>5, SumsMove
      <3>5. QED
        BY <1>1, <1>2, <3>1, <3>2, <3>3, <3>4
    <2>2. ASSUME NEW p \in Projects
          PROVE  Agrees(project'[p], Sum(HeldBy', OfProject(p)), Sum(SpentBy', OfProject(p)))
      <3>1. Agrees(project[p], Sum(HeldBy, OfProject(p)), Sum(SpentBy, OfProject(p)))
        BY DEF BooksAgree
      <3>2. id \in OfProject(p) <=> p = ProjectOf[id.run]
        BY DEF OfProject
      <3>3. IF p = ProjectOf[id.run] THEN Moves(project[p], project'[p], hold, spend)
            ELSE project'[p] = project[p]
        BY <1>5 DEF MoneyMoves
      <3>4. IF id \in OfProject(p)
            THEN /\ Sum(HeldBy', OfProject(p)) = Sum(HeldBy, OfProject(p)) + hold
                 /\ Sum(SpentBy', OfProject(p)) = Sum(SpentBy, OfProject(p)) + spend
            ELSE /\ Sum(HeldBy', OfProject(p)) = Sum(HeldBy, OfProject(p))
                 /\ Sum(SpentBy', OfProject(p)) = Sum(SpentBy, OfProject(p))
        BY <1>1, <1>5, SumsMove
      <3>5. QED
        BY <1>1, <1>2, <3>1, <3>2, <3>3, <3>4
    <2>3. QED
      BY <2>1, <2>2 DEF BooksAgree, OfRun, OfProject
  <1>6. QED
    BY <1>4, <1>5

LEMMA InitBalanced == Init => BooksAgree
  <1> SUFFICES ASSUME Init PROVE BooksAgree
    OBVIOUS
  <1>1. \A id \in ChargeIds : HeldBy[id] = 0 /\ SpentBy[id] = 0
    BY DEF Init, HeldBy, SpentBy, Reserved, Spent, NoCharge, Active
  <1>2. ASSUME NEW S \in SUBSET ChargeIds PROVE Sum(HeldBy, S) = 0 /\ Sum(SpentBy, S) = 0
    <2>1. IsFiniteSet(S)
      BY FiniteChargeIds, FS_Subset
    <2>2. Sum(HeldBy, S) = 0
      BY <1>1, <2>1, SumZero
    <2>3. Sum(SpentBy, S) = 0
      BY <1>1, <2>1, SumZero
    <2>4. QED
      BY <2>2, <2>3
  <1>3. Agrees(NoAccount, 0, 0)
    BY DEF Agrees, NoAccount
  <1>4. /\ \A r \in Runs : OfRun(r) \in SUBSET ChargeIds /\ run[r] = NoAccount
        /\ \A p \in Projects : OfProject(p) \in SUBSET ChargeIds /\ project[p] = NoAccount
    BY DEF OfRun, OfProject, Init
  <1>5. QED
    BY <1>2, <1>3, <1>4 DEF BooksAgree

(* The sums agree with the counters in every reachable state: each          *)
(* transaction of services/monetary_budget.py changes a counter by what     *)
(* its one charge then ties up or has spent more.                           *)
THEOREM BalanceInvariant == Spec => [](BudgetInv /\ BooksAgree)
  <1>1. BudgetInv /\ BooksAgree /\ BudgetInv' /\ [Next]_vars => BooksAgree'
    <2> SUFFICES ASSUME BudgetInv, BooksAgree, BudgetInv', [Next]_vars PROVE BooksAgree'
      OBVIOUS
    <2>1. TypeOK /\ TypeOK'
      BY DEF BudgetInv
    <2>2. CASE Next
      BY <2>1, <2>2, MoneyStep, BooksAgreeStep
    <2>3. CASE UNCHANGED vars
      BY <2>1, <2>3, StillMoney, BooksAgreeStep DEF vars
    <2>4. QED
      BY <2>2, <2>3
  <1>2. QED
    BY <1>1, InitBudget, NextBudget, InitBalanced, PTL DEF Spec

(* The counters of every run and every project are the sums over their      *)
(* charges after every transaction, in whatever order reservations,         *)
(* reconciliations, releases and recoveries meet: no money leaks and none   *)
(* is returned twice.                                                       *)
THEOREM AccountsAlwaysBalance == Spec => []AccountsBalance
  <1>1. BudgetInv /\ BooksAgree => AccountsBalance
    BY BalanceIsAgreement DEF BudgetInv
  <1>2. QED
    BY <1>1, BalanceInvariant, PTL

-----------------------------------------------------------------------------
(* The purse that MonetaryBudget implements *)
StateOf == [id \in ChargeIds |-> charge[id].state]
FundsOf == [id \in ChargeIds |-> Reserved(id) + Spent(id)]
ProjectCap == [p \in Projects |-> IF p \in openProjects THEN project[p].limit ELSE -1]
RunCap == [r \in Runs |-> IF r \in openRuns THEN run[r].limit ELSE -1]

(* An account's total is what its counters say. *)
LEMMA PurseTotal ==
    ASSUME TypeOK, BooksAgree
    PROVE  /\ \A r \in Runs : Purse!Total(Purse!OfRun(r)) = run[r].reserved + run[r].spent
           /\ \A p \in Projects :
                Purse!Total(Purse!OfProject(p)) = project[p].reserved + project[p].spent
  <1>1. ASSUME NEW S \in SUBSET ChargeIds
        PROVE  Purse!Total(S) = Sum(HeldBy, S) + Sum(SpentBy, S)
    <2>1. Purse!Total(S) = Sum(FundsOf, S)
      BY DEF Purse!Total, Purse!MapThenSumSet, Purse!MapThenFoldSet, Sum, FundsOf,
             MapThenSumSet, MapThenFoldSet
    <2>2. IsFiniteSet(S) /\ Numeric(HeldBy, S) /\ Numeric(SpentBy, S)
      BY FiniteChargeIds, FS_Subset, NumericMoney
    <2>3. \A id \in S : FundsOf[id] = HeldBy[id] + SpentBy[id]
      BY DEF FundsOf, HeldBy, SpentBy
    <2>4. Sum(FundsOf, S) = Sum(HeldBy, S) + Sum(SpentBy, S)
      BY <2>2, <2>3, SumAdd
    <2>5. QED
      BY <2>1, <2>4
  <1>2. /\ \A r \in Runs : Purse!OfRun(r) = OfRun(r) /\ OfRun(r) \in SUBSET ChargeIds
        /\ \A p \in Projects : Purse!OfProject(p) = OfProject(p) /\ OfProject(p) \in SUBSET ChargeIds
    BY DEF Purse!OfRun, Purse!OfProject, OfRun, OfProject
  <1>3. QED
    BY <1>1, <1>2 DEF BooksAgree, Agrees

LEMMA PurseInit == Init => Purse!Init
  <1> SUFFICES ASSUME Init PROVE Purse!Init
    OBVIOUS
  <1>1. \A id \in ChargeIds : charge[id].state = "absent" /\ Reserved(id) + Spent(id) = 0
    BY DEF Init, Reserved, Spent, NoCharge, Active
  <1>2. openProjects = {} /\ openRuns = {}
    BY DEF Init
  <1>3. QED
    BY <1>1, <1>2 DEF Purse!Init

(* One charge changes, and the limits stand. *)
LEMMA PurseChange ==
    ASSUME TypeOK, TypeOK', NEW id \in ChargeIds, NEW x, charge' = [charge EXCEPT ![id] = x],
           NEW money, Reserved(id)' + Spent(id)' = money,
           UNCHANGED <<openProjects, openRuns>>,
           \A p \in Projects : project'[p].limit = project[p].limit,
           \A r \in Runs : run'[r].limit = run[r].limit
    PROVE  Purse!Change(id, x.state, money)
  <1>1. StateOf' = [StateOf EXCEPT ![id] = x.state]
    BY DEF StateOf, TypeOK
  <1>2. FundsOf' = [FundsOf EXCEPT ![id] = money]
    BY DEF FundsOf, TypeOK, Reserved, Spent
  <1>3. ProjectCap' = ProjectCap /\ RunCap' = RunCap
    BY DEF ProjectCap, RunCap
  <1>4. QED
    BY <1>1, <1>2, <1>3 DEF Purse!Change, StateOf, FundsOf, ProjectCap, RunCap

LEMMA PostLimits ==
    ASSUME TypeOK, NEW r \in Runs, NEW hold, NEW spend, Post(r, hold, spend)
    PROVE  /\ UNCHANGED <<openProjects, openRuns>>
           /\ \A p \in Projects : project'[p].limit = project[p].limit
           /\ \A s \in Runs : run'[s].limit = run[s].limit
  <1>1. \A a : Posted(a, hold, spend).limit = a.limit
    BY DEF Posted
  <1>2. PICK a, b : a = Posted(project[ProjectOf[r]], hold, spend) /\ b = Posted(run[r], hold, spend)
    OBVIOUS
  <1>3. /\ project' = [project EXCEPT ![ProjectOf[r]] = a] /\ run' = [run EXCEPT ![r] = b]
        /\ UNCHANGED <<openProjects, openRuns>>
    BY <1>2 DEF Post
  <1>4. a.limit = project[ProjectOf[r]].limit /\ b.limit = run[r].limit
    BY <1>1, <1>2
  <1>5. QED
    BY <1>3, <1>4 DEF TypeOK

LEMMA ReservePromises ==
    ASSUME TypeOK, TypeOK', BooksAgree, NEW id \in ChargeIds, NEW quote \in Nat, Reserve(id, quote)
    PROVE  Purse!Promise(id, quote)
  <1>1. id.run \in Runs /\ ProjectOf[id.run] \in Projects
    BY ScopeAssumption DEF ChargeIds
  <1>2. PICK x \in Charge : x = [state |-> "reserved", quote |-> quote, actual |-> 0]
    BY DEF Charge, States, Active
  <1>3. charge' = [charge EXCEPT ![id] = x] /\ charge[id].state = "absent" /\ x.state = "reserved"
    BY <1>2 DEF Reserve
  <1>4. Reserved(id)' = quote /\ Spent(id)' = 0
    BY <1>2, <1>3, ChargeMoney DEF Active
  <1>5. Purse!Change(id, "reserved", quote)
    <2>1. Reserved(id)' + Spent(id)' = quote
      BY <1>4
    <2>2. Post(id.run, quote, 0)
      BY DEF Reserve
    <2>3. /\ UNCHANGED <<openProjects, openRuns>>
          /\ \A p \in Projects : project'[p].limit = project[p].limit
          /\ \A s \in Runs : run'[s].limit = run[s].limit
      BY <1>1, <2>2, PostLimits
    <2>4. QED
      BY <1>3, <2>1, <2>3, PurseChange
  <1>6. /\ id.run \in openRuns /\ ProjectOf[id.run] \in openProjects
        /\ Fits(run[id.run], quote) /\ Fits(project[ProjectOf[id.run]], quote)
    BY DEF Reserve, Affordable
  <1>7. run[id.run] \in Account /\ project[ProjectOf[id.run]] \in Account
    BY <1>1 DEF TypeOK
  <1>8. /\ run[id.run].reserved + run[id.run].spent + quote <= run[id.run].limit
        /\ project[ProjectOf[id.run]].reserved + project[ProjectOf[id.run]].spent + quote
             <= project[ProjectOf[id.run]].limit
    BY <1>6, <1>7 DEF Account, Fits
  <1>9. /\ Purse!Total(Purse!OfRun(id.run)) + quote <= RunCap[id.run]
        /\ Purse!Total(Purse!OfProject(ProjectOf[id.run])) + quote <= ProjectCap[ProjectOf[id.run]]
    <2>1. RunCap[id.run] = run[id.run].limit
      BY <1>1, <1>6 DEF RunCap
    <2>2. ProjectCap[ProjectOf[id.run]] = project[ProjectOf[id.run]].limit
      BY <1>1, <1>6 DEF ProjectCap
    <2>3. /\ Purse!Total(Purse!OfRun(id.run)) = run[id.run].reserved + run[id.run].spent
          /\ Purse!Total(Purse!OfProject(ProjectOf[id.run]))
               = project[ProjectOf[id.run]].reserved + project[ProjectOf[id.run]].spent
      BY <1>1, PurseTotal
    <2>4. QED
      BY <1>8, <2>1, <2>2, <2>3
  <1>10. QED
    BY <1>3, <1>5, <1>9 DEF Purse!Promise, RunCap, ProjectCap

LEMMA ReleasedGivesBack ==
    ASSUME TypeOK, TypeOK', NEW id \in ChargeIds, Released(id)
    PROVE  Purse!GiveBack(id)
  <1>1. id.run \in Runs /\ charge[id] \in Charge
    BY DEF ChargeIds, TypeOK
  <1>2. PICK x \in Charge : x = [state |-> "released", quote |-> charge[id].quote,
                                 actual |-> charge[id].actual]
    BY <1>1 DEF Charge, States
  <1>3. charge' = [charge EXCEPT ![id] = x] /\ charge[id].state = "reserved" /\ x.state = "released"
    BY <1>2 DEF Released, SetState
  <1>4. Reserved(id)' = 0 /\ Spent(id)' = 0
    BY <1>3, ChargeMoney DEF Active
  <1>5. Reserved(id)' + Spent(id)' = 0
    BY <1>4
  <1>6. /\ UNCHANGED <<openProjects, openRuns>>
        /\ \A p \in Projects : project'[p].limit = project[p].limit
        /\ \A s \in Runs : run'[s].limit = run[s].limit
    BY <1>1, PostLimits DEF Released
  <1>7. Purse!Change(id, "released", 0)
    BY <1>3, <1>5, <1>6, PurseChange
  <1>8. QED
    BY <1>3, <1>7 DEF Purse!GiveBack

LEMMA ReconciledPays ==
    ASSUME TypeOK, TypeOK', NEW id \in ChargeIds, NEW actual \in Nat, Reconciled(id, actual)
    PROVE  Purse!Pay(id, actual)
  <1>1. id.run \in Runs /\ charge[id] \in Charge
    BY DEF ChargeIds, TypeOK
  <1>2. PICK x \in Charge : x = [state |-> "reconciled", quote |-> charge[id].quote,
                                 actual |-> actual]
    BY <1>1 DEF Charge, States
  <1>3. /\ charge' = [charge EXCEPT ![id] = x] /\ charge[id].state = "dispatched"
        /\ x.state = "reconciled" /\ x.actual = actual
    BY <1>2 DEF Reconciled
  <1>4. Reserved(id)' = 0 /\ Spent(id)' = actual
    BY <1>3, ChargeMoney DEF Active
  <1>5. Reserved(id)' + Spent(id)' = actual
    BY <1>4
  <1>6. /\ UNCHANGED <<openProjects, openRuns>>
        /\ \A p \in Projects : project'[p].limit = project[p].limit
        /\ \A s \in Runs : run'[s].limit = run[s].limit
    BY <1>1, PostLimits DEF Reconciled
  <1>7. Purse!Change(id, "reconciled", actual)
    BY <1>3, <1>5, <1>6, PurseChange
  <1>8. charge[id].quote \in Nat /\ actual <= charge[id].quote
    BY <1>1 DEF Charge, Reconciled
  <1>9. Reserved(id) + Spent(id) = charge[id].quote
    BY <1>3, <1>8 DEF Reserved, Spent, Active
  <1>10. QED
    BY <1>3, <1>7, <1>8, <1>9 DEF Purse!Pay

LEMMA MovedKeepsFunds ==
    ASSUME TypeOK, TypeOK', NEW id \in ChargeIds, NEW source \in SUBSET Active,
           NEW to \in {"dispatched", "indeterminate"}, Moved(id, source, to)
    PROVE  Purse!Change(id, to, FundsOf[id])
  <1>1. charge[id] \in Charge /\ charge[id].state \in Active
    BY DEF TypeOK, Moved
  <1>2. PICK x \in Charge : x = [state |-> to, quote |-> charge[id].quote,
                                 actual |-> charge[id].actual]
    BY <1>1 DEF Charge, States, Active
  <1>3. charge' = [charge EXCEPT ![id] = x] /\ x.state = to /\ x.quote = charge[id].quote
    BY <1>2 DEF Moved, SetState
  <1>4. Reserved(id) = charge[id].quote /\ Spent(id) = 0
    BY <1>1 DEF Reserved, Spent, Active
  <1>5. Reserved(id)' = charge[id].quote /\ Spent(id)' = 0
    BY <1>3, ChargeMoney DEF Active
  <1>6. FundsOf[id] = Reserved(id) + Spent(id)
    BY DEF FundsOf
  <1>7. Reserved(id)' + Spent(id)' = FundsOf[id]
    BY <1>4, <1>5, <1>6
  <1>8. /\ UNCHANGED <<openProjects, openRuns>>
        /\ \A p \in Projects : project'[p].limit = project[p].limit
        /\ \A s \in Runs : run'[s].limit = run[s].limit
    BY DEF Moved, accounts
  <1>9. PICK money : money = FundsOf[id]
    OBVIOUS
  <1>10. Purse!Change(id, to, money)
    BY <1>3, <1>7, <1>8, <1>9, PurseChange
  <1>11. QED
    BY <1>9, <1>10 DEF Purse!Change

LEMMA MovedDispatches ==
    ASSUME TypeOK, TypeOK', NEW id \in ChargeIds, Moved(id, {"reserved"}, "dispatched")
    PROVE  Purse!Dispatch(id)
  <1>1. {"reserved"} \in SUBSET Active /\ charge[id].state = "reserved"
    BY DEF Active, Moved
  <1>2. Purse!Change(id, "dispatched", FundsOf[id])
    BY <1>1, MovedKeepsFunds
  <1>3. QED
    BY <1>1, <1>2 DEF Purse!Dispatch, FundsOf

LEMMA MovedFreezes ==
    ASSUME TypeOK, TypeOK', NEW id \in ChargeIds, NEW source \in SUBSET Active,
           Moved(id, source, "indeterminate")
    PROVE  Purse!Freeze(id)
  <1>1. charge[id].state \in {"reserved", "dispatched"}
    BY DEF Active, Moved
  <1>2. Purse!Change(id, "indeterminate", FundsOf[id])
    BY MovedKeepsFunds
  <1>3. QED
    BY <1>1, <1>2 DEF Purse!Freeze, FundsOf

(* Opening a run sets its cap and its project's, once. *)
LEMMA OpenSetsCaps ==
    ASSUME TypeOK, NEW w \in Wrappers, OpenRun(w), UNCHANGED charge
    PROVE  Purse!Next
  <1> DEFINE r == RunOf[w]
             p == ProjectOf[r]
  <1>1. r \in Runs /\ p \in Projects
    BY ScopeAssumption
  <1>2. ProjectLimit[w] \in Amounts /\ RunLimit[w] \in Amounts
    BY MoneyAssumption DEF Amounts, Range
  <1>3. PICK a : a = [limit |-> ProjectLimit[w], spent |-> 0, reserved |-> 0]
    OBVIOUS
  <1>4. PICK b : b = [limit |-> RunLimit[w], spent |-> run[r].spent, reserved |-> run[r].reserved]
    OBVIOUS
  <1>5. a.limit = ProjectLimit[w] /\ b.limit = RunLimit[w]
    BY <1>3, <1>4
  <1>6. /\ p \in openProjects => project[p].limit = ProjectLimit[w]
        /\ r \in openRuns => run[r].limit = RunLimit[w]
        /\ project' = IF p \in openProjects THEN project ELSE [project EXCEPT ![p] = a]
        /\ run' = IF r \in openRuns THEN run ELSE [run EXCEPT ![r] = b]
        /\ openProjects' = openProjects \cup {p} /\ openRuns' = openRuns \cup {r}
    BY <1>3, <1>4 DEF OpenRun
  <1> HIDE DEF r
  <1> HIDE DEF p
  <1>7. ProjectCap[p] \in {-1, ProjectLimit[w]} /\ RunCap[r] \in {-1, RunLimit[w]}
    BY <1>1, <1>6 DEF ProjectCap, RunCap
  <1>8. ProjectCap' = [ProjectCap EXCEPT ![p] = ProjectLimit[w]]
    BY <1>1, <1>5, <1>6 DEF ProjectCap, TypeOK
  <1>9. RunCap' = [RunCap EXCEPT ![r] = RunLimit[w]]
    BY <1>1, <1>5, <1>6 DEF RunCap, TypeOK
  <1>10. StateOf' = StateOf /\ FundsOf' = FundsOf
    BY DEF StateOf, FundsOf, Reserved, Spent
  <1>11. p = ProjectOf[r]
    BY DEF p
  <1>12. Purse!SetCaps(r, ProjectLimit[w], RunLimit[w])
    BY <1>7, <1>8, <1>9, <1>10, <1>11
       DEF Purse!SetCaps, ProjectCap, RunCap, StateOf, FundsOf
  <1>13. QED
    BY <1>1, <1>2, <1>12 DEF Purse!Next

LEMMA PurseStill ==
    ASSUME UNCHANGED accounts, UNCHANGED charge
    PROVE  UNCHANGED Purse!purse
  <1>1. /\ StateOf' = StateOf /\ FundsOf' = FundsOf
        /\ ProjectCap' = ProjectCap /\ RunCap' = RunCap
    BY DEF StateOf, FundsOf, Reserved, Spent, ProjectCap, RunCap, accounts
  <1>2. QED
    BY <1>1 DEF Purse!purse, StateOf, FundsOf, ProjectCap, RunCap

(* The transactions, as steps of the purse *)
LEMMA PurseSteps ==
    ASSUME TypeOK, TypeOK', BooksAgree, NEW id \in ChargeIds
    PROVE  /\ \A quote \in Amounts : quote \in Nat /\ Reserve(id, quote) => Purse!Next
           /\ Released(id) => Purse!Next
           /\ \A actual \in Costs : Reconciled(id, actual) => Purse!Next
           /\ Moved(id, {"reserved"}, "dispatched") => Purse!Next
           /\ \A source \in SUBSET Active : Moved(id, source, "indeterminate") => Purse!Next
  <1>1. ASSUME NEW quote \in Amounts, quote \in Nat, Reserve(id, quote) PROVE Purse!Next
    BY <1>1, ReservePromises DEF Purse!Next
  <1>2. ASSUME Released(id) PROVE Purse!Next
    BY <1>2, ReleasedGivesBack DEF Purse!Next
  <1>3. ASSUME NEW actual \in Costs, Reconciled(id, actual) PROVE Purse!Next
    <2>1. actual \in Nat /\ actual \in Amounts
      BY MoneyAssumption DEF Amounts
    <2>2. QED
      BY <1>3, <2>1, ReconciledPays DEF Purse!Next
  <1>4. ASSUME Moved(id, {"reserved"}, "dispatched") PROVE Purse!Next
    BY <1>4, MovedDispatches DEF Purse!Next
  <1>5. ASSUME NEW source \in SUBSET Active, Moved(id, source, "indeterminate") PROVE Purse!Next
    BY <1>5, MovedFreezes DEF Purse!Next
  <1>6. QED
    BY <1>1, <1>2, <1>3, <1>4, <1>5

LEMMA CompletePurse ==
    ASSUME TypeOK, TypeOK', BooksAgree, NEW c \in Calls, Complete(c)
    PROVE  Purse!Next \/ UNCHANGED Purse!purse
  <1> DEFINE Goal == Purse!Next \/ UNCHANGED Purse!purse
  <1>1. /\ ChargeId(c) \in ChargeIds /\ WrapperOf[c] \in Wrappers
        /\ Quote[c] \in Nat /\ Quote[c] \in Amounts
        /\ Active \in SUBSET Active /\ {"dispatched"} \in SUBSET Active
    BY CallScope, MoneyAssumption DEF Active, Amounts, Range
  <1>2. ASSUME Untouched PROVE Goal
    BY <1>2, PurseStill DEF Untouched
  <1>3. PICK id \in ChargeIds : id = ChargeId(c)
    BY <1>1
  <1>4. /\ Reserve(id, Quote[c]) => Purse!Next
        /\ Released(id) => Purse!Next
        /\ \A actual \in Costs : Reconciled(id, actual) => Purse!Next
        /\ Moved(id, {"reserved"}, "dispatched") => Purse!Next
        /\ Moved(id, Active, "indeterminate") => Purse!Next
        /\ Moved(id, {"dispatched"}, "indeterminate") => Purse!Next
    BY <1>1, PurseSteps
  <1> HIDE DEF Goal
  <1>5. Purse!Next => Goal
    BY DEF Goal
  <1>6. ASSUME Unquotable(c) \/ ReserveRefused(c) \/ ProviderReturns(c) \/ ProviderFails(c)
        PROVE  Goal
    BY <1>2, <1>6 DEF Unquotable, ReserveRefused, ProviderReturns, ProviderFails
  <1>7. ASSUME Open(c) \/ OpenFails(c) PROVE Goal
    <2>1. (UNCHANGED accounts \/ OpenRun(WrapperOf[c])) /\ UNCHANGED charge
      BY <1>7 DEF Open, OpenFails
    <2>2. QED
      BY <1>1, <1>2, <1>5, <2>1, OpenSetsCaps DEF Untouched
  <1>8. ASSUME ReserveCall(c) \/ ReserveError(c) PROVE Goal
    BY <1>2, <1>3, <1>4, <1>5, <1>8 DEF ReserveCall, ReserveError
  <1>9. ASSUME NEW error \in Faults, Release(c, error) PROVE Goal
    BY <1>2, <1>3, <1>4, <1>5, <1>9 DEF Release
  <1>10. ASSUME NEW error \in Faults, MarkDispatched(c, error) PROVE Goal
    BY <1>2, <1>3, <1>4, <1>5, <1>10 DEF MarkDispatched
  <1>11. ASSUME NEW error \in Faults, RecoverLook(c, error) \/ CleanupLook(c, error) PROVE Goal
    BY <1>2, <1>11 DEF RecoverLook, CleanupLook
  <1>12. ASSUME NEW error \in Faults, RecoverWrite(c, error) PROVE Goal
    BY <1>2, <1>3, <1>4, <1>5, <1>12 DEF RecoverWrite
  <1>13. ASSUME NEW error \in Faults, NEW actual \in Costs, Reconcile(c, actual, error) PROVE Goal
    BY <1>2, <1>3, <1>4, <1>5, <1>13 DEF Reconcile, QuoteExceeded
  <1>14. ASSUME NEW error \in Faults, CleanupMark(c, error) PROVE Goal
    BY <1>2, <1>3, <1>4, <1>5, <1>14 DEF CleanupMark
  <1>15. Goal
    BY <1>6, <1>7, <1>8, <1>9, <1>10, <1>11, <1>12, <1>13, <1>14 DEF Complete
  <1>16. QED
    BY <1>15 DEF Goal

LEMMA NextPurse ==
    ASSUME TypeOK, TypeOK', BooksAgree, [Next]_vars
    PROVE  Purse!Next \/ UNCHANGED Purse!purse
  <1>1. ASSUME NEW c \in Calls, Complete(c) PROVE Purse!Next \/ UNCHANGED Purse!purse
    BY <1>1, CompletePurse
  <1>2. ASSUME NEW c \in Calls, Cancel(c) PROVE UNCHANGED Purse!purse
    BY <1>2, PurseStill DEF Cancel, Untouched
  <1>3. ASSUME NEW w \in Wrappers, Crash(w) PROVE UNCHANGED Purse!purse
    BY <1>3, PurseStill DEF Crash, Untouched
  <1>4. ASSUME NEW id \in ChargeIds, RecoverStale(id) PROVE Purse!Next
    <2>1. {"dispatched"} \in SUBSET Active
      BY DEF Active
    <2>2. QED
      BY <1>4, <2>1, PurseSteps DEF RecoverStale
  <1>5. CASE UNCHANGED vars
    BY <1>5, PurseStill DEF vars
  <1>6. QED
    BY <1>1, <1>2, <1>3, <1>4, <1>5 DEF Next

(* Accounts with two counters, wrappers, failures and recoveries implement  *)
(* a purse that adds up its charges: money is promised to a call only if    *)
(* the sum over all charges of its run and of its project leaves room, caps *)
(* are set once, and every charge follows its life cycle.                   *)
THEOREM PurseImplemented == Spec => ImplementsPurse
  <1>1. BudgetInv /\ BooksAgree /\ BudgetInv' /\ [Next]_vars => [Purse!Next]_(Purse!purse)
    BY NextPurse DEF BudgetInv
  <1>2. QED
    BY <1>1, PurseInit, BalanceInvariant, PTL DEF Spec, ImplementsPurse, Purse!Spec
=============================================================================
