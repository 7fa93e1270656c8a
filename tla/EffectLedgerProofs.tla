------------------------- MODULE EffectLedgerProofs -------------------------
(***************************************************************************)
(* At-most-once dispatch, truthful results and the refinement of           *)
(* EffectOnce, for every number of calls, runs and operations of           *)
(* EffectLedger.                                                           *)
(***************************************************************************)
EXTENDS EffectLedger, FiniteSetTheorems, TLAPS

(* The winner of the reservation finds a row that nobody else fails, and no *)
(* second winner exists.                                                    *)
OwnerRow ==
    \A c \in Calls :
      pc[c] \in Owning => State(c) \in {"reserved", "committed", "indeterminate"}
OneOwner ==
    \A c, d \in Calls :
      pc[c] \in Owning /\ pc[d] \in Owning /\ EffectId(c) = EffectId(d) => c = d

(* Who has started a handler, and who has not yet. *)
StartedRow == \A c \in started : State(c) # "absent"
StartedBy ==
    \A c \in Calls :
      /\ pc[c] \in {"handler", "commit"} => c \in started
      /\ pc[c] \in {"start", "insert", "read"} => c \notin started
      /\ pc[c] \in {"release", "dispatch"} =>
           \A d \in started : EffectId(d) # EffectId(c)

(* reserve() reads the state of a row it found in its way. *)
ReadRow == \A c \in Calls : pc[c] = "read" => State(c) # "absent"

(* A call that has not ended has no result yet. *)
Pending == \A c \in Calls : pc[c] # "done" => result[c] = "none"

(* The inductive invariant.  Neither AtMostOnce nor TruthfulResults is      *)
(* inductive alone: both depend on what calls still in flight may do.       *)
OnceInv ==
    /\ TypeOK /\ OwnerRow /\ OneOwner /\ StartedRow /\ StartedBy /\ ReadRow
    /\ Pending /\ AtMostOnce /\ TruthfulResults

-----------------------------------------------------------------------------
LEMMA IdType ==
    ASSUME NEW c \in Calls PROVE EffectId(c) \in EffectIds
  BY RequestAssumption DEF EffectId, EffectIds

(* Rows only move forward: a settled row keeps its state. *)
Forward(e) ==
    /\ row[e].state # "absent" => row'[e].state # "absent"
    /\ row[e].state \in Settled => row'[e].state = row[e].state

LEMMA InsertFacts ==
    ASSUME TypeOK, NEW e \in EffectIds, Insert(e)
    PROVE  /\ row' \in [EffectIds -> Row]
           /\ row[e].state = "absent" /\ row'[e].state = "reserved"
           /\ \A f \in EffectIds : f # e => row'[f] = row[f]
           /\ \A f \in EffectIds : Forward(f)
  <1>1. PICK x \in Row : x = [state |-> "reserved", review |-> "none", at |-> clock]
    BY DEF TypeOK, Row, States
  <1>2. row[e].state = "absent" /\ row' = [row EXCEPT ![e] = x] /\ x.state = "reserved"
    BY <1>1 DEF Insert
  <1>3. QED
    BY <1>2 DEF TypeOK, Forward, Settled

LEMMA TransitionFacts ==
    ASSUME TypeOK, NEW e \in EffectIds, NEW to \in Settled, NEW error \in BOOLEAN,
           Transition(e, to, error)
    PROVE  /\ row' \in [EffectIds -> Row]
           /\ \A f \in EffectIds : Forward(f)
           /\ \A f \in EffectIds : f # e => row'[f] = row[f]
           /\ row'[e].state = row[e].state \/ row'[e].state = to
           /\ error = FALSE => row'[e].state = to
  <1>1. CASE error = TRUE /\ row' = row
    BY <1>1 DEF TypeOK, Forward
  <1>2. CASE row[e].state = "reserved" /\ row' = [row EXCEPT ![e].state = to]
    <2>1. row[e] \in Row /\ to \in States
      BY DEF TypeOK, States
    <2>2. PICK x \in Row : x = [row[e] EXCEPT !.state = to]
      BY <2>1 DEF Row
    <2>3. x.state = to /\ row' = [row EXCEPT ![e] = x]
      BY <1>2, <2>1, <2>2 DEF Row
    <2>4. QED
      BY <1>2, <2>3 DEF TypeOK, Forward, Settled
  <1>3. QED
    BY <1>1, <1>2 DEF Transition

(* A step that starts no handler, wins no reservation and moves rows        *)
(* forward; what it returns is left to the caller.                          *)
LEMMA QuietStep ==
    ASSUME OnceInv, TypeOK', UNCHANGED started,
           \A e \in EffectIds : Forward(e),
           \A c \in Calls :
             \/ pc'[c] = pc[c]
             \/ /\ pc'[c] \in Owning => pc[c] \in Owning
                /\ pc'[c] \notin {"start", "insert", "read", "release", "dispatch"}
                /\ pc'[c] \in {"handler", "commit"} => c \in started
             \/ pc[c] = "start" /\ pc'[c] = "insert"
             \/ pc[c] = "insert" /\ pc'[c] = "read" /\ State(c) # "absent",
           \A c \in Calls :
             pc'[c] \in Owning => row'[EffectId(c)].state # "failed",
           Pending', TruthfulResults'
    PROVE  OnceInv'
  <1>1. OwnerRow'
    <2> SUFFICES ASSUME NEW c \in Calls, pc'[c] \in Owning
                 PROVE  row'[EffectId(c)].state \in {"reserved", "committed", "indeterminate"}
      BY DEF OwnerRow, State
    <2>1. pc[c] \in Owning
      BY DEF Owning
    <2>2. row'[EffectId(c)] \in Row /\ EffectId(c) \in EffectIds
      BY IdType DEF TypeOK
    <2>3. row'[EffectId(c)].state # "absent"
      BY <2>1, <2>2 DEF OnceInv, OwnerRow, State, Forward
    <2>4. QED
      BY <2>2, <2>3 DEF Row, States, Settled
  <1>2. OneOwner'
    BY DEF OnceInv, OneOwner, Owning
  <1>3. StartedRow'
    BY IdType DEF OnceInv, StartedRow, State, Forward, TypeOK
  <1>4. StartedBy'
    BY DEF OnceInv, StartedBy, Owning
  <1>5. AtMostOnce'
    BY DEF OnceInv, AtMostOnce
  <1>6. ReadRow'
    <2> SUFFICES ASSUME NEW c \in Calls, pc'[c] = "read" PROVE row'[EffectId(c)].state # "absent"
      BY DEF ReadRow, State
    <2>1. State(c) # "absent"
      BY DEF OnceInv, ReadRow
    <2>2. QED
      BY <2>1, IdType DEF Forward, State
  <1>7. QED
    BY <1>1, <1>2, <1>3, <1>4, <1>5, <1>6 DEF OnceInv

(* Results already given stay truthful while rows move forward.             *)
LEMMA OldResults ==
    ASSUME OnceInv, NEW c \in Calls, Forward(EffectId(c)), UNCHANGED started
    PROVE  /\ result[c] = "output" => row'[EffectId(c)].state = "committed" /\ c \in started'
           /\ result[c] = "rejected" => row'[EffectId(c)].state = "failed"
           /\ result[c] \in {"duplicate", "error"} => c \notin started'
           /\ result[c] = "duplicate" => row'[EffectId(c)].state # "absent"
           /\ result[c] = "cancelled" /\ c \in started'
              => row'[EffectId(c)].state \in {"committed", "indeterminate"}
  BY DEF OnceInv, TruthfulResults, State, Forward, Settled

LEMMA RowStep ==
    ASSUME OnceInv,
           \/ \E e \in EffectIds, disposition \in Dispositions : Review(e, disposition)
           \/ \E cutoff \in 0 .. clock : RecoverStale(cutoff)
    PROVE  OnceInv'
  <1>1. UNCHANGED <<pc, result, cancelled, again, started, clock>>
    BY DEF Review, RecoverStale
  <1>2. ASSUME NEW e \in EffectIds
        PROVE  /\ row'[e] \in Row
               /\ Forward(e)
               /\ row[e].state # "failed" => row'[e].state # "failed"
    <2>1. row[e] \in Row
      BY DEF OnceInv, TypeOK
    <2>2. ASSUME NEW f \in EffectIds, NEW disposition \in Dispositions, Review(f, disposition)
          PROVE  row'[e] \in Row /\ row'[e].state = row[e].state
      <3>1. CASE e = f
        <4>1. row'[e] = [row[e] EXCEPT !.review = disposition]
          BY <2>2, <3>1 DEF Review, OnceInv, TypeOK
        <4>2. QED
          BY <2>1, <4>1 DEF Row
      <3>2. CASE e # f
        BY <2>1, <2>2, <3>2 DEF Review, OnceInv, TypeOK
      <3>3. QED
        BY <3>1, <3>2
    <2>3. ASSUME NEW cutoff \in 0 .. clock, RecoverStale(cutoff)
          PROVE  /\ row'[e] \in Row
                 /\ row'[e] = row[e] \/ (row[e].state = "reserved" /\ row'[e].state = "indeterminate")
      <3>1. row'[e] = Recovered(row[e], cutoff)
        BY <2>3 DEF RecoverStale
      <3>2. QED
        BY <2>1, <3>1 DEF Recovered, Row, States, Settled
    <2>4. QED
      BY <2>1, <2>2, <2>3 DEF Forward, Settled
  <1>3. TypeOK'
    <2>1. DOMAIN row' = EffectIds /\ row' = [e \in EffectIds |-> row'[e]]
      BY DEF Review, RecoverStale, OnceInv, TypeOK
    <2>2. row' \in [EffectIds -> Row]
      BY <1>2, <2>1
    <2>3. QED
      BY <1>1, <2>2 DEF OnceInv, TypeOK
  <1>4. TruthfulResults'
    BY <1>1, <1>2, IdType, OldResults DEF TruthfulResults, State
  <1>5. \A c \in Calls : pc'[c] \in Owning => row'[EffectId(c)].state # "failed"
    BY <1>1, <1>2, IdType DEF OnceInv, OwnerRow, State
  <1>6. Pending'
    BY <1>1 DEF OnceInv, Pending
  <1>7. QED
    BY <1>1, <1>2, <1>3, <1>4, <1>5, <1>6, QuietStep

(* Cancellation, crash and the passing of time. *)
LEMMA OutsideStep ==
    ASSUME OnceInv, (\E c \in Calls : Cancel(c) \/ Crash(c)) \/ Tick
    PROVE  OnceInv'
  <1>1. UNCHANGED <<row, result, again, started>>
    BY DEF Cancel, Crash, Goto, Tick
  <1>2. TypeOK'
    <2>1. pc' \in [Calls -> PCs] /\ cancelled' \subseteq Calls /\ clock' \in Nat
      BY DEF Cancel, Crash, Goto, Tick, OnceInv, TypeOK, PCs
    <2>2. QED
      BY <1>1, <2>1 DEF OnceInv, TypeOK
  <1>3. \A e \in EffectIds : Forward(e)
    BY <1>1 DEF Forward
  <1>4. TruthfulResults'
    BY <1>1, <1>3, IdType, OldResults DEF TruthfulResults, State
  <1>5. \A c \in Calls : pc'[c] = pc[c] \/ pc'[c] = "dead"
    BY DEF Cancel, Crash, Goto, Tick, OnceInv, TypeOK
  <1>6. \A c \in Calls : pc'[c] \in Owning => row'[EffectId(c)].state # "failed"
    BY <1>1, <1>5 DEF OnceInv, OwnerRow, State, Owning
  <1>7. Pending'
    <2>1. \A c \in Calls : pc[c] = "done" => pc'[c] = "done"
      BY DEF Cancel, Crash, Goto, Tick, OnceInv, TypeOK
    <2>2. QED
      BY <1>1, <2>1 DEF OnceInv, Pending
  <1>8. QED
    BY <1>1, <1>2, <1>3, <1>4, <1>5, <1>6, <1>7, QuietStep DEF Owning

-----------------------------------------------------------------------------
(* The steps of execute().  Truth(c, r): r is a true answer of call c in    *)
(* the next state.                                                          *)
Truth(c, r) ==
    /\ r = "output" => row'[EffectId(c)].state = "committed" /\ c \in started'
    /\ r = "rejected" => row'[EffectId(c)].state = "failed"
    /\ r \in {"duplicate", "error"} => c \notin started'
    /\ r = "duplicate" => row'[EffectId(c)].state # "absent"
    /\ r = "cancelled" /\ c \in started'
       => row'[EffectId(c)].state \in {"committed", "indeterminate"}

LEMMA NewResults ==
    ASSUME OnceInv, NEW c \in Calls, UNCHANGED started,
           \A e \in EffectIds : Forward(e),
           \/ UNCHANGED result
           \/ \E r \in Results : Return(c, r) /\ Truth(c, r)
    PROVE  TruthfulResults' /\ result' \in [Calls -> Results]
  <1>1. ASSUME NEW d \in Calls PROVE Truth(d, result'[d])
    <2>1. CASE result'[d] = result[d]
      BY <2>1, IdType, OldResults DEF Truth
    <2>2. CASE \E r \in Results : Return(c, r) /\ Truth(c, r)
      <3>1. CASE d = c
        BY <2>2, <3>1 DEF Return, OnceInv, TypeOK
      <3>2. CASE d # c
        <4>1. result'[d] = result[d]
          BY <2>2, <3>2 DEF Return, OnceInv, TypeOK
        <4>2. QED
          BY <2>1, <4>1
      <3>3. QED
        BY <3>1, <3>2
    <2>3. QED
      BY <2>1, <2>2
  <1>2. TruthfulResults'
    BY <1>1 DEF Truth, TruthfulResults, State
  <1>3. result' \in [Calls -> Results]
    BY DEF OnceInv, TypeOK, Return
  <1>4. QED
    BY <1>2, <1>3

(* A step of call c that moves to pc q or returns r, with rows going        *)
(* forward, starts no handler and wins no reservation.                      *)
LEMMA CallStep ==
    ASSUME OnceInv, NEW c \in Calls, pc[c] # "done",
           UNCHANGED <<started, clock>>,
           cancelled' \subseteq Calls, again' \subseteq Calls,
           row' \in [EffectIds -> Row],
           \A e \in EffectIds : Forward(e),
           \/ \E r \in Results : Return(c, r) /\ Truth(c, r)
           \/ \E q \in PCs :
                /\ Goto(c, q)
                /\ q \in Owning => row'[EffectId(c)].state # "failed"
                /\ \/ /\ q \in Owning => pc[c] \in Owning
                      /\ q \notin {"start", "insert", "read", "release", "dispatch"}
                      /\ q \in {"handler", "commit"} => c \in started
                   \/ pc[c] = "start" /\ q = "insert"
                   \/ pc[c] = "insert" /\ q = "read" /\ State(c) # "absent",
           \A d \in Calls : d # c /\ pc[d] \in Owning => row'[EffectId(d)].state # "failed"
    PROVE  OnceInv'
  <1>1. TruthfulResults' /\ result' \in [Calls -> Results]
    BY NewResults DEF Goto
  <1>2. PICK q \in PCs : pc' = [pc EXCEPT ![c] = q]
    BY DEF Goto, Return, PCs
  <1>3. TypeOK'
    BY <1>1, <1>2 DEF OnceInv, TypeOK
  <1>4. \A d \in Calls : d # c => pc'[d] = pc[d]
    BY <1>2 DEF OnceInv, TypeOK
  <1>5. \/ pc'[c] = "done"
        \/ /\ pc'[c] \in Owning => pc[c] \in Owning
           /\ pc'[c] \in Owning => row'[EffectId(c)].state # "failed"
           /\ pc'[c] \notin {"start", "insert", "read", "release", "dispatch"}
           /\ pc'[c] \in {"handler", "commit"} => c \in started
        \/ pc[c] = "start" /\ pc'[c] = "insert"
        \/ pc[c] = "insert" /\ pc'[c] = "read" /\ State(c) # "absent"
    BY DEF Goto, Return, OnceInv, TypeOK
  <1>6. \A d \in Calls : pc'[d] \in Owning => row'[EffectId(d)].state # "failed"
    BY <1>4, <1>5 DEF Owning
  <1>7. Pending'
    <2>1. \A d \in Calls : d # c => result'[d] = result[d]
      BY DEF Goto, Return, OnceInv, TypeOK
    <2>2. pc'[c] = "done" \/ result'[c] = result[c]
      BY DEF Goto, Return, OnceInv, TypeOK
    <2>3. QED
      BY <1>4, <2>1, <2>2 DEF OnceInv, Pending
  <1>8. QED
    BY <1>1, <1>3, <1>4, <1>5, <1>6, <1>7, QuietStep DEF Owning

(* Steps that leave the table alone *)
LEMMA SameRow ==
    ASSUME OnceInv, UNCHANGED row
    PROVE  /\ row' \in [EffectIds -> Row]
           /\ \A e \in EffectIds : Forward(e)
           /\ \A d \in Calls : pc[d] \in Owning => row'[EffectId(d)].state # "failed"
  BY DEF OnceInv, TypeOK, Forward, OwnerRow, State

LEMMA LocalStep ==
    ASSUME OnceInv, NEW c \in Calls,
           \/ Begin(c) \/ ReserveConflict(c) \/ ReserveRead(c)
           \/ Forbidden(c) \/ HandlerReturns(c) \/ Interrupted(c)
    PROVE  OnceInv'
  <1>1. /\ UNCHANGED <<row, again, started, clock>>
        /\ cancelled' \subseteq Calls /\ again' \subseteq Calls /\ pc[c] # "done"
    BY DEF Begin, ReserveConflict, ReserveRead, Forbidden, HandlerReturns, Interrupted,
           OnceInv, TypeOK
  <1>2. /\ row' \in [EffectIds -> Row]
        /\ \A e \in EffectIds : Forward(e)
        /\ \A d \in Calls : pc[d] \in Owning => row'[EffectId(d)].state # "failed"
    BY <1>1, SameRow
  <1>3. \/ \E r \in Results : Return(c, r) /\ Truth(c, r)
        \/ \E q \in PCs :
             /\ Goto(c, q)
             /\ q \in Owning => row'[EffectId(c)].state # "failed"
             /\ \/ /\ q \in Owning => pc[c] \in Owning
                   /\ q \notin {"start", "insert", "read", "release", "dispatch"}
                   /\ q \in {"handler", "commit"} => c \in started
                \/ pc[c] = "start" /\ q = "insert"
                \/ pc[c] = "insert" /\ q = "read" /\ State(c) # "absent"
    <2>1. CASE Begin(c)
      <3>1. c \notin started /\ c \notin started'
        BY <1>1, <2>1 DEF Begin, OnceInv, StartedBy
      <3>2. CASE Goto(c, "insert")
        BY <2>1, <3>2 DEF Begin, PCs, Owning
      <3>3. CASE Return(c, "error") \/ Return(c, "cancelled")
        BY <3>1, <3>3 DEF Truth, Results
      <3>4. QED
        BY <2>1, <3>2, <3>3 DEF Begin
    <2>2. CASE ReserveConflict(c)
      BY <2>2 DEF ReserveConflict, PCs, Owning, State
    <2>3. CASE ReserveRead(c)
      <3>1. c \notin started' /\ row'[EffectId(c)].state = State(c)
        BY <1>1, <2>3 DEF ReserveRead, OnceInv, StartedBy, State
      <3>2. CASE Return(c, "cancelled")
        BY <3>1, <3>2 DEF Truth, Results
      <3>3. CASE Return(c, "duplicate")
        <4>1. State(c) # "absent"
          BY <2>3 DEF OnceInv, ReadRow, ReserveRead
        <4>2. QED
          BY <3>1, <3>3, <4>1 DEF Truth, Results
      <3>4. QED
        BY <2>3, <3>2, <3>3 DEF ReserveRead, AfterReserve
    <2>4. CASE Forbidden(c)
      BY <1>2, <2>4 DEF Forbidden, PCs, Owning
    <2>5. CASE HandlerReturns(c)
      BY <1>2, <2>5 DEF HandlerReturns, PCs, Owning, OnceInv, StartedBy
    <2>6. CASE Interrupted(c)
      BY <1>2, <2>6 DEF Interrupted, PCs, Owning
    <2>7. QED
      BY <2>1, <2>2, <2>3, <2>4, <2>5, <2>6
  <1>4. QED
    BY <1>1, <1>2, <1>3, CallStep

(* A transition by an owner leaves the rows of all other owners alone. *)
LEMMA OwnerTransition ==
    ASSUME OnceInv, NEW c \in Calls, pc[c] \in Owning,
           NEW to \in Settled, NEW error \in BOOLEAN, Transition(EffectId(c), to, error)
    PROVE  /\ row' \in [EffectIds -> Row]
           /\ \A e \in EffectIds : Forward(e)
           /\ \A d \in Calls : d # c /\ pc[d] \in Owning => row'[EffectId(d)].state # "failed"
           /\ row'[EffectId(c)].state = State(c) \/ row'[EffectId(c)].state = to
           /\ error = FALSE => row'[EffectId(c)].state = to
  <1>1. TypeOK /\ EffectId(c) \in EffectIds
    BY IdType DEF OnceInv
  <1>2. /\ row' \in [EffectIds -> Row]
        /\ \A f \in EffectIds : Forward(f)
        /\ \A f \in EffectIds : f # EffectId(c) => row'[f] = row[f]
        /\ row'[EffectId(c)].state = row[EffectId(c)].state \/ row'[EffectId(c)].state = to
        /\ error = FALSE => row'[EffectId(c)].state = to
    BY <1>1, TransitionFacts
  <1>3. ASSUME NEW d \in Calls, d # c, pc[d] \in Owning
        PROVE  row'[EffectId(d)].state # "failed"
    <2>1. EffectId(d) # EffectId(c) /\ EffectId(d) \in EffectIds
      BY <1>3, IdType DEF OnceInv, OneOwner
    <2>2. row'[EffectId(d)] = row[EffectId(d)]
      BY <1>2, <2>1
    <2>3. QED
      BY <1>3, <2>2 DEF OnceInv, OwnerRow, State
  <1>4. QED
    BY <1>2, <1>3 DEF State

(* fail("dispatch_cancelled") and fail("permission_denied") *)
LEMMA FailStep ==
    ASSUME OnceInv, NEW c \in Calls, NEW error \in BOOLEAN,
           Release(c, error) \/ Reject(c, error)
    PROVE  OnceInv'
  <1>1. /\ UNCHANGED <<cancelled, again, started, clock>>
        /\ cancelled' \subseteq Calls /\ again' \subseteq Calls
        /\ Transition(EffectId(c), "failed", error) /\ pc[c] \in Owning /\ pc[c] # "done"
    BY DEF Release, Reject, OnceInv, TypeOK, Owning
  <1>2. "failed" \in Settled
    BY DEF Settled
  <1>3. /\ row' \in [EffectIds -> Row]
        /\ \A e \in EffectIds : Forward(e)
        /\ \A d \in Calls : d # c /\ pc[d] \in Owning => row'[EffectId(d)].state # "failed"
        /\ error = FALSE => row'[EffectId(c)].state = "failed"
    BY <1>1, <1>2, OwnerTransition
  <1>4. \E r \in Results : Return(c, r) /\ Truth(c, r)
    <2>1. CASE error = TRUE
      <3>1. Return(c, "indeterminate")
        BY <2>1 DEF Release, Reject
      <3>2. QED
        BY <3>1 DEF Truth, Results
    <2>2. CASE error = FALSE /\ Release(c, error)
      <3>1. Return(c, "cancelled") /\ pc[c] = "release"
        BY <2>2 DEF Release
      <3>2. c \notin started'
        BY <1>1, <3>1 DEF OnceInv, StartedBy
      <3>3. QED
        BY <3>1, <3>2 DEF Truth, Results
    <2>3. CASE error = FALSE /\ Reject(c, error)
      <3>1. Return(c, "rejected")
        BY <2>3 DEF Reject
      <3>2. QED
        BY <1>3, <2>3, <3>1 DEF Truth, Results
    <2>4. QED
      BY <2>1, <2>2, <2>3
  <1>5. QED
    BY <1>1, <1>3, <1>4, CallStep

(* commit(): its failure and a late cancellation lead to the cleanup. *)
LEMMA CommitStep ==
    ASSUME OnceInv, NEW c \in Calls, NEW error \in BOOLEAN, Commit(c, error)
    PROVE  OnceInv'
  <1>1. /\ UNCHANGED <<cancelled, started, clock>>
        /\ cancelled' \subseteq Calls /\ again' \subseteq Calls
        /\ Transition(EffectId(c), "committed", error)
        /\ pc[c] \in Owning /\ pc[c] = "commit" /\ pc[c] # "done"
    BY DEF Commit, OnceInv, TypeOK, Owning
  <1>2. "committed" \in Settled
    BY DEF Settled
  <1>3. /\ row' \in [EffectIds -> Row]
        /\ \A e \in EffectIds : Forward(e)
        /\ \A d \in Calls : d # c /\ pc[d] \in Owning => row'[EffectId(d)].state # "failed"
        /\ row'[EffectId(c)].state = State(c) \/ row'[EffectId(c)].state = "committed"
        /\ error = FALSE => row'[EffectId(c)].state = "committed"
    BY <1>1, <1>2, OwnerTransition
  <1>4. CASE Goto(c, "look")
    <2>1. row'[EffectId(c)].state # "failed"
      BY <1>1, <1>3 DEF OnceInv, OwnerRow
    <2>2. "look" \in PCs /\ "look" \in Owning
      BY DEF PCs, Owning
    <2>3. QED
      BY <1>1, <1>3, <1>4, <2>1, <2>2, CallStep
  <1>5. CASE error = FALSE /\ Return(c, "output")
    <2>1. Truth(c, "output") /\ "output" \in Results
      BY <1>1, <1>3, <1>5 DEF Truth, Results, OnceInv, StartedBy
    <2>2. QED
      BY <1>1, <1>3, <1>5, <2>1, CallStep
  <1>6. QED
    BY <1>4, <1>5 DEF Commit

(* Both halves of _mark_indeterminate() *)
LEMMA CleanupStep ==
    ASSUME OnceInv, NEW c \in Calls, NEW error \in BOOLEAN,
           CleanupLook(c, error) \/ CleanupMark(c, error)
    PROVE  OnceInv'
  <1>1. /\ UNCHANGED <<started, clock>>
        /\ cancelled' \subseteq Calls /\ again' \subseteq Calls
        /\ pc[c] \in Owning /\ pc[c] # "done"
    BY DEF CleanupLook, CleanupMark, AfterCleanup, OnceInv, TypeOK, Owning
  <1>2. /\ row' \in [EffectIds -> Row]
        /\ \A e \in EffectIds : Forward(e)
        /\ \A d \in Calls : d # c /\ pc[d] \in Owning => row'[EffectId(d)].state # "failed"
        /\ row'[EffectId(c)].state # "failed"
        /\ CleanupMark(c, error) /\ error = FALSE => row'[EffectId(c)].state = "indeterminate"
    <2>1. CASE CleanupLook(c, error)
      <3>1. UNCHANGED row /\ pc[c] = "look"
        BY <2>1 DEF CleanupLook
      <3>2. ~CleanupMark(c, error)
        BY <3>1 DEF CleanupMark
      <3>3. QED
        BY <1>1, <3>1, <3>2, SameRow
    <2>2. CASE CleanupMark(c, error)
      <3>1. Transition(EffectId(c), "indeterminate", error) /\ "indeterminate" \in Settled
        BY <2>2 DEF CleanupMark, Settled
      <3>2. /\ row' \in [EffectIds -> Row]
            /\ \A e \in EffectIds : Forward(e)
            /\ \A d \in Calls : d # c /\ pc[d] \in Owning => row'[EffectId(d)].state # "failed"
            /\ row'[EffectId(c)].state = State(c) \/ row'[EffectId(c)].state = "indeterminate"
            /\ error = FALSE => row'[EffectId(c)].state = "indeterminate"
        BY <1>1, <3>1, OwnerTransition
      <3>3. QED
        BY <1>1, <3>2 DEF OnceInv, OwnerRow
    <2>3. QED
      BY <2>1, <2>2
  <1>3. CASE \E q \in {"look", "mark"} : Goto(c, q)
    <2>1. PICK q \in {"look", "mark"} : Goto(c, q)
      BY <1>3
    <2>2. /\ q \in PCs
          /\ q \notin {"start", "insert", "read", "release", "dispatch", "handler", "commit"}
      BY DEF PCs, Owning
    <2>3. QED
      BY <1>1, <1>2, <2>1, <2>2, CallStep
  <1>4. CASE Return(c, "indeterminate")
    <2>1. Truth(c, "indeterminate") /\ "indeterminate" \in Results
      BY DEF Truth, Results
    <2>2. QED
      BY <1>1, <1>2, <1>4, <2>1, CallStep
  <1>5. CASE error = FALSE /\ Return(c, "cancelled") /\ (pc[c] = "mark" \/ State(c) # "reserved")
    <2>1. row'[EffectId(c)].state \in {"committed", "indeterminate"}
      <3>1. CASE CleanupMark(c, error)
        BY <1>2, <1>5, <3>1
      <3>2. CASE CleanupLook(c, error)
        BY <1>1, <1>5, <3>2 DEF CleanupLook, OnceInv, OwnerRow, State
      <3>3. QED
        BY <3>1, <3>2
    <2>2. Truth(c, "cancelled") /\ "cancelled" \in Results
      BY <2>1 DEF Truth, Results
    <2>3. QED
      BY <1>1, <1>2, <1>5, <2>2, CallStep
  <1>6. QED
    <2>1. CASE CleanupLook(c, error)
      BY <1>3, <1>4, <1>5, <2>1 DEF CleanupLook, AfterCleanup, State
    <2>2. CASE CleanupMark(c, error)
      BY <1>3, <1>4, <1>5, <2>2 DEF CleanupMark, AfterCleanup
    <2>3. QED
      BY <2>1, <2>2

(* reserve() raised, perhaps after its commit. *)
LEMMA ReserveErrorStep ==
    ASSUME OnceInv, NEW c \in Calls, ReserveError(c)
    PROVE  OnceInv'
  <1>1. /\ UNCHANGED <<cancelled, again, started, clock>>
        /\ cancelled' \subseteq Calls /\ again' \subseteq Calls
        /\ pc[c] \in {"insert", "read"} /\ pc[c] # "done"
    BY DEF ReserveError, OnceInv, TypeOK
  <1>2. /\ row' \in [EffectIds -> Row]
        /\ \A e \in EffectIds : Forward(e)
        /\ \A d \in Calls : pc[d] \in Owning => row'[EffectId(d)].state # "failed"
    <2>1. CASE UNCHANGED row
      BY <2>1, SameRow
    <2>2. CASE Insert(EffectId(c))
      <3>1. TypeOK /\ EffectId(c) \in EffectIds
        BY IdType DEF OnceInv
      <3>2. /\ row' \in [EffectIds -> Row]
            /\ row'[EffectId(c)].state = "reserved"
            /\ \A f \in EffectIds : f # EffectId(c) => row'[f] = row[f]
            /\ \A f \in EffectIds : Forward(f)
        BY <2>2, <3>1, InsertFacts
      <3>3. QED
        BY <3>2, IdType DEF OnceInv, OwnerRow, State
    <2>3. QED
      BY <2>1, <2>2 DEF ReserveError
  <1>3. \E r \in Results : Return(c, r) /\ Truth(c, r)
    <2>1. c \notin started'
      BY <1>1 DEF OnceInv, StartedBy
    <2>2. Return(c, "cancelled") \/ Return(c, "error")
      BY DEF ReserveError
    <2>3. QED
      BY <2>1, <2>2 DEF Truth, Results
  <1>4. QED
    BY <1>1, <1>2, <1>3, CallStep

(* The winner of a reservation finds nobody else at work on the effect: an  *)
(* owner's row and the row of a started handler are never absent.           *)
LEMMA WinStep ==
    ASSUME OnceInv, NEW c \in Calls, ReserveInsert(c)
    PROVE  OnceInv'
  <1>1. TypeOK /\ EffectId(c) \in EffectIds /\ pc[c] = "insert"
    BY IdType DEF OnceInv, ReserveInsert
  <1>2. /\ row' \in [EffectIds -> Row]
        /\ row[EffectId(c)].state = "absent" /\ row'[EffectId(c)].state = "reserved"
        /\ \A f \in EffectIds : f # EffectId(c) => row'[f] = row[f]
        /\ \A f \in EffectIds : Forward(f)
    <2>1. Insert(EffectId(c))
      BY DEF ReserveInsert
    <2>2. QED
      BY <1>1, <2>1, InsertFacts
  <1>3. PICK q \in {"release", "dispatch"} : Goto(c, q)
    BY DEF ReserveInsert, AfterReserve
  <1>4. UNCHANGED <<result, cancelled, again, started, clock>>
    BY <1>3 DEF ReserveInsert, Goto
  <1>5. /\ pc' \in [Calls -> PCs] /\ pc'[c] = q
        /\ \A d \in Calls : d # c => pc'[d] = pc[d]
    BY <1>1, <1>3 DEF Goto, TypeOK, PCs, Owning
  <1>6. \A d \in Calls : pc[d] \in Owning => EffectId(d) # EffectId(c)
    BY <1>2 DEF OnceInv, OwnerRow, State
  <1>7. \A d \in started : EffectId(d) # EffectId(c)
    BY <1>2 DEF OnceInv, StartedRow, State
  <1>8. TypeOK'
    BY <1>1, <1>2, <1>4, <1>5 DEF TypeOK
  <1>9. OwnerRow'
    BY <1>2, <1>5, IdType DEF OnceInv, OwnerRow, State
  <1>10. OneOwner'
    BY <1>5, <1>6 DEF OnceInv, OneOwner
  <1>11. StartedRow'
    BY <1>2, <1>4, IdType DEF OnceInv, StartedRow, State, Forward, TypeOK
  <1>12. StartedBy'
    BY <1>4, <1>5, <1>7 DEF OnceInv, StartedBy
  <1>13. ReadRow'
    BY <1>2, <1>5, IdType DEF OnceInv, ReadRow, State, Forward
  <1>14. AtMostOnce'
    BY <1>4 DEF OnceInv, AtMostOnce
  <1>15. TruthfulResults'
    BY <1>2, <1>4, IdType, OldResults DEF TruthfulResults, State
  <1>16. Pending'
    BY <1>1, <1>4, <1>5 DEF OnceInv, Pending
  <1>17. QED
    BY <1>8, <1>9, <1>10, <1>11, <1>12, <1>13, <1>14, <1>15, <1>16 DEF OnceInv

(* Dispatch starts the first and only handler of the effect. *)
LEMMA DispatchStep ==
    ASSUME OnceInv, NEW c \in Calls, Dispatch(c)
    PROVE  OnceInv'
  <1>1. /\ pc[c] = "dispatch" /\ started' = started \cup {c}
        /\ UNCHANGED <<row, result, cancelled, again, clock>>
    BY DEF Dispatch, Goto
  <1>2. /\ pc' \in [Calls -> PCs] /\ pc'[c] = "handler"
        /\ \A d \in Calls : d # c => pc'[d] = pc[d]
    BY DEF Dispatch, Goto, OnceInv, TypeOK, PCs, Owning
  <1>3. \A d \in started : EffectId(d) # EffectId(c)
    BY <1>1 DEF OnceInv, StartedBy
  <1>4. TypeOK'
    BY <1>1, <1>2 DEF OnceInv, TypeOK
  <1>5. pc[c] \in Owning /\ \A d \in Calls : pc'[d] \in Owning <=> pc[d] \in Owning
    BY <1>1, <1>2 DEF Owning
  <1>6. OwnerRow' /\ OneOwner'
    BY <1>1, <1>5 DEF OnceInv, OwnerRow, OneOwner, State
  <1>7. StartedRow'
    BY <1>1, <1>5 DEF OnceInv, StartedRow, OwnerRow, State
  <1>8. StartedBy'
    <2>1. \A d \in Calls : d # c /\ pc[d] \in {"release", "dispatch"} => EffectId(d) # EffectId(c)
      BY <1>5 DEF OnceInv, OneOwner, Owning
    <2>2. QED
      BY <1>1, <1>2, <2>1 DEF OnceInv, StartedBy
  <1>9. ReadRow'
    BY <1>1, <1>2 DEF OnceInv, ReadRow, State
  <1>10. AtMostOnce'
    BY <1>1, <1>3 DEF OnceInv, AtMostOnce
  <1>11. Pending' /\ TruthfulResults'
    <2>1. result[c] = "none"
      BY <1>1 DEF OnceInv, Pending
    <2>2. QED
      BY <1>1, <1>2, <2>1 DEF OnceInv, Pending, TruthfulResults, State
  <1>12. QED
    BY <1>4, <1>6, <1>7, <1>8, <1>9, <1>10, <1>11 DEF OnceInv

-----------------------------------------------------------------------------
LEMMA InitOnce == Init => OnceInv
  <1> SUFFICES ASSUME Init PROVE OnceInv
    OBVIOUS
  <1>1. TypeOK
    BY DEF Init, TypeOK, EffectIds, Row, States, PCs, Results
  <1>2. OwnerRow /\ OneOwner /\ ReadRow /\ Pending
    BY DEF Init, OwnerRow, OneOwner, ReadRow, Pending, Owning
  <1>3. StartedRow /\ StartedBy /\ AtMostOnce /\ TruthfulResults
    BY DEF Init, StartedRow, StartedBy, AtMostOnce, TruthfulResults
  <1>4. QED
    BY <1>1, <1>2, <1>3 DEF OnceInv

LEMMA NextOnce == OnceInv /\ [Next]_vars => OnceInv'
  <1> SUFFICES ASSUME OnceInv, [Next]_vars PROVE OnceInv'
    OBVIOUS
  <1>1. ASSUME NEW c \in Calls, Execute(c) PROVE OnceInv'
    <2>1. CASE \/ Begin(c) \/ ReserveConflict(c) \/ ReserveRead(c)
               \/ Forbidden(c) \/ HandlerReturns(c) \/ Interrupted(c)
      BY <2>1, LocalStep
    <2>2. CASE ReserveInsert(c)
      BY <2>2, WinStep
    <2>3. CASE ReserveError(c)
      BY <2>3, ReserveErrorStep
    <2>4. CASE Dispatch(c)
      BY <2>4, DispatchStep
    <2>5. ASSUME NEW error \in BOOLEAN, Release(c, error) \/ Reject(c, error)
          PROVE  OnceInv'
      BY <2>5, FailStep
    <2>6. ASSUME NEW error \in BOOLEAN, Commit(c, error)
          PROVE  OnceInv'
      BY <2>6, CommitStep
    <2>7. ASSUME NEW error \in BOOLEAN, CleanupLook(c, error) \/ CleanupMark(c, error)
          PROVE  OnceInv'
      BY <2>7, CleanupStep
    <2>8. QED
      BY <1>1, <2>1, <2>2, <2>3, <2>4, <2>5, <2>6, <2>7 DEF Execute
  <1>2. CASE (\E c \in Calls : Cancel(c) \/ Crash(c)) \/ Tick
    BY <1>2, OutsideStep
  <1>3. CASE \/ \E e \in EffectIds, disposition \in Dispositions : Review(e, disposition)
             \/ \E cutoff \in 0 .. clock : RecoverStale(cutoff)
    BY <1>3, RowStep
  <1>4. CASE UNCHANGED vars
    BY <1>4 DEF vars, OnceInv, TypeOK, OwnerRow, OneOwner, StartedRow, StartedBy, ReadRow,
                Pending, AtMostOnce, TruthfulResults, State
  <1>5. QED
    BY <1>1, <1>2, <1>3, <1>4 DEF Next

(* The inductive invariant holds in every reachable state of the ledger and *)
(* its executors.                                                           *)
THEOREM OnceInvariant == Spec => []OnceInv
  BY InitOnce, NextOnce, PTL DEF Spec

(* Rows, program counters and results of execute() keep their types.        *)
THEOREM EffectTypes == Spec => []TypeOK
  <1>1. OnceInv => TypeOK
    BY DEF OnceInv
  <1>2. QED
    BY <1>1, OnceInvariant, PTL

(* reserve() lets at most one execute() call start the handler of an        *)
(* effect, however many processes, retries, crashes and lost answers.       *)
THEOREM EffectsAtMostOnce == Spec => []AtMostOnce
  <1>1. OnceInv => AtMostOnce
    BY DEF OnceInv
  <1>2. QED
    BY <1>1, OnceInvariant, PTL

(* What execute() returned or raised agrees with the tombstone, whatever    *)
(* transactions fail and whenever the call is cancelled.                    *)
THEOREM ResultsTruthful == Spec => []TruthfulResults
  <1>1. OnceInv => TruthfulResults
    BY DEF OnceInv
  <1>2. QED
    BY <1>1, OnceInvariant, PTL
-----------------------------------------------------------------------------
(* The refinement.  Two more facts tie the table to the history: a row that *)
(* is committed was run, and a row that does not exist has no review.       *)

Handlers(e) == {c \in started : EffectId(c) = e}

RowInv == \A e \in EffectIds : /\ row[e].state = "committed" => Handlers(e) # {}
                               /\ row[e].state = "absent" => row[e].review = "none"

(* The only effects that a step can have on the table and on the history. *)
Still == row' = row /\ started' = started
Claimed(e) == Insert(e) /\ started' = started
SettledBy(c, to) ==
    /\ row[EffectId(c)].state = "reserved" /\ row' = [row EXCEPT ![EffectId(c)].state = to]
    /\ started' = started
    /\ to = "committed" => c \in started

LedgerEffect ==
    \/ Still
    \/ \E e \in EffectIds : Claimed(e)
    \/ \E c \in Calls, to \in Settled : SettledBy(c, to)
    \/ \E c \in Calls : Dispatch(c)
    \/ \E e \in EffectIds, disposition \in Dispositions : Review(e, disposition)
    \/ \E cutoff \in 0 .. clock : RecoverStale(cutoff)

LEMMA ExecuteEffect ==
    ASSUME OnceInv, NEW c \in Calls, Execute(c)
    PROVE  LedgerEffect
  <1>1. EffectId(c) \in EffectIds
    BY IdType
  <1>2. CASE Begin(c) \/ ReserveConflict(c) \/ ReserveRead(c) \/ Forbidden(c)
             \/ HandlerReturns(c) \/ Interrupted(c)
    BY <1>2 DEF Begin, ReserveConflict, ReserveRead, Forbidden, HandlerReturns, Interrupted,
       LedgerEffect, Still
  <1>3. CASE ReserveInsert(c) \/ ReserveError(c)
    BY <1>1, <1>3 DEF ReserveInsert, ReserveError, LedgerEffect, Still, Claimed
  <1>4. CASE Dispatch(c)
    BY <1>4 DEF LedgerEffect
  <1>5. ASSUME NEW error \in BOOLEAN, NEW to \in Settled, Transition(EffectId(c), to, error),
               started' = started, to = "committed" => c \in started
        PROVE  LedgerEffect
    BY <1>5 DEF Transition, LedgerEffect, Still, SettledBy
  <1>6. ASSUME NEW error \in BOOLEAN, Release(c, error) \/ Reject(c, error) \/ CleanupMark(c, error)
        PROVE  LedgerEffect
    BY <1>5, <1>6 DEF Release, Reject, CleanupMark, Settled
  <1>7. ASSUME NEW error \in BOOLEAN, Commit(c, error) PROVE LedgerEffect
    <2>1. c \in started
      BY <1>7 DEF Commit, OnceInv, StartedBy
    <2>2. QED
      BY <1>5, <1>7, <2>1 DEF Commit, Settled
  <1>8. ASSUME NEW error \in BOOLEAN, CleanupLook(c, error) PROVE LedgerEffect
    BY <1>8 DEF CleanupLook, LedgerEffect, Still
  <1>9. QED
    BY <1>2, <1>3, <1>4, <1>6, <1>7, <1>8 DEF Execute

LEMMA NextEffect ==
    ASSUME OnceInv, [Next]_vars
    PROVE  LedgerEffect
  <1>1. CASE (\E c \in Calls : Cancel(c) \/ Crash(c)) \/ Tick \/ UNCHANGED vars
    <2>1. Still
      BY <1>1 DEF Cancel, Crash, Tick, vars, Still
    <2>2. QED
      BY <2>1 DEF LedgerEffect
  <1>2. CASE \/ \E e \in EffectIds, disposition \in Dispositions : Review(e, disposition)
             \/ \E cutoff \in 0 .. clock : RecoverStale(cutoff)
    BY <1>2 DEF LedgerEffect
  <1>3. QED
    BY <1>1, <1>2, ExecuteEffect DEF Next

(* The rows after each effect, field by field. *)
LEMMA ClaimedRow ==
    ASSUME TypeOK, RowInv, NEW e \in EffectIds, Claimed(e)
    PROVE  /\ row[e].state = "absent" /\ row'[e].state = "reserved"
           /\ row'[e].review = row[e].review
           /\ \A f \in EffectIds : f # e => row'[f] = row[f]
  BY DEF Claimed, Insert, TypeOK, RowInv

LEMMA SettledRow ==
    ASSUME TypeOK, NEW c \in Calls, NEW to \in Settled, SettledBy(c, to)
    PROVE  /\ row[EffectId(c)].state = "reserved" /\ row'[EffectId(c)].state = to
           /\ row'[EffectId(c)].review = row[EffectId(c)].review
           /\ \A f \in EffectIds : f # EffectId(c) => row'[f] = row[f]
  BY IdType DEF SettledBy, TypeOK, Row

LEMMA ReviewRow ==
    ASSUME TypeOK, NEW e \in EffectIds, NEW disposition \in Dispositions, Review(e, disposition)
    PROVE  /\ row[e].state = "indeterminate" /\ row[e].review = "none"
           /\ row'[e].review = disposition /\ row'[e].state = row[e].state
           /\ \A f \in EffectIds : f # e => row'[f] = row[f]
           /\ started' = started
  BY DEF Review, TypeOK, Row

Stale(cutoff) == {e \in EffectIds : row[e].state = "reserved" /\ row[e].at < cutoff}

LEMMA RecoverRow ==
    ASSUME TypeOK, NEW cutoff, RecoverStale(cutoff)
    PROVE  /\ \A e \in EffectIds : /\ row'[e].review = row[e].review
                                   /\ row'[e].state = IF e \in Stale(cutoff)
                                                      THEN "indeterminate" ELSE row[e].state
           /\ started' = started
  BY DEF RecoverStale, Recovered, TypeOK, Row, Stale

LEMMA RowInvStep ==
    ASSUME OnceInv, RowInv, LedgerEffect
    PROVE  RowInv'
  <1>1. TypeOK
    BY DEF OnceInv
  <1>2. ASSUME started' = started,
               \A e \in EffectIds :
                 /\ row'[e].state = "committed" => row[e].state = "committed" \/ Handlers(e) # {}
                 /\ row'[e].state = "absent" => row[e].state = "absent"
                 /\ row[e].state = "absent" => row'[e].review = row[e].review
        PROVE  RowInv'
    BY <1>2 DEF RowInv, Handlers
  <1>3. CASE Still
    BY <1>2, <1>3 DEF Still
  <1>4. ASSUME NEW e \in EffectIds, Claimed(e) PROVE RowInv'
    <2>1. started' = started
      BY <1>4 DEF Claimed
    <2>2. QED
      BY <1>1, <1>2, <1>4, <2>1, ClaimedRow
  <1>5. ASSUME NEW c \in Calls, NEW to \in Settled, SettledBy(c, to) PROVE RowInv'
    <2>1. started' = started /\ to # "absent" /\ (to = "committed" => Handlers(EffectId(c)) # {})
      BY <1>5 DEF SettledBy, Settled, Handlers
    <2>2. \A e \in EffectIds :
             /\ row'[e].state = "committed" => row[e].state = "committed" \/ Handlers(e) # {}
             /\ row'[e].state = "absent" => row[e].state = "absent"
             /\ row'[e].review = row[e].review
      BY <1>1, <1>5, <2>1, SettledRow
    <2>3. QED
      BY <1>2, <2>1, <2>2
  <1>6. ASSUME NEW c \in Calls, Dispatch(c) PROVE RowInv'
    BY <1>6 DEF Dispatch, RowInv, Handlers
  <1>7. ASSUME NEW e \in EffectIds, NEW disposition \in Dispositions, Review(e, disposition)
        PROVE  RowInv'
    BY <1>1, <1>2, <1>7, ReviewRow
  <1>8. ASSUME NEW cutoff \in 0 .. clock, RecoverStale(cutoff) PROVE RowInv'
    BY <1>1, <1>2, <1>8, RecoverRow
  <1>9. QED
    BY <1>3, <1>4, <1>5, <1>6, <1>7, <1>8 DEF LedgerEffect

LEMMA RowInvInit == Init => RowInv
  BY DEF Init, RowInv

(* The mapped variables of EffectOnce. *)
MState == [e \in EffectIds |-> row[e].state]
MRuns == [e \in EffectIds |-> Cardinality({c \in started : EffectId(c) = e})]
MReview == [e \in EffectIds |-> row[e].review]

(* The history holds no handler of an effect, or exactly one. *)
LEMMA RunCount ==
    ASSUME OnceInv, NEW e \in EffectIds
    PROVE  /\ Handlers(e) = {} => MRuns[e] = 0
           /\ Handlers(e) # {} => MRuns[e] = 1
  <1>1. MRuns[e] = Cardinality(Handlers(e))
    BY DEF MRuns, Handlers
  <1>2. ASSUME Handlers(e) # {} PROVE \E c : Handlers(e) = {c}
    BY <1>2 DEF Handlers, OnceInv, AtMostOnce
  <1>3. QED
    BY <1>1, <1>2, FS_EmptySet, FS_Singleton

LEMMA SameRuns ==
    ASSUME started' = started
    PROVE  MRuns' = MRuns
  BY DEF MRuns

LEMMA StillRefines ==
    ASSUME Still
    PROVE  UNCHANGED Once!ledger
  BY DEF Still, Once!ledger

LEMMA ClaimRefines ==
    ASSUME TypeOK, RowInv, NEW e \in EffectIds, Claimed(e)
    PROVE  Once!Claim(e)
  <1>1. MState[e] = "absent" /\ MState' = [MState EXCEPT ![e] = "reserved"]
    BY ClaimedRow DEF MState
  <1>2. MRuns' = MRuns /\ MReview' = MReview
    BY ClaimedRow, SameRuns DEF MReview, Claimed
  <1>3. QED
    BY <1>1, <1>2 DEF Once!Claim, MState, MRuns, MReview

LEMMA SettleRefines ==
    ASSUME OnceInv, NEW c \in Calls, NEW to \in Settled, SettledBy(c, to)
    PROVE  \E S \in SUBSET EffectIds : \E out \in [S -> Once!Outcomes] : Once!Settle(S, out)
  <1> DEFINE e == EffectId(c)
             S == {e}
             out == [f \in S |-> to]
  <1>1. TypeOK /\ e \in EffectIds
    BY IdType DEF OnceInv
  <1>2. S \in SUBSET EffectIds /\ out \in [S -> Once!Outcomes] /\ out[e] = to
    BY <1>1 DEF Once!Outcomes, Settled
  <1>3. /\ row[e].state = "reserved" /\ row'[e].state = to
        /\ row'[e].review = row[e].review
        /\ \A f \in EffectIds : f # e => row'[f] = row[f]
    BY <1>1, SettledRow
  <1>4. to = "committed" => MRuns[e] = 1
    BY <1>1, RunCount DEF SettledBy, Handlers
  <1>5. MState' = [f \in EffectIds |-> IF f \in S THEN out[f] ELSE MState[f]]
    BY <1>3 DEF MState
  <1>6. MRuns' = MRuns /\ MReview' = MReview /\ MState[e] = "reserved"
    BY <1>1, <1>3, SameRuns DEF MReview, SettledBy, MState
  <1>7. Once!Settle(S, out)
    BY <1>2, <1>4, <1>5, <1>6 DEF Once!Settle, MState, MRuns, MReview
  <1>8. QED
    BY <1>2, <1>7

LEMMA RecoverRefines ==
    ASSUME OnceInv, NEW cutoff, RecoverStale(cutoff)
    PROVE  \E S \in SUBSET EffectIds : \E out \in [S -> Once!Outcomes] : Once!Settle(S, out)
  <1> DEFINE S == Stale(cutoff)
             out == [f \in S |-> "indeterminate"]
  <1>1. TypeOK
    BY DEF OnceInv
  <1>2. S \in SUBSET EffectIds /\ out \in [S -> Once!Outcomes]
    BY DEF Once!Outcomes, Stale
  <1>3. \A f \in S : out[f] = "indeterminate" /\ MState[f] = "reserved"
    BY DEF Stale, MState
  <1>4. MState' = [f \in EffectIds |-> IF f \in S THEN out[f] ELSE MState[f]]
    BY <1>1, RecoverRow DEF MState
  <1>5. MRuns' = MRuns /\ MReview' = MReview
    BY <1>1, RecoverRow, SameRuns DEF MReview
  <1>6. \A f \in S : MState[f] = "reserved" /\ (out[f] = "committed" => MRuns[f] = 1)
    BY <1>3
  <1>7. Once!Settle(S, out)
    <2> HIDE DEF S, out
    <2>1. QED
      BY <1>4, <1>5, <1>6 DEF Once!Settle, MState, MRuns, MReview
  <1>8. QED
    <2> HIDE DEF S, out
    <2>1. QED
      BY <1>2, <1>7 DEF Once!Settle

LEMMA ReviewRefines ==
    ASSUME TypeOK, NEW e \in EffectIds, NEW disposition \in Dispositions, Review(e, disposition)
    PROVE  disposition \in Once!Verdicts /\ Once!Review(e, disposition)
  <1>1. MState[e] = "indeterminate" /\ MReview[e] = "none"
    BY ReviewRow DEF MState, MReview
  <1>2. MReview' = [MReview EXCEPT ![e] = disposition]
    BY ReviewRow DEF MReview
  <1>3. MState' = MState /\ MRuns' = MRuns
    BY ReviewRow, SameRuns DEF MState
  <1>4. QED
    BY <1>1, <1>2, <1>3 DEF Once!Review, Once!Verdicts, Dispositions, MState, MRuns, MReview

(* The winner that starts its handler is the first on its effect, and its   *)
(* row is reserved, or was recovered while it waited.                       *)
LEMMA DispatchRefines ==
    ASSUME OnceInv, RowInv, OnceInv', NEW c \in Calls, Dispatch(c)
    PROVE  Once!Dispatch(EffectId(c))
  <1> DEFINE e == EffectId(c)
  <1>1. e \in EffectIds /\ pc[c] = "dispatch" /\ started' = started \cup {c} /\ row' = row
    BY IdType DEF Dispatch
  <1>2. Handlers(e) = {}
    BY <1>1 DEF OnceInv, StartedBy, Handlers
  <1>3. MState[e] \in {"reserved", "indeterminate"}
    BY <1>1, <1>2 DEF OnceInv, OwnerRow, Owning, State, RowInv, MState
  <1>4. MRuns[e] = 0
    BY <1>1, <1>2, RunCount
  <1>5. MRuns' = [MRuns EXCEPT ![e] = 1]
    <2>1. ASSUME NEW f \in EffectIds, f # e
          PROVE  {d \in started' : EffectId(d) = f} = {d \in started : EffectId(d) = f}
      BY <1>1, <2>1
    <2>2. {d \in started' : EffectId(d) = e} = {c}
      BY <1>1, <1>2 DEF Handlers
    <2>3. Cardinality({c}) = 1
      BY FS_Singleton
    <2>4. QED
      BY <1>1, <2>1, <2>2, <2>3 DEF MRuns
  <1>6. MState' = MState /\ MReview' = MReview
    BY <1>1 DEF MState, MReview
  <1>7. QED
    BY <1>3, <1>4, <1>5, <1>6 DEF Once!Dispatch, MState, MRuns, MReview

(* Executors that race, crash, lose answers and are cancelled implement the *)
(* at-most-once promise: one claim, one dispatch at most and only under the *)
(* claim, one settlement, a commitment only of what ran, one review.        *)
THEOREM OnceImplemented == Spec => ImplementsOnce
  <1>1. Init => Once!Init
    <2> SUFFICES ASSUME Init PROVE Once!Init
      OBVIOUS
    <2>1. \A e \in EffectIds : row[e].state = "absent" /\ row[e].review = "none"
      BY DEF Init
    <2>2. \A e \in EffectIds : Cardinality({c \in started : EffectId(c) = e}) = 0
      <3>1. \A e \in EffectIds : {c \in started : EffectId(c) = e} = {}
        BY DEF Init
      <3>2. QED
        BY <3>1, FS_EmptySet
    <2>3. QED
      BY <2>1, <2>2 DEF Once!Init
  <1>2. OnceInv /\ RowInv /\ OnceInv' /\ [Next]_vars => [Once!Next]_(Once!ledger)
    <2> SUFFICES ASSUME OnceInv, RowInv, OnceInv', [Next]_vars
                 PROVE  [Once!Next]_(Once!ledger)
      OBVIOUS
    <2>1. LedgerEffect /\ TypeOK
      BY NextEffect DEF OnceInv
    <2>2. CASE Still
      BY <2>2, StillRefines
    <2>3. ASSUME NEW e \in EffectIds, Claimed(e) PROVE Once!Next
      BY <2>1, <2>3, ClaimRefines DEF Once!Next
    <2>4. ASSUME NEW c \in Calls, Dispatch(c) PROVE Once!Next
      BY <2>4, IdType, DispatchRefines DEF Once!Next
    <2>5. ASSUME NEW e \in EffectIds, NEW disposition \in Dispositions, Review(e, disposition)
          PROVE  Once!Next
      BY <2>1, <2>5, ReviewRefines DEF Once!Next
    <2>6. ASSUME NEW c \in Calls, NEW to \in Settled, SettledBy(c, to) PROVE Once!Next
      BY <2>6, SettleRefines DEF Once!Next
    <2>7. ASSUME NEW cutoff \in 0 .. clock, RecoverStale(cutoff) PROVE Once!Next
      BY <2>7, RecoverRefines DEF Once!Next
    <2>8. QED
      BY <2>1, <2>2, <2>3, <2>4, <2>5, <2>6, <2>7 DEF LedgerEffect
  <1>3. OnceInv /\ RowInv /\ [Next]_vars => RowInv'
    BY NextEffect, RowInvStep
  <1>4. QED
    BY <1>1, <1>2, <1>3, RowInvInit, OnceInvariant, PTL
    DEF Spec, ImplementsOnce, Once!Spec
=============================================================================
