--------------------------- MODULE ApprovalsProofs ---------------------------
(***************************************************************************)
(* Consent, finality and cleanup of Approvals, for every number of users,  *)
(* runs, batches and calls, every assignment of tool_call_ids, arguments   *)
(* and policies, every timeout and every delay of a clock reading.         *)
(***************************************************************************)
EXTENDS Approvals, TLAPS

-----------------------------------------------------------------------------
(* The invariant, in layers.  The first is local to a run: where its        *)
(* coroutine, its authorization task and its route may stand together.      *)

(* The coroutine stands inside the ASK branch of one call. *)
Asking == {"prepare", "prepared", "wait", "cleanup", "cancelling"}

InRange(r, x) == /\ x.batch \in 1 .. Len(Batches[r])
                 /\ x.pos \in 1 .. Len(Batches[r][x.batch])

(* x, y, z: the run, its task and its route *)
RunHolds(r, x, y, z) ==
    /\ x \in RunState /\ y \in TaskState /\ z \in Routes
    /\ x.batch >= 1 /\ x.pos >= 1
    /\ x.pc \in Asking => InRange(r, x) /\ Policy[Batches[r][x.batch][x.pos]] = "ask"
    /\ x.pc = "execute" => x.batch <= Len(Batches[r])
    /\ y.pc \in {"first", "poll", "done"} => x.pc = "wait"
    /\ y.pc = "cancelling" => /\ InRange(r, x)
                              /\ \/ x.pc = "ended"
                                 \/ x.pc = "cleanup" /\ x.outcome # "approved"
    /\ z # "open" => /\ x.pc \in {"prepare", "cleanup", "cancelling", "ended", "dead"}
                     /\ x.pc = "cleanup" => x.outcome # "approved"

ControlInv == \A r \in Runs : RunHolds(r, run[r], task[r], route[r])

TypedInv == TypeOK /\ ControlInv

-----------------------------------------------------------------------------
(* What one step does to the table.  A row is reserved, settled without a   *)
(* verdict, or decided; only the last is acknowledged to an owner.          *)

QuietMove(x, y) ==
    \/ y = x
    \/ /\ x.status = "pending"
       /\ \E s \in {"expired", "cancelled"}, t \in Nat : y = Settled(x, s, t)

QuietTable == /\ row' \in [Keys -> Row]
              /\ \A k \in Keys : QuietMove(row[k], row'[k])
              /\ answered' = answered

Decision(k, verdict, t) ==
    /\ row' \in [Keys -> Row]
    /\ row[k].status = "pending" /\ t < row[k].expires
    /\ row'[k] = Settled(row[k], verdict, t)
    /\ \A j \in Keys : j # k => QuietMove(row[j], row'[j])
    /\ answered' = answered \cup {[user |-> Owner[k[1]], key |-> k, verdict |-> verdict]}

(* prepare() inserts the row of the call at which run r stands. *)
Reservation(r) ==
    /\ row' \in [Keys -> Row]
    /\ run[r].pc = "prepare"
    /\ Prepare(r) \/ PrepareFails(r)
    /\ Key(r) \in Keys /\ row[Key(r)].status = "none"
    /\ row'[Key(r)].status = "pending" /\ row'[Key(r)].signature = Signature[Current(r)]
    /\ \A j \in Keys : j # Key(r) => row'[j] = row[j]
    /\ answered' = answered

TableEffect ==
    \/ QuietTable
    \/ \E r \in Runs : Reservation(r)
    \/ \E k \in Keys, verdict \in Verdicts, t \in Nat : Decision(k, verdict, t)

LEMMA SettledType ==
    ASSUME NEW x \in Row, NEW s \in Statuses, NEW t \in Nat
    PROVE  /\ Settled(x, s, t) \in Row
           /\ Settled(x, s, t).status = s
           /\ Settled(x, s, t).decided = t
           /\ Settled(x, s, t).signature = x.signature
           /\ Settled(x, s, t).expires = x.expires
  BY DEF Settled, Row

LEMMA StatusFacts ==
    /\ "pending" \in Statuses /\ "expired" \in Statuses /\ "cancelled" \in Statuses
    /\ Verdicts \subseteq Statuses
    /\ "pending" \notin Verdicts /\ "expired" \notin Verdicts /\ "cancelled" \notin Verdicts
    /\ "none" \notin Statuses
    /\ \A s \in Statuses : s \in Outcomes
  BY DEF Statuses, Verdicts, Outcomes

LEMMA KeyType ==
    ASSUME NEW r \in Runs, NEW x, InRange(r, x)
    PROVE  /\ Batches[r][x.batch][x.pos] \in Calls
           /\ <<r, Id[Batches[r][x.batch][x.pos]]>> \in Keys
           /\ Signature[Batches[r][x.batch][x.pos]] \in Signatures
  <1>1. Batches[r] \in Seq(Seq(Calls))
    BY ConstantTypes
  <1>2. Batches[r][x.batch] \in Seq(Calls)
    BY <1>1 DEF InRange
  <1>3. Batches[r][x.batch][x.pos] \in Calls
    BY <1>2 DEF InRange
  <1>4. QED
    BY <1>3, ConstantTypes DEF Keys

LEMMA ReadingType ==
    ASSUME TypeOK, NEW t \in Readings
    PROVE  t \in Nat
  BY DEF Readings, TypeOK

(* The UPDATE that persists expiry settles due rows as expired. *)
LEMMA ExpiredMoves ==
    ASSUME TypeOK, NEW K, NEW t \in Nat
    PROVE  /\ Expired(row, K, t) \in [Keys -> Row]
           /\ \A k \in Keys : QuietMove(row[k], Expired(row, K, t)[k])
           /\ \A k \in Keys : Expired(row, K, t)[k].status \in {"pending", "none"} \cup Verdicts
                                => Expired(row, K, t)[k] = row[k]
           /\ \A k \in Keys : Expired(row, K, t)[k].signature = row[k].signature
           /\ \A k \in Keys : Expired(row, K, t)[k].status = "none" <=> row[k].status = "none"
  <1>1. ASSUME NEW k \in Keys
        PROVE  /\ Expired(row, K, t)[k] \in Row
               /\ \/ Expired(row, K, t)[k] = row[k]
                  \/ /\ row[k].status = "pending"
                     /\ Expired(row, K, t)[k] = Settled(row[k], "expired", t)
                     /\ Expired(row, K, t)[k].status = "expired"
                     /\ Expired(row, K, t)[k].signature = row[k].signature
    <2>1. row[k] \in Row
      BY DEF TypeOK
    <2>2. /\ Settled(row[k], "expired", t) \in Row
          /\ Settled(row[k], "expired", t).status = "expired"
          /\ Settled(row[k], "expired", t).signature = row[k].signature
      BY <2>1, StatusFacts, SettledType
    <2>3. QED
      BY <2>1, <2>2 DEF Expired
  <1>2. Expired(row, K, t) \in [Keys -> Row]
    BY <1>1 DEF Expired
  <1>3. QED
    BY <1>1, <1>2, StatusFacts DEF QuietMove, Verdicts

LEMMA CancelOneMoves ==
    ASSUME TypeOK, NEW k \in Keys, NEW signature, NEW t \in Nat, CancelOne(k, signature, t)
    PROVE  /\ row' \in [Keys -> Row]
           /\ \A j \in Keys : QuietMove(row[j], row'[j])
           /\ ~(row'[k].status = "pending" /\ row'[k].signature = signature)
  <1>1. row \in [Keys -> Row] /\ row[k] \in Row
    BY DEF TypeOK
  <1>2. /\ Settled(row[k], "cancelled", t) \in Row
        /\ Settled(row[k], "cancelled", t).status = "cancelled"
    BY <1>1, StatusFacts, SettledType
  <1>3. QED
    BY <1>1, <1>2 DEF CancelOne, QuietMove

LEMMA CancelAllMoves ==
    ASSUME TypeOK, NEW r \in Runs, NEW t \in Nat, CancelAll(r, t)
    PROVE  /\ row' \in [Keys -> Row]
           /\ \A j \in Keys : QuietMove(row[j], row'[j])
           /\ \A i \in Ids : row'[<<r, i>>].status # "pending"
  <1>1. \A k \in Keys : /\ row[k] \in Row
                        /\ Settled(row[k], "cancelled", t) \in Row
                        /\ Settled(row[k], "cancelled", t).status = "cancelled"
    BY StatusFacts, SettledType DEF TypeOK
  <1>2. \A k \in Keys : row'[k] = IF k[1] = r /\ row[k].status = "pending"
                                  THEN Settled(row[k], "cancelled", t) ELSE row[k]
    BY DEF CancelAll
  <1>3. row' \in [Keys -> Row]
    BY <1>1 DEF CancelAll
  <1>4. \A i \in Ids : <<r, i>> \in Keys /\ <<r, i>>[1] = r
    BY DEF Keys
  <1>5. QED
    BY <1>1, <1>2, <1>3, <1>4 DEF QuietMove

LEMMA InsertMoves ==
    ASSUME TypeOK, NEW k \in Keys, NEW signature \in Signatures, NEW t \in Nat,
           Insert(k, signature, t)
    PROVE  /\ row' \in [Keys -> Row]
           /\ row[k].status = "none" /\ row'[k].status = "pending"
           /\ row'[k].signature = signature
           /\ \A j \in Keys : j # k => row'[j] = row[j]
  <1>1. PICK e \in Nat : e = t + ApprovalTicks
    BY ConstantTypes
  <1>2. [status |-> "pending", signature |-> signature, expires |-> e, decided |-> 0] \in Row
    BY StatusFacts DEF Row
  <1>3. QED
    BY <1>1, <1>2 DEF Insert, TypeOK

(* The decision of one live row, on top of an expiry or not. *)
LEMMA DecideMoves ==
    ASSUME TypeOK, NEW K, NEW t \in Nat, NEW k \in Keys, NEW verdict \in Verdicts,
           NEW rows, rows = row \/ rows = Expired(row, K, t),
           row' = DecideRow(rows, k, verdict, t),
           Acknowledge(Owner[k[1]], rows, k, verdict, t)
    PROVE  TableEffect
  <1>1. rows \in [Keys -> Row] /\ \A j \in Keys : QuietMove(row[j], rows[j])
    BY ExpiredMoves DEF QuietMove, TypeOK
  <1>2. CASE ~Live(rows[k], t)
    <2>1. QuietTable
      BY <1>1, <1>2 DEF DecideRow, Acknowledge, QuietTable
    <2>2. QED
      BY <2>1 DEF TableEffect
  <1>3. CASE Live(rows[k], t)
    <2>1. rows[k] = row[k]
      BY <1>3, ExpiredMoves DEF Live
    <2>2. row[k].status = "pending" /\ t < row[k].expires
      BY <1>3, <2>1 DEF Live, TypeOK, Row
    <2>3. Settled(row[k], verdict, t) \in Row
      BY StatusFacts, SettledType DEF TypeOK
    <2>4. row' = [rows EXCEPT ![k] = Settled(row[k], verdict, t)]
      BY <1>3, <2>1 DEF DecideRow
    <2>5. answered' = answered \cup {[user |-> Owner[k[1]], key |-> k, verdict |-> verdict]}
      BY <1>3 DEF Acknowledge
    <2>6. Decision(k, verdict, t)
      BY <1>1, <2>2, <2>3, <2>4, <2>5 DEF Decision
    <2>7. QED
      BY <2>6 DEF TableEffect
  <1>4. QED
    BY <1>2, <1>3

-----------------------------------------------------------------------------
(* The table effect of each action. *)

LEMMA SameTable ==
    ASSUME TypeOK, row' = row, answered' = answered
    PROVE  QuietTable
  BY DEF QuietTable, QuietMove, TypeOK

LEMMA CurrentType ==
    ASSUME TypedInv, NEW r \in Runs,
           run[r].pc \in Asking \/ task[r].pc \in {"first", "poll", "done", "cancelling"}
    PROVE  /\ InRange(r, run[r])
           /\ Current(r) \in Calls /\ Key(r) \in Keys
           /\ Signature[Current(r)] \in Signatures
           /\ Key(r) = <<r, Id[Current(r)]>>
  <1>1. RunHolds(r, run[r], task[r], route[r])
    BY DEF TypedInv, ControlInv
  <1>2. InRange(r, run[r])
    BY <1>1 DEF RunHolds, Asking
  <1>3. QED
    BY <1>2, KeyType DEF Current, Batch, Key

LEMMA PrepareTable ==
    ASSUME TypedInv, NEW r \in Runs, Prepare(r) \/ PrepareFails(r)
    PROVE  QuietTable \/ Reservation(r)
  <1>1. run[r].pc = "prepare" /\ answered' = answered
    BY DEF Prepare, PrepareFails, At
  <1>2. Key(r) \in Keys /\ Signature[Current(r)] \in Signatures
    BY <1>1, CurrentType DEF Asking
  <1>3. CASE row' = row
    BY <1>1, <1>3, SameTable DEF TypedInv
  <1>4. ASSUME NEW t \in Readings, Insert(Key(r), Signature[Current(r)], t)
        PROVE  Reservation(r)
    <2>1. t \in Nat
      BY ReadingType DEF TypedInv
    <2>2. QED
      BY <1>1, <1>2, <1>4, <2>1, InsertMoves DEF TypedInv, Reservation
  <1>5. QED
    BY <1>3, <1>4 DEF Prepare, PrepareFails

LEMMA CancelOneTable ==
    ASSUME TypedInv, NEW r \in Runs, answered' = answered,
           run[r].pc \in Asking \/ task[r].pc = "cancelling",
           \/ row' = row
           \/ \E t \in Readings : CancelOne(Key(r), Signature[Current(r)], t)
    PROVE  QuietTable
  <1>1. Key(r) \in Keys
    BY CurrentType
  <1>2. CASE row' = row
    BY <1>2, SameTable DEF TypedInv
  <1>3. ASSUME NEW t \in Readings, CancelOne(Key(r), Signature[Current(r)], t)
        PROVE  QuietTable
    <2>1. t \in Nat
      BY ReadingType DEF TypedInv
    <2>2. QED
      BY <1>1, <1>3, <2>1, CancelOneMoves DEF TypedInv, QuietTable
  <1>4. QED
    BY <1>2, <1>3

LEMMA EngineTable ==
    ASSUME TypedInv, NEW r \in Runs, Engine(r)
    PROVE  TableEffect
  <1>1. ASSUME Prepare(r) \/ PrepareFails(r) PROVE TableEffect
    BY <1>1, PrepareTable DEF TableEffect
  <1>2. ASSUME Cleanup(r) \/ CancelAndEnd(r) PROVE QuietTable
    <2>1. run[r].pc \in Asking /\ answered' = answered
      BY <1>2 DEF Cleanup, CancelAndEnd, At, Asking
    <2>2. row' = row \/ \E t \in Readings : CancelOne(Key(r), Signature[Current(r)], t)
      BY <1>2 DEF Cleanup, CancelAndEnd
    <2>3. QED
      BY <2>1, <2>2, CancelOneTable
  <1>3. ASSUME Start(r) \/ BatchPrepared(r) \/ Evaluate(r) \/ Refuse(r) \/ PreparedTooLate(r)
               \/ Announce(r) \/ AnnounceFails(r) \/ Decided(r) \/ WaitTimeout(r) \/ Execute(r)
        PROVE  row' = row /\ answered' = answered
    BY <1>3 DEF Start, BatchPrepared, Evaluate, Refuse, PreparedTooLate, Announce,
       AnnounceFails, Decided, WaitTimeout, Execute
  <1>4. QED
    BY <1>1, <1>2, <1>3, SameTable DEF Engine, TypedInv, TableEffect

LEMMA PollTable ==
    ASSUME TypedInv, NEW r \in Runs, Poll(r)
    PROVE  QuietTable
  <1>1. task[r].pc \in {"first", "poll"} /\ answered' = answered
    BY DEF Poll
  <1>2. row[Key(r)].expires \in Nat
    BY <1>1, CurrentType DEF TypedInv, TypeOK, Row
  <1>3. PICK t \in Nat : row' = Expired(row, IF Matching(r) THEN {Key(r)} ELSE {}, t)
    BY <1>2, ReadingType DEF Poll, TypedInv
  <1>4. QED
    BY <1>1, <1>3, ExpiredMoves DEF TypedInv, QuietTable

LEMMA BrokerTable ==
    ASSUME TypedInv, NEW r \in Runs, Broker(r)
    PROVE  QuietTable
  <1>1. CASE Poll(r)
    BY <1>1, PollTable
  <1>2. CASE PollFails(r)
    BY <1>2, SameTable DEF PollFails, TypedInv
  <1>3. CASE TaskCancelled(r)
    BY <1>3, CancelOneTable DEF TaskCancelled
  <1>4. QED
    BY <1>1, <1>2, <1>3 DEF Broker

LEMMA InterruptedTable ==
    ASSUME TypedInv, NEW r \in Runs, Interrupted(r)
    PROVE  QuietTable
  <1>1. answered' = answered
    BY DEF Interrupted
  <1>2. CASE row' = row
    BY <1>1, <1>2, SameTable DEF TypedInv
  <1>3. CASE /\ run[r].pc \in {"cleanup", "cancelling"}
             /\ \E t \in Readings : CancelOne(Key(r), Signature[Current(r)], t)
    BY <1>1, <1>3, CancelOneTable DEF Asking
  <1>4. QED
    BY <1>2, <1>3 DEF Interrupted

LEMMA CancelRunTable ==
    ASSUME TypedInv, NEW r \in Runs, CancelRun(r)
    PROVE  QuietTable
  <1>1. answered' = answered
    BY DEF CancelRun
  <1>2. CASE row' = row
    BY <1>1, <1>2, SameTable DEF TypedInv
  <1>3. ASSUME NEW t \in Readings, CancelAll(r, t) PROVE QuietTable
    <2>1. t \in Nat
      BY ReadingType DEF TypedInv
    <2>2. QED
      BY <1>1, <1>3, <2>1, CancelAllMoves DEF TypedInv, QuietTable
  <1>4. QED
    BY <1>2, <1>3 DEF CancelRun

LEMMA DecidersTable ==
    ASSUME TypedInv, Deciders
    PROVE  TableEffect
  <1>1. PICK u \in Users, k \in Keys, verdict \in Verdicts, t \in Readings :
          \/ DecideExact(u, k, verdict, t)
          \/ DecideById(u, k, verdict, t)
          \/ DecideUnique(u, k, verdict, t)
    BY DEF Deciders
  <1>2. t \in Nat /\ TypeOK
    BY ReadingType DEF TypedInv
  <1>3. Owner[k[1]] = u
    BY <1>1 DEF DecideExact, DecideById, DecideUnique
  <1>4. CASE DecideExact(u, k, verdict, t)
    <2>1. PICK rows : rows = Expired(row, {k}, t)
      OBVIOUS
    <2>2. /\ row' = DecideRow(rows, k, verdict, t)
          /\ Acknowledge(Owner[k[1]], rows, k, verdict, t)
      BY <1>3, <1>4, <2>1 DEF DecideExact
    <2>3. QED
      BY <1>2, <2>1, <2>2, DecideMoves
  <1>5. CASE DecideById(u, k, verdict, t)
    <2>1. /\ row' = DecideRow(row, k, verdict, t)
          /\ Acknowledge(Owner[k[1]], row, k, verdict, t)
      BY <1>3, <1>5 DEF DecideById
    <2>2. QED
      BY <1>2, <2>1, DecideMoves
  <1>6. CASE DecideUnique(u, k, verdict, t)
    <2>1. PICK rows : rows = Expired(row, OfOwner(u, k[2]), t)
      OBVIOUS
    <2>2. \/ /\ row' = DecideRow(rows, k, verdict, t)
             /\ Acknowledge(Owner[k[1]], rows, k, verdict, t)
          \/ row' = rows /\ answered' = answered
      BY <1>3, <1>6, <2>1 DEF DecideUnique
    <2>3. CASE row' = rows /\ answered' = answered
      BY <1>2, <2>1, <2>3, ExpiredMoves DEF TableEffect, QuietTable
    <2>4. CASE /\ row' = DecideRow(rows, k, verdict, t)
               /\ Acknowledge(Owner[k[1]], rows, k, verdict, t)
      BY <1>2, <2>1, <2>4, DecideMoves
    <2>5. QED
      BY <2>2, <2>3, <2>4
  <1>7. QED
    BY <1>1, <1>4, <1>5, <1>6

LEMMA LookupsTable ==
    ASSUME TypedInv, Lookups
    PROVE  QuietTable
  <1>1. PICK t \in Readings : \E K : Lookup(K, t)
    BY DEF Lookups
  <1>2. PICK K : Lookup(K, t)
    BY <1>1
  <1>3. t \in Nat
    BY ReadingType DEF TypedInv
  <1>4. QED
    BY <1>2, <1>3, ExpiredMoves DEF TypedInv, Lookup, QuietTable

LEMMA NextTable ==
    ASSUME TypedInv, [Next]_vars
    PROVE  TableEffect
  <1>1. CASE UNCHANGED vars
    BY <1>1, SameTable DEF vars, TypedInv, TableEffect
  <1>2. ASSUME NEW r \in Runs,
               Engine(r) \/ Broker(r) \/ CancelRun(r) \/ Disconnect(r) \/ DeadlineFires(r)
        PROVE  TableEffect
    BY <1>2, EngineTable, BrokerTable, CancelRunTable, InterruptedTable
    DEF Disconnect, DeadlineFires, TableEffect
  <1>3. ASSUME NEW r \in Runs, Crash(r) PROVE TableEffect
    BY <1>3, SameTable DEF Crash, TypedInv, TableEffect
  <1>4. CASE Deciders
    BY <1>4, DecidersTable
  <1>5. CASE Lookups
    BY <1>5, LookupsTable DEF TableEffect
  <1>6. CASE Tick
    BY <1>6, SameTable DEF Tick, TypedInv, TableEffect
  <1>7. QED
    BY <1>1, <1>2, <1>3, <1>4, <1>5, <1>6 DEF Next

-----------------------------------------------------------------------------
(* The control of one run.  An action of run r leaves the other runs, their *)
(* tasks and their routes alone.                                            *)

OthersStay(r) ==
    /\ run' \in [Runs -> RunState] /\ task' \in [Runs -> TaskState] /\ route' \in [Runs -> Routes]
    /\ \A s \in Runs : s # r => run'[s] = run[s] /\ task'[s] = task[s] /\ route'[s] = route[s]

(* r's coroutine, task and route become x, y and z. *)
LEMMA RunUpdate ==
    ASSUME TypedInv, NEW r \in Runs, NEW x, NEW y, NEW z,
           run' = [run EXCEPT ![r] = x],
           task' = [task EXCEPT ![r] = y],
           route' = [route EXCEPT ![r] = z],
           RunHolds(r, x, y, z)
    PROVE  OthersStay(r) /\ RunHolds(r, run'[r], task'[r], route'[r])
  <1>1. /\ run \in [Runs -> RunState] /\ task \in [Runs -> TaskState]
        /\ route \in [Runs -> Routes]
    BY DEF TypedInv, TypeOK
  <1>2. x \in RunState /\ y \in TaskState /\ z \in Routes
    BY DEF RunHolds
  <1>3. run'[r] = x /\ task'[r] = y /\ route'[r] = z
    BY <1>1
  <1>4. OthersStay(r)
    BY <1>1, <1>2 DEF OthersStay
  <1>5. QED
    BY <1>3, <1>4

(* The part that stays is written as an update by itself. *)
LEMMA StayUpdate ==
    ASSUME TypedInv, NEW r \in Runs
    PROVE  /\ run = [run EXCEPT ![r] = run[r]]
           /\ task = [task EXCEPT ![r] = task[r]]
           /\ route = [route EXCEPT ![r] = route[r]]
  BY DEF TypedInv, TypeOK

NoTask == [pc |-> "none", result |-> "none"]

LEMMA TaskTypes ==
    /\ NoTask \in TaskState /\ NoTask.pc = "none"
    /\ \A x \in TaskState : /\ Detached(x) \in TaskState
                            /\ Detached(x).pc \in {"none", "cancelling"}
  BY DEF NoTask, TaskState, TaskPCs, Outcomes, Detached

LEMMA Here ==
    ASSUME TypedInv, NEW r \in Runs
    PROVE  /\ RunHolds(r, run[r], task[r], route[r])
           /\ run[r] \in RunState /\ task[r] \in TaskState /\ route[r] \in Routes
           /\ run[r].batch \in Nat /\ run[r].pos \in Nat /\ run[r].started \in Nat
           /\ now \in Nat
  BY DEF TypedInv, TypeOK, ControlInv, RunState

(* The route's finally block starts when the coroutine ends. *)
Closing(z) == IF z = "open" THEN "closing" ELSE z

LEMMA ClosingType == \A z \in Routes : Closing(z) \in Routes /\ Closing(z) # "open"
  BY DEF Closing, Routes

(* A coroutine that ends where it stands, outside the wait. *)
LEMMA EndHolds ==
    ASSUME NEW r \in Runs, NEW x, NEW y, NEW z, NEW e,
           RunHolds(r, x, y, z), x.pc # "wait",
           e \in RunState, e.pc = "ended", e.batch = x.batch, e.pos = x.pos
    PROVE  RunHolds(r, e, y, Closing(z))
  <1>1. y.pc \notin {"first", "poll", "done"}
    BY DEF RunHolds
  <1>2. y.pc = "cancelling" => InRange(r, e)
    BY DEF RunHolds, InRange
  <1>3. QED
    BY <1>1, <1>2, ClosingType DEF RunHolds, Asking

LEMMA StartControl ==
    ASSUME TypedInv, NEW r \in Runs, Start(r)
    PROVE  OthersStay(r) /\ RunHolds(r, run'[r], task'[r], route'[r])
  <1> DEFINE x == [run[r] EXCEPT !.pc = "batch", !.started = now]
  <1>1. x \in RunState /\ x.pc = "batch" /\ x.batch = run[r].batch /\ x.pos = run[r].pos
    BY Here DEF RunState, RunPCs
  <1>2. run' = [run EXCEPT ![r] = x] /\ task' = task /\ route' = route
    BY Here DEF Start
  <1> HIDE DEF x
  <1>3. RunHolds(r, x, task[r], route[r])
    BY <1>1, Here DEF Start, At, RunHolds, Asking
  <1>4. QED
    BY <1>2, <1>3, RunUpdate, StayUpdate

LEMMA BatchPreparedControl ==
    ASSUME TypedInv, NEW r \in Runs, BatchPrepared(r)
    PROVE  OthersStay(r) /\ RunHolds(r, run'[r], task'[r], route'[r])
  <1> DEFINE x == [run[r] EXCEPT !.pc = "execute", !.pos = 1]
  <1>1. x \in RunState /\ x.pc = "execute" /\ x.batch = run[r].batch /\ x.pos = 1
    BY Here DEF RunState, RunPCs
  <1>2. run' = [run EXCEPT ![r] = x] /\ task' = task /\ route' = route
    BY Here DEF BatchPrepared
  <1> HIDE DEF x
  <1>3. RunHolds(r, x, task[r], route[r])
    BY <1>1, Here DEF BatchPrepared, At, RunHolds, Asking
  <1>4. QED
    BY <1>2, <1>3, RunUpdate, StayUpdate

LEMMA EvaluateControl ==
    ASSUME TypedInv, NEW r \in Runs, Evaluate(r)
    PROVE  OthersStay(r) /\ RunHolds(r, run'[r], task'[r], route'[r])
  <1>1. /\ run[r].pc = "batch" /\ task' = task /\ route' = route
        /\ InRange(r, run[r])
    <2>1. Len(Batches[r]) \in Nat /\ run[r].batch >= 1 /\ run[r].pos >= 1
      BY Here, ConstantTypes DEF RunHolds
    <2>2. run[r].batch \in 1 .. Len(Batches[r])
      BY <2>1, Here DEF Evaluate
    <2>3. Batches[r] \in Seq(Seq(Calls))
      BY ConstantTypes
    <2>4. Batches[r][run[r].batch] \in Seq(Calls)
      BY <2>2, <2>3
    <2>5. Len(Batches[r][run[r].batch]) \in Nat
      BY <2>4
    <2>6. QED
      BY <2>1, <2>2, <2>5, Here DEF Evaluate, At, InRange, Batch
  <1>2. CASE Duplicate(r) \/ Policy[Current(r)] = "allow"
    <2> DEFINE x == [run[r] EXCEPT !.pos = run[r].pos + 1]
    <2>0. PICK n \in Nat : n = run[r].pos + 1 /\ n >= 1
      BY Here
    <2>1. x \in RunState /\ x.pc = "batch" /\ x.batch = run[r].batch /\ x.pos = n
      BY <1>1, <2>0, Here DEF RunState
    <2>2. run' = [run EXCEPT ![r] = x]
      BY <1>2, Here DEF Evaluate
    <2> HIDE DEF x
    <2>3. RunHolds(r, x, task[r], route[r])
      BY <1>1, <2>0, <2>1, Here DEF RunHolds, Asking
    <2>4. QED
      BY <1>1, <2>2, <2>3, RunUpdate, StayUpdate
  <1>3. CASE ~(Duplicate(r) \/ Policy[Current(r)] = "allow")
    <2> DEFINE x == [run[r] EXCEPT !.pc = "prepare"]
    <2>1. x \in RunState /\ x.pc = "prepare" /\ x.batch = run[r].batch /\ x.pos = run[r].pos
      BY Here DEF RunState, RunPCs
    <2>2. run' = [run EXCEPT ![r] = x]
      BY <1>3, Here DEF Evaluate
    <2>3. Policy[Current(r)] = "ask"
      <3>1. Current(r) \in Calls
        BY <1>1, KeyType DEF Current, Batch
      <3>2. Policy[Current(r)] \in {"allow", "ask", "deny"}
        BY <3>1, ConstantTypes
      <3>3. QED
        BY <1>3, <3>2 DEF Evaluate
    <2> HIDE DEF x
    <2>4. RunHolds(r, x, task[r], route[r])
      BY <1>1, <2>1, <2>3, Here DEF RunHolds, Asking, InRange, Current, Batch
    <2>5. QED
      BY <1>1, <2>2, <2>4, RunUpdate, StayUpdate
  <1>4. QED
    BY <1>2, <1>3

(* The exits of the coroutine outside the wait. *)
LEMMA EndControl ==
    ASSUME TypedInv, NEW r \in Runs, NEW c \in {"good", "failed"},
           run[r].pc # "wait", task' = task,
           run' = [run EXCEPT ![r] = [run[r] EXCEPT !.pc = "ended", !.cleanup = c]],
           route' = [route EXCEPT ![r] = Closing(route[r])]
    PROVE  OthersStay(r) /\ RunHolds(r, run'[r], task'[r], route'[r])
  <1> DEFINE x == [run[r] EXCEPT !.pc = "ended", !.cleanup = c]
  <1>1. x \in RunState /\ x.pc = "ended" /\ x.batch = run[r].batch /\ x.pos = run[r].pos
    BY Here DEF RunState, RunPCs
  <1> HIDE DEF x
  <1>2. RunHolds(r, x, task[r], Closing(route[r]))
    BY <1>1, Here, EndHolds
  <1>3. run' = [run EXCEPT ![r] = x]
    BY DEF x
  <1>4. QED
    BY <1>2, <1>3, RunUpdate, StayUpdate

(* End(r) as such an exit: it leaves the cleanup flag as it is. *)
LEMMA EndIsExit ==
    ASSUME TypedInv, NEW r \in Runs, End(r)
    PROVE  /\ run[r].cleanup \in {"good", "failed"}
           /\ run' = [run EXCEPT ![r] = [run[r] EXCEPT !.pc = "ended",
                                                       !.cleanup = run[r].cleanup]]
           /\ route' = [route EXCEPT ![r] = Closing(route[r])]
  <1>1. run[r] \in RunState /\ run[r].cleanup \in {"good", "failed"}
    BY Here DEF RunState
  <1>2. [run[r] EXCEPT !.pc = "ended"]
          = [run[r] EXCEPT !.pc = "ended", !.cleanup = run[r].cleanup]
    BY <1>1 DEF RunState
  <1>3. run' = [run EXCEPT ![r] = [run[r] EXCEPT !.pc = "ended"]]
    BY DEF End
  <1>4. QED
    BY <1>1, <1>2, <1>3 DEF End, Closing

LEMMA ExitControl ==
    ASSUME TypedInv, NEW r \in Runs, Refuse(r) \/ PreparedTooLate(r)
    PROVE  OthersStay(r) /\ RunHolds(r, run'[r], task'[r], route'[r])
  <1>1. End(r) /\ task' = task /\ run[r].pc # "wait"
    BY DEF Refuse, PreparedTooLate, At
  <1>2. QED
    BY <1>1, EndIsExit, EndControl

(* Moves between the places of the ASK branch. *)
LEMMA GotoControl ==
    ASSUME TypedInv, NEW r \in Runs, NEW pc,
           \/ pc = "prepared" /\ run[r].pc = "prepare" /\ route[r] = "open"
           \/ pc = "cancelling" /\ run[r].pc \in {"prepare", "prepared"},
           NEW z \in {route[r], "closing"},
           Goto(r, pc), task' = task, route' = [route EXCEPT ![r] = z],
           z = "closing" => pc = "cancelling"
    PROVE  OthersStay(r) /\ RunHolds(r, run'[r], task'[r], route'[r])
  <1> DEFINE x == [run[r] EXCEPT !.pc = pc]
  <1>1. x \in RunState /\ x.pc = pc /\ x.batch = run[r].batch /\ x.pos = run[r].pos
    BY Here DEF RunState, RunPCs
  <1>2. run' = [run EXCEPT ![r] = x]
    BY DEF Goto
  <1> HIDE DEF x
  <1>3. RunHolds(r, x, task[r], z)
    BY <1>1, Here DEF RunHolds, Asking, InRange, Routes
  <1>4. QED
    BY <1>2, <1>3, RunUpdate, StayUpdate

LEMMA PrepareControl ==
    ASSUME TypedInv, NEW r \in Runs, Prepare(r) \/ PrepareFails(r) \/ AnnounceFails(r)
    PROVE  OthersStay(r) /\ RunHolds(r, run'[r], task'[r], route'[r])
  <1>1. task' = task /\ route' = [route EXCEPT ![r] = route[r]]
    BY StayUpdate DEF Prepare, PrepareFails, AnnounceFails
  <1>2. CASE Prepare(r)
    BY <1>1, <1>2, GotoControl DEF Prepare, At
  <1>3. CASE PrepareFails(r)
    BY <1>1, <1>3, GotoControl DEF PrepareFails, At
  <1>4. CASE AnnounceFails(r)
    BY <1>1, <1>4, GotoControl DEF AnnounceFails, At
  <1>5. QED
    BY <1>2, <1>3, <1>4

LEMMA AnnounceControl ==
    ASSUME TypedInv, NEW r \in Runs, Announce(r)
    PROVE  OthersStay(r) /\ RunHolds(r, run'[r], task'[r], route'[r])
  <1>1. PICK n \in Nat : n = MinOf(run[r].started + RunTicks, now + ApprovalTicks)
    BY Here, ConstantTypes DEF MinOf
  <1> DEFINE x == [run[r] EXCEPT !.pc = "wait", !.timer = n]
             y == [pc |-> "first", result |-> "none"]
  <1>2. x \in RunState /\ x.pc = "wait" /\ x.batch = run[r].batch /\ x.pos = run[r].pos
    BY Here DEF RunState, RunPCs
  <1>3. y \in TaskState /\ y.pc = "first"
    BY DEF TaskState, TaskPCs, Outcomes
  <1>4. run' = [run EXCEPT ![r] = x] /\ task' = [task EXCEPT ![r] = y] /\ route' = route
    BY <1>1, Here DEF Announce
  <1> HIDE DEF x, y
  <1>5. RunHolds(r, x, y, route[r])
    BY <1>2, <1>3, Here DEF Announce, At, RunHolds, Asking, InRange
  <1>6. QED
    BY <1>4, <1>5, RunUpdate, StayUpdate

LEMMA DecidedControl ==
    ASSUME TypedInv, NEW r \in Runs, Decided(r)
    PROVE  OthersStay(r) /\ RunHolds(r, run'[r], task'[r], route'[r])
  <1> DEFINE x == [run[r] EXCEPT !.pc = "cleanup", !.outcome = task[r].result]
  <1>1. x \in RunState /\ x.pc = "cleanup" /\ x.batch = run[r].batch /\ x.pos = run[r].pos
    BY Here DEF RunState, RunPCs, TaskState
  <1>2. run' = [run EXCEPT ![r] = x] /\ task' = [task EXCEPT ![r] = NoTask] /\ route' = route
    BY Here DEF Decided, NoTask
  <1>3. run[r].pc = "wait" /\ route[r] = "open"
    BY Here DEF Decided, At, RunHolds
  <1> HIDE DEF x
  <1>4. RunHolds(r, x, NoTask, route[r])
    BY <1>1, <1>3, Here, TaskTypes DEF RunHolds, Asking, InRange
  <1>5. QED
    BY <1>2, <1>4, RunUpdate, StayUpdate

(* The wait is left without a decision: the task is cancelled, not awaited. *)
LEMMA LeaveWaitControl ==
    ASSUME TypedInv, NEW r \in Runs, NEW o \in {"timeout", "cancelled"},
           NEW z \in {route[r], "closing"},
           run[r].pc = "wait",
           run' = [run EXCEPT ![r].pc = "cleanup", ![r].outcome = o],
           task' = [task EXCEPT ![r] = Detached(task[r])],
           route' = [route EXCEPT ![r] = z]
    PROVE  OthersStay(r) /\ RunHolds(r, run'[r], task'[r], route'[r])
  <1> DEFINE x == [run[r] EXCEPT !.pc = "cleanup", !.outcome = o]
  <1>1. /\ x \in RunState /\ x.pc = "cleanup" /\ x.batch = run[r].batch
        /\ x.pos = run[r].pos /\ x.outcome # "approved"
    BY Here DEF RunState, RunPCs, Outcomes
  <1>2. run' = [run EXCEPT ![r] = x]
    BY Here
  <1>3. /\ Detached(task[r]) \in TaskState
        /\ Detached(task[r]).pc \in {"none", "cancelling"}
    BY Here, TaskTypes
  <1> HIDE DEF x
  <1>4. RunHolds(r, x, Detached(task[r]), z)
    BY <1>1, <1>3, Here DEF RunHolds, Asking, InRange, Routes
  <1>5. QED
    BY <1>2, <1>4, RunUpdate

LEMMA WaitTimeoutControl ==
    ASSUME TypedInv, NEW r \in Runs, WaitTimeout(r)
    PROVE  OthersStay(r) /\ RunHolds(r, run'[r], task'[r], route'[r])
  BY LeaveWaitControl, StayUpdate DEF WaitTimeout, At

(* An approval takes the coroutine back to its batch. *)
LEMMA CleanupControl ==
    ASSUME TypedInv, NEW r \in Runs, Cleanup(r)
    PROVE  OthersStay(r) /\ RunHolds(r, run'[r], task'[r], route'[r])
  <1>1. run[r].pc = "cleanup" /\ task' = task
    BY DEF Cleanup, At
  <1>2. PICK c \in {"good", "failed"} : AfterCleanup(r, c)
    BY Here DEF Cleanup, RunState
  <1>3. CASE run[r].outcome = "approved"
    <2> DEFINE x == [run[r] EXCEPT !.pc = "batch", !.pos = run[r].pos + 1,
                                   !.outcome = "none", !.cleanup = c]
    <2>0. PICK n \in Nat : n = run[r].pos + 1 /\ n >= 1
      BY Here
    <2>1. x \in RunState /\ x.pc = "batch" /\ x.batch = run[r].batch /\ x.pos = n
      BY <2>0, Here DEF RunState, RunPCs, Outcomes
    <2>2. run' = [run EXCEPT ![r] = x] /\ route' = route
      BY <1>2, <1>3, Here DEF AfterCleanup
    <2> HIDE DEF x
    <2>3. route[r] = "open" /\ task[r].pc \notin {"first", "poll", "done", "cancelling"}
      BY <1>1, <1>3, Here DEF RunHolds
    <2>4. RunHolds(r, x, task[r], route[r])
      BY <2>0, <2>1, <2>3, Here DEF RunHolds, Asking
    <2>5. QED
      BY <1>1, <2>2, <2>4, RunUpdate, StayUpdate
  <1>4. CASE run[r].outcome # "approved"
    <2>1. /\ run' = [run EXCEPT ![r] = [run[r] EXCEPT !.pc = "ended", !.cleanup = c]]
          /\ route' = [route EXCEPT ![r] = Closing(route[r])]
      BY <1>2, <1>4, Here DEF AfterCleanup, Closing
    <2>2. QED
      BY <1>1, <2>1, EndControl
  <1>5. QED
    BY <1>3, <1>4

LEMMA CancelAndEndControl ==
    ASSUME TypedInv, NEW r \in Runs, CancelAndEnd(r)
    PROVE  OthersStay(r) /\ RunHolds(r, run'[r], task'[r], route'[r])
  <1>1. run[r].pc = "cancelling" /\ task' = task
        /\ route' = [route EXCEPT ![r] = Closing(route[r])]
    BY DEF CancelAndEnd, At, Closing
  <1>2. CASE run' = [run EXCEPT ![r].pc = "ended"]
    <2>1. End(r)
      BY <1>1, <1>2 DEF End, Closing
    <2>2. QED
      BY <1>1, <2>1, EndIsExit, EndControl
  <1>3. CASE run' = [run EXCEPT ![r].pc = "ended", ![r].cleanup = "failed"]
    <2>1. run' = [run EXCEPT ![r] = [run[r] EXCEPT !.pc = "ended", !.cleanup = "failed"]]
      BY <1>3, Here
    <2>2. QED
      BY <1>1, <2>1, EndControl
  <1>4. QED
    BY <1>2, <1>3 DEF CancelAndEnd

LEMMA ExecuteControl ==
    ASSUME TypedInv, NEW r \in Runs, Execute(r)
    PROVE  OthersStay(r) /\ RunHolds(r, run'[r], task'[r], route'[r])
  <1>1. run[r].pc = "execute" /\ task' = task /\ route' = route
    BY DEF Execute, At
  <1>2. CASE run[r].pos <= Len(Batch(r))
    <2> DEFINE x == [run[r] EXCEPT !.pos = run[r].pos + 1]
    <2>0. PICK n \in Nat : n = run[r].pos + 1 /\ n >= 1
      BY Here
    <2>1. x \in RunState /\ x.pc = "execute" /\ x.batch = run[r].batch /\ x.pos = n
      BY <1>1, <2>0, Here DEF RunState
    <2>2. run' = [run EXCEPT ![r] = x]
      BY <1>2, Here DEF Execute
    <2> HIDE DEF x
    <2>3. RunHolds(r, x, task[r], route[r])
      BY <1>1, <2>0, <2>1, Here DEF RunHolds, Asking
    <2>4. QED
      BY <1>1, <2>2, <2>3, RunUpdate, StayUpdate
  <1>3. CASE ~(run[r].pos <= Len(Batch(r)))
    <2> DEFINE x == [run[r] EXCEPT !.pc = "batch", !.batch = run[r].batch + 1, !.pos = 1]
    <2>0. PICK n \in Nat : n = run[r].batch + 1 /\ n >= 1
      BY Here
    <2>1. x \in RunState /\ x.pc = "batch" /\ x.batch = n /\ x.pos = 1
      BY <1>1, <2>0, Here DEF RunState, RunPCs
    <2>2. run' = [run EXCEPT ![r] = x]
      BY <1>3, Here DEF Execute
    <2> HIDE DEF x
    <2>3. RunHolds(r, x, task[r], route[r])
      BY <1>1, <2>0, <2>1, Here DEF RunHolds, Asking
    <2>4. QED
      BY <1>1, <2>2, <2>3, RunUpdate, StayUpdate
  <1>4. QED
    BY <1>2, <1>3

LEMMA InterruptedControl ==
    ASSUME TypedInv, NEW r \in Runs, Interrupted(r)
    PROVE  OthersStay(r) /\ RunHolds(r, run'[r], task'[r], route'[r])
  <1>1. route[r] = "open" /\ route' = [route EXCEPT ![r] = "closing"]
    BY DEF Interrupted
  <1>2. CASE /\ run[r].pc \in {"batch", "execute", "cleanup", "cancelling"}
             /\ Goto(r, "ended") /\ task' = task
    <2>1. End(r)
      BY <1>1, <1>2 DEF End, Goto
    <2>2. QED
      BY <1>2, <2>1, EndIsExit, EndControl
  <1>3. CASE At(r, "prepare") /\ UNCHANGED <<run, task>>
    <2>1. RunHolds(r, run[r], task[r], "closing")
      BY <1>3, Here DEF At, RunHolds, Routes
    <2>2. QED
      BY <1>1, <1>3, <2>1, RunUpdate, StayUpdate
  <1>4. CASE At(r, "prepared") /\ Goto(r, "cancelling") /\ task' = task
    BY <1>1, <1>4, GotoControl DEF At
  <1>5. CASE /\ At(r, "wait")
             /\ run' = [run EXCEPT ![r].pc = "cleanup", ![r].outcome = "cancelled"]
             /\ task' = [task EXCEPT ![r] = Detached(task[r])]
    BY <1>1, <1>5, LeaveWaitControl DEF At
  <1>6. QED
    BY <1>2, <1>3, <1>4, <1>5 DEF Interrupted

(* The broker's steps while the coroutine waits, or after it was detached.  *)
LEMMA BrokerControl ==
    ASSUME TypedInv, NEW r \in Runs, Broker(r)
    PROVE  OthersStay(r) /\ RunHolds(r, run'[r], task'[r], route'[r])
  <1>1. run' = run /\ route' = route
    BY DEF Broker, Poll, PollFails, TaskCancelled
  <1>2. ASSUME task[r].pc \in {"first", "poll"},
               NEW y \in TaskState, y.pc \in {"poll", "done"},
               task' = [task EXCEPT ![r] = y]
        PROVE  OthersStay(r) /\ RunHolds(r, run'[r], task'[r], route'[r])
    <2>1. RunHolds(r, run[r], y, route[r])
      BY <1>2, Here DEF RunHolds
    <2>2. QED
      BY <1>1, <1>2, <2>1, RunUpdate, StayUpdate
  <1>3. CASE Poll(r)
    <2>1. task[r].pc \in {"first", "poll"}
      BY <1>3 DEF Poll
    <2>2. Key(r) \in Keys /\ row[Key(r)].expires \in Nat /\ TypeOK
      BY <2>1, CurrentType DEF TypedInv, TypeOK, Row
    <2>3. PICK t \in Nat :
            LET rows == Expired(row, IF Matching(r) THEN {Key(r)} ELSE {}, t) IN
            task' = [task EXCEPT ![r] =
                 IF ~Matching(r) THEN [pc |-> "done", result |-> "error"]
                 ELSE IF rows[Key(r)].status = "pending" THEN [pc |-> "poll", result |-> "none"]
                 ELSE [pc |-> "done", result |-> rows[Key(r)].status]]
      BY <1>3, <2>2, ReadingType DEF Poll
    <2>4. PICK s : s = Expired(row, IF Matching(r) THEN {Key(r)} ELSE {}, t)[Key(r)].status
      OBVIOUS
    <2>5. s \in Statuses \cup {"none"}
      BY <2>2, <2>4, ExpiredMoves DEF Row
    <2>6. s \in Outcomes
      BY <2>5, StatusFacts DEF Outcomes
    <2>7. PICK y : y = IF ~Matching(r) THEN [pc |-> "done", result |-> "error"]
                       ELSE IF s = "pending" THEN [pc |-> "poll", result |-> "none"]
                       ELSE [pc |-> "done", result |-> s]
      OBVIOUS
    <2>8. y \in TaskState /\ y.pc \in {"poll", "done"}
      BY <2>6, <2>7 DEF TaskState, TaskPCs, Outcomes
    <2>9. task' = [task EXCEPT ![r] = y]
      BY <2>3, <2>4, <2>7
    <2>10. QED
      BY <1>2, <2>1, <2>8, <2>9
  <1>4. CASE PollFails(r)
    <2>1. [pc |-> "done", result |-> "error"] \in TaskState
      BY DEF TaskState, TaskPCs, Outcomes
    <2>2. QED
      BY <1>2, <1>4, <2>1 DEF PollFails
  <1>5. CASE TaskCancelled(r)
    <2>1. task' = [task EXCEPT ![r] = NoTask]
      BY <1>5 DEF TaskCancelled, NoTask
    <2>2. RunHolds(r, run[r], NoTask, route[r])
      BY Here, TaskTypes DEF RunHolds
    <2>3. QED
      BY <1>1, <2>1, <2>2, RunUpdate, StayUpdate
  <1>6. QED
    BY <1>3, <1>4, <1>5 DEF Broker

LEMMA CancelRunControl ==
    ASSUME TypedInv, NEW r \in Runs, CancelRun(r)
    PROVE  OthersStay(r) /\ RunHolds(r, run'[r], task'[r], route'[r])
  <1>1. route[r] = "closing" /\ route' = [route EXCEPT ![r] = "closed"] /\ task' = task
    BY DEF CancelRun
  <1>2. CASE run' = run
    <2>1. RunHolds(r, run[r], task[r], "closed")
      BY <1>1, Here DEF RunHolds, Routes
    <2>2. QED
      BY <1>1, <1>2, <2>1, RunUpdate, StayUpdate
  <1>3. CASE run' = [run EXCEPT ![r].cleanup = "failed"]
    <2> DEFINE x == [run[r] EXCEPT !.cleanup = "failed"]
    <2>1. /\ x \in RunState /\ x.pc = run[r].pc /\ x.batch = run[r].batch
          /\ x.pos = run[r].pos /\ x.outcome = run[r].outcome
      BY Here DEF RunState
    <2>2. run' = [run EXCEPT ![r] = x]
      BY <1>3, Here
    <2> HIDE DEF x
    <2>3. RunHolds(r, x, task[r], "closed")
      BY <1>1, <2>1, Here DEF RunHolds, InRange, Routes
    <2>4. QED
      BY <1>1, <2>2, <2>3, RunUpdate, StayUpdate
  <1>4. QED
    BY <1>2, <1>3 DEF CancelRun

LEMMA CrashControl ==
    ASSUME TypedInv, NEW r \in Runs, Crash(r)
    PROVE  OthersStay(r) /\ RunHolds(r, run'[r], task'[r], route'[r])
  <1> DEFINE x == [run[r] EXCEPT !.pc = "dead"]
  <1>1. x \in RunState /\ x.pc = "dead" /\ x.batch = run[r].batch /\ x.pos = run[r].pos
    BY Here DEF RunState, RunPCs
  <1>2. /\ run' = [run EXCEPT ![r] = x]
        /\ task' = [task EXCEPT ![r] = NoTask]
        /\ route' = [route EXCEPT ![r] = "closed"]
    BY Here DEF Crash, NoTask
  <1> HIDE DEF x
  <1>3. RunHolds(r, x, NoTask, "closed")
    BY <1>1, Here, TaskTypes DEF RunHolds, Asking, Routes
  <1>4. QED
    BY <1>2, <1>3, RunUpdate

(* Every step of a run has a control effect on it alone. *)
RunStep(r) ==
    \/ Engine(r) \/ Broker(r) \/ CancelRun(r) \/ Crash(r) \/ Disconnect(r) \/ DeadlineFires(r)

LEMMA EngineControl ==
    ASSUME TypedInv, NEW r \in Runs, Engine(r)
    PROVE  OthersStay(r) /\ RunHolds(r, run'[r], task'[r], route'[r])
  BY StartControl, BatchPreparedControl, EvaluateControl, ExitControl, PrepareControl,
     AnnounceControl, DecidedControl, WaitTimeoutControl, CleanupControl,
     CancelAndEndControl, ExecuteControl
  DEF Engine

LEMMA RunStepControl ==
    ASSUME TypedInv, NEW r \in Runs, RunStep(r)
    PROVE  OthersStay(r) /\ RunHolds(r, run'[r], task'[r], route'[r])
  BY EngineControl, BrokerControl, CancelRunControl, CrashControl, InterruptedControl
  DEF RunStep, Disconnect, DeadlineFires

(* The other steps leave the runs alone. *)
LEMMA OtherStepControl ==
    ASSUME Deciders \/ Lookups \/ Tick \/ UNCHANGED vars
    PROVE  UNCHANGED <<run, task, route, executed>>
  <1>1. CASE Deciders
    BY <1>1 DEF Deciders, DecideExact, DecideById, DecideUnique
  <1>2. CASE Lookups
    BY <1>2 DEF Lookups, Lookup
  <1>3. CASE Tick
    BY <1>3 DEF Tick
  <1>4. CASE UNCHANGED vars
    BY <1>4 DEF vars
  <1>5. QED
    BY <1>1, <1>2, <1>3, <1>4

LEMMA NextCases ==
    ASSUME [Next]_vars
    PROVE  (\E r \in Runs : RunStep(r)) \/ Deciders \/ Lookups \/ Tick \/ UNCHANGED vars
  BY DEF Next, RunStep

LEMMA ControlStep ==
    ASSUME TypedInv, [Next]_vars
    PROVE  /\ ControlInv'
           /\ run' \in [Runs -> RunState] /\ task' \in [Runs -> TaskState]
           /\ route' \in [Runs -> Routes]
  <1>1. ASSUME NEW r \in Runs, RunStep(r)
        PROVE  /\ ControlInv'
               /\ run' \in [Runs -> RunState] /\ task' \in [Runs -> TaskState]
               /\ route' \in [Runs -> Routes]
    <2>1. OthersStay(r) /\ RunHolds(r, run'[r], task'[r], route'[r])
      BY <1>1, RunStepControl
    <2>2. \A s \in Runs : RunHolds(s, run[s], task[s], route[s])
      BY DEF TypedInv, ControlInv
    <2>3. \A s \in Runs : RunHolds(s, run'[s], task'[s], route'[s])
      BY <2>1, <2>2 DEF OthersStay
    <2>4. QED
      BY <2>1, <2>3 DEF OthersStay, ControlInv
  <1>2. ASSUME UNCHANGED <<run, task, route>>
        PROVE  /\ ControlInv'
               /\ run' \in [Runs -> RunState] /\ task' \in [Runs -> TaskState]
               /\ route' \in [Runs -> Routes]
    BY <1>2 DEF TypedInv, TypeOK, ControlInv
  <1>3. QED
    BY <1>1, <1>2, NextCases, OtherStepControl

LEMMA AnsweredType ==
    ASSUME TypeOK, TableEffect
    PROVE  row' \in [Keys -> Row] /\ answered' \subseteq Answers
  <1>1. CASE QuietTable \/ \E r \in Runs : Reservation(r)
    BY <1>1 DEF QuietTable, Reservation, TypeOK
  <1>2. ASSUME NEW k \in Keys, NEW verdict \in Verdicts, NEW t \in Nat, Decision(k, verdict, t)
        PROVE  row' \in [Keys -> Row] /\ answered' \subseteq Answers
    <2>1. Owner[k[1]] \in Users
      BY ConstantTypes DEF Keys
    <2>2. [user |-> Owner[k[1]], key |-> k, verdict |-> verdict] \in Answers
      BY <2>1 DEF Answers
    <2>3. QED
      BY <1>2, <2>2 DEF Decision, TypeOK
  <1>3. QED
    BY <1>1, <1>2 DEF TableEffect

(* Only Execute adds to the history of executed calls. *)
LEMMA ExecutedGrows ==
    ASSUME TypedInv, [Next]_vars
    PROVE  \/ executed' = executed
           \/ \E r \in Runs : /\ Execute(r)
                              /\ run[r].pos <= Len(Batch(r))
                              /\ executed' = executed \cup {<<r, run[r].batch, run[r].pos>>}
  <1>1. ASSUME NEW r \in Runs, RunStep(r)
        PROVE  \/ executed' = executed
               \/ /\ Execute(r)
                  /\ run[r].pos <= Len(Batch(r))
                  /\ executed' = executed \cup {<<r, run[r].batch, run[r].pos>>}
    <2>1. CASE Execute(r)
      BY <2>1 DEF Execute
    <2>2. ASSUME Start(r) \/ BatchPrepared(r) \/ Evaluate(r) \/ Refuse(r) \/ Prepare(r)
                 \/ PrepareFails(r) \/ PreparedTooLate(r) \/ Announce(r) \/ AnnounceFails(r)
                 \/ Decided(r) \/ WaitTimeout(r) \/ Cleanup(r) \/ CancelAndEnd(r)
          PROVE  executed' = executed
      BY <2>2 DEF Start, BatchPrepared, Evaluate, Refuse, Prepare, PrepareFails,
         PreparedTooLate, Announce, AnnounceFails, Decided, WaitTimeout, Cleanup, CancelAndEnd
    <2>3. ASSUME Broker(r) \/ CancelRun(r) \/ Crash(r) \/ Disconnect(r) \/ DeadlineFires(r)
          PROVE  executed' = executed
      BY <2>3 DEF Broker, Poll, PollFails, TaskCancelled, CancelRun, Crash, Disconnect,
         DeadlineFires, Interrupted
    <2>4. QED
      BY <1>1, <2>1, <2>2, <2>3 DEF RunStep, Engine
  <1>2. QED
    BY <1>1, NextCases, OtherStepControl

LEMMA NowType ==
    ASSUME TypedInv, [Next]_vars
    PROVE  now' \in Nat
  <1>1. now \in Nat
    BY DEF TypedInv, TypeOK
  <1>2. CASE Tick
    BY <1>1, <1>2 DEF Tick
  <1>3. ASSUME NEW r \in Runs, Engine(r) PROVE now' = now
    BY <1>3 DEF Engine, Start, BatchPrepared, Evaluate, Refuse, Prepare, PrepareFails,
       PreparedTooLate, Announce, AnnounceFails, Decided, WaitTimeout, Cleanup,
       CancelAndEnd, Execute
  <1>4. ASSUME NEW r \in Runs,
               Broker(r) \/ CancelRun(r) \/ Crash(r) \/ Disconnect(r) \/ DeadlineFires(r)
        PROVE  now' = now
    BY <1>4 DEF Broker, Poll, PollFails, TaskCancelled, CancelRun, Crash, Disconnect,
       DeadlineFires, Interrupted
  <1>5. CASE Deciders
    <2>1. PICK u \in Users, k \in Keys, v \in Verdicts, t \in Readings :
             DecideExact(u, k, v, t) \/ DecideById(u, k, v, t) \/ DecideUnique(u, k, v, t)
      BY <1>5 DEF Deciders
    <2>2. now' = now
      BY <2>1 DEF DecideExact, DecideById, DecideUnique
    <2>3. QED
      BY <1>1, <2>2
  <1>6. CASE Lookups
    BY <1>1, <1>6 DEF Lookups, Lookup
  <1>7. CASE UNCHANGED vars
    BY <1>1, <1>7 DEF vars
  <1>8. QED
    BY <1>1, <1>2, <1>3, <1>4, <1>5, <1>6, <1>7 DEF Next

LEMMA TypedStep == TypedInv /\ [Next]_vars => TypedInv'
  <1> SUFFICES ASSUME TypedInv, [Next]_vars PROVE TypedInv'
    OBVIOUS
  <1>1. row' \in [Keys -> Row] /\ answered' \subseteq Answers
    BY NextTable, AnsweredType DEF TypedInv
  <1>2. executed' \subseteq Runs \X Nat \X Nat
    <2>1. executed \subseteq Runs \X Nat \X Nat
      BY DEF TypedInv, TypeOK
    <2>2. \A r \in Runs : <<r, run[r].batch, run[r].pos>> \in Runs \X Nat \X Nat
      BY Here
    <2>3. QED
      BY <2>1, <2>2, ExecutedGrows
  <1>3. QED
    BY <1>1, <1>2, ControlStep, NowType DEF TypedInv, TypeOK

LEMMA TypedInit == Init => TypedInv
  <1> SUFFICES ASSUME Init PROVE TypedInv
    OBVIOUS
  <1> DEFINE x == [pc |-> "new", batch |-> 1, pos |-> 1, started |-> 0, timer |-> 0,
                   outcome |-> "none", cleanup |-> "good"]
  <1>1. x \in RunState /\ x.pc = "new" /\ x.batch = 1 /\ x.pos = 1
    BY DEF RunState, RunPCs, Outcomes
  <1>2. NoRow \in Row
    BY ConstantTypes DEF NoRow, Row
  <1>3. \A r \in Runs : run[r] = x /\ task[r] = NoTask /\ route[r] = "open"
    BY DEF Init, NoTask
  <1>4. TypeOK
    BY <1>1, <1>2, TaskTypes DEF Init, TypeOK, NoTask, Routes
  <1> HIDE DEF x
  <1>5. \A r \in Runs : RunHolds(r, x, NoTask, "open")
    BY <1>1, TaskTypes DEF RunHolds, Asking, Routes
  <1>6. QED
    BY <1>3, <1>4, <1>5 DEF TypedInv, ControlInv

(* Where a run, its task and its route stand together, and every type.      *)
THEOREM ControlInvariant == Spec => []TypedInv
  BY TypedInit, TypedStep, PTL DEF Spec

(* Every variable keeps its type; in particular no UPDATE writes a status   *)
(* that the CHECK constraint of approval_requests would refuse.             *)
THEOREM TypeCorrect == Spec => []TypeOK
  <1>1. TypedInv => TypeOK
    BY DEF TypedInv
  <1>2. QED
    BY <1>1, ControlInvariant, PTL

(* A receipt is final: whatever decides, expires, cancels or reserves next, *)
(* a row that is neither absent nor pending is never written again.         *)
THEOREM ReceiptsFinal == Spec => ReceiptsAreFinal
  <1>1. TypedInv /\ [Next]_vars
          => [\A k \in Keys : row[k].status \notin {"none", "pending"} => row'[k] = row[k]]_vars
    <2> SUFFICES ASSUME TypedInv, [Next]_vars, NEW k \in Keys,
                        row[k].status \notin {"none", "pending"}
                 PROVE  row'[k] = row[k]
      OBVIOUS
    <2>1. TableEffect
      BY NextTable
    <2>2. QED
      BY <2>1 DEF TableEffect, QuietTable, Reservation, Decision, QuietMove
  <1>2. QED
    BY <1>1, ControlInvariant, PTL DEF Spec, ReceiptsAreFinal
-----------------------------------------------------------------------------
(* The second layer: consent.  A receipt with a verdict was decided in time *)
(* and acknowledged; what a run has passed in its batch is authorised; an   *)
(* approval that the task or the coroutine carries stands in the table.     *)

ReceiptHolds(rows, answers, k) ==
    rows[k].status \in Verdicts =>
        /\ rows[k].decided < rows[k].expires
        /\ [user |-> Owner[k[1]], key |-> k, verdict |-> rows[k].status] \in answers

ReceiptInv == /\ \A k \in Keys : ReceiptHolds(row, answered, k)
              /\ AcknowledgedDecisionsStand

Approved(rows, r, c) == /\ rows[<<r, Id[c]>>].status = "approved"
                        /\ rows[<<r, Id[c]>>].signature = Signature[c]

Authorised(rows, r, b, i) ==
    \/ DuplicateAt(r, b, i)
    \/ Policy[Batches[r][b][i]] = "allow"
    \/ Policy[Batches[r][b][i]] = "ask" /\ Approved(rows, r, Batches[r][b][i])

(* The coroutine stands in the preparation of a batch. *)
Preparing == {"batch"} \cup Asking

(* x, y: the run and its task *)
RunConsents(rows, r, x, y) ==
    /\ x.pc = "new" => x.pos = 1
    /\ x.pc \in Preparing /\ x.batch <= Len(Batches[r]) =>
          \A i \in 1 .. Len(Batches[r][x.batch]) : i < x.pos => Authorised(rows, r, x.batch, i)
    /\ x.pc = "execute" =>
          \A i \in 1 .. Len(Batches[r][x.batch]) : Authorised(rows, r, x.batch, i)
    /\ y.pc = "done" /\ y.result = "approved" => Approved(rows, r, Batches[r][x.batch][x.pos])
    /\ x.pc = "cleanup" /\ x.outcome = "approved" =>
          Approved(rows, r, Batches[r][x.batch][x.pos])

ExecutionConsented(rows, e) ==
    /\ e[2] \in 1 .. Len(Batches[e[1]])
    /\ \A i \in 1 .. Len(Batches[e[1]][e[2]]) : Authorised(rows, e[1], e[2], i)

ConsentInv ==
    /\ ReceiptInv
    /\ \A r \in Runs : RunConsents(row, r, run[r], task[r])
    /\ \A e \in executed : ExecutionConsented(row, e)

(* A decided row is never written again, so an approval lasts. *)
LEMMA VerdictsLast ==
    ASSUME TypeOK, TableEffect, NEW k \in Keys, row[k].status \in Verdicts
    PROVE  row'[k] = row[k]
  <1>1. row[k].status # "none" /\ row[k].status # "pending"
    BY DEF Verdicts
  <1>2. QED
    BY <1>1 DEF TableEffect, QuietTable, Reservation, Decision, QuietMove

LEMMA ReceiptStep ==
    ASSUME TypedInv, ReceiptInv, TableEffect
    PROVE  ReceiptInv'
  <1>1. TypeOK /\ answered \subseteq answered'
    BY DEF TypedInv, TableEffect, QuietTable, Reservation, Decision
  <1>2. ASSUME NEW k \in Keys, row'[k].status \in Verdicts, row[k].status \in Verdicts
        PROVE  ReceiptHolds(row', answered', k)
    <2>1. row'[k] = row[k]
      BY <1>1, <1>2, VerdictsLast
    <2>2. ReceiptHolds(row, answered, k)
      BY DEF ReceiptInv
    <2>3. QED
      BY <1>1, <1>2, <2>1, <2>2 DEF ReceiptHolds
  <1>3. ASSUME NEW k \in Keys, row'[k].status \in Verdicts, row[k].status \notin Verdicts
        PROVE  \E verdict \in Verdicts, t \in Nat : Decision(k, verdict, t)
    <2>1. row[k] \in Row
      BY DEF TypedInv, TypeOK
    <2>2. ~QuietMove(row[k], row'[k])
      <3> SUFFICES ASSUME QuietMove(row[k], row'[k]) PROVE FALSE
        OBVIOUS
      <3>1. row'[k] # row[k]
        BY <1>3
      <3>2. PICK s \in {"expired", "cancelled"}, t \in Nat : row'[k] = Settled(row[k], s, t)
        BY <3>1 DEF QuietMove
      <3>3. row'[k].status = s
        BY <2>1, <3>2, StatusFacts, SettledType
      <3>4. QED
        BY <1>3, <3>3 DEF Verdicts
    <2>3. \A r \in Runs : ~Reservation(r)
      BY <1>3 DEF Reservation, Verdicts
    <2>4. QED
      BY <2>2, <2>3 DEF TableEffect, QuietTable, Decision
  <1>4. ASSUME NEW k \in Keys, NEW verdict \in Verdicts, NEW t \in Nat, Decision(k, verdict, t)
        PROVE  ReceiptHolds(row', answered', k) /\ row'[k].status = verdict
    <2>1. row[k] \in Row /\ verdict \in Statuses
      BY StatusFacts DEF TypedInv, TypeOK
    <2>2. /\ row'[k].status = verdict /\ row'[k].decided = t
          /\ row'[k].expires = row[k].expires
      BY <1>4, <2>1, SettledType DEF Decision
    <2>3. QED
      BY <1>4, <2>2 DEF ReceiptHolds, Decision
  <1>5. \A k \in Keys : ReceiptHolds(row', answered', k)
    BY <1>2, <1>3, <1>4 DEF ReceiptHolds
  <1>6. ASSUME NEW a \in answered'
        PROVE  Owner[a.key[1]] = a.user /\ row'[a.key].status = a.verdict
    <2>1. CASE a \in answered
      <3>1. a.key \in Keys /\ a.verdict \in Verdicts
        BY <2>1 DEF TypedInv, TypeOK, Answers
      <3>2. Owner[a.key[1]] = a.user /\ row[a.key].status = a.verdict
        BY <2>1 DEF ReceiptInv, AcknowledgedDecisionsStand
      <3>3. QED
        BY <1>1, <3>1, <3>2, VerdictsLast
    <2>2. CASE a \notin answered
      <3>1. PICK k \in Keys, verdict \in Verdicts, t \in Nat : Decision(k, verdict, t)
        BY <2>2, <1>6 DEF TableEffect, QuietTable, Reservation
      <3>2. a = [user |-> Owner[k[1]], key |-> k, verdict |-> verdict]
        BY <2>2, <1>6, <3>1 DEF Decision
      <3>3. QED
        BY <1>4, <3>1, <3>2
    <2>3. QED
      BY <2>1, <2>2
  <1>7. QED
    BY <1>5, <1>6 DEF ReceiptInv, AcknowledgedDecisionsStand

LEMMA CallType ==
    ASSUME NEW r \in Runs, NEW b \in 1 .. Len(Batches[r]), NEW i \in 1 .. Len(Batches[r][b])
    PROVE  Batches[r][b][i] \in Calls /\ <<r, Id[Batches[r][b][i]]>> \in Keys
  <1>1. PICK x : x = [batch |-> b, pos |-> i]
    OBVIOUS
  <1>2. InRange(r, x) /\ x.batch = b /\ x.pos = i
    BY <1>1 DEF InRange
  <1>3. QED
    BY <1>2, KeyType

LEMMA BatchLength ==
    ASSUME NEW r \in Runs, NEW b \in 1 .. Len(Batches[r])
    PROVE  Len(Batches[r][b]) \in Nat
  <1>1. Batches[r] \in Seq(Seq(Calls))
    BY ConstantTypes
  <1>2. Batches[r][b] \in Seq(Calls)
    BY <1>1
  <1>3. QED
    BY <1>2

LEMMA ApprovedLasts ==
    ASSUME TypeOK, TableEffect, NEW r \in Runs, NEW c, <<r, Id[c]>> \in Keys,
           Approved(row, r, c)
    PROVE  Approved(row', r, c)
  BY VerdictsLast DEF Approved, Verdicts

LEMMA AuthorisedLasts ==
    ASSUME TypeOK, TableEffect, NEW r \in Runs, NEW b \in 1 .. Len(Batches[r]),
           NEW i \in 1 .. Len(Batches[r][b]), Authorised(row, r, b, i)
    PROVE  Authorised(row', r, b, i)
  BY CallType, ApprovedLasts DEF Authorised

(* The table's effect alone keeps the consent of a run that stands still. *)
LEMMA ConsentLasts ==
    ASSUME TypeOK, TableEffect, NEW r \in Runs, NEW x, NEW y, NEW z,
           RunHolds(r, x, y, z), RunConsents(row, r, x, y)
    PROVE  RunConsents(row', r, x, y)
  <1>1. Len(Batches[r]) \in Nat /\ x.batch \in Nat /\ x.batch >= 1
    BY ConstantTypes DEF RunHolds, RunState
  <1>2. x.batch <= Len(Batches[r]) => x.batch \in 1 .. Len(Batches[r])
    BY <1>1
  <1>3. x.pc = "execute" => x.batch \in 1 .. Len(Batches[r])
    BY <1>2 DEF RunHolds
  <1>4. y.pc = "done" \/ x.pc = "cleanup" => InRange(r, x)
    BY DEF RunHolds, Asking
  <1>5. ASSUME x.pc \in Preparing, x.batch <= Len(Batches[r]),
               NEW i \in 1 .. Len(Batches[r][x.batch]), i < x.pos
        PROVE  Authorised(row', r, x.batch, i)
    BY <1>2, <1>5, AuthorisedLasts DEF RunConsents
  <1>6. ASSUME x.pc = "execute", NEW i \in 1 .. Len(Batches[r][x.batch])
        PROVE  Authorised(row', r, x.batch, i)
    BY <1>3, <1>6, AuthorisedLasts DEF RunConsents
  <1>7. ASSUME InRange(r, x), Approved(row, r, Batches[r][x.batch][x.pos])
        PROVE  Approved(row', r, Batches[r][x.batch][x.pos])
    BY <1>7, KeyType, ApprovedLasts
  <1>8. QED
    BY <1>4, <1>5, <1>6, <1>7 DEF RunConsents

(* A run that moves from x, y to u, v without passing a call. *)
KeepsConsent(x, y, u, v) ==
    /\ u.batch = x.batch /\ u.pos = x.pos
    /\ u.pc = "new" => x.pc = "new"
    /\ u.pc \in Preparing => x.pc \in Preparing
    /\ u.pc = "execute" => x.pc = "execute"
    /\ v.pc = "done" /\ v.result = "approved" => v = y
    /\ u.pc = "cleanup" /\ u.outcome = "approved" => x.pc = "cleanup" /\ x.outcome = "approved"

LEMMA QuietRun ==
    ASSUME NEW rows, NEW r \in Runs, NEW x, NEW y, NEW u, NEW v,
           RunConsents(rows, r, x, y), KeepsConsent(x, y, u, v)
    PROVE  RunConsents(rows, r, u, v)
  BY DEF RunConsents, KeepsConsent

LEMMA EndKeeps ==
    ASSUME TypedInv, NEW r \in Runs, NEW c \in {"good", "failed"}, task' = task,
           run' = [run EXCEPT ![r] = [run[r] EXCEPT !.pc = "ended", !.cleanup = c]]
    PROVE  KeepsConsent(run[r], task[r], run'[r], task'[r])
  <1>1. /\ run'[r].pc = "ended" /\ run'[r].batch = run[r].batch /\ run'[r].pos = run[r].pos
        /\ task'[r] = task[r]
    BY Here DEF TypedInv, TypeOK, RunState
  <1>2. QED
    BY <1>1 DEF KeepsConsent, Preparing, Asking

LEMMA GotoKeeps ==
    ASSUME TypedInv, NEW r \in Runs, NEW pc, Goto(r, pc), task' = task,
           \/ pc \in {"ended", "dead"}
           \/ pc \in {"prepare", "prepared", "cancelling"} /\ run[r].pc \in Preparing
    PROVE  KeepsConsent(run[r], task[r], run'[r], task'[r])
  <1>1. /\ run'[r].pc = pc /\ run'[r].batch = run[r].batch /\ run'[r].pos = run[r].pos
        /\ task'[r] = task[r]
    BY Here DEF TypedInv, TypeOK, RunState, Goto
  <1>2. QED
    BY <1>1 DEF KeepsConsent, Preparing, Asking

(* The wait is left without a decision. *)
LEMMA LeaveWaitKeeps ==
    ASSUME TypedInv, NEW r \in Runs, NEW o \in {"timeout", "cancelled"}, run[r].pc = "wait",
           run' = [run EXCEPT ![r].pc = "cleanup", ![r].outcome = o],
           task' = [task EXCEPT ![r] = Detached(task[r])]
    PROVE  KeepsConsent(run[r], task[r], run'[r], task'[r])
  <1>1. /\ run'[r].pc = "cleanup" /\ run'[r].batch = run[r].batch /\ run'[r].pos = run[r].pos
        /\ run'[r].outcome = o
    BY Here DEF TypedInv, TypeOK, RunState
  <1>2. task'[r].pc \in {"none", "cancelling"}
    BY Here, TaskTypes DEF TypedInv, TypeOK
  <1>3. QED
    BY <1>1, <1>2 DEF KeepsConsent, Preparing, Asking

LEMMA InterruptedKeeps ==
    ASSUME TypedInv, NEW r \in Runs, Interrupted(r)
    PROVE  KeepsConsent(run[r], task[r], run'[r], task'[r])
  <1>1. CASE Goto(r, "ended") /\ task' = task
    BY <1>1, GotoKeeps
  <1>2. CASE UNCHANGED <<run, task>>
    BY <1>2 DEF KeepsConsent
  <1>3. CASE At(r, "prepared") /\ Goto(r, "cancelling") /\ task' = task
    BY <1>3, GotoKeeps DEF At, Preparing, Asking
  <1>4. CASE /\ At(r, "wait")
             /\ run' = [run EXCEPT ![r].pc = "cleanup", ![r].outcome = "cancelled"]
             /\ task' = [task EXCEPT ![r] = Detached(task[r])]
    BY <1>4, LeaveWaitKeeps DEF At
  <1>5. QED
    BY <1>1, <1>2, <1>3, <1>4 DEF Interrupted

LEMMA CancelRunKeeps ==
    ASSUME TypedInv, NEW r \in Runs, CancelRun(r)
    PROVE  KeepsConsent(run[r], task[r], run'[r], task'[r])
  <1>1. task' = task
    BY DEF CancelRun
  <1>2. CASE run' = run
    BY <1>1, <1>2 DEF KeepsConsent
  <1>3. CASE run' = [run EXCEPT ![r].cleanup = "failed"]
    <2>1. /\ run'[r].pc = run[r].pc /\ run'[r].batch = run[r].batch
          /\ run'[r].pos = run[r].pos /\ run'[r].outcome = run[r].outcome
      BY <1>3, Here DEF TypedInv, TypeOK, RunState
    <2>2. QED
      BY <1>1, <2>1 DEF KeepsConsent
  <1>4. QED
    BY <1>2, <1>3 DEF CancelRun

LEMMA CrashKeeps ==
    ASSUME TypedInv, NEW r \in Runs, Crash(r)
    PROVE  KeepsConsent(run[r], task[r], run'[r], task'[r])
  <1>1. run'[r].pc = "dead" /\ run'[r].batch = run[r].batch /\ run'[r].pos = run[r].pos
    BY Here DEF TypedInv, TypeOK, RunState, Crash
  <1>2. task'[r].pc = "none"
    BY DEF TypedInv, TypeOK, Crash
  <1>3. QED
    BY <1>1, <1>2 DEF KeepsConsent, Preparing, Asking

LEMMA TaskKeeps ==
    ASSUME TypedInv, NEW r \in Runs, PollFails(r) \/ TaskCancelled(r)
    PROVE  KeepsConsent(run[r], task[r], run'[r], task'[r])
  <1>1. run' = run
    BY DEF PollFails, TaskCancelled
  <1>2. \/ task'[r].pc = "none"
        \/ task'[r].pc = "done" /\ task'[r].result = "error"
    BY DEF PollFails, TaskCancelled, TypedInv, TypeOK
  <1>3. QED
    BY <1>1, <1>2 DEF KeepsConsent

LEMMA AnnounceKeeps ==
    ASSUME TypedInv, NEW r \in Runs, Announce(r)
    PROVE  KeepsConsent(run[r], task[r], run'[r], task'[r])
  <1>1. PICK n : n = MinOf(run[r].started + RunTicks, now + ApprovalTicks)
    OBVIOUS
  <1>2. run' = [run EXCEPT ![r].pc = "wait", ![r].timer = n] /\ run[r].pc = "prepared"
    BY <1>1 DEF Announce, At
  <1>3. run'[r].pc = "wait" /\ run'[r].batch = run[r].batch /\ run'[r].pos = run[r].pos
    BY <1>2, Here DEF TypedInv, TypeOK, RunState
  <1>4. task'[r].pc = "first"
    BY DEF Announce, TypedInv, TypeOK
  <1>5. QED
    BY <1>2, <1>3, <1>4 DEF KeepsConsent, Preparing, Asking

(* The steps of a run that pass no call and carry no decision. *)
LEMMA EngineKeeps ==
    ASSUME TypedInv, NEW r \in Runs,
           \/ Refuse(r) \/ PreparedTooLate(r) \/ Prepare(r) \/ PrepareFails(r)
           \/ AnnounceFails(r) \/ Announce(r) \/ WaitTimeout(r) \/ CancelAndEnd(r)
    PROVE  KeepsConsent(run[r], task[r], run'[r], task'[r])
  <1>1. ASSUME Refuse(r) \/ PreparedTooLate(r)
        PROVE  KeepsConsent(run[r], task[r], run'[r], task'[r])
    BY <1>1, EndIsExit, EndKeeps DEF Refuse, PreparedTooLate
  <1>2. ASSUME Prepare(r) \/ PrepareFails(r) \/ AnnounceFails(r)
        PROVE  KeepsConsent(run[r], task[r], run'[r], task'[r])
    <2>1. PICK pc \in {"prepared", "cancelling"} : Goto(r, pc)
      BY <1>2 DEF Prepare, PrepareFails, AnnounceFails
    <2>2. task' = task /\ run[r].pc \in Preparing
      BY <1>2 DEF Prepare, PrepareFails, AnnounceFails, At, Preparing, Asking
    <2>3. QED
      BY <2>1, <2>2, GotoKeeps
  <1>3. CASE WaitTimeout(r)
    BY <1>3, LeaveWaitKeeps DEF WaitTimeout, At
  <1>4. CASE CancelAndEnd(r)
    <2>1. task' = task
      BY <1>4 DEF CancelAndEnd
    <2>2. CASE run' = [run EXCEPT ![r].pc = "ended"]
      BY <2>1, <2>2, GotoKeeps DEF Goto
    <2>3. CASE run' = [run EXCEPT ![r].pc = "ended", ![r].cleanup = "failed"]
      <3>1. run' = [run EXCEPT ![r] = [run[r] EXCEPT !.pc = "ended", !.cleanup = "failed"]]
        BY <2>3, Here
      <3>2. QED
        BY <2>1, <3>1, EndKeeps
    <2>4. QED
      BY <1>4, <2>2, <2>3 DEF CancelAndEnd
  <1>5. QED
    BY <1>1, <1>2, <1>3, <1>4, AnnounceKeeps

(* The steps that pass a call, or carry a decision.  The table has had its  *)
(* effect already: the consents are those of row'.                          *)

LEMMA StartConsent ==
    ASSUME TypedInv, NEW r \in Runs, Start(r), RunConsents(row', r, run[r], task[r])
    PROVE  RunConsents(row', r, run'[r], task'[r])
  <1>1. /\ run[r].pc = "new" /\ run'[r].pc = "batch" /\ run'[r].pos = run[r].pos
        /\ task'[r] = task[r]
    BY Here DEF Start, At, TypedInv, TypeOK, RunState
  <1>2. task[r].pc # "done"
    BY <1>1, Here DEF RunHolds
  <1>3. run'[r].pos = 1
    BY <1>1 DEF RunConsents
  <1>4. \A i \in 1 .. Len(Batches[r][run'[r].batch]) : ~(i < run'[r].pos)
    BY <1>3
  <1>5. QED
    BY <1>1, <1>2, <1>4 DEF RunConsents

LEMMA BatchPreparedConsent ==
    ASSUME TypedInv, NEW r \in Runs, BatchPrepared(r), RunConsents(row', r, run[r], task[r])
    PROVE  RunConsents(row', r, run'[r], task'[r])
  <1>1. /\ run[r].pc = "batch" /\ run'[r].pc = "execute" /\ run'[r].batch = run[r].batch
        /\ task'[r] = task[r]
    BY Here DEF BatchPrepared, At, TypedInv, TypeOK, RunState
  <1>2. task[r].pc # "done"
    BY <1>1, Here DEF RunHolds
  <1>3. /\ run[r].batch <= Len(Batches[r]) /\ run[r].pos > Len(Batches[r][run[r].batch])
    BY DEF BatchPrepared, Batch
  <1>4. run[r].batch \in 1 .. Len(Batches[r])
    BY <1>3, Here, ConstantTypes DEF RunHolds
  <1>5. \A i \in 1 .. Len(Batches[r][run[r].batch]) : i < run[r].pos
    BY <1>3, <1>4, Here, BatchLength
  <1>6. QED
    BY <1>1, <1>2, <1>3, <1>5 DEF RunConsents, Preparing

(* The run passes the call at its position, which is authorised. *)
LEMMA PassConsent ==
    ASSUME NEW rows, NEW r \in Runs, NEW x, NEW y, NEW u, NEW v,
           RunConsents(rows, r, x, y), x.pc \in Preparing, InRange(r, x), x.pos \in Nat,
           Authorised(rows, r, x.batch, x.pos),
           u.pc = "batch", u.batch = x.batch, u.pos = x.pos + 1, v.pc # "done"
    PROVE  RunConsents(rows, r, u, v)
  <1>1. x.batch <= Len(Batches[r]) /\ x.batch \in 1 .. Len(Batches[r])
    BY ConstantTypes DEF InRange
  <1>2. Len(Batches[r][x.batch]) \in Nat
    BY <1>1, BatchLength
  <1>3. ASSUME NEW i \in 1 .. Len(Batches[r][u.batch]), i < u.pos
        PROVE  Authorised(rows, r, u.batch, i)
    <2>1. i < x.pos \/ i = x.pos
      BY <1>2, <1>3
    <2>2. QED
      BY <1>1, <1>3, <2>1 DEF RunConsents
  <1>4. QED
    BY <1>3 DEF RunConsents, Preparing, Asking

LEMMA EvaluateConsent ==
    ASSUME TypedInv, NEW r \in Runs, Evaluate(r), RunConsents(row', r, run[r], task[r])
    PROVE  RunConsents(row', r, run'[r], task'[r])
  <1>1. run[r].pc = "batch" /\ task' = task
    BY DEF Evaluate, At
  <1>2. task[r].pc # "done"
    BY <1>1, Here DEF RunHolds
  <1>3. CASE Duplicate(r) \/ Policy[Current(r)] = "allow"
    <2>1. InRange(r, run[r])
      <3>1. /\ run[r].batch <= Len(Batches[r]) /\ run[r].pos <= Len(Batches[r][run[r].batch])
        BY DEF Evaluate, Batch
      <3>2. run[r].batch \in 1 .. Len(Batches[r])
        BY <3>1, Here, ConstantTypes DEF RunHolds
      <3>3. QED
        BY <3>1, <3>2, Here, BatchLength DEF InRange, RunHolds
    <2>2. PICK n : n = run[r].pos + 1
      OBVIOUS
    <2>3. run' = [run EXCEPT ![r].pos = n]
      BY <1>3, <2>2 DEF Evaluate
    <2>4. run'[r].pc = "batch" /\ run'[r].batch = run[r].batch /\ run'[r].pos = n
      BY <1>1, <2>3, Here DEF TypedInv, TypeOK, RunState
    <2>5. Authorised(row', r, run[r].batch, run[r].pos)
      BY <1>3 DEF Authorised, Duplicate, Current, Batch
    <2>6. QED
      BY <1>1, <1>2, <2>1, <2>2, <2>4, <2>5, Here, PassConsent DEF Preparing
  <1>4. CASE ~(Duplicate(r) \/ Policy[Current(r)] = "allow")
    <2>1. Goto(r, "prepare")
      BY <1>4 DEF Evaluate, Goto
    <2>2. KeepsConsent(run[r], task[r], run'[r], task'[r])
      BY <1>1, <2>1, GotoKeeps DEF Preparing
    <2>3. QED
      BY <2>2, QuietRun
  <1>5. QED
    BY <1>3, <1>4

(* The broker answers with what get_exact_binding() read. *)
LEMMA PollConsent ==
    ASSUME TypedInv, NEW r \in Runs, Poll(r), RunConsents(row', r, run[r], task[r])
    PROVE  RunConsents(row', r, run'[r], task'[r])
  <1>1. task[r].pc \in {"first", "poll"} /\ run' = run
    BY DEF Poll
  <1>2. Key(r) \in Keys /\ row[Key(r)].expires \in Nat /\ TypeOK /\ Key(r) = <<r, Id[Current(r)]>>
    BY <1>1, CurrentType DEF TypedInv, TypeOK, Row
  <1>3. PICK t \in Nat :
          /\ row' = Expired(row, IF Matching(r) THEN {Key(r)} ELSE {}, t)
          /\ task' = [task EXCEPT ![r] =
                 IF ~Matching(r) THEN [pc |-> "done", result |-> "error"]
                 ELSE IF Expired(row, IF Matching(r) THEN {Key(r)} ELSE {}, t)[Key(r)].status
                           = "pending" THEN [pc |-> "poll", result |-> "none"]
                 ELSE [pc |-> "done",
                       result |-> Expired(row, IF Matching(r) THEN {Key(r)} ELSE {}, t)[Key(r)].status]]
    BY <1>2, ReadingType DEF Poll
  <1>4. row'[Key(r)].signature = row[Key(r)].signature
    BY <1>2, <1>3, ExpiredMoves
  <1>5. task'[r] = IF ~Matching(r) THEN [pc |-> "done", result |-> "error"]
                   ELSE IF row'[Key(r)].status = "pending" THEN [pc |-> "poll", result |-> "none"]
                   ELSE [pc |-> "done", result |-> row'[Key(r)].status]
    BY <1>2, <1>3 DEF TypeOK
  <1>6. ASSUME task'[r].pc = "done", task'[r].result = "approved"
        PROVE  Approved(row', r, Batches[r][run[r].batch][run[r].pos])
    <2>1. Matching(r) /\ row'[Key(r)].status = "approved"
      BY <1>5, <1>6
    <2>2. QED
      BY <1>2, <1>4, <2>1 DEF Matching, Approved, Current, Batch
  <1>7. QED
    BY <1>1, <1>6 DEF RunConsents

LEMMA DecidedConsent ==
    ASSUME TypedInv, NEW r \in Runs, Decided(r), RunConsents(row', r, run[r], task[r])
    PROVE  RunConsents(row', r, run'[r], task'[r])
  <1>1. /\ run[r].pc = "wait" /\ task[r].pc = "done"
        /\ run'[r].pc = "cleanup" /\ run'[r].batch = run[r].batch
        /\ run'[r].pos = run[r].pos /\ run'[r].outcome = task[r].result
    BY Here DEF Decided, At, TypedInv, TypeOK, RunState
  <1>2. task'[r].pc = "none"
    BY DEF Decided, TypedInv, TypeOK
  <1>3. QED
    BY <1>1, <1>2 DEF RunConsents, Preparing, Asking

LEMMA CleanupConsent ==
    ASSUME TypedInv, NEW r \in Runs, Cleanup(r), RunConsents(row', r, run[r], task[r])
    PROVE  RunConsents(row', r, run'[r], task'[r])
  <1>1. run[r].pc = "cleanup" /\ task' = task
    BY DEF Cleanup, At
  <1>2. PICK c \in {"good", "failed"} : AfterCleanup(r, c)
    BY Here DEF Cleanup, RunState
  <1>3. CASE run[r].outcome = "approved"
    <2>1. PICK n : n = run[r].pos + 1
      OBVIOUS
    <2>2. run' = [run EXCEPT ![r].pc = "batch", ![r].pos = n, ![r].outcome = "none",
                             ![r].cleanup = c]
      BY <1>2, <1>3, <2>1 DEF AfterCleanup
    <2>3. run'[r].pc = "batch" /\ run'[r].batch = run[r].batch /\ run'[r].pos = n
      BY <2>2, Here DEF TypedInv, TypeOK, RunState
    <2>4. /\ InRange(r, run[r]) /\ Policy[Batches[r][run[r].batch][run[r].pos]] = "ask"
          /\ task[r].pc # "done"
      BY <1>1, Here DEF RunHolds, Asking
    <2>5. Authorised(row', r, run[r].batch, run[r].pos)
      BY <1>1, <1>3, <2>4 DEF RunConsents, Authorised
    <2>6. QED
      BY <1>1, <2>1, <2>3, <2>4, <2>5, Here, PassConsent DEF Preparing, Asking
  <1>4. CASE run[r].outcome # "approved"
    <2>1. run' = [run EXCEPT ![r] = [run[r] EXCEPT !.pc = "ended", !.cleanup = c]]
      BY <1>2, <1>4, Here DEF AfterCleanup
    <2>2. QED
      BY <1>1, <2>1, EndKeeps, QuietRun
  <1>5. QED
    BY <1>3, <1>4

LEMMA ExecuteConsent ==
    ASSUME TypedInv, NEW r \in Runs, Execute(r), RunConsents(row', r, run[r], task[r])
    PROVE  RunConsents(row', r, run'[r], task'[r])
  <1>1. run[r].pc = "execute" /\ task' = task
    BY DEF Execute, At
  <1>2. task[r].pc # "done"
    BY <1>1, Here DEF RunHolds
  <1>3. CASE run[r].pos <= Len(Batch(r))
    <2>1. PICK n : n = run[r].pos + 1
      OBVIOUS
    <2>2. run' = [run EXCEPT ![r].pos = n]
      BY <1>3, <2>1 DEF Execute
    <2>3. run'[r].pc = "execute" /\ run'[r].batch = run[r].batch
      BY <1>1, <2>2, Here DEF TypedInv, TypeOK, RunState
    <2>4. QED
      BY <1>1, <1>2, <2>3 DEF RunConsents, Preparing, Asking
  <1>4. CASE ~(run[r].pos <= Len(Batch(r)))
    <2>1. PICK n : n = run[r].batch + 1
      OBVIOUS
    <2>2. run' = [run EXCEPT ![r].pc = "batch", ![r].batch = n, ![r].pos = 1]
      BY <1>4, <2>1 DEF Execute
    <2>3. run'[r].pc = "batch" /\ run'[r].pos = 1
      BY <2>2, Here DEF TypedInv, TypeOK, RunState
    <2>4. \A i \in 1 .. Len(Batches[r][run'[r].batch]) : ~(i < run'[r].pos)
      BY <2>3
    <2>5. QED
      BY <1>1, <1>2, <2>3, <2>4 DEF RunConsents
  <1>5. QED
    BY <1>3, <1>4

LEMMA RunStepConsent ==
    ASSUME TypedInv, NEW r \in Runs, RunStep(r), RunConsents(row', r, run[r], task[r])
    PROVE  RunConsents(row', r, run'[r], task'[r])
  <1>1. CASE Engine(r)
    <2>1. ASSUME \/ Refuse(r) \/ PreparedTooLate(r) \/ Prepare(r) \/ PrepareFails(r)
                 \/ AnnounceFails(r) \/ Announce(r) \/ WaitTimeout(r) \/ CancelAndEnd(r)
          PROVE  RunConsents(row', r, run'[r], task'[r])
      BY <2>1, EngineKeeps, QuietRun
    <2>2. QED
      BY <1>1, <2>1, StartConsent, BatchPreparedConsent, EvaluateConsent, DecidedConsent,
         CleanupConsent, ExecuteConsent DEF Engine
  <1>2. CASE Broker(r)
    BY <1>2, PollConsent, TaskKeeps, QuietRun DEF Broker
  <1>3. ASSUME CancelRun(r) \/ Crash(r) \/ Disconnect(r) \/ DeadlineFires(r)
        PROVE  RunConsents(row', r, run'[r], task'[r])
    BY <1>3, CancelRunKeeps, CrashKeeps, InterruptedKeeps, QuietRun DEF Disconnect, DeadlineFires
  <1>4. QED
    BY <1>1, <1>2, <1>3 DEF RunStep

LEMMA ExecutedConsent ==
    ASSUME TypedInv, ConsentInv, [Next]_vars, NEW e \in executed'
    PROVE  ExecutionConsented(row', e)
  <1>1. TypeOK /\ TableEffect
    BY NextTable DEF TypedInv
  <1>2. CASE e \in executed
    <2>1. e[1] \in Runs /\ ExecutionConsented(row, e)
      BY <1>2 DEF TypedInv, TypeOK, ConsentInv
    <2>2. QED
      BY <1>1, <2>1, AuthorisedLasts DEF ExecutionConsented
  <1>3. CASE e \notin executed
    <2>1. PICK r \in Runs : /\ Execute(r) /\ run[r].pos <= Len(Batch(r))
                            /\ executed' = executed \cup {<<r, run[r].batch, run[r].pos>>}
      BY <1>3, ExecutedGrows
    <2>2. e = <<r, run[r].batch, run[r].pos>> /\ e[1] = r /\ e[2] = run[r].batch
      BY <1>3, <2>1
    <2>3. run[r].pc = "execute" /\ run[r].batch \in 1 .. Len(Batches[r])
      BY <2>1, Here, ConstantTypes DEF Execute, At, RunHolds
    <2>4. \A i \in 1 .. Len(Batches[r][run[r].batch]) : Authorised(row, r, run[r].batch, i)
      BY <2>3 DEF ConsentInv, RunConsents
    <2>5. QED
      BY <1>1, <2>2, <2>3, <2>4, AuthorisedLasts DEF ExecutionConsented
  <1>4. QED
    BY <1>2, <1>3

LEMMA ConsentStep == TypedInv /\ ConsentInv /\ [Next]_vars => ConsentInv'
  <1> SUFFICES ASSUME TypedInv, ConsentInv, [Next]_vars PROVE ConsentInv'
    OBVIOUS
  <1>1. TypeOK /\ TableEffect
    BY NextTable DEF TypedInv
  <1>2. ReceiptInv'
    BY <1>1, ReceiptStep DEF ConsentInv
  <1>3. \A s \in Runs : RunConsents(row', s, run[s], task[s])
    BY <1>1, Here, ConsentLasts DEF ConsentInv
  <1>4. ASSUME NEW s \in Runs PROVE RunConsents(row', s, run'[s], task'[s])
    <2>1. ASSUME NEW r \in Runs, RunStep(r) PROVE RunConsents(row', s, run'[s], task'[s])
      <3>1. CASE s = r
        BY <1>3, <2>1, <3>1, RunStepConsent
      <3>2. CASE s # r
        <4>1. run'[s] = run[s] /\ task'[s] = task[s]
          BY <2>1, <3>2, RunStepControl DEF OthersStay
        <4>2. QED
          BY <1>3, <4>1
      <3>3. QED
        BY <3>1, <3>2
    <2>2. ASSUME UNCHANGED <<run, task>> PROVE RunConsents(row', s, run'[s], task'[s])
      BY <1>3, <2>2
    <2>3. QED
      BY <2>1, <2>2, NextCases, OtherStepControl
  <1>5. QED
    BY <1>2, <1>4, ExecutedConsent DEF ConsentInv

LEMMA ConsentInit == Init => ConsentInv
  <1> SUFFICES ASSUME Init PROVE ConsentInv
    OBVIOUS
  <1>1. \A k \in Keys : row[k].status = "none"
    BY DEF Init, NoRow
  <1>2. ReceiptInv
    BY <1>1 DEF ReceiptInv, ReceiptHolds, AcknowledgedDecisionsStand, Init, Verdicts
  <1>3. \A r \in Runs : run[r].pc = "new" /\ run[r].pos = 1 /\ task[r].pc = "none"
    BY DEF Init
  <1>4. \A r \in Runs : RunConsents(row, r, run[r], task[r])
    BY <1>3 DEF RunConsents, Preparing, Asking
  <1>5. QED
    BY <1>2, <1>4 DEF ConsentInv, Init

(* The layers together are inductive. *)
THEOREM ConsentInvariant == Spec => [](TypedInv /\ ConsentInv)
  BY TypedInit, TypedStep, ConsentInit, ConsentStep, PTL DEF Spec

(* No acknowledged decision is ever lost: whatever timeout, expiry, cleanup *)
(* or second decision races it, the receipt keeps the verdict that its      *)
(* owner was told.                                                          *)
THEOREM AcknowledgedStand == Spec => []AcknowledgedDecisionsStand
  <1>1. ConsentInv => AcknowledgedDecisionsStand
    BY DEF ConsentInv, ReceiptInv
  <1>2. QED
    BY <1>1, ConsentInvariant, PTL

(* The runtime executes no batch one of whose calls lacks its consent: each *)
(* is a duplicate that is skipped, allowed, or approved by the run's owner  *)
(* before its expiry and under the same arguments.                          *)
THEOREM ConsentBeforeExecution == Spec => []ExecutedOnlyWithConsent
  <1>1. TypedInv /\ ConsentInv => ExecutedOnlyWithConsent
    <2> SUFFICES ASSUME TypedInv, ConsentInv, NEW e \in executed,
                        NEW i \in 1 .. Len(Batches[e[1]][e[2]]), NEW c,
                        c = Batches[e[1]][e[2]][i],
                        ~DuplicateAt(e[1], e[2], i), Policy[c] # "allow"
                 PROVE  Policy[c] = "ask" /\ Consent(e[1], c)
      BY DEF ExecutedOnlyWithConsent
    <2>1. e[1] \in Runs /\ ExecutionConsented(row, e)
      BY DEF TypedInv, TypeOK, ConsentInv
    <2>2. Policy[c] = "ask" /\ Approved(row, e[1], c) /\ <<e[1], Id[c]>> \in Keys
      BY <2>1, CallType DEF ExecutionConsented, Authorised
    <2>3. PICK k \in Keys : k = <<e[1], Id[c]>> /\ k[1] = e[1]
      BY <2>2
    <2>4. ReceiptHolds(row, answered, k) /\ row[k].status = "approved"
      BY <2>2, <2>3 DEF ConsentInv, ReceiptInv, Approved
    <2>5. /\ row[k].decided < row[k].expires
          /\ [user |-> Owner[e[1]], key |-> k, verdict |-> "approved"] \in answered
      BY <2>3, <2>4 DEF ReceiptHolds, Verdicts
    <2>6. QED
      BY <2>2, <2>3, <2>5 DEF Consent, Approved
  <1>2. QED
    BY <1>1, ConsentInvariant, PTL

-----------------------------------------------------------------------------
(* The third layer: cleanup.  Once the route of a run has closed with every *)
(* cleanup done, the run has one request pending at most, the one whose     *)
(* reserve() committed though prepare() raised, and it is about to be       *)
(* cancelled under the very binding it was inserted with.                   *)

(* x, z: the run and its route *)
CleanHolds(rows, r, x, z) ==
    z = "closed" /\ x.pc # "dead" /\ x.cleanup = "good" =>
        \A i \in Ids : rows[<<r, i>>].status = "pending" =>
            /\ x.pc = "cancelling"
            /\ i = Id[Batches[r][x.batch][x.pos]]
            /\ rows[<<r, i>>].signature = Signature[Batches[r][x.batch][x.pos]]

CleanInv == \A r \in Runs : CleanHolds(row, r, run[r], route[r])

(* A row is pending after a step when it was before, or was just reserved. *)
LEMMA PendingFrom ==
    ASSUME TypedInv, TableEffect, NEW k \in Keys, row'[k].status = "pending"
    PROVE  row'[k] = row[k] \/ \E r \in Runs : Reservation(r) /\ k = Key(r)
  <1>1. row[k] \in Row
    BY DEF TypedInv, TypeOK
  <1>2. ASSUME QuietMove(row[k], row'[k]) PROVE row'[k] = row[k]
    <2>1. ASSUME NEW s \in {"expired", "cancelled"}, NEW t \in Nat,
                 row'[k] = Settled(row[k], s, t)
          PROVE  FALSE
      <3>1. row'[k].status = s
        BY <1>1, <2>1, StatusFacts, SettledType
      <3>2. QED
        BY <3>1
    <2>2. QED
      BY <1>2, <2>1 DEF QuietMove
  <1>3. CASE QuietTable
    BY <1>2, <1>3 DEF QuietTable
  <1>4. ASSUME NEW r \in Runs, Reservation(r) PROVE row'[k] = row[k] \/ k = Key(r)
    BY <1>4 DEF Reservation
  <1>5. ASSUME NEW j \in Keys, NEW verdict \in Verdicts, NEW t \in Nat, Decision(j, verdict, t)
        PROVE  row'[k] = row[k]
    <2>1. CASE k = j
      <3>1. row'[k].status = verdict
        BY <1>1, <1>5, <2>1, StatusFacts, SettledType DEF Decision
      <3>2. QED
        BY <3>1, StatusFacts
    <2>2. CASE k # j
      BY <1>2, <1>5, <2>2 DEF Decision
    <2>3. QED
      BY <2>1, <2>2
  <1>6. QED
    BY <1>3, <1>4, <1>5 DEF TableEffect

(* What a step of run r owes: from x, z to u, w over the table rows. *)
CleanMove(rows, r, x, u, z, w) ==
    w = "closed" /\ u.pc # "dead" /\ u.cleanup = "good" =>
        \/ \A i \in Ids : rows[<<r, i>>].status # "pending"
        \/ /\ z = "closed" /\ x.pc # "dead" /\ x.cleanup = "good"
           /\ x.pc = "cancelling" =>
                \/ u = x
                \/ LET c == Batches[r][x.batch][x.pos] IN
                   ~(rows[<<r, Id[c]>>].status = "pending"
                     /\ rows[<<r, Id[c]>>].signature = Signature[c])

LEMMA ClosedStays ==
    ASSUME TypedInv, NEW r \in Runs, route' = [route EXCEPT ![r] = Closing(route[r])]
    PROVE  route'[r] = "closed" => route[r] = "closed"
  BY DEF TypedInv, TypeOK, Closing

(* The coroutine's own steps, outside the cancellation on its way out. *)
LEMMA EngineClean ==
    ASSUME TypedInv, NEW r \in Runs, Engine(r), ~CancelAndEnd(r)
    PROVE  CleanMove(row', r, run[r], run'[r], route[r], route'[r])
  <1>1. run \in [Runs -> RunState] /\ run[r] \in RunState
    BY DEF TypedInv, TypeOK
  <1>2. run[r].pc # "dead" /\ run[r].pc # "cancelling"
    BY DEF Engine, Start, BatchPrepared, Evaluate, Refuse, Prepare, PrepareFails,
       PreparedTooLate, Announce, AnnounceFails, Decided, WaitTimeout, Cleanup, Execute, At
  <1>3. route'[r] = "closed" => route[r] = "closed"
    <2>1. ASSUME \/ Start(r) \/ BatchPrepared(r) \/ Evaluate(r) \/ Prepare(r) \/ PrepareFails(r)
                 \/ Announce(r) \/ AnnounceFails(r) \/ Decided(r) \/ WaitTimeout(r) \/ Execute(r)
          PROVE  route' = route
      BY <2>1 DEF Start, BatchPrepared, Evaluate, Prepare, PrepareFails, Announce,
         AnnounceFails, Decided, WaitTimeout, Execute
    <2>2. ASSUME Refuse(r) \/ PreparedTooLate(r) \/ Cleanup(r)
          PROVE  route' = route \/ route' = [route EXCEPT ![r] = Closing(route[r])]
      BY <2>2 DEF Refuse, PreparedTooLate, Cleanup, AfterCleanup, End, Closing
    <2>3. QED
      BY <2>1, <2>2, ClosedStays DEF Engine
  <1>4. run'[r].cleanup = "good" => run[r].cleanup = "good"
    <2>1. ASSUME Start(r) \/ BatchPrepared(r) \/ Refuse(r) \/ Prepare(r) \/ PrepareFails(r)
                 \/ PreparedTooLate(r) \/ AnnounceFails(r) \/ Decided(r) \/ WaitTimeout(r)
          PROVE  run'[r].cleanup = run[r].cleanup
      BY <1>1, <2>1 DEF Start, BatchPrepared, Refuse, Prepare, PrepareFails, PreparedTooLate,
         AnnounceFails, Decided, WaitTimeout, End, Goto, RunState
    <2>2. ASSUME Evaluate(r) \/ Execute(r)
          PROVE  run'[r].cleanup = run[r].cleanup
      <3>1. PICK n, m : n = run[r].pos + 1 /\ m = run[r].batch + 1
        OBVIOUS
      <3>2. \/ run' = [run EXCEPT ![r].pos = n]
            \/ run' = [run EXCEPT ![r].pc = "prepare"]
            \/ run' = [run EXCEPT ![r].pc = "batch", ![r].batch = m, ![r].pos = 1]
        BY <2>2, <3>1 DEF Evaluate, Execute
      <3>3. QED
        BY <1>1, <3>2 DEF RunState
    <2>3. CASE Announce(r)
      <3>1. PICK n : n = MinOf(run[r].started + RunTicks, now + ApprovalTicks)
        OBVIOUS
      <3>2. run' = [run EXCEPT ![r].pc = "wait", ![r].timer = n]
        BY <2>3, <3>1 DEF Announce
      <3>3. QED
        BY <1>1, <3>2 DEF RunState
    <2>4. CASE Cleanup(r)
      <3>1. PICK c \in {run[r].cleanup, "failed"} : AfterCleanup(r, c)
        BY <2>4 DEF Cleanup
      <3>2. PICK n : n = run[r].pos + 1
        OBVIOUS
      <3>3. \/ run' = [run EXCEPT ![r].pc = "batch", ![r].pos = n, ![r].outcome = "none",
                                  ![r].cleanup = c]
            \/ run' = [run EXCEPT ![r].pc = "ended", ![r].cleanup = c]
        BY <3>1, <3>2 DEF AfterCleanup
      <3>4. run'[r].cleanup = c
        BY <1>1, <3>3 DEF RunState
      <3>5. QED
        BY <3>1, <3>4
    <2>5. QED
      BY <2>1, <2>2, <2>3, <2>4 DEF Engine
  <1>5. QED
    BY <1>2, <1>3, <1>4 DEF CleanMove

LEMMA CancelAndEndClean ==
    ASSUME TypedInv, NEW r \in Runs, CancelAndEnd(r)
    PROVE  CleanMove(row', r, run[r], run'[r], route[r], route'[r])
  <1>1. run[r].pc = "cancelling" /\ route' = [route EXCEPT ![r] = Closing(route[r])]
    BY DEF CancelAndEnd, At, Closing
  <1>2. run \in [Runs -> RunState] /\ run[r] \in RunState /\ TypeOK
    BY DEF TypedInv, TypeOK
  <1>3. CASE run' = [run EXCEPT ![r].pc = "ended", ![r].cleanup = "failed"]
    <2>1. run'[r].cleanup = "failed"
      BY <1>2, <1>3 DEF RunState
    <2>2. QED
      BY <2>1 DEF CleanMove
  <1>4. ASSUME NEW t \in Readings, CancelOne(Key(r), Signature[Current(r)], t),
               run' = [run EXCEPT ![r].pc = "ended"]
        PROVE  CleanMove(row', r, run[r], run'[r], route[r], route'[r])
    <2>1. run'[r].cleanup = run[r].cleanup
      BY <1>2, <1>4 DEF RunState
    <2>2. Key(r) \in Keys /\ Key(r) = <<r, Id[Current(r)]>> /\ t \in Nat
      BY <1>1, <1>2, CurrentType, ReadingType DEF Asking
    <2>3. ~(row'[Key(r)].status = "pending" /\ row'[Key(r)].signature = Signature[Current(r)])
      BY <1>2, <1>4, <2>2, CancelOneMoves
    <2>4. QED
      BY <1>1, <2>1, <2>2, <2>3, ClosedStays DEF CleanMove, Current, Batch
  <1>5. QED
    BY <1>3, <1>4 DEF CancelAndEnd

LEMMA RunStepClean ==
    ASSUME TypedInv, NEW r \in Runs, RunStep(r)
    PROVE  CleanMove(row', r, run[r], run'[r], route[r], route'[r])
  <1>1. run \in [Runs -> RunState] /\ run[r] \in RunState /\ TypeOK /\ route \in [Runs -> Routes]
    BY DEF TypedInv, TypeOK
  <1>2. CASE Engine(r)
    BY <1>2, EngineClean, CancelAndEndClean
  <1>3. CASE Broker(r)
    <2>1. run' = run /\ route' = route
      BY <1>3 DEF Broker, Poll, PollFails, TaskCancelled
    <2>2. QED
      BY <2>1 DEF CleanMove
  <1>4. CASE CancelRun(r)
    <2>1. CASE run' = [run EXCEPT ![r].cleanup = "failed"]
      <3>1. run'[r].cleanup = "failed"
        BY <1>1, <2>1 DEF RunState
      <3>2. QED
        BY <3>1 DEF CleanMove
    <2>2. ASSUME NEW t \in Readings, CancelAll(r, t)
          PROVE  CleanMove(row', r, run[r], run'[r], route[r], route'[r])
      <3>1. t \in Nat
        BY <1>1, ReadingType
      <3>2. \A i \in Ids : row'[<<r, i>>].status # "pending"
        BY <1>1, <2>2, <3>1, CancelAllMoves
      <3>3. QED
        BY <3>2 DEF CleanMove
    <2>3. QED
      BY <1>4, <2>1, <2>2 DEF CancelRun
  <1>5. CASE Crash(r)
    <2>1. run'[r].pc = "dead"
      BY <1>1, <1>5 DEF Crash, RunState
    <2>2. QED
      BY <2>1 DEF CleanMove
  <1>6. CASE Interrupted(r)
    <2>1. route'[r] = "closing"
      BY <1>1, <1>6 DEF Interrupted
    <2>2. QED
      BY <2>1 DEF CleanMove
  <1>7. QED
    BY <1>2, <1>3, <1>4, <1>5, <1>6 DEF RunStep, Disconnect, DeadlineFires

(* The reservation of a run whose prepare() raises. *)
LEMMA ReservationClean ==
    ASSUME TypedInv, CleanInv, NEW r \in Runs, Reservation(r)
    PROVE  CleanHolds(row', r, run'[r], route'[r])
  <1>1. run \in [Runs -> RunState] /\ run[r] \in RunState /\ route' = route
    BY DEF TypedInv, TypeOK, Reservation, Prepare, PrepareFails
  <1>2. CASE Prepare(r)
    BY <1>1, <1>2 DEF Prepare, CleanHolds
  <1>3. CASE PrepareFails(r)
    <2>1. /\ run'[r].pc = "cancelling" /\ run'[r].batch = run[r].batch
          /\ run'[r].pos = run[r].pos /\ run'[r].cleanup = run[r].cleanup
      BY <1>1, <1>3 DEF PrepareFails, Goto, RunState
    <2> SUFFICES ASSUME route'[r] = "closed", run'[r].cleanup = "good", NEW i \in Ids,
                        row'[<<r, i>>].status = "pending"
                 PROVE  /\ i = Id[Current(r)]
                        /\ row'[<<r, i>>].signature = Signature[Current(r)]
      BY <2>1 DEF CleanHolds, Current, Batch
    <2>2. run[r].pc = "prepare" /\ <<r, i>> \in Keys
      BY DEF Reservation, Keys
    <2>3. row[<<r, i>>].status # "pending"
      BY <1>1, <2>1, <2>2 DEF CleanInv, CleanHolds
    <2>4. <<r, i>> = Key(r)
      BY <2>2, <2>3 DEF Reservation
    <2>5. QED
      BY <2>4 DEF Reservation, Key
  <1>4. QED
    BY <1>2, <1>3 DEF Reservation

LEMMA CleanStep == TypedInv /\ CleanInv /\ [Next]_vars => CleanInv'
  <1> SUFFICES ASSUME TypedInv, CleanInv, [Next]_vars, NEW s \in Runs
               PROVE  CleanHolds(row', s, run'[s], route'[s])
    BY DEF CleanInv
  <1>1. TableEffect
    BY NextTable
  <1>2. CASE Reservation(s)
    BY <1>2, ReservationClean
  <1>3. CASE ~Reservation(s)
    <2>1. ASSUME NEW i \in Ids, row'[<<s, i>>].status = "pending"
          PROVE  row'[<<s, i>>] = row[<<s, i>>]
      <3>1. <<s, i>> \in Keys
        BY DEF Keys
      <3>2. \A r \in Runs : Key(r) = <<s, i>> => r = s
        BY DEF Key
      <3>3. QED
        BY <1>1, <1>3, <2>1, <3>1, <3>2, PendingFrom
    <2>2. ASSUME CleanMove(row', s, run[s], run'[s], route[s], route'[s])
          PROVE  CleanHolds(row', s, run'[s], route'[s])
      BY <2>1, <2>2 DEF CleanInv, CleanHolds, CleanMove
    <2>3. ASSUME run'[s] = run[s], route'[s] = route[s]
          PROVE  CleanHolds(row', s, run'[s], route'[s])
      BY <2>1, <2>3 DEF CleanInv, CleanHolds
    <2>4. ASSUME NEW r \in Runs, RunStep(r) PROVE CleanHolds(row', s, run'[s], route'[s])
      BY <2>2, <2>3, <2>4, RunStepClean, RunStepControl DEF OthersStay
    <2>5. QED
      BY <2>3, <2>4, NextCases, OtherStepControl
  <1>4. QED
    BY <1>2, <1>3

LEMMA CleanInit == Init => CleanInv
  BY DEF Init, CleanInv, CleanHolds

(* The inductive invariant of the cleanup. *)
THEOREM CleanInvariant == Spec => [](TypedInv /\ CleanInv)
  BY TypedInit, TypedStep, CleanInit, CleanStep, PTL DEF Spec

(* When the coroutine, its task and its route are through and no cleanup    *)
(* failed, no request of the run is left pending, though a reserve() that   *)
(* outlives its run may commit after the route has cancelled the rest.      *)
THEOREM NothingPendingAfterEnd == Spec => []EndedRunsLeaveNothingPending
  <1>1. TypedInv /\ CleanInv => EndedRunsLeaveNothingPending
    BY DEF CleanInv, CleanHolds, EndedRunsLeaveNothingPending
  <1>2. QED
    BY <1>1, CleanInvariant, PTL
=============================================================================
