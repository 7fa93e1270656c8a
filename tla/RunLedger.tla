------------------------------ MODULE RunLedger ------------------------------
(***************************************************************************)
(* The append-only run ledger (services/run_ledger.py): runs, their        *)
(* numbered events, and the checkpoints from which a conversation is       *)
(* forked.  Each repository call is one or two database transactions; a    *)
(* transaction is one action.  append() is two: ensure_run() commits       *)
(* before the sequence number is allocated, so a prune, or the event that  *)
(* ends the run, can come between them.                                    *)
(***************************************************************************)
EXTENDS Integers, FiniteSets

CONSTANTS
    Runs, Users, Convs, Writers, None,
    StartConvs,     \* the conversations at the start, the others are targets of forks
    OwnerOf,        \* [Convs -> Users]: who owns a conversation
    MaxEvents,      \* bound: events in the ledger
    MaxMessages,    \* bound: messages that are written after the start
    MaxClock        \* bound: end of time

VARIABLES
    runs,           \* [Runs -> RunRow]
    events,         \* set of RuntimeEventRow
    convs,          \* conversations that exist
    messages,       \* set of MessageRow: conversation and created_at
    checkpoints,    \* set of RunCheckpointRow: run, sequence and its snapshot
    drafts,         \* set of ForkDraftRow
    pending,        \* [Writers -> the append() between its two transactions]
    ledgerClock

ledgerRows == <<runs, events, convs, messages, checkpoints, drafts>>
ledgerVars == <<ledgerRows, pending, ledgerClock>>

(* completed, failed and cancelled: the ledger treats the three alike. *)
Terminal == {"ended"}
Kinds == {"progress", "run_stopped"}

Absent == [status |-> "absent", user |-> None, conv |-> None, next |-> 1,
           completed |-> None, parent |-> None, forkSeq |-> None]

NewRun(u, c) == [Absent EXCEPT !.status = "running", !.user = u, !.conv = c]

LedgerInit ==
    /\ runs = [r \in Runs |-> Absent] /\ events = {}
    /\ convs = StartConvs /\ messages = {} /\ checkpoints = {} /\ drafts = {}
    /\ pending = [w \in Writers |-> None] /\ ledgerClock = 0

Present(r) == runs[r].status # "absent"
EventsOf(r) == {e \in events : e.run = r}
LastOf(r) == CHOOSE e \in EventsOf(r) : e.seq = runs[r].next - 1

-----------------------------------------------------------------------------
(* ensure_run(): the insert that creates the run also consumes the fork    *)
(* draft of its conversation; a run that exists is left alone.             *)
DraftFor(u, c) == {d \in drafts : d.user = u /\ d.target = c}

Lineage(row, found) ==
    IF found = {} THEN row
    ELSE LET d == CHOOSE d \in found : TRUE
         IN  [row EXCEPT !.parent = d.run, !.forkSeq = d.seq]

EnsureRun(r, u, c) ==
    IF Present(r) THEN UNCHANGED ledgerRows
    ELSE /\ runs' = [runs EXCEPT ![r] = Lineage(NewRun(u, c), DraftFor(u, c))]
         /\ drafts' = drafts \ DraftFor(u, c)
         /\ UNCHANGED <<events, convs, messages, checkpoints>>

(* append(), first transaction. *)
BeginAppend(w, r, u, c) ==
    /\ pending[w] = None /\ c \in convs /\ OwnerOf[c] = u
    /\ EnsureRun(r, u, c)
    /\ pending' = [pending EXCEPT ![w] = [run |-> r, user |-> u]]
    /\ UNCHANGED ledgerClock

(* Mutant: the number is allocated without asking whether the run has ended. *)
AllocatesAlways(r, u) == Present(r) /\ runs[r].user = u

(* append(), second transaction: UPDATE ... RETURNING allocates the number, *)
(* the event is inserted, and run_stopped closes the row.                   *)
Allocates(r, u) == runs[r].status = "running" /\ runs[r].user = u

Closed(row) == [row EXCEPT !.status = "ended", !.completed = ledgerClock]

InsertEvent(r, kind) ==
    LET row == [runs[r] EXCEPT !.next = @ + 1]
    IN  /\ events' = events \cup
               {[run |-> r, seq |-> row.next - 1, user |-> row.user, kind |-> kind,
                 at |-> ledgerClock]}
        /\ runs' = [runs EXCEPT ![r] = IF kind = "run_stopped" THEN Closed(row) ELSE row]
        /\ UNCHANGED <<convs, messages, checkpoints, drafts>>

FinishAppend(w, kind) ==
    /\ pending[w] # None
    /\ LET p == pending[w]
       IN  /\ Allocates(p.run, p.user) /\ Cardinality(events) < MaxEvents
           /\ InsertEvent(p.run, kind)
    /\ pending' = [pending EXCEPT ![w] = None]
    /\ UNCHANGED ledgerClock

(* "run owner mismatch" or "run is not running": nothing is written. *)
RefuseAppend(w) ==
    /\ pending[w] # None
    /\ ~Allocates(pending[w].run, pending[w].user)
    /\ pending' = [pending EXCEPT ![w] = None]
    /\ UNCHANGED <<ledgerRows, ledgerClock>>

(* Both transactions of append() at once, for a caller nobody interleaves with. *)
AppendBoth(r, u, c, kind) ==
    /\ Present(r) => Allocates(r, u)
    /\ LET row == IF Present(r) THEN runs[r] ELSE Lineage(NewRun(u, c), DraftFor(u, c))
           counted == [row EXCEPT !.next = @ + 1]
       IN  /\ events' = events \cup
                  {[run |-> r, seq |-> row.next, user |-> u, kind |-> kind, at |-> ledgerClock]}
           /\ runs' = [runs EXCEPT ![r] =
                  IF kind = "run_stopped" THEN Closed(counted) ELSE counted]
           /\ drafts' = IF Present(r) THEN drafts ELSE drafts \ DraftFor(u, c)
    /\ UNCHANGED <<convs, messages, checkpoints, pending, ledgerClock>>

(* ensure_child_run(): a child has its parent's owner; an existing child is *)
(* accepted only if it is the same parent's.                                *)
EnsureChildRun(r, parent, u) ==
    /\ Present(parent) /\ runs[parent].user = u
    /\ ~Present(r)
    /\ runs' = [runs EXCEPT ![r] = [NewRun(u, runs[parent].conv) EXCEPT !.parent = parent]]
    /\ UNCHANGED <<events, convs, messages, checkpoints, drafts, pending, ledgerClock>>

-----------------------------------------------------------------------------
(* fork(): the conversation as it stood at the event, stored once per event; *)
(* the copies are written now.                                               *)
Cutoff(e) == IF e.kind = "run_stopped" THEN runs[e.run].completed ELSE e.at

Snapshot(e) == {m.at : m \in {m \in messages : m.conv = runs[e.run].conv /\ m.at <= Cutoff(e)}}

(* The draft that links the new conversation to its source. *)
ForkDraft(u, e, target) == [user |-> u, run |-> e.run, seq |-> e.seq, target |-> target]

Stored(e) == {k \in checkpoints : k.run = e.run /\ k.seq = e.seq}

Fork(u, e, target) ==
    /\ e \in events /\ e.user = u /\ Present(e.run) /\ runs[e.run].user = u
    /\ target \notin convs /\ OwnerOf[target] = u
    /\ LET stored == IF Stored(e) # {} THEN Stored(e)
                     ELSE {[run |-> e.run, seq |-> e.seq, snapshot |-> Snapshot(e)]}
           taken == UNION {k.snapshot : k \in stored}
       IN  /\ checkpoints' = checkpoints \cup stored
           /\ convs' = convs \cup {target}
           /\ messages' = messages \cup {[conv |-> target, at |-> ledgerClock] : t \in taken}
           /\ drafts' = drafts \cup {ForkDraft(u, e, target)}
    /\ UNCHANGED <<runs, events, pending, ledgerClock>>

(* Deleting runs cascades to events, checkpoints and drafts, and is refused *)
(* as a whole while a run that stays has one of them as its parent.         *)
DeleteRuns(gone) ==
    /\ gone # {}
    /\ \A r \in Runs \ gone : runs[r].parent \notin gone
    /\ runs' = [r \in Runs |-> IF r \in gone THEN Absent ELSE runs[r]]
    /\ events' = {e \in events : e.run \notin gone}
    /\ checkpoints' = {k \in checkpoints : k.run \notin gone}
    /\ drafts' = {d \in drafts : d.run \notin gone}
    /\ UNCHANGED <<convs, messages, pending, ledgerClock>>

Prunable == {r \in Runs : runs[r].status \in Terminal}

PruneCompleted(u) ==
    \E before \in 0 .. MaxClock + 1 :
        DeleteRuns({r \in Prunable : runs[r].user = u /\ runs[r].completed < before})

(* Oldest first, until at most max events are left or no terminal run is.  *)
Older(q, r) == runs[q].completed <= runs[r].completed

PruneToBudget ==
    \E max \in 0 .. MaxEvents, gone \in SUBSET Prunable :
        /\ Cardinality(events) > max
        /\ \A q \in gone, r \in Prunable \ gone : Older(q, r)
        /\ LET left(removed) == Cardinality({e \in events : e.run \notin removed})
           IN  /\ left(gone) <= max \/ gone = Prunable
               /\ \E last \in gone : left(gone \ {last}) > max /\ \A q \in gone : Older(q, last)
        /\ DeleteRuns(gone)

AddMessage(c) ==
    /\ c \in convs /\ Cardinality(messages) < MaxMessages
    /\ messages' = messages \cup {[conv |-> c, at |-> ledgerClock]}
    /\ UNCHANGED <<runs, events, convs, checkpoints, drafts, pending, ledgerClock>>

LedgerTick == ledgerClock < MaxClock /\ ledgerClock' = ledgerClock + 1 /\ UNCHANGED <<ledgerRows, pending>>

LedgerNext ==
    \/ \E w \in Writers, r \in Runs, u \in Users, c \in Convs :
           BeginAppend(w, r, u, c)
    \/ \E w \in Writers, kind \in Kinds : FinishAppend(w, kind)
    \/ \E w \in Writers : RefuseAppend(w)
    \/ \E r \in Runs, parent \in Runs, u \in Users : EnsureChildRun(r, parent, u)
    \/ \E u \in Users, e \in events, target \in Convs : Fork(u, e, target)
    \/ \E u \in Users : PruneCompleted(u)
    \/ PruneToBudget
    \/ \E c \in Convs : AddMessage(c)
    \/ LedgerTick

-----------------------------------------------------------------------------
(* The numbers of a run's events are 1, 2, ... without a gap or a repetition, *)
(* whatever appends interleave (append, run_ledger.py:429-465).               *)
DenseSequences ==
    \A r \in Runs : /\ {e.seq : e \in EventsOf(r)} = 1 .. runs[r].next - 1
                    /\ Cardinality(EventsOf(r)) = runs[r].next - 1

(* A run has ended exactly when its last event, and no other, is run_stopped: *)
(* nothing is appended to a run that has ended (append, run_ledger.py:434).    *)
TerminalEventIsLast ==
    \A r \in Runs : \A e \in EventsOf(r) :
        e.kind = "run_stopped" <=> (runs[r].status \in Terminal /\ e.seq = runs[r].next - 1)

(* The lineage of a run that exists leads to a run of the same owner that     *)
(* exists, and two runs never share a fork draft (ensure_run, ensure_child_run, *)
(* _delete_terminal_runs).                                                      *)
LineageResolves ==
    /\ \A r \in Runs : runs[r].parent # None =>
           Present(runs[r].parent) /\ runs[runs[r].parent].user = runs[r].user
    /\ \A q, r \in Runs :
           q # r /\ runs[q].forkSeq # None /\ runs[r].forkSeq # None => runs[q].conv # runs[r].conv
    /\ \A d \in drafts : Present(d.run)

(* Forks of one event agree, and none shows a message written after the event *)
(* (fork, run_ledger.py:632-735).                                              *)
ForksShowThePast ==
    /\ \A k, l \in checkpoints : k.run = l.run /\ k.seq = l.seq => k = l
    /\ \A k \in checkpoints : \A e \in events :
           e.run = k.run /\ e.seq = k.seq => \A t \in k.snapshot : t <= e.at
==============================================================================
