----------------------------- MODULE RunQueries ------------------------------
(***************************************************************************)
(* Readers of recorded runs: the queries of their owner, and the exports   *)
(* with their grants.  The two share no state; each has its own variables, *)
(* initial states and next-state relation.                                 *)
(***************************************************************************)
EXTENDS Integers, Sequences, FiniteSets
LOCAL INSTANCE SequencesExt

CONSTANTS
    QueryRuns,      \* identifiers of runs, numbers
    RunPageLimit,   \* limit of a page of runs
    EventPageLimit, \* limit of a page of events
    ViewLimit,      \* events a view asks for (200)
    MaxLogged,      \* bound: events of a run
    MaxStarted,     \* bound: values of started_at
    Exporters,      \* requests of POST /exports
    Grants,         \* identities, and so tokens, of grants
    Recipients, Purposes,
    Lifetime,       \* expires_in
    ExportPage,     \* 200 in the code
    MaxExported,    \* _MAX_EVENTS
    RunLength,      \* bound on the events of the run
    MaxTime         \* bound on the clock

VARIABLES
    runTable,       \* [QueryRuns -> RunRow]
    eventLog,       \* [QueryRuns -> kinds of its events, in order of sequence]
    reader,         \* the request, or the client going through pages
    xRun,           \* the run: [events, stopped, exists]
    exporter,       \* [Exporters -> where create_export() stands and what it has read]
    exportRows,     \* RunExportRow: [content, sound, exists] per creating request
    grants,         \* [Grants -> RunShareGrantRow or NoGrant]
    redeem,         \* a redemption: [pc, grant, who, purpose, at]
    bundlesRead,    \* what redemptions returned: [grant, who, purpose, time, content]
    xNow

-----------------------------------------------------------------------------
(***************************************************************************)
(* Reading the run ledger while runs go on (the readers of                 *)
(* services/run_ledger.py and the GET routes of routes/runs.py): paging    *)
(* through runs and children by offset and through events by cursor, and   *)
(* the views that read a run's row and its events in two transactions.     *)
(* Rows of one owner; identifiers are numbers so that they can be ordered. *)
(***************************************************************************)

queryVars == <<runTable, eventLog, reader>>

\* ------------------------------------------------------------------- the rows

NoRow == [status |-> "absent", started |-> 0, parent |-> 0, summary |-> FALSE]
Kinds == {"policy_decided", "tool_call_requested"}
Live == {r \in QueryRuns : runTable[r].status \in {"running", "completed"}}
NoReader == [kind |-> "none", run |-> 0, position |-> 0, seen |-> <<>>, began |-> {}, shrank |-> FALSE,
             row |-> NoRow, view |-> <<>>, stage |-> "idle"]

QueryInit ==
    /\ runTable = [r \in QueryRuns |-> NoRow]
    /\ eventLog = [r \in QueryRuns |-> <<>>]
    /\ reader = NoReader

(* A row is inserted; its started_at was taken before the commit, on the   *)
(* clock of its process.                                                   *)
StartRun(r) ==
    /\ runTable[r].status = "absent"
    /\ \E at \in 1..MaxStarted, p \in {0} \cup Live :
           runTable' = [runTable EXCEPT ![r] =
               [NoRow EXCEPT !.status = "running", !.started = at, !.parent = p]]
    /\ UNCHANGED <<eventLog, reader>>

(* safe_event_payload() and append(): a known kind, the next sequence. *)
LogEvent(r, kind) ==
    /\ runTable[r].status = "running" /\ Len(eventLog[r]) < MaxLogged - 1
    /\ eventLog' = [eventLog EXCEPT ![r] = Append(@, kind)]
    /\ UNCHANGED <<runTable, reader>>

(* The terminal event and the row's status are one transaction. *)
CompleteRun(r) ==
    /\ runTable[r].status = "running"
    /\ eventLog' = [eventLog EXCEPT ![r] = Append(@, "run_stopped")]
    /\ runTable' = [runTable EXCEPT ![r].status = "completed"]
    /\ UNCHANGED reader

(* finalize_metadata(): the summary of the answer, after the run. *)
FinalizeMetadata(r) ==
    /\ runTable[r].status = "completed" /\ ~runTable[r].summary
    /\ runTable' = [runTable EXCEPT ![r].summary = TRUE]
    /\ UNCHANGED <<eventLog, reader>>

(* A completed run without children is deleted with its events. *)
PruneRun(r) ==
    /\ runTable[r].status = "completed" /\ \A x \in Live : runTable[x].parent # r
    /\ runTable' = [runTable EXCEPT ![r] = [NoRow EXCEPT !.status = "pruned"]]
    /\ eventLog' = [eventLog EXCEPT ![r] = <<>>]
    /\ reader' = IF reader.kind = "none" THEN reader ELSE [reader EXCEPT !.shrank = TRUE]

\* ---------------------------------------------------------- queries by offset

(* order_by(started_at.desc(), run_id.desc()) *)
Newer(a, b) ==
    runTable[a].started > runTable[b].started \/ (runTable[a].started = runTable[b].started /\ a > b)

(* _bounded_page() is satisfied; limit() and offset() of the ordered rows. *)
PageOf(rows, limit, offset) ==
    LET all == SetToSortSeq(rows, Newer) IN SubSeq(all, offset + 1, Min({Len(all), offset + limit}))

(* The rows of list() and of list_children(). *)
Children(p) == {r \in Live : runTable[r].parent = p}
RowsOf(kind, p) == IF kind = "list" THEN Live ELSE Children(p)

(* list_runs() and get_run_children(), the first page on. *)
BeginListing ==
    /\ reader.stage = "idle" /\ Live # {}
    /\ \E kind \in {"list", "children"}, p \in Live :
           reader' = [NoReader EXCEPT !.kind = kind, !.run = IF kind = "list" THEN 0 ELSE p, !.stage = "paging",
                                      !.began = RowsOf(kind, p)]
    /\ UNCHANGED <<runTable, eventLog>>

(* A page: a client asks on until one comes back short.  The children of   *)
(* a run that is gone are not found.                                       *)
ReadRunPage ==
    /\ reader.stage = "paging" /\ reader.kind \in {"list", "children"}
    /\ LET page == PageOf(RowsOf(reader.kind, reader.run), RunPageLimit, reader.position)
           found == reader.kind = "children" => reader.run \in Live
       IN reader' = IF ~found THEN [NoReader EXCEPT !.stage = "notfound"]
                    ELSE [reader EXCEPT !.seen = @ \o page,
                                        !.position = @ + RunPageLimit,
                                        !.stage = IF Len(page) < RunPageLimit THEN "done" ELSE "paging"]
    /\ UNCHANGED <<runTable, eventLog>>

\* ---------------------------------------------------------- events by cursor

(* events(): sequence > after_sequence, in order, at most `limit`. *)
EventsAfter(r, limit, after) ==
    LET all == SelectSeq([i \in 1..Len(eventLog[r]) |-> i], LAMBDA i : i > after) IN
    SubSeq(all, 1, Min({Len(all), limit}))

BeginEvents(r) ==
    /\ reader.stage = "idle" /\ r \in Live
    /\ reader' = [NoReader EXCEPT !.kind = "events", !.run = r, !.stage = "paging"]
    /\ UNCHANGED <<runTable, eventLog>>

(* get_run_events(); the next request follows the last event seen. *)
ReadEventPage ==
    /\ reader.stage = "paging" /\ reader.kind = "events"
    /\ LET page == EventsAfter(reader.run, EventPageLimit, reader.position) IN
       reader' = IF reader.run \notin Live THEN [NoReader EXCEPT !.stage = "notfound"]
                 ELSE [reader EXCEPT !.seen = @ \o page,
                                     !.position = IF page = <<>> THEN @ ELSE Last(page),
                                     !.row = runTable[reader.run],
                                     !.stage = IF page = <<>> THEN "done" ELSE "paging"]
    /\ UNCHANGED <<runTable, eventLog>>

\* ------------------------------------------------------------------- the views


(* get(): the first transaction of get_run() and of compare_runs(). *)
ReadRow(r) ==
    /\ reader.stage = "idle" /\ r \in Live
    /\ reader' = [NoReader EXCEPT !.kind = "view", !.run = r, !.stage = "row", !.row = runTable[r]]
    /\ UNCHANGED <<runTable, eventLog>>

(* _trajectory(): the events of a page by what they are about. *)
Trajectory(r, page) ==
    LET of(kinds) == SelectSeq(page, LAMBDA i : eventLog[r][i] \in kinds) IN
    [policy |-> of({"policy_decided"}), tools |-> of({"tool_call_requested"}), length |-> Len(page)]

(* events() in the second transaction. *)
ReadTrajectory ==
    /\ reader.stage = "row"
    /\ reader' = IF reader.run \notin Live THEN [NoReader EXCEPT !.stage = "notfound"]
                 ELSE [reader EXCEPT !.stage = "done",
                           !.view = <<Trajectory(reader.run, EventsAfter(reader.run, ViewLimit, 0))>>]
    /\ UNCHANGED <<runTable, eventLog>>

CloseReader ==
    /\ reader.stage \in {"done", "notfound"} /\ reader' = NoReader
    /\ UNCHANGED <<runTable, eventLog>>

QueryNext ==
    \/ BeginListing \/ ReadRunPage \/ ReadEventPage \/ ReadTrajectory \/ CloseReader
    \/ \E r \in QueryRuns :
           \/ StartRun(r) \/ CompleteRun(r) \/ FinalizeMetadata(r) \/ PruneRun(r)
           \/ BeginEvents(r) \/ ReadRow(r)
           \/ \E kind \in Kinds : LogEvent(r, kind)

\* ------------------------------------------------------------------ properties

(* Going through pages by offset misses no run that was there when the     *)
(* first page was asked for, although runs start, finish and are committed *)
(* out of the order of started_at meanwhile; only pruning can hide one.    *)
PagesSkipNothing ==
    reader.stage = "done" /\ reader.kind \in {"list", "children"} /\ ~reader.shrank =>
        reader.began \subseteq ToSet(reader.seen)

(* Going through events by cursor gives each event once, in order and      *)
(* without a gap, although the run goes on; the empty page that ends it    *)
(* means the whole run when the run had stopped by then.                   *)
EventPagesAreWhole ==
    reader.kind = "events" =>
        /\ \A i \in DOMAIN reader.seen : reader.seen[i] = i
        /\ reader.stage = "done" /\ reader.row.status = "completed" /\ ~reader.shrank =>
               Len(reader.seen) = Len(eventLog[reader.run])

(* A view whose row says the run is over shows every event of the run (up  *)
(* to its limit), because the row is read first: each policy decision and  *)
(* each tool call of the log is in its list.                               *)
ViewsCoverTheirRow ==
    reader.kind = "view" /\ reader.stage = "done" /\ reader.row.status = "completed" /\ ~reader.shrank =>
        LET log == eventLog[reader.run]
            count(kind) == Cardinality({i \in DOMAIN log : log[i] = kind})
        IN Len(log) <= ViewLimit =>
              /\ Len(reader.view[1].policy) = count("policy_decided")
              /\ Len(reader.view[1].tools) = count("tool_call_requested")
              /\ reader.view[1].length = Len(log)

-----------------------------------------------------------------------------
(***************************************************************************)
(* Exports of a run and the grants to read them (services/run_exports.py,  *)
(* routes/runs.py).  An export reads the run, then its events page by      *)
(* page, each in a transaction of its own, while the run goes on; the      *)
(* bundle is stored once per content.  A grant is redeemed by its token,   *)
(* under a lock of its row.  Events are numbered; the last one of a        *)
(* stopped run is terminal.  The content checksum is the content.          *)
(***************************************************************************)

exportVars == <<xRun, exporter, exportRows, grants, redeem, bundlesRead, xNow>>

NoContent == [stopped |-> FALSE, events |-> 0, truncated |-> FALSE]
NoExport == [content |-> NoContent, sound |-> TRUE, exists |-> FALSE]
NoGrant == [export |-> "none", to |-> "none", purpose |-> "none", expires |-> 0, revoked |-> FALSE]
IdleRedeem == [pc |-> "idle", grant |-> "none", who |-> "none", purpose |-> "none", at |-> 0]

ExportInit ==
    /\ xRun = [events |-> 0, stopped |-> FALSE, exists |-> TRUE]
    /\ exporter = [e \in Exporters |-> [pc |-> "idle", content |-> NoContent]]
    /\ exportRows = [e \in Exporters |-> NoExport]
    /\ grants = [g \in Grants |-> NoGrant]
    /\ redeem = IdleRedeem /\ bundlesRead = {} /\ xNow = 1

(* The run goes on; a terminal event stops it in the same transaction. *)
AppendEvent(stops) ==
    /\ xRun.exists /\ ~xRun.stopped /\ xRun.events < RunLength
    /\ xRun' = [xRun EXCEPT !.events = @ + 1, !.stopped = stops]
    /\ UNCHANGED <<exporter, exportRows, grants, redeem, bundlesRead, xNow>>

(* A run that has ended is pruned; its exports and their grants go with it. *)
(* A grant that is being redeemed is locked, and so the deletion waits.     *)
DeleteRun ==
    /\ xRun.exists /\ xRun.stopped /\ redeem.pc # "locked"
    /\ xRun' = [xRun EXCEPT !.exists = FALSE]
    /\ exportRows' = [e \in Exporters |-> NoExport]
    /\ grants' = [g \in Grants |-> NoGrant]
    /\ UNCHANGED <<exporter, redeem, bundlesRead, xNow>>

SetExporter(e, pc, content) ==
    /\ exporter' = [exporter EXCEPT ![e] = [pc |-> pc, content |-> content]]
    /\ UNCHANGED <<xRun, exportRows, grants, redeem, bundlesRead, xNow>>

(* create_export(): the run's row. *)
ReadRun(e) ==
    /\ exporter[e].pc = "idle"
    /\ SetExporter(e, IF xRun.exists THEN "events" ELSE "missing",
                   [NoContent EXCEPT !.stopped = xRun.stopped])

(* RunRepository.events(): what follows a sequence, at most a page. *)
Page(seen) ==
    Min({ExportPage, MaxExported - seen, xRun.events - seen})

(* One turn of the loop of _all_events(). *)
ReadPage(e) ==
    /\ exporter[e].pc = "events" /\ exporter[e].content.events < MaxExported
    /\ LET seen == exporter[e].content.events
           short == Page(seen) < Min({ExportPage, MaxExported - seen})
       IN IF ~xRun.exists THEN SetExporter(e, "missing", NoContent)
          ELSE SetExporter(e, IF short THEN "store" ELSE "events",
                           [exporter[e].content EXCEPT !.events = seen + Page(seen)])

(* The probe for an event beyond the bound. *)
Truncated == xRun.exists /\ xRun.events > MaxExported

(* The loop has ended on its bound: one more event is asked for. *)
ProbeTruncated(e) ==
    /\ exporter[e].pc = "events" /\ exporter[e].content.events = MaxExported
    /\ SetExporter(e, "store",
                   [exporter[e].content EXCEPT !.truncated = Truncated])

(* uq_run_exports_content *)
SameContent(content) == \E e \in Exporters : exportRows[e].exists /\ exportRows[e].content = content

(* The row is stored, or the unique index finds the same content: the       *)
(* request then answers with the row that is there.  The foreign key fails  *)
(* for a run deleted meanwhile.                                             *)
StoreExport(e) ==
    /\ exporter[e].pc = "store"
    /\ exportRows' = IF xRun.exists /\ ~SameContent(exporter[e].content)
                     THEN [exportRows EXCEPT ![e] =
                              [content |-> exporter[e].content, sound |-> TRUE, exists |-> TRUE]]
                     ELSE exportRows
    /\ exporter' = [exporter EXCEPT ![e] = [pc |-> "done", content |-> NoContent]]
    /\ UNCHANGED <<xRun, grants, redeem, bundlesRead, xNow>>

(* A stored bundle is changed outside the program. *)
DamageExport(e) ==
    /\ exportRows[e].exists /\ exportRows[e].sound /\ redeem.pc # "locked"
    /\ exportRows' = [exportRows EXCEPT ![e].sound = FALSE]
    /\ UNCHANGED <<xRun, exporter, grants, redeem, bundlesRead, xNow>>

(* _verify_bundle(): binding, checksums and a second disclosure scan. *)
VerifyBundle(row) == row.exists /\ row.sound

(* create_share_grant(): the bundle is verified, then the grant is stored. *)
CreateGrant(e, g, r, purpose) ==
    /\ grants[g] = NoGrant /\ VerifyBundle(exportRows[e])
    /\ grants' = [grants EXCEPT ![g] =
           [export |-> e, to |-> r, purpose |-> purpose, expires |-> xNow + Lifetime, revoked |-> FALSE]]
    /\ UNCHANGED <<xRun, exporter, exportRows, redeem, bundlesRead, xNow>>

(* The row lock of a redemption holds off an update of the grant. *)
Unlocked(g) == ~(redeem.pc = "locked" /\ redeem.grant = g)

Revoke(g) ==
    /\ grants[g] # NoGrant /\ ~grants[g].revoked /\ Unlocked(g)
    /\ grants' = [grants EXCEPT ![g].revoked = TRUE]
    /\ UNCHANGED <<xRun, exporter, exportRows, redeem, bundlesRead, xNow>>

(* redeem(): the time of the authorisation is taken before the lock; one    *)
(* successful redemption is enough here.                                    *)
Redeem(g, who, purpose) ==
    /\ redeem.pc = "idle" /\ grants[g] # NoGrant /\ bundlesRead = {}
    /\ redeem' = [pc |-> "lock", grant |-> g, who |-> who, purpose |-> purpose, at |-> xNow]
    /\ UNCHANGED <<xRun, exporter, exportRows, grants, bundlesRead, xNow>>

(* The guarded update that locks the row. *)
Redeemable(row) ==
    /\ row.to = redeem.who /\ row.purpose = redeem.purpose
    /\ ~row.revoked /\ row.expires > redeem.at

LockGrant ==
    /\ redeem.pc = "lock"
    /\ redeem' = IF Redeemable(grants[redeem.grant]) THEN [redeem EXCEPT !.pc = "locked"]
                 ELSE IdleRedeem
    /\ UNCHANGED <<xRun, exporter, exportRows, grants, bundlesRead, xNow>>

(* The second look at the grant, after the bundle was verified. *)
StillGood(row) == ~row.revoked /\ row.expires > xNow

ReturnBundle ==
    /\ redeem.pc = "locked" /\ redeem' = IdleRedeem
    /\ LET row == grants[redeem.grant]
       IN bundlesRead' = IF VerifyBundle(exportRows[row.export]) /\ StillGood(row)
                         THEN bundlesRead \union
                              {[grant |-> redeem.grant, row |-> row, who |-> redeem.who,
                                purpose |-> redeem.purpose, time |-> xNow,
                                sound |-> exportRows[row.export].sound]}
                         ELSE bundlesRead
    /\ UNCHANGED <<xRun, exporter, exportRows, grants, xNow>>

ExportTick ==
    /\ xNow < MaxTime /\ xNow' = xNow + 1
    /\ UNCHANGED <<xRun, exporter, exportRows, grants, redeem, bundlesRead>>

ExportNext ==
    \/ \E stops \in BOOLEAN : AppendEvent(stops)
    \/ DeleteRun \/ LockGrant \/ ReturnBundle \/ ExportTick
    \/ \E e \in Exporters :
           \/ ReadRun(e) \/ ReadPage(e) \/ ProbeTruncated(e) \/ StoreExport(e) \/ DamageExport(e)
           \/ \E g \in Grants, r \in Recipients, p \in Purposes : CreateGrant(e, g, r, p)
    \/ \E g \in Grants :
           Revoke(g) \/ \E r \in Recipients, p \in Purposes : Redeem(g, r, p)

-----------------------------------------------------------------------------
(* Though the pages are read while the run goes on, a bundle that shows a   *)
(* stopped run has all its events, or says that they were cut off, and no   *)
(* content is stored twice (_all_events(), create_export()).                *)
BundlesAreWhole ==
    \A e \in Exporters : exportRows[e].exists =>
        LET c == exportRows[e].content
        IN /\ c.events <= xRun.events /\ c.events <= MaxExported
           /\ c.stopped => c.events = xRun.events \/ c.truncated
           /\ c.truncated => c.events = MaxExported
           /\ \A o \in Exporters \ {e} : exportRows[o].exists => exportRows[o].content # c

(* A bundle is handed out only to the grant's recipient, for its purpose,   *)
(* intact, and at a moment when the grant was neither revoked nor expired,  *)
(* however long the redemption waited for its lock.                         *)
ReadWhileGranted ==
    \A b \in bundlesRead :
        /\ b.row.to = b.who /\ b.row.purpose = b.purpose
        /\ ~b.row.revoked /\ b.time < b.row.expires /\ b.sound

=============================================================================
