---------------------------- MODULE GroundedAnswers ----------------------------
(***************************************************************************)
(* A grounded document query (services/grounded_rag.py, routes/            *)
(* documents.py): run() waits for the task _run() until the deadline;      *)
(* run_stopped is written by a third task, persist_terminal(), shielded    *)
(* from the cancellation of both.  A text is the set of its substantive    *)
(* words, the set of its numbers and its polarity.                         *)
(***************************************************************************)
EXTENDS Integers, Sequences, FiniteSets, Functions

CONSTANTS
    SearchResults,  \* what the vector store may answer: sequences of chunks
    ModelAnswers    \* the claims of a valid answer; none for an empty one

VARIABLES
    gConfig,        \* [verifier, mock]: a verifier child is configured, the mock provider
    gRun,           \* where _run() stands
    gCall,          \* where run() stands
    gCancelled,     \* the task of _run() has been cancelled
    gExpired,       \* the deadline has passed
    gEvidence,      \* DocumentEvidence tuple; E1 is at index 1
    gTried,         \* completions asked for
    gKept,          \* claims, as they pass the checks
    gRejected,      \* unsupported
    gChild,         \* status of the verifier child, or none
    gTerminal,      \* _GroundedTerminalState
    gWrite,         \* persist_terminal(): none, pending, cancelling, done, failed, cancelled
    gEvents,        \* the run's events
    gReturned       \* what the caller got: an HTTP status, cancelled, or none

groundedVars ==
    <<gConfig, gRun, gCall, gCancelled, gExpired, gEvidence, gTried, gKept, gRejected,
      gChild, gTerminal, gWrite, gEvents, gReturned>>

NoAnswer == [claims |-> <<>>, cited |-> {}, unsupported |-> <<>>, method |-> "none"]

(* The members of s at the positions of S, in their order. *)
Picked(s, S) ==
    LET taken[i \in 0 .. Len(s)] ==
            IF i = 0 THEN <<>> ELSE taken[i - 1] \o (IF i \in S THEN <<s[i]>> ELSE <<>>)
    IN  taken[Len(s)]

(* DocumentEvidenceRetriever.retrieve(): the first row of each document and *)
(* content hash, in the order of the store.                                 *)
EvidenceOf(rows) ==
    Picked(rows, {i \in DOMAIN rows :
        ~\E j \in 1..(i - 1) : rows[j].doc = rows[i].doc /\ rows[j].hash = rows[i].hash})

(* The share of a claim's words that a text has is at least num / den. *)
Overlaps(claim, words, num, den) ==
    den * Cardinality(claim.words \cap words) >= num * Cardinality(claim.words)

(* Polarities of the sentences that speak of the claim. *)
RelevantPolarities(claim, evidence) ==
    {s.neg : s \in {t \in UNION {evidence[e].spans : e \in claim.cites} :
                       Overlaps(claim, t.words, 1, 2)}}

SpanWords(chunk) == UNION {s.words : s \in chunk.spans}

(* The evidence whose text still has the hash it was found with. *)
Current(evidence) == {e \in DOMAIN evidence : evidence[e].intact}

(* Mutant: what the sentences deny is not looked at. *)
SupportsAnyPolarity(claim, evidence) ==
    /\ claim.cites # {} /\ claim.cites \subseteq Current(evidence) /\ claim.words # {}
    /\ Overlaps(claim, UNION {SpanWords(evidence[e]) : e \in claim.cites}, 9, 10)
    /\ claim.numbers \subseteq UNION {evidence[e].numbers : e \in claim.cites}

(* _supports_claim() *)
SupportsClaim(claim, evidence) ==
    /\ claim.cites # {} /\ claim.cites \subseteq Current(evidence) /\ claim.words # {}
    /\ Overlaps(claim, UNION {SpanWords(evidence[e]) : e \in claim.cites}, 9, 10)
    /\ claim.numbers \subseteq UNION {evidence[e].numbers : e \in claim.cites}
    /\ RelevantPolarities(claim, evidence) = {claim.neg}

(* verify_document_claims() *)
Supported(claims, evidence) ==
    Picked(claims, {i \in DOMAIN claims : SupportsClaim(claims[i], evidence)})
Unsupported(claims, evidence) ==
    Picked(claims, {i \in DOMAIN claims : ~SupportsClaim(claims[i], evidence)})

GroundedInit ==
    /\ gConfig \in [verifier : BOOLEAN, mock : BOOLEAN]
    /\ gRun = "ensure" /\ gCall = "waiting" /\ gCancelled = FALSE /\ gExpired = FALSE
    /\ gEvidence = <<>> /\ gTried = 0 /\ gKept = <<>> /\ gRejected = <<>> /\ gChild = "none"
    /\ gTerminal = [started |-> FALSE, persisted |-> FALSE, reason |-> "none", result |-> NoAnswer]
    /\ gWrite = "none" /\ gEvents = <<>> /\ gReturned = "none"

(* _stop(), up to its shielded wait: one terminal decision, whose write is  *)
(* a task of its own.                                                       *)
Stop(reason, result) ==
    /\ gTerminal' = [gTerminal EXCEPT !.started = TRUE, !.reason = reason, !.result = result]
    /\ gWrite' = "pending"

(* _append() of an event that is not the terminal one. *)
Append1(kind) == gEvents' = Append(gEvents, kind)

(* The `except` clauses of _run(): an error ends the run as provider_error. *)
Fails ==
    /\ gRun' = "failing" /\ Stop("provider_error", NoAnswer)
    /\ UNCHANGED <<gEvidence, gTried, gKept, gRejected, gChild, gEvents>>

(* DeadlineExceededError inside _run() *)
RunsLate ==
    /\ gRun' = "late"
    /\ UNCHANGED <<gEvidence, gTried, gKept, gRejected, gChild, gTerminal, gWrite>>

EnsureRun ==
    /\ gRun = "ensure"
    /\ \/ gExpired /\ RunsLate
       \/ ~gExpired /\ gRun' = "retrieve"
          /\ UNCHANGED <<gEvidence, gTried, gKept, gRejected, gChild, gTerminal, gWrite>>
       \/ gRun' = "store_error"       \* ensure_run() stands before the try
          /\ UNCHANGED <<gEvidence, gTried, gKept, gRejected, gChild, gTerminal, gWrite>>
    /\ UNCHANGED gEvents

Retrieve ==
    /\ gRun = "retrieve"
    /\ \/ gExpired /\ RunsLate /\ UNCHANGED gEvents
       \/ Fails
       \/ /\ ~gExpired
          /\ \E rows \in SearchResults : gEvidence' = EvidenceOf(rows)
          /\ gRun' = "record_evidence"
          /\ UNCHANGED <<gTried, gKept, gRejected, gChild, gTerminal, gWrite, gEvents>>

(* evidence_retrieved is written; without evidence no model is asked. *)
RecordEvidence ==
    /\ gRun = "record_evidence"
    /\ \/ Fails
       \/ /\ Append1(<<"evidence_retrieved">>)
          /\ \/ gExpired /\ RunsLate
             \/ /\ ~gExpired
                /\ gRun' = IF gEvidence = <<>> THEN "record_claims" ELSE "complete"
                /\ UNCHANGED <<gEvidence, gTried, gKept, gRejected, gChild, gTerminal, gWrite>>

(* The checks between the completion and the next event. *)
Verify(claims) ==
    /\ gKept' = Supported(claims, gEvidence)
    /\ gRejected' = Unsupported(claims, gEvidence)
    /\ gRun' = IF gKept' # <<>> /\ gConfig.verifier THEN "delegate" ELSE "record_claims"
    /\ UNCHANGED <<gTerminal, gWrite>>

(* _complete_claims(): an invalid answer is asked for once more; the mock's *)
(* second one counts as no claim.                                           *)
CompleteClaims ==
    /\ gRun = "complete"
    /\ \/ gExpired /\ RunsLate
       \/ Fails
       \/ /\ ~gExpired /\ gTried' = gTried + 1
          /\ \/ \E claims \in ModelAnswers : Verify(claims)
             \/ gTried = 0 /\ UNCHANGED <<gRun, gKept, gRejected, gTerminal, gWrite>>
             \/ gTried = 1 /\ gConfig.mock /\ Verify(<<>>)
             \/ /\ gTried = 1 /\ ~gConfig.mock
                /\ gRun' = "failing" /\ Stop("provider_error", NoAnswer)
                /\ UNCHANGED <<gKept, gRejected>>
          /\ UNCHANGED <<gEvidence, gChild>>
    /\ UNCHANGED gEvents

(* Which claims the child's outcome lets pass: none unless it completed. *)
Retained(status, supported) == IF status = "completed" THEN supported ELSE {}

(* _verify_with_child(), up to delegation_completed: only the deadline is   *)
(* raised; every other failure of the child keeps no claim.                 *)
VerifyWithChild ==
    /\ gRun = "delegate"
    /\ \/ gExpired /\ RunsLate
       \/ /\ ~gExpired
          /\ \E status \in {"completed", "failed", "timed_out"}, supported \in SUBSET DOMAIN gKept :
                 LET kept == Retained(status, supported)
                 IN /\ status # "completed" => supported = {}
                    /\ gKept' = Picked(gKept, kept)
                    /\ gRejected' = gRejected \o Picked(gKept, DOMAIN gKept \ kept)
                    /\ gChild' = status
          /\ gRun' = "record_child"
          /\ UNCHANGED <<gEvidence, gTried, gTerminal, gWrite>>
    /\ UNCHANGED gEvents

RecordChild ==
    /\ gRun = "record_child"
    /\ \/ Fails
       \/ /\ Append1(<<"delegation_completed">>) /\ gRun' = "record_claims"
          /\ UNCHANGED <<gEvidence, gTried, gKept, gRejected, gChild, gTerminal, gWrite>>

(* _finish(), its first event. *)
RecordClaims ==
    /\ gRun = "record_claims"
    /\ \/ Fails
       \/ /\ Append1(<<"claim_verified">>)
          /\ \/ gExpired /\ RunsLate
             \/ /\ ~gExpired /\ gRun' = "record_answer"
                /\ UNCHANGED <<gEvidence, gTried, gKept, gRejected, gChild, gTerminal, gWrite>>

FaithfulnessMethod ==
    CASE gChild = "none" -> "deterministic_claim_support"
      [] gChild = "completed" -> "live_bounded_verifier"
      [] OTHER -> "bounded_verifier_fail_closed"

(* GroundedResult: the citations are those of the claims that are left. *)
Answer ==
    [claims |-> gKept, cited |-> UNION {c.cites : c \in Range(gKept)},
     unsupported |-> gRejected, method |-> FaithfulnessMethod]

(* _finish(), its second event and, with no wait between, the result and    *)
(* the terminal decision.                                                   *)
RecordAnswer ==
    /\ gRun = "record_answer"
    /\ \/ Fails
       \/ /\ Append1(<<"grounded_answer">>)
          /\ \/ gExpired /\ RunsLate
             \/ /\ ~gExpired /\ gRun' = "stopping" /\ Stop("completed", Answer)
                /\ UNCHANGED <<gEvidence, gTried, gKept, gRejected, gChild>>

(* The shielded wait of _stop() ends.  A failed write is an Exception of    *)
(* the try block too: _stop() is called again and raises it once more.      *)
StopReturns ==
    /\ gRun \in {"stopping", "failing"} /\ gWrite \in {"done", "failed"}
    /\ gRun' = CASE gWrite = "failed" -> "store_error"
                 [] gRun = "stopping" -> "answered"
                 [] OTHER -> "provider_error"
    /\ UNCHANGED <<gEvidence, gTried, gKept, gRejected, gChild, gTerminal, gWrite, gEvents>>

RunStep ==
    /\ ~gCancelled
    /\ \/ EnsureRun \/ Retrieve \/ RecordEvidence \/ CompleteClaims \/ VerifyWithChild
       \/ RecordChild \/ RecordClaims \/ RecordAnswer \/ StopReturns
    /\ UNCHANGED <<gConfig, gCall, gCancelled, gExpired, gReturned>>

Expire ==
    /\ ~gExpired /\ gExpired' = TRUE
    /\ UNCHANGED <<gConfig, gRun, gCall, gCancelled, gEvidence, gTried, gKept, gRejected,
                   gChild, gTerminal, gWrite, gEvents, gReturned>>

(* persist_terminal(): a cancelled append may have been committed. *)
PersistTerminal ==
    /\ \/ /\ gWrite \in {"pending", "cancelling"} /\ gWrite' = "done"
          /\ gTerminal' = [gTerminal EXCEPT !.persisted = TRUE]
          /\ Append1(<<"run_stopped", gTerminal.reason>>)
       \/ gWrite = "pending" /\ gWrite' = "failed" /\ UNCHANGED <<gTerminal, gEvents>>
       \/ /\ gWrite = "cancelling" /\ gWrite' = "cancelled" /\ UNCHANGED gTerminal
          /\ Append1(<<"run_stopped", gTerminal.reason>>) \/ UNCHANGED gEvents
    /\ UNCHANGED <<gConfig, gRun, gCall, gCancelled, gExpired, gEvidence, gTried, gKept,
                   gRejected, gChild, gReturned>>

(* The route's answer to what run() does. *)
StatusOf(outcome) ==
    CASE outcome = "answered" -> "200" [] outcome = "provider_error" -> "503"
      [] outcome = "deadline" -> "504" [] outcome = "store_error" -> "500"
      [] OTHER -> outcome

Return(outcome) == gReturned' = StatusOf(outcome) /\ gCall' = "returned"

(* The end of the DeadlineExceededError branch once a terminal was decided. *)
LateOutcome ==
    CASE gTerminal.result # NoAnswer -> "answered"
      [] gTerminal.reason = "provider_error" -> "provider_error"
      [] OTHER -> "deadline"

(* _bounded_terminal_cleanup() *)
CleanUp(call, reason) == gCall' = call /\ Stop(reason, NoAnswer) /\ UNCHANGED gReturned

(* except DeadlineExceededError, up to its first wait. *)
DeadlineBranch ==
    \/ ~gTerminal.started /\ CleanUp("cleanup_late", "deadline_exceeded")
    \/ /\ gTerminal.started /\ gWrite = "pending" /\ gCall' = "wait"
       /\ UNCHANGED <<gTerminal, gWrite, gReturned>>
    \/ gTerminal.started /\ gWrite # "pending" /\ Return(LateOutcome)
       /\ UNCHANGED <<gTerminal, gWrite>>

(* _run() has ended before the deadline. *)
RunReturns ==
    /\ gCall = "waiting" /\ ~gExpired
    /\ gRun \in {"answered", "provider_error", "store_error"} /\ Return(gRun)
    /\ UNCHANGED <<gCancelled, gTerminal, gWrite>>

(* The deadline passes, or _run() has ended on it. *)
TimesOut ==
    /\ gCall = "waiting"
    /\ gExpired \/ gRun = "late"
    /\ gCancelled' = TRUE
    /\ DeadlineBranch

(* The caller goes away while run() waits for _run(). *)
CallerCancelled ==
    /\ gCall = "waiting" /\ gReturned = "none" /\ gCancelled' = TRUE
    /\ \/ ~gTerminal.started /\ CleanUp("cleanup_cancelled", "cancelled")
       \/ gTerminal.started /\ Return("cancelled") /\ UNCHANGED <<gTerminal, gWrite>>

(* wait_for_existing_terminal(), twice 25 ms: the write ends, or it is      *)
(* cancelled and waited for again, or given up.  A cancellation of the      *)
(* caller is suppressed here and ends the wait as the timer does.           *)
WaitEnds ==
    /\ \/ /\ gCall = "wait" /\ gWrite = "pending"
          /\ gWrite' = "cancelling" /\ gCall' = "wait_cancelled" /\ UNCHANGED gReturned
       \/ gCall \in {"wait", "wait_cancelled"} /\ gWrite # "pending"
          /\ Return(LateOutcome) /\ UNCHANGED gWrite
    /\ UNCHANGED <<gCancelled, gTerminal>>

(* The 25 ms of _bounded_terminal_cleanup(), the end of its write, or a     *)
(* cancellation, which it swallows; a write still pending goes on alone.    *)
CleanupEnds ==
    /\ \/ gCall = "cleanup_late" /\ Return("deadline")
       \/ gCall = "cleanup_cancelled" /\ Return("cancelled")
    /\ UNCHANGED <<gCancelled, gTerminal, gWrite>>

CallStep ==
    /\ RunReturns \/ TimesOut \/ CallerCancelled \/ WaitEnds \/ CleanupEnds
    /\ UNCHANGED <<gConfig, gRun, gExpired, gEvidence, gTried, gKept, gRejected, gChild, gEvents>>

GroundedDone == gReturned # "none" /\ gWrite # "pending" /\ UNCHANGED groundedVars

GroundedNext == RunStep \/ Expire \/ PersistTerminal \/ CallStep \/ GroundedDone

(* The clock advances and the timers of run() are served. *)
GroundedFairness ==
    WF_groundedVars(Expire) /\ WF_groundedVars(CallStep)

-----------------------------------------------------------------------------
(* A claim reaches the answer only if some cited sentence says as much with *)
(* the claim's polarity, no relevant cited sentence says the opposite, its  *)
(* numbers are in the evidence, and, when a verifier is configured, a child *)
(* that completed supported it; every other claim of the model is listed as *)
(* unsupported and no citation is left of it (verify_document_claims(),     *)
(* _verify_with_child(), _finish()).                                        *)
AnswersAreGrounded ==
    LET r == gTerminal.result
        cites(c) == {gEvidence[e] : e \in c.cites}
        about(c) == {s \in UNION {ev.spans : ev \in cites(c)} :
                        2 * Cardinality(s.words \cap c.words) >= Cardinality(c.words)}
    IN r.claims # <<>> =>
         /\ \A c \in Range(r.claims) :
                /\ c.cites \subseteq DOMAIN gEvidence /\ about(c) # {}
                /\ \A s \in about(c) : s.neg = c.neg
                /\ \A n \in c.numbers : \E ev \in cites(c) : n \in ev.numbers
                /\ c.cites \subseteq r.cited /\ c \notin Range(r.unsupported)
         /\ gConfig.verifier <=> (r.method = "live_bounded_verifier")
         /\ \A e \in r.cited : \E c \in Range(r.claims) : e \in c.cites

(* Deadline, cancellation and _run() race to close the run: at most one     *)
(* run_stopped is written, nothing follows it, and what the caller was told *)
(* agrees with it: an answer only of a completed run, a deadline or a       *)
(* provider error never of one.                                             *)
OneTruthfulEnd ==
    LET ends == {i \in DOMAIN gEvents : gEvents[i][1] = "run_stopped"}
    IN /\ Cardinality(ends) <= 1
       /\ \A i \in ends :
              /\ i = Len(gEvents)
              /\ gReturned = "200" => gEvents[i][2] = "completed"
              /\ gReturned = "503" => gEvents[i][2] = "provider_error"
              /\ gReturned = "504" => gEvents[i][2] = "deadline_exceeded"
       /\ gReturned = "200" => gTerminal.reason = "completed"

(* Once the deadline has passed the caller is answered, whatever the store, *)
(* the model or the verifier do: every wait of run() is bounded.            *)
QueryIsAnswered == <>(gReturned # "none")
=============================================================================
