------------------------ MODULE RuntimeSystemProofs ------------------------
(***************************************************************************)
(* How the parts of RuntimeSystem work, answer and end, for every value of *)
(* the constants. EndInv: one decision, recorded once, of which the caller *)
(* is told; spans closed once; no store closed under a worker; no work     *)
(* after the end. HistoryInv: the messages, events and tallies the parts   *)
(* keep are well formed. PermittedInv: only what a rule, an envelope, a    *)
(* budget or a turn allows is done. EarnedInv: verdicts rest on evidence,  *)
(* an answer is composed of what was found, a provider's answer is the     *)
(* first that succeeded, and the sandbox returns a start of what was       *)
(* written. Each part has an invariant, shown by a lemma for its initial   *)
(* states and one for each of its actions; the sections that end with      *)
(* theorems compose them: one part acts and the others rest.               *)
(***************************************************************************)
EXTENDS RuntimeSystem, FiniteSetTheorems, TLAPS

------------------------------------------------------------
(* The agent's run. *)

EndReasons ==
    {"time_budget_exhausted", "provider_capability_unsupported", "context_budget_exhausted",
     "provider_error", "monetary_budget_exhausted", "policy_denied", "provider_length_limit",
     "structured_output_invalid", "completed", "error", "cancelled",
     "iteration_budget_exhausted", "token_budget_exhausted", "tool_budget_exhausted"}

RunTerminals ==
    [started : BOOLEAN, reason : EndReasons \cup {"none"}, error : BOOLEAN, records : BOOLEAN,
     task : {"none", "record", "emit", "done", "failed", "cancelled"}]

(* One decision, begun once, and written at most once with its answer. *)
DecisionInv ==
    /\ terminal \in RunTerminals /\ recorded \in BOOLEAN
    /\ terminal.started <=> terminal.task # "none"
    /\ terminal.started <=> terminal.reason # "none"
    /\ stopEvents = IF terminal.task = "done" THEN <<terminal.reason>> ELSE <<>>
    /\ terminal.task \in {"emit", "done"} /\ terminal.records => recorded

(* Where the loop is once the end is decided. *)
LoopInv ==
    /\ terminal.started => pc \notin Run!Working
    /\ pc = "final" => wanted \in EndReasons
    /\ pc = "ended" => terminal.task = "done"

(* What the caller was told. *)
CallerInv ==
    /\ outcome \in [reason : EndReasons \cup {"none"}, error : {"none", "stop", "indeterminate"}]
    /\ caller \in {"awaiting", "abandoning", "stopping", "returned"} => terminal.started
    /\ outcome.reason # "none" => outcome.reason = terminal.reason
    /\ caller = "returned" /\ outcome.error = "none" => terminal.task = "done"

RunInv == DecisionInv /\ LoopInv /\ CallerInv

LEMMA RunStart == ASSUME Run!RunInit PROVE RunInv
<1>1. /\ terminal = [started |-> FALSE, reason |-> "none", error |-> FALSE, records |-> FALSE,
                     task |-> "none"]
      /\ recorded = FALSE /\ stopEvents = <<>> /\ pc = "begin" /\ caller = "waiting"
      /\ outcome = [reason |-> "none", error |-> "none"]
  BY DEF Run!RunInit, Run!NoTerminal
<1>2. DecisionInv BY <1>1 DEF DecisionInv, RunTerminals
<1>3. LoopInv BY <1>1 DEF LoopInv
<1>4. CallerInv BY <1>1 DEF CallerInv
<1>5. QED BY <1>2, <1>3, <1>4 DEF RunInv

(* The ways in which a step of the loop touches the end of the run. *)
LoopMoves ==
    /\ UNCHANGED Run!ends
    /\ pc \in Run!Working
    /\ pc' = "final" => wanted' \in EndReasons
    /\ pc' # "ended"

LoopStops(reason, error) ==
    pc \in Run!Working /\ reason \in EndReasons /\ error \in BOOLEAN /\ Run!StopRun(reason, error)

LEMMA LoopMovesStep == ASSUME RunInv, LoopMoves PROVE RunInv'
<1>1. DecisionInv' BY DEF RunInv, LoopMoves, Run!ends, DecisionInv
<1>2. LoopInv' BY DEF RunInv, LoopMoves, Run!ends, LoopInv
<1>3. CallerInv' BY DEF RunInv, LoopMoves, Run!ends, CallerInv
<1>4. QED BY <1>1, <1>2, <1>3 DEF RunInv

(* The first decision. *)
LEMMA FirstDecision ==
  ASSUME DecisionInv, ~terminal.started, NEW reason \in EndReasons, NEW error \in BOOLEAN,
         NEW records \in BOOLEAN, Run!Decide(reason, error, records), UNCHANGED <<recorded, stopEvents>>
  PROVE  /\ DecisionInv'
         /\ terminal'.started /\ terminal'.reason = reason /\ terminal'.task # "done"
<1>1. terminal' = [started |-> TRUE, reason |-> reason, error |-> error, records |-> records,
                   task |-> IF records THEN "record" ELSE "emit"]
  BY DEF Run!Decide
<1>2. reason # "none" /\ terminal.task # "done" /\ stopEvents = <<>> BY DEF EndReasons, DecisionInv
<1>3. QED BY <1>1, <1>2 DEF DecisionInv, RunTerminals

LEMMA LoopStopsStep ==
  ASSUME RunInv, NEW reason, NEW error, LoopStops(reason, error) PROVE RunInv'
<1>1. /\ DecisionInv /\ LoopInv /\ CallerInv /\ ~terminal.started /\ reason \in EndReasons
      /\ error \in BOOLEAN
  BY DEF RunInv, LoopInv, LoopStops
<1>2. /\ Run!Decide(reason, error, TRUE) /\ pc' = "stopping"
      /\ UNCHANGED <<caller, recorded, stopEvents, outcome>>
  BY DEF LoopStops, Run!StopRun
<1>3. /\ DecisionInv'
      /\ terminal'.started /\ terminal'.reason = reason /\ terminal'.task # "done"
  BY <1>1, <1>2, FirstDecision
<1>4. LoopInv' BY <1>2 DEF LoopInv, Run!Working
<1>5. CallerInv' BY <1>1, <1>2, <1>3 DEF CallerInv, DecisionInv
<1>6. QED BY <1>3, <1>4, <1>5 DEF RunInv

(* A step of the loop moves on, or stops the run, or ends after its stop. *)
LEMMA LoopNextKinds ==
  ASSUME RunInv, Run!LoopNext
  PROVE  LoopMoves \/ (\E reason \in EndReasons, error \in BOOLEAN : LoopStops(reason, error))
         \/ Run!LoopEnds
<1>1. CASE Run!Begin \/ Run!StartFails \/ Run!Iterate \/ Run!RetryStructured \/ Run!AcceptBatch \/ Run!Prepare
           \/ Run!NextIteration
  BY <1>1 DEF Run!Begin, Run!StartFails, Run!Iterate, Run!RetryStructured, Run!AcceptBatch, Run!Prepare,
     Run!NextIteration, LoopMoves, Run!Working
<1>2. CASE Run!IterationsExhausted \/ Run!TokensExhausted \/ Run!BatchOverBudget
           \/ Run!ToolsExhausted
  BY <1>2 DEF Run!IterationsExhausted, Run!TokensExhausted, Run!BatchOverBudget,
     Run!ToolsExhausted, Run!Finalize, LoopMoves, Run!Working, EndReasons
<1>3. CASE Run!BlockDuplicate \/ Run!HookDenies \/ Run!RunTool
  BY <1>3 DEF Run!BlockDuplicate, Run!HookDenies, Run!RunTool, LoopMoves, Run!Working
<1>4. ASSUME NEW response, NEW tokens, Run!Respond(response, tokens) PROVE LoopMoves
  BY <1>4 DEF Run!Respond, LoopMoves, Run!Working
<1>5. CASE Run!LoopExpired \/ Run!RejectCapabilities \/ Run!StructuredInvalid \/ Run!Complete
           \/ Run!Deny
  BY <1>5 DEF Run!LoopExpired, Run!RejectCapabilities, Run!StructuredInvalid, Run!Complete,
     Run!Deny, LoopStops, Run!Working, EndReasons
<1>6. CASE Run!CallFails \/ Run!RespondBadly
  BY <1>6 DEF Run!CallFails, Run!RespondBadly, LoopStops, Run!Working, EndReasons
<1>7. CASE Run!FinalCall \/ Run!DeadlineInside \/ Run!InternalError
  BY <1>7 DEF Run!FinalCall, Run!DeadlineInside, Run!InternalError, LoopStops, Run!Working,
     EndReasons, RunInv, LoopInv
<1>8. QED BY <1>1, <1>2, <1>3, <1>4, <1>5, <1>6, <1>7 DEF Run!LoopNext

LEMMA LoopNextStep == ASSUME RunInv, Run!LoopNext PROVE RunInv'
<1>1. CASE Run!LoopEnds
  <2>1. /\ UNCHANGED Run!ends
        /\ pc' = IF terminal.task = "done" THEN "ended" ELSE "crashed"
    BY <1>1 DEF Run!LoopEnds
  <2>2. DecisionInv' /\ CallerInv' BY <2>1 DEF RunInv, Run!ends, DecisionInv, CallerInv
  <2>3. LoopInv' BY <2>1 DEF LoopInv, Run!ends, Run!Working
  <2>4. QED BY <2>2, <2>3 DEF RunInv
<1>2. QED BY <1>1, LoopNextKinds, LoopMovesStep, LoopStopsStep

(* The terminal task: it stores, emits, fails or is cancelled. *)
LEMMA TerminalTaskStep ==
  ASSUME RunInv,
         Run!RecordAnswer \/ Run!EmitStopped \/ Run!TerminalFails \/ Run!TerminalCancelled
  PROVE  RunInv'
<1>1. terminal \in RunTerminals /\ UNCHANGED <<pc, wanted, caller, outcome>>
  BY DEF RunInv, DecisionInv, Run!RecordAnswer, Run!EmitStopped, Run!TerminalFails,
     Run!TerminalCancelled, Run!loop
<1>2. PICK now \in {"emit", "done", "failed", "cancelled"} :
        terminal' = [terminal EXCEPT !.task = now]
  BY DEF Run!RecordAnswer, Run!EmitStopped, Run!TerminalFails, Run!TerminalCancelled
<1>3. /\ terminal' \in RunTerminals /\ terminal'.task = now
      /\ terminal'.started = terminal.started /\ terminal'.reason = terminal.reason
      /\ terminal'.records = terminal.records
  BY <1>1, <1>2 DEF RunTerminals
<1>4. terminal.task \in {"record", "emit"} /\ terminal.started /\ stopEvents = <<>>
  BY DEF Run!RecordAnswer, Run!EmitStopped, Run!TerminalFails, Run!TerminalCancelled, RunInv,
     DecisionInv
<1>5. CASE Run!RecordAnswer
  <2>1. now = "emit" /\ recorded' = TRUE /\ stopEvents' = stopEvents
    BY <1>1, <1>3, <1>5 DEF Run!RecordAnswer, RunTerminals
  <2>2. DecisionInv' BY <1>3, <1>4, <2>1 DEF RunInv, DecisionInv
  <2>3. LoopInv' /\ CallerInv' BY <1>1, <1>3, <1>4, <2>1 DEF RunInv, LoopInv, CallerInv
  <2>4. QED BY <2>2, <2>3 DEF RunInv
<1>6. CASE Run!EmitStopped
  <2>1. now = "done" /\ recorded' = recorded /\ stopEvents' = <<terminal.reason>>
    BY <1>1, <1>3, <1>4, <1>6 DEF Run!EmitStopped, RunTerminals
  <2>2. terminal.task = "emit" BY <1>6 DEF Run!EmitStopped
  <2>3. DecisionInv' BY <1>3, <1>4, <2>1, <2>2 DEF RunInv, DecisionInv
  <2>4. LoopInv' /\ CallerInv' BY <1>1, <1>3, <1>4, <2>1 DEF RunInv, LoopInv, CallerInv
  <2>5. QED BY <2>3, <2>4 DEF RunInv
<1>7. CASE Run!TerminalFails \/ Run!TerminalCancelled
  <2>1. now \in {"failed", "cancelled"} /\ recorded' = recorded /\ stopEvents' = stopEvents
    BY <1>1, <1>3, <1>7 DEF Run!TerminalFails, Run!TerminalCancelled, RunTerminals
  <2>2. DecisionInv' BY <1>3, <1>4, <2>1 DEF RunInv, DecisionInv
  <2>3. LoopInv' /\ CallerInv' BY <1>1, <1>3, <1>4, <2>1 DEF RunInv, LoopInv, CallerInv
  <2>4. QED BY <2>2, <2>3 DEF RunInv
<1>8. QED BY <1>5, <1>6, <1>7

(* The client or the deadline: the loop's task is gone, and the decision is *)
(* theirs unless there was one. *)
LEMMA CallerDecides ==
  ASSUME RunInv, NEW reason \in EndReasons, NEW error \in BOOLEAN,
         NEW records \in BOOLEAN, Run!Decide(reason, error, records), Run!LoopCancelled, caller = "waiting",
         UNCHANGED <<recorded, stopEvents, outcome>>,
         caller' \in {"cancelling", "awaiting", "stopping"}
  PROVE  RunInv'
<1>1. DecisionInv /\ LoopInv /\ CallerInv BY DEF RunInv
<1>2. pc' = IF pc \in {"ended", "crashed"} THEN pc ELSE "cancelled" BY DEF Run!LoopCancelled
<1>3. CASE ~terminal.started
  <2>1. /\ DecisionInv' /\ terminal'.started /\ terminal'.reason = reason
        /\ terminal'.task # "done"
    BY <1>1, <1>3, FirstDecision
  <2>2. pc # "ended" /\ outcome.reason = "none" BY <1>1, <1>3 DEF LoopInv, CallerInv, DecisionInv
  <2>3. LoopInv' /\ CallerInv' BY <1>1, <1>2, <2>1, <2>2 DEF LoopInv, CallerInv, Run!Working
  <2>4. QED BY <2>1, <2>3 DEF RunInv
<1>4. CASE terminal.started
  <2>1. terminal' = terminal BY <1>4 DEF Run!Decide
  <2>2. DecisionInv' BY <1>1, <2>1 DEF DecisionInv
  <2>3. LoopInv' /\ CallerInv' BY <1>1, <1>2, <1>4, <2>1 DEF LoopInv, CallerInv, Run!Working
  <2>4. QED BY <2>2, <2>3 DEF RunInv
<1>5. QED BY <1>3, <1>4

(* run() returns the reason of the decision. *)
LEMMA CallerReturns ==
  ASSUME RunInv, NEW error \in {"none", "stop", "indeterminate"}, Run!Return(error),
         terminal.started, error = "none" => terminal.task = "done",
         UNCHANGED <<Run!loop, terminal, recorded, stopEvents>>
  PROVE  RunInv'
<1>1. outcome' = [reason |-> terminal.reason, error |-> error] /\ caller' = "returned"
  BY DEF Run!Return
<1>2. DecisionInv' /\ LoopInv' BY DEF RunInv, DecisionInv, LoopInv, Run!loop
<1>3. terminal.reason \in EndReasons \cup {"none"} BY DEF RunInv, DecisionInv, RunTerminals
<1>4. CallerInv' BY <1>1, <1>3 DEF CallerInv
<1>5. QED BY <1>2, <1>4 DEF RunInv

LEMMA CallerNextStep == ASSUME RunInv, Run!CallerNext PROVE RunInv'
<1>1. CASE Run!RunReturns
  BY <1>1, CallerReturns DEF Run!RunReturns, Run!StopError, RunInv, LoopInv, DecisionInv
<1>2. CASE Run!RunRaises \/ Run!CancelEnds \/ Run!CancelAgain \/ Run!CleanupExpires
  <2>1. /\ UNCHANGED <<pc, wanted, terminal, recorded, stopEvents, outcome>>
        /\ caller' = "raised" \/ (caller = "awaiting" /\ caller' = "abandoning")
    BY <1>2 DEF Run!RunRaises, Run!CancelEnds, Run!CancelAgain, Run!CleanupExpires, Run!loop
  <2>2. QED BY <2>1 DEF RunInv, DecisionInv, LoopInv, CallerInv
<1>3. CASE Run!Cancel BY <1>3, CallerDecides DEF Run!Cancel, EndReasons
<1>4. CASE Run!DeadlineFires BY <1>4, CallerDecides DEF Run!DeadlineFires, EndReasons
<1>5. CASE Run!AwaitedReturns BY <1>5, CallerReturns DEF Run!AwaitedReturns, Run!StopError, RunInv, CallerInv
<1>6. CASE Run!StoppingReturns
  BY <1>6, CallerReturns DEF Run!StoppingReturns, Run!StopError, RunInv, CallerInv
<1>7. QED BY <1>1, <1>2, <1>3, <1>4, <1>5, <1>6 DEF Run!CallerNext

LEMMA RunNextStep == ASSUME RunInv, Run!RunNext PROVE RunInv'
<1>1. CASE Run!Expire
  BY <1>1 DEF Run!Expire, Run!loop, Run!ends, RunInv, DecisionInv, LoopInv, CallerInv
<1>2. QED BY <1>1, LoopNextStep, CallerNextStep, TerminalTaskStep DEF Run!RunNext

LEMMA RunPromise ==
  ASSUME RunInv
  PROVE  Run!OneTerminalDecision /\ Run!QuietResultIsPersisted
<1>1. CASE terminal.task = "done"
  <2>1. stopEvents = <<terminal.reason>> /\ Len(stopEvents) = 1 /\ DOMAIN stopEvents = {1}
    BY <1>1 DEF RunInv, DecisionInv
  <2>2. QED BY <1>1, <2>1 DEF RunInv, DecisionInv, CallerInv, Run!OneTerminalDecision,
       Run!QuietResultIsPersisted
<1>2. CASE terminal.task # "done"
  <2>1. stopEvents = <<>> /\ Len(stopEvents) = 0 /\ DOMAIN stopEvents = {}
    BY <1>2 DEF RunInv, DecisionInv
  <2>2. QED BY <1>2, <2>1 DEF RunInv, CallerInv, Run!OneTerminalDecision, Run!QuietResultIsPersisted
<1>3. QED BY <1>1, <1>2

(* Once the end is decided the loop takes no step but its last. *)
LEMMA NothingStarts ==
  ASSUME RunInv, Run!RunNext, terminal.started
  PROVE  executed' = executed /\ iterations' = iterations
<1>1. CASE Run!LoopNext
  <2>1. Run!LoopEnds BY <1>1, LoopNextKinds DEF RunInv, LoopInv, LoopMoves, LoopStops
  <2>2. QED BY <2>1 DEF Run!LoopEnds
<1>2. CASE Run!CallerNext
  BY <1>2 DEF Run!CallerNext, Run!RunReturns, Run!RunRaises, Run!Cancel, Run!CancelEnds,
     Run!CancelAgain, Run!DeadlineFires, Run!CleanupExpires, Run!AwaitedReturns,
     Run!StoppingReturns, Run!LoopCancelled, Run!LocalsDie, Run!loop
<1>3. CASE Run!Expire \/ Run!RecordAnswer \/ Run!EmitStopped \/ Run!TerminalFails
           \/ Run!TerminalCancelled
  BY <1>3 DEF Run!Expire, Run!RecordAnswer, Run!EmitStopped, Run!TerminalFails,
     Run!TerminalCancelled, Run!loop
<1>4. QED BY <1>1, <1>2, <1>3 DEF Run!RunNext

------------------------------------------------------------
(* The server: what is open in each phase, and in which phase its worker is. *)

ServerInv ==
    /\ phase \in {"skills", "services", "authstore", "activate", "validate", "limiter", "worker",
                  "serving"} => "repository" \in opened
    /\ phase \in {"activate", "validate", "limiter", "worker", "serving"} => "authstore" \in opened
    /\ workerLoop \in {"iterating", "sleeping"} => phase = "serving"
    /\ workerLoop = "cancelling" =>
           phase = "draining" /\ {"repository", "authstore"} \subseteq opened

LEMMA ServerStart == Server!ServerInit => ServerInv
  BY DEF Server!ServerInit, ServerInv

LEMMA ServerNextStep == ASSUME ServerInv, Server!ServerNext PROVE ServerInv'
<1>1. CASE Server!ValidateEmbedding \/ Server!LoadKeyring \/ Server!PreflightSandbox
           \/ Server!OpenRepository \/ Server!InstallBundledSkills \/ Server!BuildServices
  BY <1>1 DEF Server!ValidateEmbedding, Server!LoadKeyring, Server!PreflightSandbox,
     Server!OpenRepository, Server!InstallBundledSkills, Server!BuildServices, Server!Passes,
     Server!Refuses, Server!Unworked, ServerInv
<1>2. CASE Server!OpenAuthStore \/ Server!ActivateKeys \/ Server!ValidateKeys
           \/ Server!ConnectLimiter \/ Server!StartWorker
  BY <1>2 DEF Server!OpenAuthStore, Server!ActivateKeys, Server!ValidateKeys,
     Server!ConnectLimiter, Server!StartWorker, Server!Passes, Server!Refuses,
     Server!Unworked, ServerInv
<1>3. CASE Server!ClaimJob \/ Server!IterationEnds \/ Server!WakeWorker
           \/ Server!DetachedHandlerEnds
  BY <1>3 DEF Server!ClaimJob, Server!IterationEnds, Server!WakeWorker,
     Server!DetachedHandlerEnds, ServerInv
<1>4. CASE Server!CancelWorker \/ Server!WorkerEnds
  BY <1>4 DEF Server!CancelWorker, Server!WorkerEnds, Server!Passes, ServerInv
<1>5. CASE Server!CloseStores
  <2>1. workerLoop' = "done" /\ phase' \in {"down", "closing", "abandoned"}
    BY <1>5 DEF Server!CloseStores, Server!WorkerAwaited
  <2>2. QED BY <2>1 DEF ServerInv
<1>6. CASE Server!BeginReadiness \/ Server!CheckDatabase \/ Server!CheckLimiter
           \/ Server!EndReadiness \/ \E d \in {"database", "redis"} : Server!DependencyChanges(d)
  BY <1>6 DEF Server!BeginReadiness, Server!CheckDatabase, Server!CheckLimiter,
     Server!EndReadiness, Server!DependencyChanges, ServerInv
<1>7. QED BY <1>1, <1>2, <1>3, <1>4, <1>5, <1>6 DEF Server!ServerNext

LEMMA ServerPromise == ServerInv => Server!WorkerMeetsOpenStores
  BY DEF ServerInv, Server!WorkerMeetsOpenStores

------------------------------------------------------------
(* The verifier child. *)

VerifierTasks == {"none", "completed_event", "stopped_event", "metadata", "done", "failed"}

(* _VerifierTerminalState and its task. *)
VerdictInv ==
    /\ vTerminal = [started |-> vTerminal.started, persisted |-> vTerminal.persisted,
                    result |-> vTerminal.result]
    /\ vTerminal.started \in BOOLEAN /\ vTerminal.persisted \in BOOLEAN
    /\ task \in VerifierTasks
    /\ vTerminal.started <=> task # "none"
    /\ vTerminal.persisted => task = "done"

(* Where the two coroutines are once there is a decision. *)
PlacesInv ==
    /\ inner \in {"finish", "returned"} => vTerminal.started
    /\ outer \in {"awaiting", "settling"} => vTerminal.started
    /\ returned # Judge!NoResult => vTerminal.started /\ returned = vTerminal.result

(* The child's events: run_stopped is the last, and the task that writes it *)
(* knows whether it is there. *)
ChildKinds == {"delegation_requested", "delegation_completed", "run_stopped"}

ChildInv ==
    /\ childEvents \in Seq(ChildKinds)
    /\ \A i \in DOMAIN childEvents : childEvents[i] = "run_stopped" => i = Len(childEvents)
    /\ task \in {"none", "completed_event", "stopped_event"} =>
           \A i \in DOMAIN childEvents : childEvents[i] # "run_stopped"
    /\ task \in {"metadata", "done"} =>
           childEvents # <<>> /\ childEvents[Len(childEvents)] = "run_stopped"

VerifierInv == VerdictInv /\ PlacesInv /\ ChildInv

LEMMA VerifierStart == ASSUME Judge!VerifierInit PROVE VerifierInv
<1>1. /\ vTerminal = [started |-> FALSE, persisted |-> FALSE, result |-> Judge!NoResult]
      /\ task = "none" /\ inner = "authorise" /\ outer = "waiting"
      /\ returned = Judge!NoResult /\ childEvents = <<>>
  BY DEF Judge!VerifierInit
<1>2. VerdictInv BY <1>1 DEF VerdictInv, VerifierTasks
<1>3. PlacesInv BY <1>1 DEF PlacesInv
<1>4. ChildInv BY <1>1 DEF ChildInv
<1>5. QED BY <1>2, <1>3, <1>4 DEF VerifierInv

(* _finish() decides once. *)
LEMMA VerifierDecides ==
  ASSUME VerdictInv, NEW r, Judge!Decides(r)
  PROVE  /\ VerdictInv' /\ vTerminal'.started
         /\ vTerminal.started => vTerminal' = vTerminal /\ task' = task
         /\ ~vTerminal.started => task = "none" /\ task' = "completed_event"
<1>1. CASE vTerminal.started
  <2>1. vTerminal' = vTerminal /\ task' = task BY <1>1 DEF Judge!Decides
  <2>2. VerdictInv' BY <2>1 DEF VerdictInv
  <2>3. QED BY <1>1, <2>1, <2>2
<1>2. CASE ~vTerminal.started
  <2>1. vTerminal' = [vTerminal EXCEPT !.started = TRUE, !.result = r]
        /\ task' = "completed_event" /\ task = "none"
    BY <1>2 DEF Judge!Decides, VerdictInv
  <2>2. vTerminal' = [started |-> TRUE, persisted |-> vTerminal.persisted, result |-> r]
    BY <2>1 DEF VerdictInv
  <2>3. ~vTerminal.persisted BY <2>1 DEF VerdictInv
  <2>4. QED BY <1>2, <2>1, <2>2, <2>3 DEF VerdictInv, VerifierTasks
<1>3. QED BY <1>1, <1>2

(* What a step that writes no event does to the decision. *)
SoundMove ==
    /\ \/ UNCHANGED <<vTerminal, task>>
       \/ \E r : Judge!Decides(r)
    /\ inner' \in {"finish", "returned"} =>
           inner \in {"finish", "returned"} \/ vTerminal'.started
    /\ outer' \in {"awaiting", "settling"} =>
           outer \in {"awaiting", "settling"} \/ vTerminal'.started
    /\ \/ returned' = returned \/ returned' = Judge!NoResult
       \/ vTerminal.started /\ returned' = vTerminal.result

LEMMA SoundMoveStep ==
  ASSUME VerdictInv, PlacesInv, SoundMove
  PROVE  /\ VerdictInv' /\ PlacesInv'
         /\ vTerminal.started => vTerminal' = vTerminal /\ task' = task
         /\ ~vTerminal.started => task = "none" /\ task' \in {"none", "completed_event"}
<1>1. CASE UNCHANGED <<vTerminal, task>> BY <1>1 DEF SoundMove, VerdictInv, PlacesInv
<1>2. ASSUME NEW r, Judge!Decides(r)
      PROVE  /\ VerdictInv' /\ PlacesInv'
             /\ vTerminal.started => vTerminal' = vTerminal /\ task' = task
             /\ ~vTerminal.started => task = "none" /\ task' = "completed_event"
  <2>1. /\ VerdictInv' /\ vTerminal'.started
        /\ vTerminal.started => vTerminal' = vTerminal /\ task' = task
        /\ ~vTerminal.started => task = "none" /\ task' = "completed_event"
    BY <1>2, VerifierDecides
  <2>2. PlacesInv' BY <2>1 DEF SoundMove, PlacesInv
  <2>3. QED BY <2>1, <2>2
<1>3. QED BY <1>1, <1>2 DEF SoundMove

(* A sound move leaves the events, or adds one that is no end to a child *)
(* that has not stopped. *)
LEMMA VerifierMoves ==
  ASSUME VerifierInv, SoundMove,
         \/ childEvents' = childEvents
         \/ /\ childEvents' = Append(childEvents, "delegation_requested")
            /\ \A i \in DOMAIN childEvents : childEvents[i] # "run_stopped"
  PROVE  VerifierInv'
<1>1. VerdictInv /\ PlacesInv /\ ChildInv BY DEF VerifierInv
<1>2. /\ VerdictInv' /\ PlacesInv'
      /\ vTerminal.started => vTerminal' = vTerminal /\ task' = task
      /\ ~vTerminal.started => task = "none" /\ task' \in {"none", "completed_event"}
  BY <1>1, SoundMoveStep
<1>3. task' = task \/ (task = "none" /\ task' = "completed_event") BY <1>1, <1>2 DEF VerdictInv
<1>4. CASE childEvents' = childEvents BY <1>1, <1>2, <1>3, <1>4 DEF VerifierInv, ChildInv
<1>5. CASE /\ childEvents' = Append(childEvents, "delegation_requested")
           /\ \A i \in DOMAIN childEvents : childEvents[i] # "run_stopped"
  <2>1. childEvents \in Seq(ChildKinds) /\ task \notin {"metadata", "done"}
    BY <1>1, <1>5 DEF ChildInv
  <2>2. childEvents' \in Seq(ChildKinds) BY <1>5, <2>1 DEF ChildKinds
  <2>3. \A i \in DOMAIN childEvents' : childEvents'[i] # "run_stopped" BY <1>5, <2>1
  <2>4. ChildInv' BY <1>3, <2>1, <2>2, <2>3 DEF ChildInv
  <2>5. QED BY <1>2, <2>4 DEF VerifierInv
<1>6. QED BY <1>4, <1>5

LEMMA InnerStep ==
  ASSUME VerifierInv,
         \/ Judge!Authorise \/ Judge!EnsureChild \/ Judge!Requested \/ Judge!Call
         \/ Judge!CallFails \/ Judge!CallTimesOut \/ Judge!CancelArrives
         \/ Judge!CancelTaskRuns \/ Judge!FinishReturns
         \/ \E answer \in Answers, in, out \in 0..2 : Judge!Respond(answer, in, out)
  PROVE  VerifierInv'
<1>1. VerdictInv BY DEF VerifierInv
<1>2. ASSUME NEW r, Judge!Decides(r) PROVE vTerminal'.started BY <1>1, <1>2, VerifierDecides
<1>3. ASSUME UNCHANGED <<outer, returned>>,
             \/ inner' \notin {"finish", "returned"} /\ UNCHANGED <<vTerminal, task>>
             \/ \E s, v : Judge!Finish(s, v)
      PROVE  SoundMove
  <2>1. CASE \E s, v : Judge!Finish(s, v)
    <3>1. PICK s, v : Judge!Finish(s, v) BY <2>1
    <3>2. Judge!Decides(Judge!Result(s, v)) /\ vTerminal'.started
      BY <1>2, <3>1 DEF Judge!Finish
    <3>3. QED BY <1>3, <3>2 DEF SoundMove
  <2>2. QED BY <1>3, <2>1 DEF SoundMove
<1>4. CASE Judge!Authorise \/ Judge!EnsureChild \/ Judge!CancelArrives
  <2>1. /\ UNCHANGED <<outer, returned, vTerminal, task, childEvents>>
        /\ inner' \notin {"finish", "returned"}
    BY <1>4 DEF Judge!Authorise, Judge!EnsureChild, Judge!CancelArrives
  <2>2. QED BY <1>3, <2>1, VerifierMoves
<1>5. CASE Judge!Requested
  <2>1. UNCHANGED <<outer, returned>> BY <1>5 DEF Judge!Requested
  <2>2. \/ inner' \notin {"finish", "returned"} /\ UNCHANGED <<vTerminal, task>>
        \/ \E s, v : Judge!Finish(s, v)
    BY <1>5 DEF Judge!Requested
  <2>3. \/ childEvents' = childEvents
        \/ /\ childEvents' = Append(childEvents, "delegation_requested")
           /\ \A i \in DOMAIN childEvents : childEvents[i] # "run_stopped"
    BY <1>5 DEF Judge!Requested, Judge!Stopped, Judge!Appends
  <2>4. QED BY <1>3, <2>1, <2>2, <2>3, VerifierMoves
<1>6. CASE Judge!Call \/ Judge!CallFails \/ Judge!CallTimesOut
  <2>1. UNCHANGED <<outer, returned, childEvents>>
    BY <1>6 DEF Judge!Call, Judge!CallFails, Judge!CallTimesOut
  <2>2. \/ inner' \notin {"finish", "returned"} /\ UNCHANGED <<vTerminal, task>>
        \/ \E s, v : Judge!Finish(s, v)
    BY <1>6 DEF Judge!Call, Judge!CallFails, Judge!CallTimesOut
  <2>3. QED BY <1>3, <2>1, <2>2, VerifierMoves
<1>7. ASSUME NEW answer, NEW in, NEW out, Judge!Respond(answer, in, out) PROVE VerifierInv'
  <2>1. UNCHANGED <<outer, returned, childEvents>> BY <1>7 DEF Judge!Respond
  <2>2. \/ inner' \notin {"finish", "returned"} /\ UNCHANGED <<vTerminal, task>>
        \/ \E s, v : Judge!Finish(s, v)
    BY <1>7 DEF Judge!Respond
  <2>3. QED BY <1>3, <2>1, <2>2, VerifierMoves
<1>8. CASE Judge!CancelTaskRuns
  <2>1. UNCHANGED <<inner, outer, returned, childEvents>> /\ \E r : Judge!Decides(r)
    BY <1>8 DEF Judge!CancelTaskRuns
  <2>2. SoundMove BY <2>1 DEF SoundMove
  <2>3. QED BY <2>1, <2>2, VerifierMoves
<1>9. CASE Judge!FinishReturns
  <2>1. /\ UNCHANGED <<outer, returned, vTerminal, task, childEvents>>
        /\ inner' = "returned" => inner = "finish"
        /\ inner' # "finish"
    BY <1>9 DEF Judge!FinishReturns
  <2>2. SoundMove BY <2>1 DEF SoundMove
  <2>3. QED BY <2>1, <2>2, VerifierMoves
<1>10. QED BY <1>4, <1>5, <1>6, <1>7, <1>8, <1>9

LEMMA OuterStep ==
  ASSUME VerifierInv, Judge!VerifierExpires \/ Judge!ClientCancels
         \/ Judge!VerifyReturns \/ Judge!DeadlineHits \/ Judge!BoundedFinish
         \/ Judge!BoundedEnds
  PROVE  VerifierInv'
<1>1. VerdictInv /\ PlacesInv BY DEF VerifierInv
<1>2. ASSUME NEW r, Judge!Decides(r) PROVE vTerminal'.started BY <1>1, <1>2, VerifierDecides
<1>3. childEvents' = childEvents /\ inner' = inner
  BY DEF Judge!VerifierExpires, Judge!ClientCancels, Judge!VerifyReturns,
     Judge!DeadlineHits, Judge!BoundedFinish, Judge!BoundedEnds
<1>4. CASE Judge!VerifierExpires \/ Judge!ClientCancels \/ Judge!DeadlineHits
  <2>1. /\ UNCHANGED <<returned, vTerminal, task>>
        /\ outer' \in {"awaiting", "settling"} =>
               outer \in {"awaiting", "settling"} \/ vTerminal.started
    BY <1>4 DEF Judge!VerifierExpires, Judge!ClientCancels, Judge!DeadlineHits
  <2>2. SoundMove BY <1>3, <2>1 DEF SoundMove
  <2>3. QED BY <1>3, <2>2, VerifierMoves
<1>5. CASE Judge!VerifyReturns
  <2>1. /\ UNCHANGED <<vTerminal, task>> /\ outer' = "ended"
        /\ returned' = IF inner = "returned" THEN vTerminal.result ELSE Judge!NoResult
    BY <1>5 DEF Judge!VerifyReturns
  <2>2. SoundMove BY <1>1, <1>3, <2>1 DEF SoundMove, PlacesInv
  <2>3. QED BY <1>3, <2>2, VerifierMoves
<1>6. CASE Judge!BoundedFinish
  <2>1. returned' = returned /\ \E r : Judge!Decides(r) BY <1>6 DEF Judge!BoundedFinish
  <2>2. SoundMove BY <1>2, <1>3, <2>1 DEF SoundMove
  <2>3. QED BY <1>3, <2>2, VerifierMoves
<1>7. CASE Judge!BoundedEnds
  <2>1. /\ UNCHANGED <<vTerminal, task>> /\ outer' = "ended"
        /\ returned' = IF outer = "settling" THEN vTerminal.result ELSE Judge!NoResult
    BY <1>7 DEF Judge!BoundedEnds
  <2>2. SoundMove BY <1>1, <1>3, <2>1 DEF SoundMove, PlacesInv
  <2>3. QED BY <1>3, <2>2, VerifierMoves
<1>8. QED BY <1>4, <1>5, <1>6, <1>7

(* persist_terminal() writes its events in order, or is cut off. *)
LEMMA PersistingStep ==
  ASSUME VerifierInv,
         Judge!PersistStep \/ Judge!PersistFails \/ Judge!AwaitedEnds
  PROVE  VerifierInv'
<1>1. VerdictInv /\ PlacesInv /\ ChildInv /\ childEvents \in Seq(ChildKinds)
  BY DEF VerifierInv, ChildInv
<1>2. CASE Judge!PersistFails \/ Judge!AwaitedEnds
  <2>1. UNCHANGED <<vTerminal, inner, childEvents>>
    BY <1>2 DEF Judge!PersistFails, Judge!AwaitedEnds
  <2>2. task' = task \/ (task \notin {"none", "done"} /\ task' = "failed")
    BY <1>1, <1>2 DEF Judge!PersistFails, Judge!AwaitedEnds, VerdictInv, PlacesInv
  <2>3. \/ UNCHANGED <<outer, returned>>
        \/ outer' = "ended" /\ vTerminal.started /\ returned' = vTerminal.result
    BY <1>1, <1>2 DEF Judge!PersistFails, Judge!AwaitedEnds, PlacesInv
  <2>4. VerdictInv' BY <1>1, <2>1, <2>2 DEF VerdictInv, VerifierTasks
  <2>5. PlacesInv' BY <1>1, <2>1, <2>3 DEF PlacesInv
  <2>6. ChildInv' BY <1>1, <2>1, <2>2 DEF ChildInv
  <2>7. QED BY <2>4, <2>5, <2>6 DEF VerifierInv
<1>3. CASE Judge!PersistStep
  <2>1. UNCHANGED <<inner, outer, returned>> BY <1>3 DEF Judge!PersistStep
  <2>2. CASE task = "completed_event" /\ Judge!Appends("delegation_completed")
             /\ task' = "stopped_event" /\ UNCHANGED vTerminal
    <3>1. childEvents' = Append(childEvents, "delegation_completed") BY <2>2 DEF Judge!Appends
    <3>2. \A i \in DOMAIN childEvents : childEvents[i] # "run_stopped" BY <1>1, <2>2 DEF ChildInv
    <3>3. /\ childEvents' \in Seq(ChildKinds)
          /\ \A i \in DOMAIN childEvents' : childEvents'[i] # "run_stopped"
      BY <1>1, <3>1, <3>2 DEF ChildKinds
    <3>4. ChildInv' BY <2>2, <3>3 DEF ChildInv
    <3>5. VerdictInv' BY <1>1, <2>2 DEF VerdictInv, VerifierTasks
    <3>6. PlacesInv' BY <1>1, <2>1, <2>2 DEF PlacesInv
    <3>7. QED BY <3>4, <3>5, <3>6 DEF VerifierInv
  <2>3. CASE task = "stopped_event" /\ Judge!Appends("run_stopped")
             /\ task' = "metadata" /\ UNCHANGED vTerminal
    <3>1. childEvents' = Append(childEvents, "run_stopped") BY <2>3 DEF Judge!Appends
    <3>2. \A i \in DOMAIN childEvents : childEvents[i] # "run_stopped" BY <1>1, <2>3 DEF ChildInv
    <3>3. /\ childEvents' \in Seq(ChildKinds) /\ childEvents' # <<>>
          /\ childEvents'[Len(childEvents')] = "run_stopped"
          /\ \A i \in DOMAIN childEvents' :
                 childEvents'[i] = "run_stopped" => i = Len(childEvents')
      BY <1>1, <3>1, <3>2 DEF ChildKinds
    <3>4. ChildInv' BY <2>3, <3>3 DEF ChildInv
    <3>5. VerdictInv' BY <1>1, <2>3 DEF VerdictInv, VerifierTasks
    <3>6. PlacesInv' BY <1>1, <2>1, <2>3 DEF PlacesInv
    <3>7. QED BY <3>4, <3>5, <3>6 DEF VerifierInv
  <2>4. CASE task = "metadata" /\ task' = "done" /\ childEvents' = childEvents
             /\ vTerminal' = [vTerminal EXCEPT !.persisted = TRUE]
    <3>1. vTerminal' = [started |-> vTerminal.started, persisted |-> TRUE,
                        result |-> vTerminal.result]
      BY <1>1, <2>4 DEF VerdictInv
    <3>2. VerdictInv' BY <1>1, <2>4, <3>1 DEF VerdictInv, VerifierTasks
    <3>3. PlacesInv' BY <1>1, <2>1, <3>1 DEF PlacesInv
    <3>4. ChildInv' BY <1>1, <2>4 DEF ChildInv
    <3>5. QED BY <3>2, <3>3, <3>4 DEF VerifierInv
  <2>5. QED BY <1>3, <2>2, <2>3, <2>4 DEF Judge!PersistStep
<1>4. QED BY <1>2, <1>3

LEMMA VerifierNextStep == ASSUME VerifierInv, Judge!VerifierNext PROVE VerifierInv'
  BY InnerStep, OuterStep, PersistingStep DEF Judge!VerifierNext, Judge!VerifierOuter

LEMMA VerifierPromise == ASSUME VerifierInv PROVE Judge!AnswerIsTheDecision
<1>1. returned # Judge!NoResult => returned = vTerminal.result BY DEF VerifierInv, PlacesInv
<1>2. \A i, j \in DOMAIN childEvents :
         childEvents[i] = "run_stopped" /\ childEvents[j] = "run_stopped" => i = j
  BY DEF VerifierInv, ChildInv
<1>3. vTerminal.persisted => childEvents[Len(childEvents)] = "run_stopped"
  BY DEF VerifierInv, VerdictInv, ChildInv
<1>4. QED BY <1>1, <1>2, <1>3 DEF Judge!AnswerIsTheDecision

------------------------------------------------------------
(* The grounded query. *)

QueryEnds == {"completed", "provider_error", "deadline_exceeded", "cancelled"}
QueryWorks == {"ensure", "retrieve", "record_evidence", "complete", "delegate", "record_child",
               "record_claims", "record_answer"}
QueryEvents ==
    {<<"evidence_retrieved">>, <<"delegation_completed">>, <<"claim_verified">>,
     <<"grounded_answer">>} \cup {<<"run_stopped", r>> : r \in QueryEnds}

(* _GroundedTerminalState and its write. *)
QueryDecision ==
    /\ gTerminal = [started |-> gTerminal.started, persisted |-> gTerminal.persisted,
                    reason |-> gTerminal.reason, result |-> gTerminal.result]
    /\ gTerminal.started \in BOOLEAN /\ gTerminal.reason \in QueryEnds \cup {"none"}
    /\ gTerminal.started <=> gWrite # "none"
    /\ gTerminal.started <=> gTerminal.reason # "none"
    /\ gTerminal.reason = "completed" <=> gTerminal.result # Rag!NoAnswer

(* Where _run() and run() are, and what the caller was told. *)
QueryPlaces ==
    /\ gTerminal.started => gCancelled \/ gRun \notin QueryWorks
    /\ gRun \in {"stopping", "answered"} => gTerminal.reason = "completed"
    /\ gRun \in {"failing", "provider_error"} => gTerminal.reason = "provider_error"
    /\ gCall \in {"waiting", "wait", "wait_cancelled"} =>
           gTerminal.reason \in {"none", "completed", "provider_error"}
    /\ gCall \in {"wait", "wait_cancelled"} => gTerminal.started
    /\ gCall = "cleanup_late" => gTerminal.reason = "deadline_exceeded"
    /\ gReturned = "200" => gTerminal.reason = "completed"
    /\ gReturned = "503" => gTerminal.reason = "provider_error"
    /\ gReturned = "504" => gTerminal.reason = "deadline_exceeded"

QueryHistory ==
    /\ gEvents \in Seq(QueryEvents)
    /\ \A i \in DOMAIN gEvents :
           gEvents[i][1] = "run_stopped" =>
               /\ i = Len(gEvents) /\ gEvents[i][2] = gTerminal.reason
               /\ gWrite \in {"done", "cancelled"}

GroundedInv == QueryDecision /\ QueryPlaces /\ QueryHistory

LEMMA GroundedStart == ASSUME Rag!GroundedInit PROVE GroundedInv
<1>1. /\ gTerminal = [started |-> FALSE, persisted |-> FALSE, reason |-> "none",
                      result |-> Rag!NoAnswer]
      /\ gWrite = "none" /\ gRun = "ensure" /\ gCall = "waiting" /\ gReturned = "none"
      /\ gEvents = <<>>
  BY DEF Rag!GroundedInit
<1>2. QueryDecision BY <1>1 DEF QueryDecision, QueryEnds
<1>3. QueryPlaces BY <1>1 DEF QueryPlaces
<1>4. QueryHistory BY <1>1 DEF QueryHistory
<1>5. QED BY <1>2, <1>3, <1>4 DEF GroundedInv

(* The decision is taken once. *)
LEMMA QueryStops ==
  ASSUME QueryDecision, ~gTerminal.started, NEW r \in QueryEnds, NEW answer,
         r = "completed" <=> answer # Rag!NoAnswer, Rag!Stop(r, answer)
  PROVE  /\ QueryDecision' /\ gTerminal'.started /\ gTerminal'.reason = r
         /\ gWrite = "none" /\ gWrite' = "pending"
<1>1. gTerminal' = [gTerminal EXCEPT !.started = TRUE, !.reason = r, !.result = answer]
      /\ gWrite' = "pending" /\ gWrite = "none"
  BY DEF Rag!Stop, QueryDecision
<1>2. gTerminal' = [started |-> TRUE, persisted |-> gTerminal.persisted, reason |-> r,
                    result |-> answer]
  BY <1>1 DEF QueryDecision
<1>3. r # "none" BY DEF QueryEnds
<1>4. QED BY <1>1, <1>2, <1>3 DEF QueryDecision

(* Before the decision no run_stopped is there, and other events may come. *)
LEMMA QueryRecords ==
  ASSUME QueryDecision, QueryHistory, ~gTerminal.started,
         gWrite' \in {"none", "pending"},
         \/ gEvents' = gEvents
         \/ \E e \in {<<"evidence_retrieved">>, <<"delegation_completed">>,
                      <<"claim_verified">>, <<"grounded_answer">>} :
                gEvents' = Append(gEvents, e)
  PROVE  QueryHistory'
<1>1. gEvents \in Seq(QueryEvents) /\ \A i \in DOMAIN gEvents : gEvents[i][1] # "run_stopped"
  BY DEF QueryDecision, QueryHistory
<1>2. CASE gEvents' = gEvents BY <1>1, <1>2 DEF QueryHistory
<1>3. ASSUME NEW e \in {<<"evidence_retrieved">>, <<"delegation_completed">>,
                        <<"claim_verified">>, <<"grounded_answer">>},
             gEvents' = Append(gEvents, e)
      PROVE  QueryHistory'
  <2>1. e \in QueryEvents /\ e[1] # "run_stopped" BY DEF QueryEvents
  <2>2. gEvents' \in Seq(QueryEvents) BY <1>1, <1>3, <2>1
  <2>3. \A i \in DOMAIN gEvents' : gEvents'[i][1] # "run_stopped" BY <1>1, <1>3, <2>1
  <2>4. QED BY <2>2, <2>3 DEF QueryHistory
<1>4. QED BY <1>2, <1>3

(* A step of _run() that works on, and one that decides. *)
QueryOther == UNCHANGED <<gCall, gCancelled, gReturned>>
QueryNotes ==
    \/ gEvents' = gEvents
    \/ \E e \in {<<"evidence_retrieved">>, <<"delegation_completed">>,
                 <<"claim_verified">>, <<"grounded_answer">>} :
           gEvents' = Append(gEvents, e)
QueryMoves ==
    /\ gRun \in QueryWorks /\ gRun' \notin {"stopping", "failing", "answered", "provider_error"}
    /\ UNCHANGED <<gTerminal, gWrite>> /\ QueryNotes
QueryDecides ==
    /\ gRun \in QueryWorks /\ QueryNotes
    /\ \/ gRun' = "failing" /\ Rag!Stop("provider_error", Rag!NoAnswer)
       \/ gRun' = "stopping" /\ Rag!Stop("completed", Rag!Answer)

LEMMA QueryMovesStep ==
  ASSUME GroundedInv, ~gCancelled, QueryOther, QueryMoves
  PROVE  GroundedInv'
<1>1. QueryDecision /\ QueryPlaces /\ QueryHistory /\ ~gTerminal.started
  BY DEF GroundedInv, QueryMoves, QueryPlaces
<1>2. QueryDecision' BY <1>1 DEF QueryMoves, QueryDecision
<1>3. QueryPlaces' BY <1>1 DEF QueryMoves, QueryOther, QueryPlaces
<1>4. QueryHistory' BY <1>1, QueryRecords DEF QueryMoves, QueryNotes, QueryDecision
<1>5. QED BY <1>2, <1>3, <1>4 DEF GroundedInv

LEMMA AnswerIsAnswer == Rag!Answer # Rag!NoAnswer
<1>1. Rag!FaithfulnessMethod # "none" BY DEF Rag!FaithfulnessMethod
<1>2. Rag!Answer.method = Rag!FaithfulnessMethod /\ Rag!NoAnswer.method = "none"
  BY DEF Rag!Answer, Rag!NoAnswer
<1>3. QED BY <1>1, <1>2

LEMMA QueryDecidesStep ==
  ASSUME GroundedInv, ~gCancelled, QueryOther, QueryDecides
  PROVE  GroundedInv'
<1>1. QueryDecision /\ QueryPlaces /\ QueryHistory /\ ~gTerminal.started
      /\ gTerminal.reason = "none"
  BY DEF GroundedInv, QueryDecides, QueryPlaces, QueryDecision
<1>2. PICK r, answer :
        /\ r \in {"provider_error", "completed"}
        /\ Rag!Stop(r, answer) /\ (r = "completed" <=> answer # Rag!NoAnswer)
        /\ gRun' = IF r = "completed" THEN "stopping" ELSE "failing"
  BY AnswerIsAnswer DEF QueryDecides
<1>3. /\ QueryDecision' /\ gTerminal'.started /\ gTerminal'.reason = r
      /\ gWrite = "none" /\ gWrite' = "pending"
  BY <1>1, <1>2, QueryStops DEF QueryEnds
<1>4. QueryPlaces' BY <1>1, <1>2, <1>3 DEF QueryOther, QueryPlaces, QueryWorks
<1>5. QueryHistory' BY <1>1, <1>3, QueryRecords DEF QueryDecides, QueryNotes
<1>6. QED BY <1>3, <1>4, <1>5 DEF GroundedInv

LEMMA QueryRunStep == ASSUME GroundedInv, Rag!RunStep PROVE GroundedInv'
<1>1. ~gCancelled /\ QueryOther BY DEF Rag!RunStep, QueryOther
<1>2. CASE Rag!EnsureRun
  BY <1>1, <1>2, QueryMovesStep DEF Rag!EnsureRun, Rag!RunsLate, QueryMoves,
     QueryNotes, QueryWorks
<1>3. CASE Rag!Retrieve
  <2>1. QueryMoves \/ QueryDecides
    BY <1>3 DEF Rag!Retrieve, Rag!RunsLate, Rag!Fails, QueryMoves,
       QueryDecides, QueryNotes, QueryWorks
  <2>2. QED BY <1>1, <2>1, QueryMovesStep, QueryDecidesStep
<1>4. CASE Rag!RecordEvidence
  <2>1. QueryMoves \/ QueryDecides
    BY <1>4 DEF Rag!RecordEvidence, Rag!RunsLate, Rag!Fails, Rag!Append1,
       QueryMoves, QueryDecides, QueryNotes, QueryWorks
  <2>2. QED BY <1>1, <2>1, QueryMovesStep, QueryDecidesStep
<1>5. CASE Rag!CompleteClaims
  <2>1. gRun = "complete" /\ QueryNotes BY <1>5 DEF Rag!CompleteClaims, QueryNotes
  <2>2. ASSUME NEW claims, Rag!Verify(claims)
        PROVE  gRun' \in {"delegate", "record_claims"} /\ UNCHANGED <<gTerminal, gWrite>>
    BY <2>2 DEF Rag!Verify
  <2>3. QueryMoves \/ QueryDecides
    BY <1>5, <2>1, <2>2 DEF Rag!CompleteClaims, Rag!RunsLate, Rag!Fails,
       QueryMoves, QueryDecides, QueryWorks
  <2>4. QED BY <1>1, <2>3, QueryMovesStep, QueryDecidesStep
<1>6. CASE Rag!VerifyWithChild
  <2>1. QueryMoves
    BY <1>6 DEF Rag!VerifyWithChild, Rag!RunsLate, QueryMoves, QueryNotes, QueryWorks
  <2>2. QED BY <1>1, <2>1, QueryMovesStep
<1>7. CASE Rag!RecordChild \/ Rag!RecordClaims
  <2>1. QueryMoves \/ QueryDecides
    BY <1>7 DEF Rag!RecordChild, Rag!RecordClaims, Rag!RunsLate,
       Rag!Fails, Rag!Append1, QueryMoves, QueryDecides, QueryNotes, QueryWorks
  <2>2. QED BY <1>1, <2>1, QueryMovesStep, QueryDecidesStep
<1>8. CASE Rag!RecordAnswer
  <2>1. QueryMoves \/ QueryDecides
    BY <1>8 DEF Rag!RecordAnswer, Rag!RunsLate, Rag!Fails, Rag!Append1,
       QueryMoves, QueryDecides, QueryNotes, QueryWorks
  <2>2. QED BY <1>1, <2>1, QueryMovesStep, QueryDecidesStep
<1>9. CASE Rag!StopReturns
  <2>1. /\ UNCHANGED <<gTerminal, gWrite, gEvents>>
        /\ gRun \in {"stopping", "failing"}
        /\ \/ gRun' = "store_error"
           \/ gRun = "stopping" /\ gRun' = "answered"
           \/ gRun = "failing" /\ gRun' = "provider_error"
    BY <1>9 DEF Rag!StopReturns
  <2>2. QueryDecision' /\ QueryHistory' BY <2>1 DEF GroundedInv, QueryDecision, QueryHistory
  <2>3. QueryPlaces' BY <1>1, <2>1 DEF GroundedInv, QueryPlaces, QueryOther, QueryWorks
  <2>4. QED BY <2>2, <2>3 DEF GroundedInv
<1>10. QED BY <1>2, <1>3, <1>4, <1>5, <1>6, <1>7, <1>8, <1>9 DEF Rag!RunStep

(* persist_terminal() writes run_stopped once. *)
LEMMA QueryPersistStep == ASSUME GroundedInv, Rag!PersistTerminal PROVE GroundedInv'
<1>1. QueryDecision /\ QueryPlaces /\ QueryHistory /\ UNCHANGED <<gRun, gCall, gCancelled,
      gReturned>>
  BY DEF GroundedInv, Rag!PersistTerminal
<1>2. gWrite \in {"pending", "cancelling"} /\ gWrite' \in {"done", "failed", "cancelled"}
  BY DEF Rag!PersistTerminal
<1>3. /\ gTerminal'.started = gTerminal.started /\ gTerminal'.reason = gTerminal.reason
      /\ gTerminal'.result = gTerminal.result
      /\ gTerminal' = [started |-> gTerminal'.started, persisted |-> gTerminal'.persisted,
                       reason |-> gTerminal'.reason, result |-> gTerminal'.result]
  <2>1. CASE gTerminal' = gTerminal BY <1>1, <2>1 DEF QueryDecision
  <2>2. CASE gTerminal' = [gTerminal EXCEPT !.persisted = TRUE]
    <3>1. gTerminal' = [started |-> gTerminal.started, persisted |-> TRUE,
                        reason |-> gTerminal.reason, result |-> gTerminal.result]
      BY <1>1, <2>2 DEF QueryDecision
    <3>2. QED BY <3>1
  <2>3. QED BY <2>1, <2>2 DEF Rag!PersistTerminal
<1>4. QueryDecision' BY <1>1, <1>2, <1>3 DEF QueryDecision
<1>5. QueryPlaces' BY <1>1, <1>3 DEF QueryPlaces
<1>6. gEvents \in Seq(QueryEvents) /\ \A i \in DOMAIN gEvents : gEvents[i][1] # "run_stopped"
  BY <1>1, <1>2 DEF QueryHistory
<1>7. CASE gEvents' = gEvents BY <1>4, <1>5, <1>6, <1>7 DEF GroundedInv, QueryHistory
<1>8. CASE /\ gEvents' = Append(gEvents, <<"run_stopped", gTerminal.reason>>)
           /\ gWrite' \in {"done", "cancelled"}
  <2>1. gTerminal.reason \in QueryEnds BY <1>1, <1>2 DEF QueryDecision
  <2>2. <<"run_stopped", gTerminal.reason>> \in QueryEvents BY <2>1 DEF QueryEvents
  <2>3. gEvents' \in Seq(QueryEvents) BY <1>6, <1>8, <2>2
  <2>4. \A i \in DOMAIN gEvents' : gEvents'[i][1] = "run_stopped" =>
           i = Len(gEvents') /\ gEvents'[i][2] = gTerminal'.reason
    BY <1>3, <1>6, <1>8
  <2>5. QED BY <1>4, <1>5, <1>8, <2>3, <2>4 DEF GroundedInv, QueryHistory
<1>9. QED BY <1>7, <1>8 DEF Rag!PersistTerminal, Rag!Append1

(* run() answers from the decision, or decides itself once _run() is gone. *)
QueryCaller == UNCHANGED <<gRun, gEvents>> /\ (gCancelled => gCancelled')

LEMMA QueryTold ==
  ASSUME GroundedInv, QueryCaller, UNCHANGED gTerminal, gWrite' = gWrite \/ gWrite' = "cancelling",
         gTerminal.started <=> gWrite' # "none",
         gWrite \in {"done", "cancelled"} => gWrite' = gWrite,
         gCall' \in {"returned", "wait", "wait_cancelled"},
         gCall' = "returned" \/ (gCall \in {"waiting", "wait"} /\ gTerminal.started),
         gReturned' = "200" => gReturned = "200" \/ gTerminal.reason = "completed",
         gReturned' = "503" => gReturned = "503" \/ gTerminal.reason = "provider_error",
         gReturned' = "504" => gReturned = "504" \/ gTerminal.reason = "deadline_exceeded"
  PROVE  GroundedInv'
<1>1. QueryDecision /\ QueryPlaces /\ QueryHistory BY DEF GroundedInv
<1>2. QueryDecision' BY <1>1 DEF QueryDecision
<1>3. QueryHistory' BY <1>1 DEF QueryHistory, QueryCaller
<1>4. QueryPlaces' BY <1>1 DEF QueryPlaces, QueryCaller
<1>5. QED BY <1>2, <1>3, <1>4 DEF GroundedInv

LEMMA QueryCleansUp ==
  ASSUME GroundedInv, QueryCaller, gCancelled', ~gTerminal.started, gCall = "waiting",
         \/ Rag!CleanUp("cleanup_late", "deadline_exceeded")
         \/ Rag!CleanUp("cleanup_cancelled", "cancelled")
  PROVE  GroundedInv'
<1>1. QueryDecision /\ QueryPlaces /\ QueryHistory /\ gTerminal.reason = "none"
  BY DEF GroundedInv, QueryDecision
<1>2. PICK r \in {"deadline_exceeded", "cancelled"} :
        /\ Rag!Stop(r, Rag!NoAnswer) /\ UNCHANGED gReturned
        /\ gCall' = IF r = "cancelled" THEN "cleanup_cancelled" ELSE "cleanup_late"
  BY DEF Rag!CleanUp
<1>3. /\ QueryDecision' /\ gTerminal'.started /\ gTerminal'.reason = r
      /\ gWrite = "none" /\ gWrite' = "pending"
  BY <1>1, <1>2, QueryStops DEF QueryEnds
<1>4. QueryHistory' BY <1>1, <1>3, QueryRecords DEF QueryCaller
<1>5. QueryPlaces' BY <1>1, <1>2, <1>3 DEF QueryPlaces, QueryCaller
<1>6. QED BY <1>3, <1>4, <1>5 DEF GroundedInv

(* What the deadline's branch tells the caller of a decided run. *)
LEMMA LateIsTrue ==
  ASSUME GroundedInv, gTerminal.started, gCall \in {"waiting", "wait", "wait_cancelled"},
         Rag!Return(Rag!LateOutcome)
  PROVE  /\ gCall' = "returned"
         /\ gReturned' = "200" => gTerminal.reason = "completed"
         /\ gReturned' = "503" => gTerminal.reason = "provider_error"
         /\ gReturned' # "504"
<1>1. gTerminal.reason \in {"completed", "provider_error"}
      /\ (gTerminal.reason = "completed" <=> gTerminal.result # Rag!NoAnswer)
  BY DEF GroundedInv, QueryPlaces, QueryDecision
<1>2. Rag!LateOutcome = IF gTerminal.reason = "completed" THEN "answered"
                             ELSE "provider_error"
  BY <1>1 DEF Rag!LateOutcome
<1>3. gReturned' = IF gTerminal.reason = "completed" THEN "200" ELSE "503"
  BY <1>2 DEF Rag!Return, Rag!StatusOf
<1>4. QED BY <1>1, <1>3 DEF Rag!Return

LEMMA QueryCallStep == ASSUME GroundedInv, Rag!CallStep PROVE GroundedInv'
<1>1. /\ UNCHANGED <<gRun, gEvents>>
      /\ gTerminal.started <=> gWrite # "none"
  BY DEF Rag!CallStep, GroundedInv, QueryDecision
<1>2. CASE Rag!RunReturns
  <2>1. /\ UNCHANGED <<gCancelled, gTerminal, gWrite>> /\ gCall' = "returned"
        /\ gRun \in {"answered", "provider_error", "store_error"}
        /\ gReturned' = Rag!StatusOf(gRun)
    BY <1>2 DEF Rag!RunReturns, Rag!Return
  <2>2. /\ gReturned' = "200" => gRun = "answered"
        /\ gReturned' = "503" => gRun = "provider_error"
        /\ gReturned' # "504"
    BY <2>1 DEF Rag!StatusOf
  <2>3. /\ gReturned' = "200" => gTerminal.reason = "completed"
        /\ gReturned' = "503" => gTerminal.reason = "provider_error"
    BY <2>2 DEF GroundedInv, QueryPlaces
  <2>4. QED BY <1>1, <2>1, <2>2, <2>3, QueryTold DEF QueryCaller
<1>3. CASE Rag!TimesOut
  <2>1. gCancelled' /\ gCall = "waiting" /\ Rag!DeadlineBranch BY <1>3 DEF Rag!TimesOut
  <2>2. CASE ~gTerminal.started /\ Rag!CleanUp("cleanup_late", "deadline_exceeded")
    BY <1>1, <2>1, <2>2, QueryCleansUp DEF QueryCaller
  <2>3. CASE /\ gTerminal.started /\ gWrite = "pending" /\ gCall' = "wait"
             /\ UNCHANGED <<gTerminal, gWrite, gReturned>>
    BY <1>1, <2>1, <2>3, QueryTold DEF QueryCaller
  <2>4. CASE /\ gTerminal.started /\ Rag!Return(Rag!LateOutcome)
             /\ UNCHANGED <<gTerminal, gWrite>>
    BY <1>1, <2>1, <2>4, LateIsTrue, QueryTold DEF QueryCaller
  <2>5. QED BY <2>1, <2>2, <2>3, <2>4 DEF Rag!DeadlineBranch
<1>4. CASE Rag!CallerCancelled
  <2>1. gCancelled' /\ gCall = "waiting" BY <1>4 DEF Rag!CallerCancelled
  <2>2. CASE ~gTerminal.started /\ Rag!CleanUp("cleanup_cancelled", "cancelled")
    BY <1>1, <2>1, <2>2, QueryCleansUp DEF QueryCaller
  <2>3. CASE gTerminal.started /\ Rag!Return("cancelled") /\ UNCHANGED <<gTerminal, gWrite>>
    <3>1. gReturned' = "cancelled" /\ gCall' = "returned"
      BY <2>3 DEF Rag!Return, Rag!StatusOf
    <3>2. QED BY <1>1, <2>1, <2>3, <3>1, QueryTold DEF QueryCaller
  <2>4. QED BY <1>4, <2>2, <2>3 DEF Rag!CallerCancelled
<1>5. CASE Rag!WaitEnds
  <2>1. UNCHANGED <<gCancelled, gTerminal>> BY <1>5 DEF Rag!WaitEnds
  <2>2. CASE /\ gCall = "wait" /\ gWrite = "pending" /\ gWrite' = "cancelling"
             /\ gCall' = "wait_cancelled" /\ UNCHANGED gReturned
    BY <1>1, <2>1, <2>2, QueryTold DEF QueryCaller
  <2>3. CASE /\ gCall \in {"wait", "wait_cancelled"} /\ Rag!Return(Rag!LateOutcome)
             /\ UNCHANGED gWrite
    <3>1. gTerminal.started BY <2>3 DEF GroundedInv, QueryPlaces
    <3>2. QED BY <1>1, <2>1, <2>3, <3>1, LateIsTrue, QueryTold DEF QueryCaller
  <2>4. QED BY <1>5, <2>2, <2>3 DEF Rag!WaitEnds
<1>6. CASE Rag!CleanupEnds
  <2>1. UNCHANGED <<gCancelled, gTerminal, gWrite>> /\ gCall' = "returned"
    BY <1>6 DEF Rag!CleanupEnds, Rag!Return
  <2>2. \/ gCall = "cleanup_late" /\ gReturned' = "504"
        \/ gReturned' = "cancelled"
    BY <1>6 DEF Rag!CleanupEnds, Rag!Return, Rag!StatusOf
  <2>3. gReturned' = "504" => gTerminal.reason = "deadline_exceeded"
    BY <2>2 DEF GroundedInv, QueryPlaces
  <2>4. QED BY <1>1, <2>1, <2>2, <2>3, QueryTold DEF QueryCaller
<1>7. QED BY <1>2, <1>3, <1>4, <1>5, <1>6 DEF Rag!CallStep

LEMMA GroundedNextStep == ASSUME GroundedInv, Rag!GroundedNext PROVE GroundedInv'
<1>1. CASE Rag!Expire \/ Rag!GroundedDone
  <2>1. UNCHANGED <<gTerminal, gWrite, gEvents, gRun, gCall, gCancelled, gReturned>>
    BY <1>1 DEF Rag!Expire, Rag!GroundedDone, Rag!groundedVars
  <2>2. QED BY <2>1 DEF GroundedInv, QueryDecision, QueryPlaces, QueryHistory
<1>2. QED BY <1>1, QueryRunStep, QueryPersistStep, QueryCallStep DEF Rag!GroundedNext

LEMMA GroundedCardinality == ASSUME NEW S PROVE Rag!Cardinality(S) = Cardinality(S)
  BY DEF Rag!Cardinality, Cardinality

LEMMA GroundedPromise == ASSUME GroundedInv PROVE Rag!OneTruthfulEnd
<1> DEFINE E == {i \in DOMAIN gEvents : gEvents[i][1] = "run_stopped"}
<1>1. \A i \in E : i = Len(gEvents) /\ gEvents[i][2] = gTerminal.reason
  BY DEF GroundedInv, QueryHistory
<1>2. E = {} \/ E = {Len(gEvents)}
  <2> HIDE DEF E
  <2>1. QED BY <1>1
<1>3. Rag!Cardinality(E) <= 1
  <2>1. ASSUME NEW S, S = {} \/ S = {Len(gEvents)} PROVE Cardinality(S) <= 1
    <3>1. Cardinality({}) = 0 BY FS_EmptySet
    <3>2. Cardinality({Len(gEvents)}) = 1 BY FS_Singleton
    <3>3. QED BY <2>1, <3>1, <3>2
  <2> HIDE DEF E
  <2>2. QED BY <1>2, <2>1, GroundedCardinality
<1>4. /\ gReturned = "200" => gTerminal.reason = "completed"
      /\ gReturned = "503" => gTerminal.reason = "provider_error"
      /\ gReturned = "504" => gTerminal.reason = "deadline_exceeded"
  BY DEF GroundedInv, QueryPlaces
<1>5. \A i \in E : /\ i = Len(gEvents)
                   /\ gReturned = "200" => gEvents[i][2] = "completed"
                   /\ gReturned = "503" => gEvents[i][2] = "provider_error"
                   /\ gReturned = "504" => gEvents[i][2] = "deadline_exceeded"
  <2> HIDE DEF E
  <2>1. QED BY <1>1, <1>4
<1>6. QED BY <1>3, <1>4, <1>5, Zenon DEF Rag!OneTruthfulEnd

------------------------------------------------------------
(* The spans of a run.  The spans that are open, but for the run's own. *)

SpanNames(C) == {c[1] : c \in C}
SpanOnce(C) == \A c, d \in C : c[1] = d[1] => c = d
OpenSpans == toolSpans \cup (IF modelSpan THEN {<<"model", turn>>} ELSE {})

(* A span that was started is open, or closed, or its id was used again. *)
SpansKept == \A s \in spansOpened \ {<<"run">>} :
    s \in OpenSpans \/ s \in SpanNames(spansClosed) \/ Watch!Replaced(s)

(* The books of a run that goes on: what is open or closed was opened, and *)
(* nothing is both. *)
SpanBooks ==
    /\ OpenSpans \subseteq spansOpened /\ SpanNames(spansClosed) \subseteq spansOpened
    /\ SpansKept /\ <<"run">> \notin OpenSpans
    /\ OpenSpans \cap SpanNames(spansClosed) = {}
    /\ <<"run">> \notin SpanNames(spansClosed)

(* Serial numbers: those of the tool calls' spans and of the model's. *)
SpanNumbers ==
    /\ toolsStarted \in Nat
    /\ toolSpans \subseteq {<<"tool", id, n>> : id \in CallIds, n \in 1..toolsStarted}
    /\ \A id, n : <<"tool", id, n>> \in spansOpened => n \in 1..toolsStarted

(* The spans of a run, while it goes on and once it has stopped. *)
SpanInv ==
    /\ turn \in Nat /\ turn <= MaxSpanTurns /\ modelSpan \in BOOLEAN
    /\ modelSpan <=> expects = "response"
    /\ SpanOnce(spansClosed) /\ SpanNumbers
    /\ expects = "stopped" => Watch!EverySpanIsClosedOnce
    /\ expects # "stopped" => SpanBooks
    /\ expects \in {"run_started", "turn", "response", "tools"} =>
           \A n \in Nat : <<"model", n>> \in SpanNames(spansClosed) => n <= turn

LEMMA SpanStart == ASSUME Watch!SpanInit PROVE SpanInv
<1>1. /\ turn = 0 /\ expects = "run_started" /\ modelSpan = FALSE /\ toolSpans = {}
      /\ toolsStarted = 0 /\ spansOpened = {} /\ spansClosed = {}
  BY DEF Watch!SpanInit
<1>2. SpanNames(spansClosed) = {} /\ OpenSpans = {} /\ SpanOnce(spansClosed)
  BY <1>1 DEF SpanNames, OpenSpans, SpanOnce
<1>3. SpanBooks BY <1>1, <1>2 DEF SpanBooks, SpansKept
<1>4. turn \in Nat /\ turn <= MaxSpanTurns /\ SpanNumbers
  BY <1>1, SpanTurnsAssumption DEF SpanNumbers
<1>5. \A n \in Nat : <<"model", n>> \in SpanNames(spansClosed) => n <= turn BY <1>2
<1>6. QED BY <1>1, <1>2, <1>3, <1>4, <1>5 DEF SpanInv

(* Closing spans that are not closed yet. *)
LEMMA SpansClose ==
  ASSUME NEW C, NEW N, SpanOnce(C), SpanOnce(N), \A d \in N : d[1] \notin SpanNames(C)
  PROVE  SpanOnce(C \cup N) /\ SpanNames(C \cup N) = SpanNames(C) \cup SpanNames(N)
  BY DEF SpanOnce, SpanNames

LEMMA ManySpans ==
  ASSUME NEW S, NEW o
  PROVE  LET N == {<<x, o>> : x \in S} IN SpanOnce(N) /\ SpanNames(N) = S
<1> DEFINE N == {<<x, o>> : x \in S}
<1>1. \A c \in N : c[1] \in S /\ c = <<c[1], o>> OBVIOUS
<1>2. SpanOnce(N)
  <2> HIDE DEF N
  <2>1. QED BY <1>1 DEF SpanOnce
<1>3. \A x \in S : <<x, o>> \in N /\ <<x, o>>[1] = x OBVIOUS
<1>4. SpanNames(N) = S
  <2> HIDE DEF N
  <2>1. QED BY <1>1, <1>3 DEF SpanNames
<1>5. QED BY <1>2, <1>4

LEMMA OneSpan ==
  ASSUME NEW C, NEW x, NEW o, SpanOnce(C), x \notin SpanNames(C)
  PROVE  SpanOnce(C \cup {<<x, o>>}) /\ SpanNames(C \cup {<<x, o>>}) = SpanNames(C) \cup {x}
<1> DEFINE N == {<<x, o>>}
<1>1. SpanOnce(N) /\ SpanNames(N) = {x} /\ \A d \in N : d[1] \notin SpanNames(C)
  BY DEF SpanOnce, SpanNames
<1> HIDE DEF N
<1>2. SpanOnce(C \cup N) /\ SpanNames(C \cup N) = SpanNames(C) \cup {x} BY <1>1, SpansClose
<1>3. QED BY <1>2 DEF N

(* What was replaced stays so while the spans started only grow. *)
LEMMA StaysReplaced ==
  ASSUME SpanNumbers, NEW s, Watch!Replaced(s), spansOpened \subseteq spansOpened',
         toolsStarted' \in {toolsStarted, toolsStarted + 1}
  PROVE  Watch!Replaced(s)'
  BY DEF SpanNumbers, Watch!Replaced

(* A step that opens no span, or one, and closes none, or one. *)
LEMMA SpansMove ==
  ASSUME SpanBooks, SpanNumbers, NEW X, spansOpened' = spansOpened \cup X,
         toolsStarted' \in {toolsStarted, toolsStarted + 1},
         <<"run">> \notin OpenSpans' \cup SpanNames(spansClosed'),
         OpenSpans' \cup SpanNames(spansClosed') \subseteq spansOpened',
         OpenSpans' \cap SpanNames(spansClosed') = {},
         \A s \in OpenSpans \cup SpanNames(spansClosed) \cup X :
             \/ s \in OpenSpans' \/ s \in SpanNames(spansClosed') \/ Watch!Replaced(s)'
             \/ s = <<"run">>
  PROVE  SpanBooks'
<1>1. SpansKept'
  <2> SUFFICES ASSUME NEW s \in spansOpened', s # <<"run">>
               PROVE  s \in OpenSpans' \/ s \in SpanNames(spansClosed') \/ Watch!Replaced(s)'
    BY DEF SpansKept
  <2>1. CASE s \in OpenSpans \cup SpanNames(spansClosed) \cup X BY <2>1
  <2>2. CASE s \notin OpenSpans \cup SpanNames(spansClosed) \cup X
    BY <2>2, StaysReplaced DEF SpanBooks, SpansKept
  <2>3. QED BY <2>1, <2>2
<1>2. QED BY <1>1 DEF SpanBooks

LEMMA SpanNextStep == ASSUME SpanInv, Watch!SpanNext PROVE SpanInv'
<1>1. /\ turn \in Nat /\ turn <= MaxSpanTurns /\ modelSpan \in BOOLEAN
      /\ modelSpan <=> expects = "response"
      /\ SpanOnce(spansClosed) /\ SpanNumbers
  BY DEF SpanInv
<1>2. expects # "stopped" BY DEF Watch!SpanNext, Watch!RunStarted, Watch!IterationStarted,
     Watch!ModelResponse, Watch!FinalResponse, Watch!RunStopped,
     Watch!StopClosing, Watch!ToolCallRequested, Watch!ToolCallCompleted,
     Watch!ToolCallCompletedLate
<1>3. SpanBooks BY <1>2 DEF SpanInv
<1>4. /\ OpenSpans \subseteq spansOpened /\ SpanNames(spansClosed) \subseteq spansOpened
      /\ OpenSpans \cap SpanNames(spansClosed) = {}
      /\ <<"run">> \notin OpenSpans /\ <<"run">> \notin SpanNames(spansClosed)
  BY <1>3 DEF SpanBooks
<1>5. CASE Watch!RunStarted
  <2>1. /\ expects = "run_started" /\ expects' = "turn"
        /\ spansOpened' = spansOpened \cup {<<"run">>}
        /\ UNCHANGED <<turn, modelSpan, toolSpans, toolsStarted, spansClosed>>
    BY <1>5 DEF Watch!RunStarted
  <2>2. OpenSpans' = OpenSpans /\ SpanNames(spansClosed') = SpanNames(spansClosed)
    BY <2>1 DEF OpenSpans
  <2>3. SpanBooks' BY <1>1, <1>3, <1>4, <2>1, <2>2, SpansMove
  <2>4. SpanNumbers' BY <1>1, <2>1 DEF SpanNumbers
  <2>5. QED BY <1>1, <2>1, <2>3, <2>4 DEF SpanInv
<1>6. CASE Watch!IterationStarted
  <2> DEFINE x == <<"model", turn + 1>>
  <2>1. /\ expects \in {"turn", "tools"} /\ expects' = "response" /\ turn < MaxSpanTurns
        /\ turn' = turn + 1 /\ modelSpan' = TRUE /\ spansOpened' = spansOpened \cup {x}
        /\ UNCHANGED <<toolSpans, toolsStarted, spansClosed>>
    BY <1>6 DEF Watch!IterationStarted
  <2>2. OpenSpans' = OpenSpans \cup {x} BY <1>1, <2>1 DEF OpenSpans
  <2>3. x \notin SpanNames(spansClosed) /\ x # <<"run">> BY <1>1, <2>1 DEF SpanInv
  <2>4. \A n \in Nat : <<"model", n>> \in SpanNames(spansClosed) => n <= turn + 1
    BY <1>1, <2>1 DEF SpanInv
  <2>5. SpanNumbers' BY <1>1, <2>1 DEF SpanNumbers
  <2>6. SpanBooks'
    <3> HIDE DEF x
    <3>1. QED BY <1>1, <1>3, <1>4, <2>1, <2>2, <2>3, SpansMove
  <2>7. turn' \in Nat /\ turn' <= MaxSpanTurns BY <1>1, <2>1, SpanTurnsAssumption
  <2>8. QED BY <1>1, <2>1, <2>4, <2>5, <2>6, <2>7 DEF SpanInv
<1>7. CASE Watch!ModelResponse
  <2> DEFINE x == <<"model", turn>>
  <2>1. /\ expects = "response" /\ expects' = "tools" /\ modelSpan' = FALSE
        /\ spansClosed' = spansClosed \cup {<<x, "ok">>}
        /\ UNCHANGED <<turn, toolSpans, toolsStarted, spansOpened>>
    BY <1>7 DEF Watch!ModelResponse
  <2>2. x \in OpenSpans /\ OpenSpans' = OpenSpans \ {x} BY <1>1, <2>1 DEF OpenSpans, SpanNumbers
  <2>3. /\ SpanOnce(spansClosed')
        /\ SpanNames(spansClosed') = SpanNames(spansClosed) \cup {x}
    <3> HIDE DEF x
    <3>1. QED BY <1>1, <1>4, <2>1, <2>2, OneSpan
  <2>4. SpanBooks'
    <3> HIDE DEF x
    <3>1. spansOpened' = spansOpened \cup {} BY <2>1
    <3>2. QED BY <1>1, <1>3, <1>4, <2>1, <2>2, <2>3, <3>1, SpansMove
  <2>5. \A n \in Nat : <<"model", n>> \in SpanNames(spansClosed') => n <= turn
    BY <1>1, <2>1, <2>3 DEF SpanInv
  <2>6. SpanNumbers' BY <1>1, <2>1 DEF SpanNumbers
  <2>7. QED BY <1>1, <2>1, <2>3, <2>4, <2>5, <2>6 DEF SpanInv
<1>8. CASE Watch!FinalResponse
  <2> DEFINE x == <<"model", MaxSpanTurns + 1>>
  <2>1. /\ expects = "tools" /\ expects' = "ending"
        /\ spansOpened' = spansOpened \cup {x}
        /\ spansClosed' = spansClosed \cup {<<x, "ok">>}
        /\ UNCHANGED <<turn, modelSpan, toolSpans, toolsStarted>>
    BY <1>8 DEF Watch!FinalResponse
  <2>2. x \notin SpanNames(spansClosed) /\ x # <<"run">>
    BY <1>1, <2>1, SpanTurnsAssumption DEF SpanInv
  <2>3. x \notin OpenSpans /\ OpenSpans' = OpenSpans
    BY <1>1, <2>1, SpanTurnsAssumption DEF OpenSpans, SpanNumbers
  <2>4. /\ SpanOnce(spansClosed')
        /\ SpanNames(spansClosed') = SpanNames(spansClosed) \cup {x}
    <3> HIDE DEF x
    <3>1. QED BY <1>1, <2>1, <2>2, OneSpan
  <2>5. SpanBooks'
    <3> HIDE DEF x
    <3>1. QED BY <1>1, <1>3, <1>4, <2>1, <2>2, <2>3, <2>4, SpansMove
  <2>6. SpanNumbers' BY <1>1, <2>1 DEF SpanNumbers
  <2>7. QED BY <1>1, <2>1, <2>4, <2>5, <2>6 DEF SpanInv
<1>9. ASSUME NEW id \in CallIds, Watch!ToolCallRequested(id) PROVE SpanInv'
  <2> DEFINE x == <<"tool", id, toolsStarted + 1>>
  <2>1. /\ expects = "tools" /\ toolsStarted' = toolsStarted + 1
        /\ toolSpans' = {s \in toolSpans : s[2] # id} \cup {x}
        /\ spansOpened' = spansOpened \cup {x}
        /\ UNCHANGED <<turn, expects, modelSpan, spansClosed>>
    BY <1>9 DEF Watch!ToolCallRequested, Watch!NewToolSpan
  <2>2. x \notin spansOpened /\ x # <<"run">> BY <1>1 DEF SpanNumbers
  <2>3. OpenSpans = toolSpans /\ OpenSpans' = {s \in toolSpans : s[2] # id} \cup {x}
    BY <1>1, <2>1 DEF OpenSpans
  <2>4. ASSUME NEW s \in toolSpans, s[2] = id PROVE Watch!Replaced(s)'
    <3>1. PICK m \in 1..toolsStarted : s = <<"tool", id, m>> BY <1>1, <2>4 DEF SpanNumbers
    <3>2. toolsStarted + 1 \in 1..toolsStarted' /\ m \in 1..(toolsStarted + 1) - 1
      BY <1>1, <2>1, <3>1 DEF SpanNumbers
    <3>3. <<"tool", id, toolsStarted + 1>> \in spansOpened' BY <2>1
    <3>4. QED BY <3>1, <3>2, <3>3 DEF Watch!Replaced
  <2>5. SpanNumbers' BY <1>1, <2>1 DEF SpanNumbers
  <2>6. SpanBooks'
    <3> HIDE DEF x
    <3>1. QED BY <1>1, <1>3, <1>4, <2>1, <2>2, <2>3, <2>4, SpansMove
  <2>7. QED BY <1>1, <2>1, <2>5, <2>6 DEF SpanInv
<1>10. ASSUME NEW s, Watch!ToolCallCompleted(s) PROVE SpanInv'
  <2>1. /\ expects = "tools" /\ s \in toolSpans /\ toolSpans' = toolSpans \ {s}
        /\ spansClosed' = spansClosed \cup {<<s, "ok">>} /\ spansOpened' = spansOpened \cup {}
        /\ UNCHANGED <<turn, expects, modelSpan, toolsStarted, spansOpened>>
    BY <1>10 DEF Watch!ToolCallCompleted
  <2>2. s \in OpenSpans /\ OpenSpans' = OpenSpans \ {s} BY <1>1, <2>1 DEF OpenSpans
  <2>3. /\ SpanOnce(spansClosed')
        /\ SpanNames(spansClosed') = SpanNames(spansClosed) \cup {s}
    BY <1>1, <1>4, <2>1, <2>2, OneSpan
  <2>4. SpanBooks' BY <1>1, <1>3, <1>4, <2>1, <2>2, <2>3, SpansMove
  <2>5. \A n \in Nat : s # <<"model", n>> BY <1>1, <2>1 DEF SpanNumbers
  <2>6. SpanNumbers' BY <1>1, <2>1 DEF SpanNumbers
  <2>7. QED BY <1>1, <2>1, <2>3, <2>4, <2>5, <2>6 DEF SpanInv
<1>11. ASSUME NEW id \in CallIds, Watch!ToolCallCompletedLate(id) PROVE SpanInv'
  <2> DEFINE x == <<"tool", id, toolsStarted + 1>>
  <2>1. /\ expects = "tools" /\ toolsStarted' = toolsStarted + 1
        /\ spansOpened' = spansOpened \cup {x} /\ spansClosed' = spansClosed \cup {<<x, "ok">>}
        /\ UNCHANGED <<turn, expects, modelSpan, toolSpans>>
    BY <1>11 DEF Watch!ToolCallCompletedLate, Watch!NewToolSpan
  <2>2. /\ x \notin spansOpened /\ x # <<"run">> /\ OpenSpans' = OpenSpans
        /\ \A n \in Nat : x # <<"model", n>>
    BY <1>1, <2>1 DEF SpanNumbers, OpenSpans
  <2>3. SpanNumbers' BY <1>1, <2>1 DEF SpanNumbers
  <2> HIDE DEF x
  <2>4. /\ SpanOnce(spansClosed')
        /\ SpanNames(spansClosed') = SpanNames(spansClosed) \cup {x}
    BY <1>1, <1>4, <2>1, <2>2, OneSpan
  <2>5. SpanBooks' BY <1>1, <1>3, <1>4, <2>1, <2>2, <2>4, SpansMove
  <2>6. QED BY <1>1, <2>1, <2>2, <2>3, <2>4, <2>5 DEF SpanInv
<1>12. CASE Watch!RunStopped
  <2> DEFINE N == {<<x, "failed">> : x \in OpenSpans}
  <2>1. /\ expects' = "stopped" /\ spansOpened' = spansOpened \cup {<<"run">>}
        /\ toolSpans' = {} /\ modelSpan' = FALSE /\ UNCHANGED <<turn, toolsStarted>>
    BY <1>12 DEF Watch!RunStopped, Watch!StopClosing
  <2>2. spansClosed' = (spansClosed \cup N) \cup {<<<<"run">>, "ok">>}
    BY <1>12 DEF Watch!RunStopped, Watch!StopClosing, OpenSpans
  <2>3. SpanOnce(N) /\ SpanNames(N) = OpenSpans BY ManySpans
  <2>4. \A d \in N : d[1] \notin SpanNames(spansClosed) BY <1>4
  <2> HIDE DEF N
  <2>5. /\ SpanOnce(spansClosed \cup N)
        /\ SpanNames(spansClosed \cup N) = SpanNames(spansClosed) \cup OpenSpans
    BY <1>1, <2>3, <2>4, SpansClose
  <2>6. PICK C, x : C = spansClosed \cup N /\ x = <<"run">> OBVIOUS
  <2>7. /\ SpanOnce(C) /\ x \notin SpanNames(C) /\ spansClosed' = C \cup {<<x, "ok">>}
        /\ SpanNames(C) = SpanNames(spansClosed) \cup OpenSpans
    BY <1>4, <2>2, <2>5, <2>6
  <2>8. /\ SpanOnce(spansClosed')
        /\ SpanNames(spansClosed') = SpanNames(spansClosed) \cup OpenSpans \cup {x}
    <3>1. /\ SpanOnce(C \cup {<<x, "ok">>})
          /\ SpanNames(C \cup {<<x, "ok">>}) = SpanNames(C) \cup {x}
      BY <2>7, OneSpan
    <3>2. QED BY <2>7, <3>1
  <2>9. SpanNumbers' BY <1>1, <2>1 DEF SpanNumbers
  <2>10. \A s \in spansOpened' : s \in SpanNames(spansClosed') \/ Watch!Replaced(s)'
    BY <1>1, <1>3, <2>1, <2>6, <2>8, StaysReplaced DEF SpanBooks, SpansKept
  <2>11. Watch!EverySpanIsClosedOnce'
    BY <1>4, <2>1, <2>6, <2>8, <2>10 DEF Watch!EverySpanIsClosedOnce, SpanNames, SpanOnce
  <2>12. QED BY <1>1, <2>1, <2>8, <2>9, <2>11 DEF SpanInv
<1>13. QED BY <1>5, <1>6, <1>7, <1>8, <1>9, <1>10, <1>11, <1>12 DEF Watch!SpanNext

LEMMA SpanPromise == ASSUME SpanInv PROVE Watch!EverySpanIsClosedOnce
  BY DEF SpanInv, Watch!EverySpanIsClosedOnce

------------------------------------------------------------
(* The pipeline of specialists. *)

PipelineResults ==
    [agent : {"planner", "retriever", "validator", "synthesizer"},
     kind : {"denied", "answer", "fallback"}, given : SUBSET (1..4), signed : BOOLEAN]

PipelineInv ==
    /\ resilient \in BOOLEAN /\ secret \in BOOLEAN /\ stage \in 1..5
    /\ resilient => ~secret
    /\ hour \in Nat /\ steps \in Seq(PipelineResults) /\ (consulting => stage <= 4)

LEMMA PipelineStart == ASSUME Work!PipelineInit PROVE PipelineInv
  BY DEF Work!PipelineInit, PipelineInv

(* A specialist's result is one more of its kind. *)
LEMMA ResultTyped ==
  ASSUME PipelineInv, stage <= 4, NEW kind \in {"denied", "answer", "fallback"}
  PROVE  Work!Step(stage, kind) \in PipelineResults
<1>1. stage \in 1..4 BY DEF PipelineInv
<1>2. Work!Team[stage] \in {"planner", "retriever", "validator", "synthesizer"}
  BY <1>1 DEF Work!Team
<1>3. Work!Given(stage) \in SUBSET (1..4) BY <1>1 DEF Work!Given
<1>4. (kind = "answer" /\ secret) \in BOOLEAN OBVIOUS
<1>5. QED BY <1>2, <1>3, <1>4 DEF Work!Step, PipelineResults

(* A step adds at most one result, and to a holder of an expired token who *)
(* awaits no answer a refusal. *)
LEMMA PipelineNextStep ==
  ASSUME PipelineInv, Work!PipelineNext
  PROVE  /\ PipelineInv'
         /\ secret /\ hour >= TokenLife /\ ~consulting =>
              /\ ~consulting'
              /\ \A i \in DOMAIN steps' : i \notin DOMAIN steps
                    => steps'[i].kind = "denied" /\ ~steps'[i].signed
<1>1. ASSUME stage <= 4, NEW kind \in {"denied", "answer", "fallback"},
             Work!Advance(Work!Step(stage, kind))
      PROVE  /\ steps' \in Seq(PipelineResults) /\ stage' \in 1..5 /\ consulting' = FALSE
             /\ \A i \in DOMAIN steps' :
                    i \notin DOMAIN steps => steps'[i] = Work!Step(stage, kind)
  <2> DEFINE r == Work!Step(stage, kind)
  <2>1. r \in PipelineResults BY <1>1, ResultTyped
  <2>2. steps' = Append(steps, r) /\ stage' = stage + 1 /\ consulting' = FALSE
    BY <1>1 DEF Work!Advance
  <2> HIDE DEF r
  <2>3. QED BY <1>1, <2>1, <2>2 DEF PipelineInv, r
<1>2. CASE Work!Refuse
  <2>1. /\ stage <= 4 /\ Work!Advance(Work!Step(stage, "denied"))
        /\ resilient' = resilient /\ secret' = secret /\ hour' = hour
    BY <1>2 DEF Work!Refuse
  <2>2. /\ Work!Step(stage, "denied").kind = "denied"
        /\ ~Work!Step(stage, "denied").signed
    BY DEF Work!Step
  <2>3. QED BY <1>1, <2>1, <2>2 DEF PipelineInv
<1>3. CASE \E t \in 0..1 : Work!Execute(t)
  <2>1. /\ stage <= 4 /\ Work!Advance(Work!Step(stage, "answer"))
        /\ resilient' = resilient /\ secret' = secret /\ hour' = hour /\ consulting
    BY <1>3 DEF Work!Execute, PipelineInv
  <2>2. QED BY <1>1, <2>1 DEF PipelineInv
<1>3a. CASE Work!Ask
  <2>1. UNCHANGED <<resilient, secret, stage, steps, hour>> /\ stage <= 4 /\ ~Work!Denied
    BY <1>3a DEF Work!Ask
  <2>2. ~(secret /\ hour >= TokenLife)
    <3>1. SUFFICES ASSUME secret, hour >= TokenLife, hour < TokenLife PROVE FALSE
      BY <2>1 DEF Work!Denied, Work!CheckPermission
    <3>2. hour \in Int /\ TokenLife \in Int BY TokenLifeAssumption DEF PipelineInv
    <3>3. QED BY <3>1, <3>2
  <2>3. QED BY <2>1, <2>2 DEF PipelineInv
<1>4. CASE Work!Fail \/ Work!Hour
  <2>1. /\ UNCHANGED <<resilient, secret, stage, steps>> /\ hour' \in {hour, hour + 1}
        /\ ~consulting => ~consulting'
    BY <1>4 DEF Work!Fail, Work!Hour
  <2>2. QED BY <2>1 DEF PipelineInv
<1>5. CASE Work!FallBack
  <2>1. /\ stage <= 4 /\ Work!Advance(Work!Step(stage, "fallback"))
        /\ resilient /\ resilient' = resilient /\ secret' = secret /\ hour' = hour
    BY <1>5 DEF Work!FallBack
  <2>2. QED BY <1>1, <2>1 DEF PipelineInv
<1>6. QED BY <1>2, <1>3, <1>3a, <1>4, <1>5 DEF Work!PipelineNext, Work!PipelineStep

------------------------------------------------------------
(* The composition: one part acts and the others stay as they are. *)

EndInv ==
    /\ RunInv /\ SpanInv /\ VerifierInv
    /\ GroundedInv /\ ServerInv /\ PipelineInv

LEMMA RunRests == ASSUME RunInv, UNCHANGED runPart PROVE RunInv'
<1>1. UNCHANGED <<pc, wanted, caller, terminal, recorded, stopEvents, outcome>> BY DEF runPart
<1>2. QED BY <1>1 DEF RunInv, DecisionInv, LoopInv, CallerInv, Run!Working

LEMMA SpanRests == ASSUME SpanInv, UNCHANGED spansPart PROVE SpanInv'
<1>1. UNCHANGED <<turn, expects, modelSpan, toolSpans, toolsStarted, spansOpened, spansClosed>>
  BY DEF spansPart
<1>2. QED BY <1>1 DEF SpanInv, SpanBooks, SpansKept, OpenSpans, SpanNumbers,
  Watch!Replaced, Watch!EverySpanIsClosedOnce

LEMMA VerifierRests == ASSUME VerifierInv, UNCHANGED verifierPart PROVE VerifierInv'
<1>1. UNCHANGED <<inner, outer, vTerminal, task, childEvents, returned>> BY DEF verifierPart
<1>2. QED BY <1>1 DEF VerifierInv, VerdictInv, PlacesInv, ChildInv

LEMMA GroundedRests == ASSUME GroundedInv, UNCHANGED groundedPart PROVE GroundedInv'
<1>1. UNCHANGED <<gConfig, gRun, gCall, gCancelled, gExpired, gEvidence, gTried, gKept,
                  gRejected, gChild, gTerminal, gWrite, gEvents, gReturned>>
  BY DEF groundedPart
<1>2. QED BY <1>1 DEF GroundedInv, QueryDecision, QueryPlaces, QueryHistory

LEMMA ServerRests == ASSUME ServerInv, UNCHANGED serverPart PROVE ServerInv'
  BY DEF serverPart, ServerInv

LEMMA PipelineRests == ASSUME PipelineInv, UNCHANGED pipelinePart PROVE PipelineInv'
  BY DEF pipelinePart, PipelineInv

LEMMA RestOf ==
  ASSUME NEW part, Rest(part)
  PROVE  /\ part # "run" => UNCHANGED runPart
         /\ part # "spans" => UNCHANGED spansPart
         /\ part # "verifier" => UNCHANGED verifierPart
         /\ part # "grounded" => UNCHANGED groundedPart
         /\ part # "server" => UNCHANGED serverPart
         /\ part # "pipeline" => UNCHANGED pipelinePart
  BY DEF Rest

LEMMA OnePartActs ==
  ASSUME Next
  PROVE  \/ Run!RunNext /\ Rest("run")
         \/ Watch!SpanNext /\ Rest("spans")
         \/ Judge!VerifierNext /\ Rest("verifier")
         \/ Rag!GroundedNext /\ Rest("grounded")
         \/ Server!ServerNext /\ Rest("server")
         \/ Work!PipelineNext /\ Rest("pipeline")
         \/ \E part \in {"policy", "hooks", "envelopes", "team", "fallback", "workers",
                         "benefit", "pricing", "reflection", "sandbox", "adapters"} : Rest(part)
<1>1. CASE RunStep \/ SpansStep \/ VerifierStep BY <1>1 DEF RunStep, SpansStep, VerifierStep
<1>2. CASE GroundedStep \/ ServerStep \/ PipelineStep
  BY <1>2 DEF GroundedStep, ServerStep, PipelineStep
<1>3. CASE PolicyStep \/ HooksStep \/ EnvelopesStep \/ TeamStep \/ FallbackStep
  BY <1>3 DEF PolicyStep, HooksStep, EnvelopesStep, TeamStep, FallbackStep
<1>4. CASE CoordinatorStep \/ SwarmStep \/ BatchStep \/ BenefitStep
  BY <1>4 DEF CoordinatorStep, SwarmStep, BatchStep, BenefitStep
<1>5. CASE PricingStep \/ ReflectionStep \/ SandboxStep \/ AdaptersStep
  BY <1>5 DEF PricingStep, ReflectionStep, SandboxStep, AdaptersStep
<1>6. QED BY <1>1, <1>2, <1>3, <1>4, <1>5 DEF Next

LEMMA EndRests == ASSUME EndInv, UNCHANGED vars PROVE EndInv'
<1>1. /\ UNCHANGED runPart /\ UNCHANGED spansPart /\ UNCHANGED verifierPart
      /\ UNCHANGED groundedPart /\ UNCHANGED serverPart /\ UNCHANGED pipelinePart
  BY DEF vars
<1>2. QED BY <1>1, RunRests, SpanRests, VerifierRests, GroundedRests, ServerRests, PipelineRests
     DEF EndInv

LEMMA EndNextStep == ASSUME EndInv, Next PROVE EndInv'
<1>1. RunInv' BY OnePartActs, RestOf, RunRests, RunNextStep DEF EndInv
<1>2. SpanInv' BY OnePartActs, RestOf, SpanRests, SpanNextStep DEF EndInv
<1>3. VerifierInv' BY OnePartActs, RestOf, VerifierRests, VerifierNextStep DEF EndInv
<1>4. GroundedInv' BY OnePartActs, RestOf, GroundedRests, GroundedNextStep DEF EndInv
<1>5. ServerInv' BY OnePartActs, RestOf, ServerRests, ServerNextStep DEF EndInv
<1>6. PipelineInv' BY OnePartActs, RestOf, PipelineRests, PipelineNextStep DEF EndInv
<1>7. QED BY <1>1, <1>2, <1>3, <1>4, <1>5, <1>6 DEF EndInv

(* Whichever part acts, the coroutines that race to end a run, a verifier's *)
(* child or a grounded query agree about the decision that was taken, the *)
(* spans that are open are the ones the events left open, and a store is *)
(* open while a worker may use it (engine.py, delegation/service.py, *)
(* grounded_rag.py, runtime_events.py, main.py). *)
THEOREM EndInvariant == Spec => []EndInv
<1>1. Init => EndInv
  BY RunStart, SpanStart, VerifierStart, GroundedStart, ServerStart, PipelineStart
     DEF Init, EndInv
<1>2. EndInv /\ [Next]_vars => EndInv' BY EndNextStep, EndRests
<1>3. QED BY <1>1, <1>2, PTL DEF Spec

(* A run, a verifier's child and a grounded query end by one decision, *)
(* recorded once with nothing after it, and their callers are told what was *)
(* decided; a result without an error is one whose end was written, every *)
(* span is closed once but for one whose id was used again, and no worker *)
(* meets a closed store *)
(* (_stop() of engine.py, _finish() of delegation/service.py, run() of *)
(* grounded_rag.py, emit() of runtime_events.py, the shutdown of main.py). *)
THEOREM RunsEnd == Spec => []RunsEndTruthfully
<1>1. EndInv => RunsEndTruthfully
  BY RunPromise, SpanPromise, VerifierPromise, GroundedPromise, ServerPromise
     DEF EndInv, RunsEndTruthfully
<1>2. QED BY <1>1, EndInvariant, PTL

(* Once the end of a run is decided by anyone, no tool runs and no *)
(* iteration starts; a specialist whose token has expired turns to the *)
(* model no more, and contributes a refusal, which is never signed, but for *)
(* the answer that was under way (engine.py:1939-1956, execute() of *)
(* multi_agent.py). *)
THEOREM NoWork == Spec => NoWorkAfterTheEnd
<1>1. ASSUME EndInv, [Next]_vars
      PROVE  [terminal.started => executed' = executed /\ iterations' = iterations]_(Run!runVars)
  <2>1. CASE Run!RunNext BY <1>1, <2>1, NothingStarts DEF EndInv
  <2>2. CASE UNCHANGED runPart BY <2>2 DEF runPart
  <2>3. CASE UNCHANGED vars BY <2>2, <2>3 DEF vars
  <2>4. QED BY <1>1, <2>1, <2>2, <2>3, OnePartActs, RestOf
<1>2. ASSUME EndInv, [Next]_vars
      PROVE  [secret /\ hour >= TokenLife /\ ~consulting =>
                /\ ~consulting'
                /\ \A i \in DOMAIN steps' : i \notin DOMAIN steps
                  => steps'[i].kind = "denied" /\ ~steps'[i].signed]_(Work!pipelineVars)
  <2>1. CASE Work!PipelineNext BY <1>2, <2>1, PipelineNextStep DEF EndInv
  <2>2. CASE UNCHANGED pipelinePart BY <2>2 DEF pipelinePart, Work!pipelineVars
  <2>3. CASE UNCHANGED vars BY <2>2, <2>3 DEF vars
  <2>4. QED BY <1>2, <2>1, <2>2, <2>3, OnePartActs, RestOf
<1>3. QED BY <1>1, <1>2, EndInvariant, PTL
     DEF Spec, NoWorkAfterTheEnd, Run!NothingStartsAfterTheEnd, Work!ExpiredTokensDoNoWork

------------------------------------------------------------
(* The members of a sequence at some of its positions, in their order: what *)
(* is left of a batch of calls, of a list of hooks or of a list of claims. *)

LEMMA LeastNumber ==
  ASSUME NEW B, B \subseteq Nat, B # {}
  PROVE  \E m \in B : \A k \in B : m <= k
<1>1. IsWellFoundedOn(OpToRel(<, Nat), Nat) BY NatLessThanWellFounded
<1>2. PICK m \in B : \A k \in B : ~(<<k, m>> \in OpToRel(<, Nat)) BY <1>1, WFMin
<1>3. ASSUME NEW k \in B PROVE m <= k
  <2>1. k \in Nat /\ m \in Nat OBVIOUS
  <2>2. ~(k < m) BY <1>2, <2>1 DEF OpToRel
  <2>3. QED BY <2>1, <2>2
<1>4. QED BY <1>3

Pick1(s, S, i) == IF i \in S THEN <<s[i]>> ELSE <<>>
IsTrace(g, s, S, n) == g = [i \in 0..n |-> IF i = 0 THEN <<>> ELSE g[i - 1] \o Pick1(s, S, i)]

LEMMA TraceExists == ASSUME NEW s, NEW S, NEW N \in Nat PROVE \E g : IsTrace(g, s, S, N)
<1> DEFINE B == {n \in Nat : \A g : ~IsTrace(g, s, S, n)}
<1> SUFFICES ASSUME N \in B PROVE FALSE OBVIOUS
<1>1. B \subseteq Nat /\ B # {} OBVIOUS
<1>2. \A n \in B : \A g : ~IsTrace(g, s, S, n) OBVIOUS
<1>3. \A n \in Nat : n \notin B => \E g : IsTrace(g, s, S, n) OBVIOUS
<1> HIDE DEF B
<1>4. PICK n \in B : \A k \in B : n <= k BY <1>1, LeastNumber
<1>5. n \in Nat BY <1>1
<1>6. n # 0
  <2> DEFINE h == [i \in 0..0 |-> <<>>]
  <2>1. h = [i \in 0..0 |-> IF i = 0 THEN <<>> ELSE h[i - 1] \o Pick1(s, S, i)] OBVIOUS
  <2>2. IsTrace(h, s, S, 0) BY <2>1 DEF IsTrace
  <2>3. QED BY <1>2, <2>2
<1>7. PICK g : IsTrace(g, s, S, n - 1) BY <1>3, <1>4, <1>5, <1>6
<1> DEFINE h == [i \in 0..n |-> IF i < n THEN g[i] ELSE g[n - 1] \o Pick1(s, S, n)]
<1>8. ASSUME NEW i \in 0..n PROVE h[i] = IF i = 0 THEN <<>> ELSE h[i - 1] \o Pick1(s, S, i)
  <2>1. CASE i < n
    <3>1. g[i] = IF i = 0 THEN <<>> ELSE g[i - 1] \o Pick1(s, S, i)
      <4>1. i \in 0..n - 1 BY <1>5, <2>1
      <4>2. QED BY <1>7, <4>1 DEF IsTrace
    <3>2. QED BY <1>5, <2>1, <3>1
  <2>2. CASE i = n
    <3>1. h[n] = g[n - 1] \o Pick1(s, S, n) /\ n \in 0..n BY <1>5
    <3>2. h[n - 1] = g[n - 1]
      <4>1. n - 1 \in 0..n /\ n - 1 < n BY <1>5, <1>6
      <4>2. QED BY <4>1
    <3> HIDE DEF h
    <3>3. h[n] = h[n - 1] \o Pick1(s, S, n) BY <3>1, <3>2
    <3>4. QED BY <1>6, <2>2, <3>3
  <2>3. QED BY <1>5, <2>1, <2>2
<1>9. h = [i \in 0..n |-> IF i = 0 THEN <<>> ELSE h[i - 1] \o Pick1(s, S, i)]
  <2> DEFINE q == [i \in 0..n |-> IF i = 0 THEN <<>> ELSE h[i - 1] \o Pick1(s, S, i)]
  <2>1. /\ DOMAIN h = 0..n /\ h = [i \in DOMAIN h |-> h[i]]
        /\ DOMAIN q = 0..n /\ q = [i \in DOMAIN q |-> q[i]] OBVIOUS
  <2>2. \A i \in 0..n : q[i] = IF i = 0 THEN <<>> ELSE h[i - 1] \o Pick1(s, S, i) OBVIOUS
  <2>3. \A i \in 0..n : h[i] = q[i]
    <3> HIDE DEF h, q
    <3>1. QED BY <1>8, <2>2
  <2>4. h = q
    <3> HIDE DEF h, q
    <3>1. QED BY <2>1, <2>3
  <2>5. QED BY <2>4
<1>10. IsTrace(h, s, S, n)
  <2> HIDE DEF h
  <2>1. QED BY <1>9 DEF IsTrace
<1>11. QED BY <1>2, <1>10

(* r holds the members of s at the positions of S up to n, in order: f *)
(* tells where each of them was. *)
TakenFrom(r, s, S, n, f) ==
    /\ f \in [1..Len(r) -> {i \in 1..n : i \in S}]
    /\ \A k \in 1..Len(r) : r[k] = s[f[k]]
    /\ \A k, l \in 1..Len(r) : k < l => f[k] < f[l]
    /\ \A i \in 1..n : i \in S => \E k \in 1..Len(r) : f[k] = i

LEMMA TakenMore ==
  ASSUME NEW A, NEW s \in Seq(A), NEW S, NEW n \in Nat, n + 1 <= Len(s), NEW r \in Seq(A),
         NEW f, TakenFrom(r, s, S, n, f)
  PROVE  /\ r \o Pick1(s, S, n + 1) \in Seq(A)
         /\ \E g : TakenFrom(r \o Pick1(s, S, n + 1), s, S, n + 1, g)
<1>1. CASE n + 1 \notin S
  <2>1. r \o Pick1(s, S, n + 1) = r BY <1>1 DEF Pick1
  <2>2. {i \in 1..n : i \in S} \subseteq {i \in 1..n + 1 : i \in S} OBVIOUS
  <2>3. \A i \in 1..n + 1 : i \in S => i \in 1..n BY <1>1
  <2>4. f \in [1..Len(r) -> {i \in 1..n + 1 : i \in S}] BY <2>2 DEF TakenFrom
  <2>5. TakenFrom(r, s, S, n + 1, f) BY <2>3, <2>4 DEF TakenFrom
  <2>6. QED BY <2>1, <2>5
<1>2. CASE n + 1 \in S
  <2> DEFINE q == Append(r, s[n + 1])
             g == [k \in 1..Len(r) + 1 |-> IF k = Len(r) + 1 THEN n + 1 ELSE f[k]]
  <2>1. s[n + 1] \in A /\ Len(r) \in Nat OBVIOUS
  <2>2. r \o Pick1(s, S, n + 1) = q /\ q \in Seq(A) /\ Len(q) = Len(r) + 1
    <3>1. Pick1(s, S, n + 1) = <<s[n + 1]>> BY <1>2 DEF Pick1
    <3>2. \A x \in A : r \o <<x>> = Append(r, x) /\ Append(r, x) \in Seq(A)
                        /\ Len(Append(r, x)) = Len(r) + 1 OBVIOUS
    <3>3. QED BY <2>1, <3>1, <3>2
  <2>3. \A k \in 1..Len(r) : q[k] = r[k] /\ g[k] = f[k] /\ f[k] \in 1..n /\ f[k] \in S
    <3>1. TAKE k \in 1..Len(r)
    <3>2. k \in 1..Len(r) + 1 /\ k # Len(r) + 1 BY <2>1
    <3>3. g[k] = f[k] BY <3>2
    <3>4. q[k] = r[k] BY <2>1
    <3>5. f[k] \in 1..n /\ f[k] \in S BY DEF TakenFrom
    <3>6. QED BY <3>3, <3>4, <3>5
  <2>4. q[Len(r) + 1] = s[n + 1] /\ g[Len(r) + 1] = n + 1 BY <2>1
  <2>5. \A k \in 1..Len(r) + 1 : k \in 1..Len(r) \/ k = Len(r) + 1 BY <2>1
  <2>6. g \in [1..Len(q) -> {i \in 1..n + 1 : i \in S}]
    <3>1. DOMAIN g = 1..Len(r) + 1 /\ g = [k \in DOMAIN g |-> g[k]] OBVIOUS
    <3>2. \A k \in 1..Len(r) : g[k] \in 1..n + 1 /\ g[k] \in S
      <4> HIDE DEF g, q
      <4>1. QED BY <2>3
    <3>3. n + 1 \in 1..n + 1 OBVIOUS
    <3> HIDE DEF g, q
    <3>4. \A k \in 1..Len(r) + 1 : g[k] \in {i \in 1..n + 1 : i \in S}
      BY <1>2, <2>4, <2>5, <3>2, <3>3
    <3>5. QED BY <2>2, <3>1, <3>4
  <2> HIDE DEF q, g
  <2>7. \A k \in 1..Len(q) : q[k] = s[g[k]] BY <2>2, <2>3, <2>4, <2>5 DEF TakenFrom
  <2>8. \A k, l \in 1..Len(q) : k < l => g[k] < g[l]
    <3>1. TAKE k, l \in 1..Len(q)
    <3>2. HAVE k < l
    <3>3. k \in 1..Len(r) BY <2>1, <2>2, <3>2
    <3>4. CASE l \in 1..Len(r) BY <2>3, <3>2, <3>3, <3>4 DEF TakenFrom
    <3>5. CASE l = Len(r) + 1 BY <2>3, <2>4, <3>3, <3>5
    <3>6. QED BY <2>2, <2>5, <3>4, <3>5
  <2>9. \A i \in 1..n + 1 : i \in S => \E k \in 1..Len(q) : g[k] = i
    <3>1. TAKE i \in 1..n + 1
    <3>2. HAVE i \in S
    <3>3. CASE i = n + 1 BY <2>1, <2>2, <2>4, <3>3
    <3>4. CASE i \in 1..n
      <4>1. PICK k \in 1..Len(r) : f[k] = i BY <3>2, <3>4 DEF TakenFrom
      <4>2. k \in 1..Len(q) /\ g[k] = i BY <2>1, <2>2, <2>3, <4>1
      <4>3. QED BY <4>2
    <3>5. QED BY <3>3, <3>4
  <2>10. TakenFrom(q, s, S, n + 1, g) BY <2>6, <2>7, <2>8, <2>9 DEF TakenFrom
  <2>11. QED BY <2>2, <2>10
<1>3. QED BY <1>1, <1>2

(* Picked(s, S) has exactly the members at the positions of S, in order. *)
LEMMA PickedTaken ==
  ASSUME NEW A, NEW s \in Seq(A), NEW S
  PROVE  /\ Run!Picked(s, S) \in Seq(A)
         /\ \E f : TakenFrom(Run!Picked(s, S), s, S, Len(s), f)
<1>1. Len(s) \in Nat OBVIOUS
<1> DEFINE t == CHOOSE g : IsTrace(g, s, S, Len(s))
<1>2. IsTrace(t, s, S, Len(s)) BY <1>1, TraceExists
<1>3. Run!Picked(s, S) = t[Len(s)] BY DEF Run!Picked, IsTrace, Pick1
<1> HIDE DEF t
<1>4. t[0] = <<>> /\ \A i \in 1..Len(s) : t[i] = t[i - 1] \o Pick1(s, S, i)
  <2>1. \A i \in 0..Len(s) : t[i] = IF i = 0 THEN <<>> ELSE t[i - 1] \o Pick1(s, S, i)
    <3> HIDE DEF Pick1
    <3>1. t = [i \in 0..Len(s) |-> IF i = 0 THEN <<>> ELSE t[i - 1] \o Pick1(s, S, i)]
      BY <1>2 DEF IsTrace
    <3> DEFINE X(i) == IF i = 0 THEN <<>> ELSE t[i - 1] \o Pick1(s, S, i)
    <3>2. t = [i \in 0..Len(s) |-> X(i)] BY <3>1
    <3> HIDE DEF X
    <3>3. \A i \in 0..Len(s) : t[i] = X(i) BY <3>2
    <3>4. QED BY <3>3 DEF X
  <2>2. 0 \in 0..Len(s) /\ \A i \in 1..Len(s) : i \in 0..Len(s) /\ i # 0 BY <1>1
  <2>3. QED BY <2>1, <2>2
<1> DEFINE Fine(n) == t[n] \in Seq(A) /\ \E f : TakenFrom(t[n], s, S, n, f)
           B == {n \in 0..Len(s) : ~Fine(n)}
<1>5. Fine(0)
  <2>1. TakenFrom(<<>>, s, S, 0, <<>>) BY DEF TakenFrom
  <2>2. QED BY <1>4, <2>1
<1>6. ASSUME NEW n \in 0..Len(s), n < Len(s), Fine(n) PROVE Fine(n + 1)
  <2>1. PICK f : TakenFrom(t[n], s, S, n, f) BY <1>6
  <2>2. t[n + 1] = t[n] \o Pick1(s, S, n + 1)
    <3>1. n + 1 \in 1..Len(s) /\ (n + 1) - 1 = n BY <1>1, <1>6
    <3>2. QED BY <1>4, <3>1
  <2>3. n \in Nat /\ n + 1 <= Len(s) BY <1>1, <1>6
  <2>4. t[n] \in Seq(A) BY <1>6
  <2>5. QED BY <2>1, <2>2, <2>3, <2>4, TakenMore
<1> HIDE DEF Fine
<1>7. B = {}
  <2> SUFFICES ASSUME B # {} PROVE FALSE OBVIOUS
  <2>1. B \subseteq Nat BY <1>1
  <2>2. \A n \in 0..Len(s) : n \in B <=> ~Fine(n) OBVIOUS
  <2>3. B \subseteq 0..Len(s) OBVIOUS
  <2> HIDE DEF B
  <2>4. PICK m \in B : \A k \in B : m <= k BY <2>1, LeastNumber
  <2>5. m \in 0..Len(s) /\ m # 0 BY <1>5, <2>2, <2>3
  <2>6. m - 1 \in 0..Len(s) /\ m - 1 < Len(s) /\ m - 1 \notin B BY <1>1, <2>4, <2>5
  <2>7. Fine((m - 1) + 1) BY <1>6, <2>2, <2>6
  <2>8. (m - 1) + 1 = m BY <2>5
  <2>9. QED BY <2>2, <2>4, <2>5, <2>7, <2>8
<1>8. Fine(Len(s)) BY <1>1, <1>7
<1>9. QED BY <1>3, <1>8 DEF Fine

LEMMA PickedMembers ==
  ASSUME NEW A, NEW s \in Seq(A), NEW S
  PROVE  Range(Run!Picked(s, S)) = {s[i] : i \in {j \in DOMAIN s : j \in S}}
<1> DEFINE r == Run!Picked(s, S)
<1>1. r \in Seq(A) /\ \E f : TakenFrom(r, s, S, Len(s), f) BY PickedTaken
<1> HIDE DEF r
<1>2. PICK f : TakenFrom(r, s, S, Len(s), f) BY <1>1
<1>3. DOMAIN r = 1..Len(r) /\ DOMAIN s = 1..Len(s) BY <1>1
<1>4. \A k \in DOMAIN r : \E i \in {j \in DOMAIN s : j \in S} : r[k] = s[i]
  BY <1>2, <1>3 DEF TakenFrom
<1>5. \A i \in {j \in DOMAIN s : j \in S} : \E k \in DOMAIN r : r[k] = s[i]
  BY <1>2, <1>3 DEF TakenFrom
<1>6. Range(r) = {s[i] : i \in {j \in DOMAIN s : j \in S}} BY <1>4, <1>5 DEF Range
<1>7. QED BY <1>6 DEF r

(* Members picked where no value comes twice come once. *)
LEMMA PickedOnce ==
  ASSUME NEW A, NEW s \in Seq(A), NEW S,
         \A i, j \in DOMAIN s : i \in S /\ j \in S /\ s[i] = s[j] => i = j
  PROVE  IsInjective(Run!Picked(s, S))
<1> DEFINE r == Run!Picked(s, S)
<1>1. r \in Seq(A) /\ \E f : TakenFrom(r, s, S, Len(s), f) BY PickedTaken
<1> HIDE DEF r
<1>2. PICK f : TakenFrom(r, s, S, Len(s), f) BY <1>1
<1>3. DOMAIN r = 1..Len(r) /\ DOMAIN s = 1..Len(s) /\ Len(r) \in Nat BY <1>1
<1>4. ASSUME NEW k \in DOMAIN r, NEW l \in DOMAIN r, r[k] = r[l] PROVE k = l
  <2>1. /\ f[k] \in DOMAIN s /\ f[k] \in S /\ f[l] \in DOMAIN s /\ f[l] \in S
        /\ s[f[k]] = s[f[l]]
    BY <1>2, <1>3, <1>4 DEF TakenFrom
  <2>2. f[k] = f[l] BY <2>1
  <2>3. ~(k < l) /\ ~(l < k) BY <1>2, <1>3, <2>1, <2>2 DEF TakenFrom
  <2>4. QED BY <1>3, <2>3
<1>5. IsInjective(r) BY <1>4 DEF IsInjective
<1>6. QED BY <1>5 DEF r

(* A sequence without repetition is as long as it has members. *)
LEMMA LengthOfDistinct ==
  ASSUME NEW A, NEW r \in Seq(A), IsInjective(r)
  PROVE  IsFiniteSet(Range(r)) /\ Cardinality(Range(r)) = Len(r)
<1>1. Len(r) \in Nat /\ DOMAIN r = 1..Len(r) OBVIOUS
<1>2. IsFiniteSet(1..Len(r)) /\ Cardinality(1..Len(r)) = Len(r) BY <1>1, FS_Interval
<1>3. r \in [1..Len(r) -> Range(r)] BY <1>1 DEF Range
<1>4. r \in Surjection(1..Len(r), Range(r)) BY <1>1, <1>3 DEF Surjection, Range
<1>5. r \in Injection(1..Len(r), Range(r)) BY <1>1, <1>3 DEF Injection
<1>6. QED BY <1>2, <1>4, <1>5, FS_Surjection

LEMMA RunRange == ASSUME NEW f PROVE Run!Range(f) = Range(f)
  BY DEF Run!Range, Range

LEMMA RunInjective == ASSUME NEW f PROVE Run!IsInjective(f) <=> IsInjective(f)
  BY DEF Run!IsInjective, IsInjective

LEMMA RunCardinality == ASSUME NEW S PROVE Run!Cardinality(S) = Cardinality(S)
  BY DEF Run!Cardinality, Cardinality

------------------------------------------------------------
(* The calls of a run: which are open, which ran, and what they cost. *)

BatchTypes ==
    /\ batch \in Seq(Keys) /\ executed \in Seq(Keys) /\ seen \subseteq Keys
    /\ calls \in Nat /\ unanswered \in Nat /\ policyMode \in BOOLEAN

(* Exactly the calls that are still to be handled are open. *)
OpenCalls == unanswered = IF pc \in {"preparing", "tools"} THEN Len(batch) ELSE 0

(* What ran was new and paid for; of an authorised batch nothing has run, *)
(* and the budget covers it. *)
CallsPaid ==
    /\ IsInjective(executed) /\ Len(executed) <= MaxToolCalls
    /\ pc \in Run!Working =>
           Range(executed) \subseteq seen /\ Len(executed) <= calls /\ calls <= MaxToolCalls
    /\ pc = "preparing" =>
           policyMode /\ calls + Cardinality(Range(batch) \ seen) <= MaxToolCalls
    /\ pc = "tools" /\ policyMode =>
           /\ IsInjective(batch) /\ Range(batch) \cap Range(executed) = {}
           /\ calls + Len(batch) <= MaxToolCalls

CallsInv == BatchTypes /\ OpenCalls /\ CallsPaid

LEMMA CallsStart == ASSUME Run!RunInit PROVE CallsInv
<1>1. /\ policyMode \in BOOLEAN /\ pc = "begin" /\ calls = 0 /\ seen = {} /\ batch = <<>>
      /\ unanswered = 0 /\ executed = <<>>
  BY DEF Run!RunInit
<1>2. IsInjective(<<>>) /\ Range(<<>>) = {} /\ Len(<<>>) = 0 BY DEF IsInjective, Range
<1>3. QED BY <1>1, <1>2, ToolBudgetAssumption DEF CallsInv, BatchTypes, OpenCalls, CallsPaid

(* Every end of the loop forgets its locals and runs nothing more. *)
LEMMA CallsEnd ==
  ASSUME CallsInv, Run!LocalsDie, policyMode' = policyMode, pc' \notin Run!Working
  PROVE  CallsInv'
<1>1. /\ calls' = 0 /\ seen' = {} /\ batch' = <<>> /\ unanswered' = 0
      /\ executed' = executed
  BY DEF Run!LocalsDie
<1>2. BatchTypes' /\ OpenCalls' BY <1>1 DEF CallsInv, BatchTypes, OpenCalls
<1>3. CallsPaid' BY <1>1 DEF CallsInv, CallsPaid, Run!Working
<1>4. QED BY <1>2, <1>3 DEF CallsInv

LEMMA CallsStop ==
  ASSUME CallsInv, NEW reason, NEW error, Run!StopRun(reason, error) PROVE CallsInv'
  BY CallsEnd DEF Run!StopRun, Run!setup, Run!Working

(* Steps that neither open, answer nor run a call. *)
LEMMA CallsStay ==
  ASSUME CallsInv, UNCHANGED <<calls, seen, batch, unanswered, executed, policyMode>>,
         pc' \notin {"preparing", "tools"}, pc' \in Run!Working => pc \in Run!Working,
         unanswered = 0
  PROVE  CallsInv'
<1>1. BatchTypes' /\ OpenCalls' BY DEF CallsInv, BatchTypes, OpenCalls
<1>2. CallsPaid' BY DEF CallsInv, CallsPaid
<1>3. QED BY <1>1, <1>2 DEF CallsInv

LEMMA CallsMove ==
  ASSUME CallsInv,
         \/ Run!Begin \/ Run!StartFails \/ Run!Iterate \/ Run!RetryStructured \/ Run!NextIteration
         \/ Run!IterationsExhausted \/ Run!TokensExhausted \/ Run!BatchOverBudget
         \/ Run!LoopEnds
  PROVE  CallsInv'
<1>1. CASE Run!Begin \/ Run!StartFails \/ Run!Iterate \/ Run!RetryStructured
  <2>1. /\ UNCHANGED <<calls, seen, batch, unanswered, executed, policyMode>>
        /\ pc' \in {"loop", "calling", "crashed"} /\ pc \in {"begin", "loop", "answered"}
    BY <1>1 DEF Run!Begin, Run!StartFails, Run!Iterate, Run!RetryStructured, Run!Kept, Run!setup
  <2>2. unanswered = 0 BY <2>1 DEF CallsInv, OpenCalls
  <2>3. QED BY <2>1, <2>2, CallsStay DEF Run!Working
<1>2. CASE Run!NextIteration
  <2>1. /\ UNCHANGED <<calls, seen, batch, unanswered, executed, policyMode>>
        /\ pc' = "loop" /\ pc = "tools" /\ batch = <<>>
    BY <1>2 DEF Run!NextIteration, Run!Kept, Run!setup
  <2>2. unanswered = 0 BY <2>1 DEF CallsInv, OpenCalls
  <2>3. QED BY <2>1, <2>2, CallsStay DEF Run!Working
<1>3. CASE Run!IterationsExhausted \/ Run!TokensExhausted \/ Run!BatchOverBudget
  <2>1. /\ UNCHANGED <<calls, seen, batch, unanswered, executed, policyMode>>
        /\ pc' = "final" /\ pc \in {"loop", "answered"}
    BY <1>3 DEF Run!IterationsExhausted, Run!TokensExhausted, Run!BatchOverBudget,
       Run!Finalize, Run!setup
  <2>2. unanswered = 0 BY <2>1 DEF CallsInv, OpenCalls
  <2>3. QED BY <2>1, <2>2, CallsStay DEF Run!Working
<1>4. CASE Run!LoopEnds
  <2>1. /\ UNCHANGED <<calls, seen, batch, unanswered, executed, policyMode>>
        /\ pc' \in {"ended", "crashed"} /\ pc = "stopping"
    BY <1>4 DEF Run!LoopEnds, Run!setup
  <2>2. unanswered = 0 BY <2>1 DEF CallsInv, OpenCalls
  <2>3. QED BY <2>1, <2>2, CallsStay DEF Run!Working
<1>5. QED BY <1>1, <1>2, <1>3, <1>4

(* A batch arrives and is accepted: its calls are open. *)
LEMMA CallsArrive ==
  ASSUME CallsInv, NEW response \in Run!Batches, NEW tokens, Run!Respond(response, tokens)
  PROVE  CallsInv'
<1>1. /\ UNCHANGED <<calls, seen, unanswered, executed, policyMode>> /\ batch' = response
      /\ pc' = "answered" /\ pc = "calling"
  BY DEF Run!Respond, Run!setup
<1>2. response \in Seq(Keys) BY DEF Run!Batches
<1>3. BatchTypes' /\ OpenCalls' BY <1>1, <1>2 DEF CallsInv, BatchTypes, OpenCalls
<1>4. CallsPaid' BY <1>1 DEF CallsInv, CallsPaid, Run!Working
<1>5. QED BY <1>3, <1>4 DEF CallsInv

LEMMA CallsAccepted == ASSUME CallsInv, Run!AcceptBatch PROVE CallsInv'
<1>1. /\ UNCHANGED <<calls, seen, batch, executed, policyMode>> /\ pc = "answered"
      /\ pc' = IF policyMode THEN "preparing" ELSE "tools"
      /\ unanswered' = unanswered + Len(batch)
      /\ policyMode => calls + Run!Cardinality(Run!Novel) <= MaxToolCalls
  BY DEF Run!AcceptBatch, Run!setup
<1>2. Run!Cardinality(Run!Novel) = Cardinality(Range(batch) \ seen)
  BY RunCardinality, RunRange DEF Run!Novel
<1>3. unanswered = 0 /\ Len(batch) \in Nat BY <1>1 DEF CallsInv, OpenCalls, BatchTypes
<1>4. BatchTypes' /\ OpenCalls' BY <1>1, <1>3 DEF CallsInv, BatchTypes, OpenCalls
<1>5. pc \in Run!Working /\ pc' \in {"preparing", "tools"} /\ (pc' = "tools" => ~policyMode)
      /\ (pc' = "preparing" => policyMode)
  BY <1>1 DEF Run!Working
<1>6. CallsPaid' BY <1>1, <1>2, <1>5 DEF CallsInv, CallsPaid
<1>7. QED BY <1>4, <1>6 DEF CallsInv

(* The batch without the calls made before: each new, each once, and as *)
(* many as were reserved. *)
LEMMA DistinctCalls ==
  ASSUME batch \in Seq(Keys)
  PROVE  /\ Run!Distinct \in Seq(Keys) /\ IsInjective(Run!Distinct)
         /\ Range(Run!Distinct) = Range(batch) \ seen
<1> DEFINE S == {i \in DOMAIN batch : batch[i] \notin seen
                                       /\ \A j \in 1..i - 1 : batch[j] # batch[i]}
<1>1. Run!Distinct = Run!Picked(batch, S) BY DEF Run!Distinct
<1>2. DOMAIN batch = 1..Len(batch) /\ Len(batch) \in Nat OBVIOUS
<1>3. Run!Picked(batch, S) \in Seq(Keys) BY PickedTaken
<1>4. IsInjective(Run!Picked(batch, S))
  <2>1. ASSUME NEW i \in DOMAIN batch, NEW j \in DOMAIN batch, i \in S, j \in S,
               batch[i] = batch[j]
        PROVE  i = j
    <3>1. i \in Nat /\ j \in Nat /\ 1 <= i /\ 1 <= j BY <1>2
    <3>2. ~(i < j) /\ ~(j < i) BY <2>1, <3>1
    <3>3. QED BY <3>1, <3>2
  <2> HIDE DEF S
  <2>2. QED BY <2>1, PickedOnce
<1>5. Range(Run!Picked(batch, S)) = {batch[i] : i \in {j \in DOMAIN batch : j \in S}}
  <2> HIDE DEF S
  <2>1. QED BY PickedMembers
<1>6. {batch[i] : i \in {j \in DOMAIN batch : j \in S}} \subseteq Range(batch) \ seen BY DEF Range
<1>7. ASSUME NEW x \in Range(batch) \ seen
      PROVE  \E i \in {j \in DOMAIN batch : j \in S} : x = batch[i]
  <2> DEFINE B == {i \in DOMAIN batch : batch[i] = x}
  <2>1. B # {} /\ B \subseteq Nat BY <1>2 DEF Range
  <2>2. \A i \in B : i \in DOMAIN batch /\ batch[i] = x OBVIOUS
  <2>3. \A i \in DOMAIN batch : batch[i] = x => i \in B OBVIOUS
  <2> HIDE DEF B
  <2>4. PICK m \in B : \A k \in B : m <= k BY <2>1, LeastNumber
  <2>5. m \in 1..Len(batch) /\ batch[m] = x /\ x \notin seen BY <1>2, <1>7, <2>2
  <2>6. ASSUME NEW j \in 1..m - 1 PROVE batch[j] # batch[m]
    <3>1. j \in DOMAIN batch /\ j < m BY <1>2, <2>5
    <3>2. j \notin B BY <2>4, <2>5, <3>1
    <3>3. QED BY <2>3, <2>5, <3>1, <3>2
  <2>7. m \in S BY <1>2, <2>5, <2>6
  <2>8. QED BY <1>2, <2>5, <2>7
<1>8. Range(Run!Picked(batch, S)) = Range(batch) \ seen
  <2> HIDE DEF S
  <2>1. QED BY <1>5, <1>6, <1>7
<1>9. QED BY <1>1, <1>3, <1>4, <1>8

LEMMA CallsPrepared == ASSUME CallsInv, Run!Prepare PROVE CallsInv'
<1>1. /\ UNCHANGED <<calls, executed, policyMode>> /\ pc = "preparing" /\ pc' = "tools"
      /\ batch' = Run!Distinct /\ seen' = seen \cup Range(batch) /\ unanswered' = Len(batch')
  BY RunRange DEF Run!Prepare, Run!setup
<1>2. batch \in Seq(Keys) /\ Range(batch) \subseteq Keys BY DEF CallsInv, BatchTypes, Range
<1>3. /\ batch' \in Seq(Keys) /\ IsInjective(batch') /\ Range(batch') = Range(batch) \ seen
  BY <1>1, <1>2, DistinctCalls
<1>4. Len(batch') \in Nat /\ Cardinality(Range(batch) \ seen) = Len(batch')
  <2>1. PICK b : b = batch' OBVIOUS
  <2>2. b \in Seq(Keys) /\ IsInjective(b) /\ Range(b) = Range(batch) \ seen BY <1>3, <2>1
  <2>3. Len(b) \in Nat BY <2>2
  <2>4. Cardinality(Range(b)) = Len(b) BY <2>2, LengthOfDistinct
  <2>5. QED BY <2>1, <2>2, <2>3, <2>4
<1>5. BatchTypes' /\ OpenCalls' BY <1>1, <1>2, <1>3, <1>4 DEF CallsInv, BatchTypes, OpenCalls
<1>6. /\ Range(executed) \subseteq seen /\ Len(executed) <= calls /\ calls <= MaxToolCalls
      /\ policyMode /\ calls + Len(batch') <= MaxToolCalls
  BY <1>1, <1>4 DEF CallsInv, CallsPaid, Run!Working
<1>7. Range(batch') \cap Range(executed) = {} BY <1>3, <1>6
<1>8. CallsPaid' BY <1>1, <1>3, <1>6, <1>7 DEF CallsInv, CallsPaid
<1>9. QED BY <1>5, <1>8 DEF CallsInv

(* The first call of the batch is answered. *)
LEMMA BatchShrinks ==
  ASSUME CallsInv, pc = "tools", batch # <<>>
  PROVE  /\ Head(batch) \in Keys /\ Head(batch) \in Range(batch) /\ Tail(batch) \in Seq(Keys)
         /\ Len(Tail(batch)) = Len(batch) - 1 /\ Len(batch) \in Nat /\ Len(batch) > 0
         /\ Range(Tail(batch)) \subseteq Range(batch)
         /\ IsInjective(batch) =>
                IsInjective(Tail(batch)) /\ Head(batch) \notin Range(Tail(batch))
<1>1. batch \in Seq(Keys) BY DEF CallsInv, BatchTypes
<1>2. Len(batch) \in Nat /\ Len(batch) > 0 /\ DOMAIN batch = 1..Len(batch) BY <1>1
<1>3. Head(batch) = batch[1] /\ 1 \in DOMAIN batch BY <1>1, <1>2
<1>4. /\ Tail(batch) \in Seq(Keys) /\ Len(Tail(batch)) = Len(batch) - 1
      /\ DOMAIN Tail(batch) = 1..Len(batch) - 1
      /\ \A i \in 1..Len(batch) - 1 : Tail(batch)[i] = batch[i + 1]
  BY <1>1, <1>2
<1>5. \A i \in 1..Len(batch) - 1 : i + 1 \in DOMAIN batch /\ i + 1 # 1 BY <1>2
<1>6. Head(batch) \in Keys /\ Head(batch) \in Range(batch) BY <1>1, <1>3 DEF Range
<1>7. Range(Tail(batch)) \subseteq Range(batch) BY <1>4, <1>5 DEF Range
<1>8. ASSUME IsInjective(batch)
      PROVE  IsInjective(Tail(batch)) /\ Head(batch) \notin Range(Tail(batch))
  <2>1. Head(batch) \notin Range(Tail(batch)) BY <1>3, <1>4, <1>5, <1>8 DEF IsInjective, Range
  <2>2. ASSUME NEW i \in 1..Len(batch) - 1, NEW j \in 1..Len(batch) - 1,
               Tail(batch)[i] = Tail(batch)[j]
        PROVE  i = j
    <3>1. i + 1 = j + 1 BY <1>4, <1>5, <1>8, <2>2 DEF IsInjective
    <3>2. QED BY <3>1
  <2>3. IsInjective(Tail(batch)) BY <1>4, <2>2 DEF IsInjective
  <2>4. QED BY <2>1, <2>3
<1>9. QED BY <1>2, <1>4, <1>6, <1>7, <1>8

(* One more call, none of those before. *)
LEMMA OneMoreCall ==
  ASSUME NEW A, NEW s \in Seq(A), IsInjective(s), NEW k \in A, k \notin Range(s)
  PROVE  /\ Append(s, k) \in Seq(A) /\ IsInjective(Append(s, k))
         /\ Len(Append(s, k)) = Len(s) + 1 /\ Range(Append(s, k)) = Range(s) \cup {k}
<1>1. /\ Append(s, k) \in Seq(A) /\ Len(Append(s, k)) = Len(s) + 1 /\ Len(s) \in Nat
      /\ DOMAIN s = 1..Len(s) /\ DOMAIN Append(s, k) = 1..Len(s) + 1
      /\ \A i \in 1..Len(s) : Append(s, k)[i] = s[i]
      /\ Append(s, k)[Len(s) + 1] = k OBVIOUS
<1>2. \A i \in 1..Len(s) + 1 : i \in 1..Len(s) \/ i = Len(s) + 1 BY <1>1
<1>3. Range(Append(s, k)) = Range(s) \cup {k} BY <1>1, <1>2 DEF Range
<1>4. ASSUME NEW i \in 1..Len(s) + 1, NEW j \in 1..Len(s) + 1,
             Append(s, k)[i] = Append(s, k)[j]
      PROVE  i = j
  <2>1. \A l \in 1..Len(s) : s[l] # k BY <1>1 DEF Range
  <2>2. CASE i \in 1..Len(s) /\ j \in 1..Len(s)
    <3>1. s[i] = s[j] BY <1>1, <1>4, <2>2
    <3>2. QED BY <1>1, <2>2, <3>1 DEF IsInjective
  <2>3. QED BY <1>1, <1>2, <1>4, <2>1, <2>2
<1>5. IsInjective(Append(s, k))
  <2>1. PICK q : q = Append(s, k) OBVIOUS
  <2>2. \A i, j \in DOMAIN q : q[i] = q[j] => i = j BY <1>1, <1>4, <2>1
  <2>3. QED BY <2>1, <2>2 DEF IsInjective
<1>6. Append(s, k) \in Seq(A) /\ Len(Append(s, k)) = Len(s) + 1 OBVIOUS
<1>7. QED BY <1>3, <1>5, <1>6, Zenon

LEMMA CallsHandled ==
  ASSUME CallsInv, Run!BlockDuplicate \/ Run!HookDenies \/ Run!ToolsExhausted
  PROVE  CallsInv'
<1>1. /\ pc = "tools" /\ batch # <<>> /\ ~policyMode /\ policyMode' = policyMode
      /\ executed' = executed
  BY DEF Run!BlockDuplicate, Run!HookDenies, Run!ToolsExhausted, Run!Finalize, Run!setup
<1>2. /\ Head(batch) \in Keys /\ Tail(batch) \in Seq(Keys) /\ Len(batch) \in Nat
      /\ Len(Tail(batch)) = Len(batch) - 1 /\ Len(batch) > 0
  BY <1>1, BatchShrinks
<1>3. unanswered = Len(batch) /\ pc \in Run!Working BY <1>1 DEF CallsInv, OpenCalls, Run!Working
<1>4. CASE Run!BlockDuplicate
  <2>1. /\ UNCHANGED <<calls, seen, pc>> /\ batch' = Tail(batch)
        /\ unanswered' = unanswered - 1
    BY <1>4 DEF Run!BlockDuplicate, Run!Answered
  <2>2. BatchTypes' /\ OpenCalls' BY <1>1, <1>2, <1>3, <2>1 DEF CallsInv, BatchTypes, OpenCalls
  <2>3. CallsPaid' BY <1>1, <2>1 DEF CallsInv, CallsPaid
  <2>4. QED BY <2>2, <2>3 DEF CallsInv
<1>5. CASE Run!HookDenies
  <2>1. /\ pc' = pc /\ batch' = Tail(batch) /\ unanswered' = unanswered - 1
        /\ seen' = seen \cup {Head(batch)} /\ calls' = calls + 1 /\ calls < MaxToolCalls
    BY <1>1, <1>5 DEF Run!HookDenies, Run!Answered, Run!Permitted
  <2>2. BatchTypes' /\ OpenCalls' BY <1>1, <1>2, <1>3, <2>1 DEF CallsInv, BatchTypes, OpenCalls
  <2>3. Len(executed) \in Nat /\ calls \in Nat BY DEF CallsInv, BatchTypes
  <2>4. CallsPaid' BY <1>1, <1>3, <2>1, <2>3, ToolBudgetAssumption DEF CallsInv, CallsPaid
  <2>5. QED BY <2>2, <2>4 DEF CallsInv
<1>6. CASE Run!ToolsExhausted
  <2>1. /\ UNCHANGED <<calls, seen, batch>> /\ pc' = "final"
        /\ unanswered' = unanswered - Len(batch)
    BY <1>6 DEF Run!ToolsExhausted, Run!Finalize
  <2>2. BatchTypes' /\ OpenCalls' BY <1>1, <1>2, <1>3, <2>1 DEF CallsInv, BatchTypes, OpenCalls
  <2>3. CallsPaid' BY <1>1, <1>3, <2>1 DEF CallsInv, CallsPaid
  <2>4. QED BY <2>2, <2>3 DEF CallsInv
<1>7. QED BY <1>4, <1>5, <1>6

LEMMA CallRuns == ASSUME CallsInv, Run!RunTool PROVE CallsInv'
<1>1. /\ pc = "tools" /\ batch # <<>> /\ policyMode' = policyMode /\ pc' = pc
      /\ policyMode \/ (calls < MaxToolCalls /\ Head(batch) \notin seen)
      /\ batch' = Tail(batch) /\ unanswered' = unanswered - 1
      /\ seen' = seen \cup {Head(batch)} /\ calls' = calls + 1
      /\ executed' = Append(executed, Head(batch))
  BY DEF Run!RunTool, Run!setup, Run!Answered, Run!Permitted
<1>2. /\ Head(batch) \in Keys /\ Head(batch) \in Range(batch) /\ Tail(batch) \in Seq(Keys)
      /\ Len(batch) \in Nat /\ Len(Tail(batch)) = Len(batch) - 1 /\ Len(batch) > 0
      /\ Range(Tail(batch)) \subseteq Range(batch)
      /\ IsInjective(batch) =>
             IsInjective(Tail(batch)) /\ Head(batch) \notin Range(Tail(batch))
  BY <1>1, BatchShrinks
<1>3. /\ unanswered = Len(batch) /\ calls \in Nat /\ executed \in Seq(Keys)
      /\ Len(executed) \in Nat /\ seen \subseteq Keys /\ policyMode \in BOOLEAN
  BY <1>1 DEF CallsInv, OpenCalls, BatchTypes
<1>4. /\ IsInjective(executed) /\ Range(executed) \subseteq seen /\ Len(executed) <= calls
      /\ calls <= MaxToolCalls
      /\ policyMode => /\ IsInjective(batch) /\ Range(batch) \cap Range(executed) = {}
                       /\ calls + Len(batch) <= MaxToolCalls
  BY <1>1 DEF CallsInv, CallsPaid, Run!Working
<1>5. Head(batch) \notin Range(executed) BY <1>1, <1>2, <1>4
<1>6. /\ executed' \in Seq(Keys) /\ IsInjective(executed')
      /\ Len(executed') = Len(executed) + 1 /\ Range(executed') = Range(executed) \cup {Head(batch)}
  <2>1. PICK k, s : k = Head(batch) /\ s = executed OBVIOUS
  <2>2. /\ Append(s, k) \in Seq(Keys) /\ IsInjective(Append(s, k))
        /\ Len(Append(s, k)) = Len(s) + 1 /\ Range(Append(s, k)) = Range(s) \cup {k}
    BY <1>2, <1>3, <1>4, <1>5, <2>1, OneMoreCall
  <2>3. QED BY <1>1, <2>1, <2>2
<1>7. BatchTypes' /\ OpenCalls' BY <1>1, <1>2, <1>3, <1>6 DEF BatchTypes, OpenCalls
<1>8. calls + 1 <= MaxToolCalls BY <1>1, <1>2, <1>3, <1>4, ToolBudgetAssumption
<1>9. Range(executed') \subseteq seen' /\ Len(executed') <= calls' /\ calls' <= MaxToolCalls
      /\ Len(executed') <= MaxToolCalls
  BY <1>1, <1>3, <1>4, <1>6, <1>8, ToolBudgetAssumption
<1>10. ASSUME policyMode
       PROVE  /\ IsInjective(batch') /\ Range(batch') \cap Range(executed') = {}
              /\ calls' + Len(batch') <= MaxToolCalls
  <2>1. IsInjective(batch') /\ Head(batch) \notin Range(batch') BY <1>1, <1>2, <1>4, <1>10
  <2>2. Range(batch') \cap Range(executed') = {} BY <1>1, <1>2, <1>4, <1>6, <1>10, <2>1
  <2>3. calls' + Len(batch') <= MaxToolCalls BY <1>1, <1>2, <1>3, <1>4, <1>10
  <2>4. QED BY <2>1, <2>2, <2>3
<1>11. CallsPaid' BY <1>1, <1>6, <1>9, <1>10 DEF CallsPaid
<1>12. QED BY <1>7, <1>11 DEF CallsInv

LEMMA CallsNextStep == ASSUME CallsInv, Run!RunNext PROVE CallsInv'
<1>1. CASE Run!LoopExpired \/ Run!RejectCapabilities \/ Run!StructuredInvalid \/ Run!Complete
           \/ Run!Deny \/ Run!CallFails \/ Run!RespondBadly
  BY <1>1, CallsStop DEF Run!LoopExpired, Run!RejectCapabilities, Run!StructuredInvalid,
     Run!Complete, Run!Deny, Run!CallFails, Run!RespondBadly
<1>2. CASE Run!FinalCall \/ Run!DeadlineInside \/ Run!InternalError
  BY <1>2, CallsStop DEF Run!FinalCall, Run!DeadlineInside, Run!InternalError
<1>3. CASE Run!LoopNext
  BY <1>1, <1>2, <1>3, CallsMove, CallsArrive, CallsAccepted, CallsPrepared, CallsHandled,
     CallRuns DEF Run!LoopNext
<1>4. CASE Run!Cancel \/ Run!DeadlineFires
  <2>1. Run!LocalsDie /\ policyMode' = policyMode /\ pc' \in {"ended", "crashed", "cancelled"}
    BY <1>4 DEF Run!Cancel, Run!DeadlineFires, Run!LoopCancelled, Run!setup
  <2>2. QED BY <2>1, CallsEnd DEF Run!Working
<1>5. ASSUME UNCHANGED <<policyMode, Run!loop>> PROVE CallsInv'
  BY <1>5 DEF Run!loop, CallsInv, BatchTypes, OpenCalls, CallsPaid
<1>6. CASE Run!CallerNext
  BY <1>4, <1>5, <1>6 DEF Run!CallerNext, Run!RunReturns, Run!RunRaises, Run!CancelEnds,
     Run!CancelAgain, Run!CleanupExpires, Run!AwaitedReturns, Run!StoppingReturns, Run!setup
<1>7. CASE Run!Expire \/ Run!RecordAnswer \/ Run!EmitStopped \/ Run!TerminalFails
           \/ Run!TerminalCancelled
  BY <1>5, <1>7 DEF Run!Expire, Run!RecordAnswer, Run!EmitStopped, Run!TerminalFails,
     Run!TerminalCancelled, Run!setup
<1>8. QED BY <1>3, <1>6, <1>7 DEF Run!RunNext

LEMMA CallsPromise ==
  ASSUME CallsInv
  PROVE  Run!HistoryIsPaired /\ Run!CallsRunOnceWithinBudget
  BY RunInjective DEF CallsInv, OpenCalls, CallsPaid, Run!HistoryIsPaired,
     Run!CallsRunOnceWithinBudget

------------------------------------------------------------
(* The hooks: a list kept by priority, copied when an event is dispatched, *)
(* and used up from the front. *)

ByPriority(s) == \A i, j \in DOMAIN s : i < j => s[i].priority <= s[j].priority

LEMMA PickedHooks ==
  ASSUME NEW s \in Seq(HookPool), ByPriority(s), NEW S
  PROVE  /\ Watch!Picked(s, S) \in Seq(HookPool) /\ ByPriority(Watch!Picked(s, S))
         /\ \A k \in DOMAIN Watch!Picked(s, S) :
                \E i \in DOMAIN s : i \in S /\ Watch!Picked(s, S)[k] = s[i]
<1>1. PICK r : r = Watch!Picked(s, S) OBVIOUS
<1>2. r = Run!Picked(s, S) BY <1>1 DEF Run!Picked, Watch!Picked
<1>3. r \in Seq(HookPool) /\ \E f : TakenFrom(r, s, S, Len(s), f) BY <1>2, PickedTaken
<1>4. PICK f : TakenFrom(r, s, S, Len(s), f) BY <1>3
<1>5. DOMAIN r = 1..Len(r) /\ DOMAIN s = 1..Len(s) BY <1>3
<1>6. \A k \in DOMAIN r : f[k] \in DOMAIN s /\ f[k] \in S /\ r[k] = s[f[k]]
  BY <1>4, <1>5 DEF TakenFrom
<1>7. \A k, l \in DOMAIN r : k < l => f[k] < f[l] BY <1>4, <1>5 DEF TakenFrom
<1>8. ByPriority(r) BY <1>6, <1>7 DEF ByPriority
<1>9. \A k \in DOMAIN r : \E i \in DOMAIN s : i \in S /\ r[k] = s[i] BY <1>6
<1>10. QED BY <1>1, <1>3, <1>8, <1>9

(* Two lists in order, every member of the first before every one of the *)
(* second. *)
LEMMA JoinedHooks ==
  ASSUME NEW a \in Seq(HookPool), NEW b \in Seq(HookPool), ByPriority(a), ByPriority(b),
         \A i \in DOMAIN a, j \in DOMAIN b : a[i].priority <= b[j].priority
  PROVE  a \o b \in Seq(HookPool) /\ ByPriority(a \o b)
<1>1. PICK c : c = a \o b OBVIOUS
<1>2. /\ c \in Seq(HookPool) /\ Len(a) \in Nat /\ Len(b) \in Nat
      /\ Len(c) = Len(a) + Len(b) /\ DOMAIN c = 1..Len(a) + Len(b)
      /\ DOMAIN a = 1..Len(a) /\ DOMAIN b = 1..Len(b)
  BY <1>1
<1>3. \A i \in DOMAIN c :
          IF i <= Len(a) THEN i \in DOMAIN a /\ c[i] = a[i]
          ELSE i - Len(a) \in DOMAIN b /\ c[i] = b[i - Len(a)]
  BY <1>1, <1>2
<1>4. ASSUME NEW i \in DOMAIN c, NEW j \in DOMAIN c, i < j PROVE c[i].priority <= c[j].priority
  <2>1. i \in Nat /\ j \in Nat BY <1>2
  <2>2. CASE j <= Len(a)
    <3>1. i <= Len(a) BY <1>2, <1>4, <2>1, <2>2
    <3>2. QED BY <1>3, <1>4, <2>2, <3>1 DEF ByPriority
  <2>3. CASE i <= Len(a) /\ ~(j <= Len(a)) BY <1>3, <2>3
  <2>4. CASE ~(i <= Len(a))
    <3>1. ~(j <= Len(a)) /\ i - Len(a) < j - Len(a) BY <1>2, <1>4, <2>1, <2>4
    <3>2. QED BY <1>3, <2>4, <3>1 DEF ByPriority
  <2>5. QED BY <2>2, <2>3, <2>4
<1>5. ByPriority(c) BY <1>4 DEF ByPriority
<1>6. QED BY <1>1, <1>2, <1>5

LEMMA RegisteredInOrder ==
  ASSUME NEW s \in Seq(HookPool), ByPriority(s), NEW h \in HookPool
  PROVE  Watch!SortedIn(s, h) \in Seq(HookPool) /\ ByPriority(Watch!SortedIn(s, h))
<1> DEFINE S == {i \in DOMAIN s : s[i].priority <= h.priority}
           T == {i \in DOMAIN s : s[i].priority > h.priority}
<1>1. PICK a : a = Watch!Picked(s, S) OBVIOUS
<1>2. PICK b : b = Watch!Picked(s, T) OBVIOUS
<1>3. PICK m : m = <<h>> OBVIOUS
<1>4. Watch!SortedIn(s, h) = (a \o m) \o b BY <1>1, <1>2, <1>3 DEF Watch!SortedIn
<1>5. /\ a \in Seq(HookPool) /\ ByPriority(a)
      /\ \A k \in DOMAIN a : \E i \in DOMAIN s : i \in S /\ a[k] = s[i]
  <2> HIDE DEF S
  <2>1. QED BY <1>1, PickedHooks
<1>6. /\ b \in Seq(HookPool) /\ ByPriority(b)
      /\ \A k \in DOMAIN b : \E i \in DOMAIN s : i \in T /\ b[k] = s[i]
  <2> HIDE DEF T
  <2>1. QED BY <1>2, PickedHooks
<1>7. /\ m \in Seq(HookPool) /\ DOMAIN m = {1} /\ m[1] = h /\ ByPriority(m) BY <1>3 DEF ByPriority
<1>8. \A k \in DOMAIN a : a[k].priority <= h.priority BY <1>5
<1>9. h.priority \in Int /\ \A k \in DOMAIN b : b[k].priority \in Int
  <2>1. \A k \in DOMAIN b : b[k] \in HookPool BY <1>6
  <2>2. QED BY <2>1, HookPriorityAssumption
<1>10. \A k \in DOMAIN b : h.priority <= b[k].priority BY <1>6, <1>9
<1>11. \A k \in DOMAIN a, l \in DOMAIN b : a[k].priority <= b[l].priority
  <2>1. \A k \in DOMAIN a : a[k].priority \in Int BY <1>5, HookPriorityAssumption
  <2>2. QED BY <1>8, <1>9, <1>10, <2>1
<1>12. a \o m \in Seq(HookPool) /\ ByPriority(a \o m) BY <1>5, <1>7, <1>8, JoinedHooks
<1>13. \A k \in DOMAIN (a \o m), l \in DOMAIN b : (a \o m)[k].priority <= b[l].priority
  <2>1. DOMAIN (a \o m) = 1..Len(a) + 1 /\ DOMAIN a = 1..Len(a) /\ Len(a) \in Nat
        /\ (a \o m)[Len(a) + 1] = h /\ \A k \in 1..Len(a) : (a \o m)[k] = a[k]
    BY <1>3, <1>5
  <2>2. \A k \in 1..Len(a) + 1 : k \in 1..Len(a) \/ k = Len(a) + 1 BY <2>1
  <2>3. QED BY <1>10, <1>11, <2>1, <2>2
<1>14. (a \o m) \o b \in Seq(HookPool) /\ ByPriority((a \o m) \o b)
  <2>1. PICK c : c = a \o m OBVIOUS
  <2>2. c \o b \in Seq(HookPool) /\ ByPriority(c \o b) BY <1>6, <1>12, <1>13, <2>1, JoinedHooks
  <2>3. QED BY <2>1, <2>2
<1>15. QED BY <1>4, <1>14

HookRuns == [hook : HookPool, failed : BOOLEAN]

Dispatches ==
    [stage : {"idle", "before", "forwarded", "after", "done"}, todo : Seq(HookPool),
     ran : Seq(HookRuns), blocked : BOOLEAN, data : SUBSET (UNION EventData)]

(* What ran, and then what is to run, is in the order of the priorities. *)
RanInOrder(took, left) ==
    /\ ByPriority(left)
    /\ \A i, j \in DOMAIN took : i < j => took[i].hook.priority <= took[j].hook.priority
    /\ \A i \in DOMAIN took, j \in DOMAIN left : took[i].hook.priority <= left[j].priority

(* An event is blocked when a handler that ran objects to it; what is not *)
(* blocked has passed every sanitizer that ran. *)
Judged(took, blocked, data) ==
    /\ blocked <=> \E i \in DOMAIN took : ~took[i].failed /\ Watch!Blocks(took[i].hook, data)
    /\ ~blocked => \A i \in DOMAIN took :
           ~took[i].failed => Watch!Sanitized(took[i].hook, data) = data

DispatchInv(e, d) ==
    /\ d \in Dispatches /\ RanInOrder(d.ran, d.todo)
    /\ d.stage \in {"before", "forwarded"} => Judged(d.ran, d.blocked, d.data)

DeliveryInv(e, d, received) ==
    /\ d.stage \in {"idle", "before"} => \A x \in received : x.event # e
    /\ d.stage = "forwarded" =>
           /\ (\A x \in received : x.event # e) <=> d.blocked
           /\ \A x \in received : x.event = e => x.data = d.data

HookInv ==
    /\ hooks \in Seq(HookPool) /\ ByPriority(hooks)
    /\ DOMAIN emit = Emits /\ emit = [e \in Emits |-> emit[e]]
    /\ \A e \in Emits : DispatchInv(e, emit[e]) /\ DeliveryInv(e, emit[e], delivered)

LEMMA NothingRan ==
  ASSUME NEW s, ByPriority(s)
  PROVE  RanInOrder(<<>>, s) /\ \A data : Judged(<<>>, FALSE, data)
  BY DEF RanInOrder, Judged

LEMMA NoEmitFine ==
  /\ Watch!NoEmit = [stage |-> "idle", todo |-> <<>>, ran |-> <<>>, blocked |-> FALSE,
                        data |-> {}]
  /\ Watch!NoEmit \in Dispatches
  BY DEF Watch!NoEmit, Dispatches

LEMMA HookStart == ASSUME Watch!HookInit PROVE HookInv
<1>1. hooks = <<>> /\ emit = [e \in Emits |-> Watch!NoEmit] /\ delivered = {}
  BY DEF Watch!HookInit
<1>2. ByPriority(<<>>) /\ <<>> \in Seq(HookPool) BY DEF ByPriority
<1>3. \A e \in Emits : emit[e] = Watch!NoEmit BY <1>1
<1>4. Watch!NoEmit.stage = "idle" /\ Watch!NoEmit.todo = <<>> /\ Watch!NoEmit.ran = <<>>
  BY NoEmitFine
<1>5. RanInOrder(<<>>, <<>>) BY <1>2, NothingRan
<1>6. \A e \in Emits : DispatchInv(e, emit[e]) /\ DeliveryInv(e, emit[e], delivered)
  BY <1>1, <1>3, <1>4, <1>5, NoEmitFine DEF DispatchInv, DeliveryInv
<1>7. QED BY <1>1, <1>2, <1>6 DEF HookInv

(* The first hook that is left runs. *)
LEMMA HookTaken ==
  ASSUME NEW d \in Dispatches, RanInOrder(d.ran, d.todo), d.todo # <<>>, NEW failed \in BOOLEAN
  PROVE  LET t == Watch!Took(d, failed)
             x == [hook |-> Head(d.todo), failed |-> failed]
         IN /\ Head(d.todo) \in HookPool
            /\ t.stage = d.stage /\ t.blocked = d.blocked /\ t.data = d.data
            /\ t.ran = Append(d.ran, x) /\ t.todo = Tail(d.todo)
            /\ t \in Dispatches /\ RanInOrder(t.ran, t.todo) /\ RanInOrder(t.ran, <<>>)
<1>1. PICK todo0, ran0 : todo0 = d.todo /\ ran0 = d.ran OBVIOUS
<1>2. PICK h : h = Head(todo0) OBVIOUS
<1>3. PICK x : x = [hook |-> h, failed |-> failed] OBVIOUS
<1>4. /\ todo0 \in Seq(HookPool) /\ todo0 # <<>> /\ ran0 \in Seq(HookRuns)
      /\ RanInOrder(ran0, todo0)
  BY <1>1 DEF Dispatches
<1>5. /\ h \in HookPool /\ Tail(todo0) \in Seq(HookPool) /\ Len(todo0) \in Nat
      /\ h = todo0[1] /\ 1 \in DOMAIN todo0 /\ DOMAIN todo0 = 1..Len(todo0)
      /\ DOMAIN Tail(todo0) = 1..Len(todo0) - 1
      /\ \A i \in 1..Len(todo0) - 1 : Tail(todo0)[i] = todo0[i + 1]
  BY <1>2, <1>4
<1>6. x \in HookRuns /\ x.hook = h BY <1>3, <1>5 DEF HookRuns
<1>7. PICK more : more = Append(ran0, x) OBVIOUS
<1>8. /\ more \in Seq(HookRuns) /\ Len(ran0) \in Nat
      /\ DOMAIN ran0 = 1..Len(ran0) /\ DOMAIN more = 1..Len(ran0) + 1
      /\ \A i \in 1..Len(ran0) : more[i] = ran0[i]
      /\ more[Len(ran0) + 1] = x
  BY <1>4, <1>6, <1>7
<1>9. PICK left : left = Tail(todo0) OBVIOUS
<1>10. Watch!Took(d, failed) = [d EXCEPT !.todo = left, !.ran = more]
  BY <1>1, <1>2, <1>3, <1>7, <1>9 DEF Watch!Took
<1>11. PICK t : t = Watch!Took(d, failed) OBVIOUS
<1>12. /\ t.stage = d.stage /\ t.blocked = d.blocked /\ t.data = d.data
       /\ t.ran = more /\ t.todo = left /\ t \in Dispatches
  BY <1>5, <1>8, <1>9, <1>10, <1>11 DEF Dispatches
<1>13. ByPriority(left)
  <2>1. \A i \in 1..Len(todo0) - 1 : i + 1 \in 1..Len(todo0) BY <1>5
  <2>2. ASSUME NEW i \in DOMAIN left, NEW j \in DOMAIN left, i < j
        PROVE  left[i].priority <= left[j].priority
    <3>1. i + 1 < j + 1 /\ i + 1 \in DOMAIN todo0 /\ j + 1 \in DOMAIN todo0
      BY <1>5, <1>9, <2>1, <2>2
    <3>2. left[i] = todo0[i + 1] /\ left[j] = todo0[j + 1] BY <1>5, <1>9
    <3>3. QED BY <1>4, <3>1, <3>2 DEF RanInOrder, ByPriority
  <2>3. QED BY <2>2 DEF ByPriority
<1>14. \A i \in DOMAIN ran0 : ran0[i].hook.priority <= h.priority BY <1>4, <1>5 DEF RanInOrder
<1>15. \A i \in 1..Len(ran0) + 1 : i \in 1..Len(ran0) \/ i = Len(ran0) + 1 BY <1>8
<1>16. ASSUME NEW i \in DOMAIN more, NEW j \in DOMAIN more, i < j
       PROVE  more[i].hook.priority <= more[j].hook.priority
  <2>1. i \in 1..Len(ran0) BY <1>8, <1>16
  <2>2. CASE j \in 1..Len(ran0) BY <1>4, <1>8, <1>16, <2>1, <2>2 DEF RanInOrder
  <2>3. CASE j = Len(ran0) + 1 BY <1>6, <1>8, <1>14, <2>1, <2>3
  <2>4. QED BY <1>8, <1>15, <2>2, <2>3
<1>17. ASSUME NEW i \in DOMAIN more, NEW j \in DOMAIN left
       PROVE  more[i].hook.priority <= left[j].priority
  <2>1. j + 1 \in DOMAIN todo0 /\ 1 < j + 1 /\ left[j] = todo0[j + 1] BY <1>5, <1>9
  <2>2. CASE i \in 1..Len(ran0) BY <1>4, <1>8, <2>1, <2>2 DEF RanInOrder
  <2>3. CASE i = Len(ran0) + 1 BY <1>4, <1>5, <1>6, <1>8, <2>1, <2>3 DEF RanInOrder, ByPriority
  <2>4. QED BY <1>8, <1>15, <2>2, <2>3
<1>18. RanInOrder(more, left) /\ RanInOrder(more, <<>>)
  BY <1>13, <1>16, <1>17 DEF RanInOrder, ByPriority
<1>19. QED BY <1>1, <1>2, <1>3, <1>5, <1>7, <1>9, <1>11, <1>12, <1>18

(* A handler that failed judges nothing. *)
LEMMA FailedJudgesNothing ==
  ASSUME NEW took \in Seq(HookRuns), NEW blocked \in BOOLEAN, NEW data, NEW h \in HookPool,
         Judged(took, blocked, data)
  PROVE  Judged(Append(took, [hook |-> h, failed |-> TRUE]), blocked, data)
<1>1. PICK x : x = [hook |-> h, failed |-> TRUE] OBVIOUS
<1>2. x.failed /\ x \in HookRuns BY <1>1 DEF HookRuns
<1>3. PICK more : more = Append(took, x) OBVIOUS
<1>4. /\ DOMAIN took = 1..Len(took) /\ DOMAIN more = 1..Len(took) + 1 /\ Len(took) \in Nat
      /\ \A i \in 1..Len(took) : more[i] = took[i]
      /\ more[Len(took) + 1] = x
  BY <1>2, <1>3
<1>5. \A i \in 1..Len(took) + 1 : i \in 1..Len(took) \/ i = Len(took) + 1 BY <1>4
<1>6. \A i \in DOMAIN took : i \in DOMAIN more /\ more[i] = took[i] BY <1>4
<1>7. \A i \in DOMAIN more : ~more[i].failed => i \in DOMAIN took /\ more[i] = took[i]
  BY <1>2, <1>4, <1>5
<1>8. Judged(more, blocked, data) BY <1>6, <1>7 DEF Judged
<1>9. QED BY <1>1, <1>3, <1>8

LEMMA AnswerJudges ==
  ASSUME NEW took \in Seq(HookRuns), NEW blocked \in BOOLEAN, NEW data, NEW h \in HookPool,
         Judged(took, blocked, data)
  PROVE  LET more == Append(took, [hook |-> h, failed |-> FALSE])
         IN IF Watch!Blocks(h, data) THEN Judged(more, TRUE, data)
            ELSE Judged(more, blocked, Watch!Sanitized(h, data))
<1>1. PICK x : x = [hook |-> h, failed |-> FALSE] OBVIOUS
<1>2. ~x.failed /\ x.hook = h /\ x \in HookRuns BY <1>1 DEF HookRuns
<1>3. PICK more : more = Append(took, x) OBVIOUS
<1>4. /\ DOMAIN took = 1..Len(took) /\ DOMAIN more = 1..Len(took) + 1 /\ Len(took) \in Nat
      /\ \A i \in 1..Len(took) : more[i] = took[i]
      /\ more[Len(took) + 1] = x /\ Len(took) + 1 \in DOMAIN more
  BY <1>2, <1>3
<1>5. \A i \in 1..Len(took) + 1 : i \in 1..Len(took) \/ i = Len(took) + 1 BY <1>4
<1>6. \A i \in DOMAIN took : i \in DOMAIN more /\ more[i] = took[i] BY <1>4
<1>7. CASE Watch!Blocks(h, data)
  <2>1. Judged(more, TRUE, data) BY <1>2, <1>4, <1>7 DEF Judged
  <2>2. QED BY <1>1, <1>3, <1>7, <2>1
<1>8. CASE ~Watch!Blocks(h, data)
  <2>1. PICK clean : clean = Watch!Sanitized(h, data) OBVIOUS
  <2>2. /\ \A k : k \in clean => k \in data
        /\ \A k : k \in data /\ k # "secret" => k \in clean
    BY <2>1 DEF Watch!Sanitized
  <2>3. \A g : Watch!Blocks(g, clean) <=> Watch!Blocks(g, data)
    BY <2>2 DEF Watch!Blocks, Watch!ProtectedPaths, Watch!ProtectedCommands,
       Watch!UnverifiedStop
  <2>4. \A g : Watch!Sanitized(g, data) = data => Watch!Sanitized(g, clean) = clean
    <3>1. TAKE g
    <3>2. HAVE Watch!Sanitized(g, data) = data
    <3>3. CASE g.handler = "output_sanitizer"
      <4>1. "secret" \notin data BY <3>2, <3>3 DEF Watch!Sanitized
      <4>2. "secret" \notin clean BY <2>2, <4>1
      <4>3. clean \ {"secret"} = clean BY <4>2
      <4>4. QED BY <3>3, <4>3 DEF Watch!Sanitized
    <3>4. CASE g.handler # "output_sanitizer" BY <3>4 DEF Watch!Sanitized
    <3>5. QED BY <3>3, <3>4
  <2>5. Watch!Sanitized(h, clean) = clean BY <2>1 DEF Watch!Sanitized
  <2>6. blocked <=> \E i \in DOMAIN more :
                        ~more[i].failed /\ Watch!Blocks(more[i].hook, clean)
    BY <1>2, <1>4, <1>5, <1>6, <1>8, <2>3 DEF Judged
  <2>7. ~blocked => \A i \in DOMAIN more :
                        ~more[i].failed => Watch!Sanitized(more[i].hook, clean) = clean
    BY <1>2, <1>4, <1>5, <1>6, <2>4, <2>5 DEF Judged
  <2>8. Judged(more, blocked, clean) BY <2>6, <2>7 DEF Judged
  <2>9. QED BY <1>1, <1>3, <1>8, <2>1, <2>8
<1>9. QED BY <1>7, <1>8

(* The registry changes: dispatches under way have their own list. *)
LEMMA RegistryChanges ==
  ASSUME HookInv, UNCHANGED <<emit, delivered>>, hooks' \in Seq(HookPool), ByPriority(hooks')
  PROVE  HookInv'
  BY DEF HookInv

(* One dispatch moves on. *)
LEMMA DispatchMoves ==
  ASSUME HookInv, NEW e \in Emits, NEW d, emit' = [emit EXCEPT ![e] = d], hooks' = hooks,
         DispatchInv(e, d), DeliveryInv(e, d, delivered'),
         \A x \in delivered' : x.event # e => x \in delivered,
         \A x \in delivered : x \in delivered'
  PROVE  HookInv'
<1>1. /\ DOMAIN emit' = Emits /\ emit'[e] = d /\ \A f \in Emits : f # e => emit'[f] = emit[f]
      /\ emit' = [f \in Emits |-> emit'[f]]
  BY DEF HookInv
<1>2. ASSUME NEW f \in Emits, f # e PROVE DeliveryInv(f, emit[f], delivered')
  <2>1. DeliveryInv(f, emit[f], delivered) BY DEF HookInv
  <2>2. /\ \A x \in delivered' : x.event = f => x \in delivered
        /\ \A x \in delivered : x \in delivered'
    BY <1>2
  <2>3. QED BY <2>1, <2>2 DEF DeliveryInv
<1>3. \A f \in Emits : DispatchInv(f, emit'[f]) /\ DeliveryInv(f, emit'[f], delivered')
  BY <1>1, <1>2 DEF HookInv
<1>4. QED BY <1>1, <1>3 DEF HookInv

LEMMA HookBegins ==
  ASSUME HookInv, NEW e \in Emits, NEW data \in EventData, Watch!BeginEmit(e, data)
  PROVE  HookInv'
<1>1. PICK todo0 : todo0 = Watch!HooksOf("before") OBVIOUS
<1>2. PICK d : d = [Watch!NoEmit EXCEPT !.stage = "before", !.todo = todo0, !.data = data]
  OBVIOUS
<1>3. /\ emit[e].stage = "idle" /\ emit' = [emit EXCEPT ![e] = d]
      /\ hooks' = hooks /\ delivered' = delivered
  BY <1>1, <1>2 DEF Watch!BeginEmit
<1>4. todo0 \in Seq(HookPool) /\ ByPriority(todo0)
  <2>1. PICK s : s = hooks OBVIOUS
  <2>2. s \in Seq(HookPool) /\ ByPriority(s) BY <2>1 DEF HookInv
  <2>3. PICK S : S = {i \in DOMAIN hooks : hooks[i].phase = "before"} OBVIOUS
  <2>4. Watch!HooksOf("before") = Watch!Picked(s, S) BY <2>1, <2>3 DEF Watch!HooksOf
  <2>5. QED BY <1>1, <2>2, <2>4, PickedHooks
<1>5. data \in SUBSET (UNION EventData) OBVIOUS
<1>6. /\ d \in Dispatches /\ d.stage = "before" /\ d.ran = <<>> /\ d.todo = todo0
      /\ d.blocked = FALSE
  BY <1>2, <1>4, <1>5, NoEmitFine DEF Dispatches
<1>7. DispatchInv(e, d) BY <1>4, <1>6, NothingRan DEF DispatchInv
<1>8. DeliveryInv(e, d, delivered') BY <1>3, <1>6 DEF HookInv, DeliveryInv
<1>9. QED BY <1>3, <1>7, <1>8, DispatchMoves

LEMMA HookAnswered == ASSUME HookInv, NEW e \in Emits, Watch!HookAnswers(e) PROVE HookInv'
<1>1. PICK d : d = emit[e] OBVIOUS
<1>2. PICK h : h = Head(d.todo) OBVIOUS
<1>3. PICK t : t = Watch!Took(d, FALSE) OBVIOUS
<1>4. PICK n : n = IF Watch!Blocks(h, t.data)
                   THEN [t EXCEPT !.blocked = TRUE, !.todo = <<>>]
                   ELSE [t EXCEPT !.data = Watch!Sanitized(h, @)] OBVIOUS
<1>5. /\ d.stage = "before" /\ d.todo # <<>> /\ emit' = [emit EXCEPT ![e] = n]
      /\ hooks' = hooks /\ delivered' = delivered
  BY <1>1, <1>2, <1>3, <1>4 DEF Watch!HookAnswers
<1>6. /\ DispatchInv(e, d) /\ DeliveryInv(e, d, delivered)
      /\ d \in Dispatches /\ RanInOrder(d.ran, d.todo) /\ Judged(d.ran, d.blocked, d.data)
  BY <1>1, <1>5 DEF HookInv, DispatchInv
<1>7. PICK x : x = [hook |-> h, failed |-> FALSE] OBVIOUS
<1>8. /\ h \in HookPool /\ t.stage = d.stage /\ t.blocked = d.blocked /\ t.data = d.data
      /\ t.ran = Append(d.ran, x) /\ t \in Dispatches
      /\ RanInOrder(t.ran, t.todo) /\ RanInOrder(t.ran, <<>>)
  BY <1>2, <1>3, <1>5, <1>6, <1>7, HookTaken
<1>9. /\ d.ran \in Seq(HookRuns) /\ d.blocked \in BOOLEAN BY <1>6 DEF Dispatches
<1>10. PICK ran0, blocked0, data0 : ran0 = d.ran /\ blocked0 = d.blocked /\ data0 = d.data OBVIOUS
<1>11. IF Watch!Blocks(h, data0) THEN Judged(Append(ran0, x), TRUE, data0)
       ELSE Judged(Append(ran0, x), blocked0, Watch!Sanitized(h, data0))
  BY <1>6, <1>7, <1>8, <1>9, <1>10, AnswerJudges
<1>12. CASE Watch!Blocks(h, t.data)
  <2>1. n = [t EXCEPT !.blocked = TRUE, !.todo = <<>>] BY <1>4, <1>12
  <2>2. /\ n \in Dispatches /\ n.stage = d.stage /\ n.ran = t.ran /\ n.todo = <<>>
        /\ n.data = t.data /\ n.blocked
    <3>1. PICK none, yes : none = <<>> /\ yes = TRUE OBVIOUS
    <3>2. none \in Seq(HookPool) /\ yes \in BOOLEAN BY <3>1
    <3>3. n = [t EXCEPT !.blocked = yes, !.todo = none] BY <2>1, <3>1
    <3>4. /\ n \in Dispatches /\ n.stage = t.stage /\ n.ran = t.ran /\ n.todo = none
          /\ n.data = t.data /\ n.blocked = yes
      BY <1>8, <3>2, <3>3 DEF Dispatches
    <3>5. QED BY <1>8, <3>1, <3>4
  <2>3. Judged(n.ran, n.blocked, n.data)
    <3>1. Judged(Append(ran0, x), TRUE, data0) BY <1>8, <1>10, <1>11, <1>12
    <3>2. n.ran = Append(ran0, x) /\ n.data = data0 BY <1>8, <1>10, <2>2
    <3>3. Judged(n.ran, TRUE, n.data) BY <3>1, <3>2
    <3>4. QED BY <2>2, <3>3 DEF Judged
  <2>4. DispatchInv(e, n) BY <1>8, <2>2, <2>3 DEF DispatchInv
  <2>5. DeliveryInv(e, n, delivered') BY <1>5, <1>6, <2>2 DEF DeliveryInv
  <2>6. QED BY <1>5, <2>4, <2>5, DispatchMoves
<1>13. CASE ~Watch!Blocks(h, t.data)
  <2>1. PICK clean : clean = Watch!Sanitized(h, t.data) OBVIOUS
  <2>2. n = [t EXCEPT !.data = clean] BY <1>4, <1>13, <2>1
  <2>3. clean \in SUBSET (UNION EventData) BY <1>8, <2>1 DEF Watch!Sanitized, Dispatches
  <2>4. /\ n \in Dispatches /\ n.stage = d.stage /\ n.ran = t.ran /\ n.todo = t.todo
        /\ n.data = clean /\ n.blocked = d.blocked
    BY <1>8, <2>2, <2>3 DEF Dispatches
  <2>5. Judged(n.ran, n.blocked, n.data) BY <1>8, <1>10, <1>11, <1>13, <2>1, <2>4
  <2>6. DispatchInv(e, n) BY <1>8, <2>4, <2>5 DEF DispatchInv
  <2>7. DeliveryInv(e, n, delivered') BY <1>5, <1>6, <2>4 DEF DeliveryInv
  <2>8. QED BY <1>5, <2>6, <2>7, DispatchMoves
<1>14. QED BY <1>12, <1>13

(* A handler that fails, and a handler after the event, change no verdict. *)
LEMMA HookPasses ==
  ASSUME HookInv, NEW e \in Emits, Watch!HookFails(e) \/ Watch!AfterHook(e)
  PROVE  HookInv'
<1>1. PICK d : d = emit[e] OBVIOUS
<1>0. PICK failed \in BOOLEAN :
         /\ emit' = [emit EXCEPT ![e] = Watch!Took(d, failed)]
         /\ failed = TRUE \/ d.stage = "after"
  <2>1. CASE Watch!HookFails(e)
    <3>1. emit' = [emit EXCEPT ![e] = Watch!Took(d, TRUE)] BY <1>1, <2>1 DEF Watch!HookFails
    <3>2. QED BY <3>1
  <2>2. CASE Watch!AfterHook(e)
    <3>1. emit' = [emit EXCEPT ![e] = Watch!Took(d, FALSE)] /\ d.stage = "after"
      BY <1>1, <2>2 DEF Watch!AfterHook
    <3>2. QED BY <3>1
  <2>3. QED BY <2>1, <2>2
<1>2. PICK t : /\ t = Watch!Took(d, failed) /\ emit' = [emit EXCEPT ![e] = t]
               /\ failed = TRUE \/ d.stage = "after"
  BY <1>0
<1>3. /\ d.stage \in {"before", "after"} /\ d.todo # <<>>
      /\ hooks' = hooks /\ delivered' = delivered
  BY <1>1 DEF Watch!HookFails, Watch!AfterHook
<1>4. /\ DispatchInv(e, d) /\ DeliveryInv(e, d, delivered)
      /\ d \in Dispatches /\ RanInOrder(d.ran, d.todo)
      /\ d.stage = "before" => Judged(d.ran, d.blocked, d.data)
  BY <1>1 DEF HookInv, DispatchInv
<1>5. PICK h : h = Head(d.todo) OBVIOUS
<1>6. /\ h \in HookPool /\ t.stage = d.stage /\ t.blocked = d.blocked /\ t.data = d.data
      /\ t.ran = Append(d.ran, [hook |-> h, failed |-> failed]) /\ t \in Dispatches
      /\ RanInOrder(t.ran, t.todo)
  BY <1>2, <1>3, <1>4, <1>5, HookTaken
<1>7. d.stage = "before" => Judged(t.ran, t.blocked, t.data)
  <2>1. SUFFICES ASSUME d.stage = "before" PROVE Judged(t.ran, t.blocked, t.data) OBVIOUS
  <2>2. failed = TRUE BY <1>2, <2>1
  <2>3. PICK ran0, blocked0, data0 : ran0 = d.ran /\ blocked0 = d.blocked /\ data0 = d.data OBVIOUS
  <2>4. ran0 \in Seq(HookRuns) /\ blocked0 \in BOOLEAN /\ Judged(ran0, blocked0, data0)
    BY <1>4, <2>1, <2>3 DEF Dispatches
  <2>5. Judged(Append(ran0, [hook |-> h, failed |-> TRUE]), blocked0, data0)
    BY <1>6, <2>4, FailedJudgesNothing
  <2>6. QED BY <1>6, <2>2, <2>3, <2>5
<1>8. DispatchInv(e, t) BY <1>3, <1>6, <1>7 DEF DispatchInv
<1>9. DeliveryInv(e, t, delivered') BY <1>3, <1>4, <1>6 DEF DeliveryInv
<1>10. QED BY <1>2, <1>3, <1>8, <1>9, DispatchMoves

LEMMA HookForwards == ASSUME HookInv, NEW e \in Emits, Watch!Forward(e) PROVE HookInv'
<1>1. PICK d : d = emit[e] OBVIOUS
<1>2. PICK n : n = [d EXCEPT !.stage = "forwarded"] OBVIOUS
<1>3. PICK x : x = [event |-> e, data |-> d.data] OBVIOUS
<1>4. /\ d.stage = "before" /\ emit' = [emit EXCEPT ![e] = n] /\ hooks' = hooks
      /\ delivered' = IF d.blocked THEN delivered ELSE delivered \cup {x}
  BY <1>1, <1>2, <1>3 DEF Watch!Forward, HookInv
<1>5. /\ d \in Dispatches /\ RanInOrder(d.ran, d.todo) /\ Judged(d.ran, d.blocked, d.data)
      /\ \A y \in delivered : y.event # e
  BY <1>1, <1>4 DEF HookInv, DispatchInv, DeliveryInv
<1>6. /\ n \in Dispatches /\ n.stage = "forwarded" /\ n.ran = d.ran /\ n.todo = d.todo
      /\ n.data = d.data /\ n.blocked = d.blocked
  BY <1>2, <1>5 DEF Dispatches
<1>7. x.event = e /\ x.data = d.data BY <1>3
<1>8. DispatchInv(e, n) BY <1>5, <1>6 DEF DispatchInv
<1>9. DeliveryInv(e, n, delivered') BY <1>4, <1>5, <1>6, <1>7 DEF DeliveryInv
<1>10. QED BY <1>4, <1>7, <1>8, <1>9, DispatchMoves

LEMMA HookEnds ==
  ASSUME HookInv, NEW e \in Emits, Watch!BeginAfter(e) \/ Watch!EndEmit(e)
  PROVE  HookInv'
<1>1. PICK d : d = emit[e] OBVIOUS
<1>2. d \in Dispatches BY <1>1 DEF HookInv, DispatchInv
<1>3. CASE Watch!BeginAfter(e)
  <2>1. PICK todo0 : todo0 = Watch!HooksOf("after") OBVIOUS
  <2>2. PICK n : n = [d EXCEPT !.stage = "after", !.todo = todo0, !.ran = <<>>] OBVIOUS
  <2>3. emit' = [emit EXCEPT ![e] = n] /\ hooks' = hooks /\ delivered' = delivered
    BY <1>1, <1>3, <2>1, <2>2 DEF Watch!BeginAfter, HookInv
  <2>4. todo0 \in Seq(HookPool) /\ ByPriority(todo0)
    <3>1. PICK s : s = hooks OBVIOUS
    <3>2. s \in Seq(HookPool) /\ ByPriority(s) BY <3>1 DEF HookInv
    <3>3. PICK S : S = {i \in DOMAIN hooks : hooks[i].phase = "after"} OBVIOUS
    <3>4. Watch!HooksOf("after") = Watch!Picked(s, S) BY <3>1, <3>3 DEF Watch!HooksOf
    <3>5. QED BY <2>1, <3>2, <3>4, PickedHooks
  <2>5. n \in Dispatches /\ n.stage = "after" /\ n.ran = <<>> /\ n.todo = todo0
    <3>1. PICK none : none = <<>> OBVIOUS
    <3>2. none \in Seq(HookRuns) BY <3>1
    <3>3. n = [d EXCEPT !.stage = "after", !.todo = todo0, !.ran = none] BY <2>2, <3>1
    <3>4. n \in Dispatches /\ n.stage = "after" /\ n.ran = none /\ n.todo = todo0
      BY <1>2, <2>4, <3>2, <3>3 DEF Dispatches
    <3>5. QED BY <3>1, <3>4
  <2>6. DispatchInv(e, n) /\ DeliveryInv(e, n, delivered')
    BY <2>4, <2>5, NothingRan DEF DispatchInv, DeliveryInv
  <2>7. QED BY <2>3, <2>6, DispatchMoves
<1>4. CASE Watch!EndEmit(e)
  <2>1. PICK n : n = [Watch!NoEmit EXCEPT !.stage = "done"] OBVIOUS
  <2>2. emit' = [emit EXCEPT ![e] = n] /\ hooks' = hooks /\ delivered' = delivered
    BY <1>4, <2>1 DEF Watch!EndEmit
  <2>3. n \in Dispatches /\ n.stage = "done" /\ n.ran = <<>> /\ n.todo = <<>>
    BY <2>1, NoEmitFine DEF Dispatches
  <2>4. ByPriority(<<>>) BY DEF ByPriority
  <2>5. DispatchInv(e, n) /\ DeliveryInv(e, n, delivered')
    BY <2>3, <2>4, NothingRan DEF DispatchInv, DeliveryInv
  <2>6. QED BY <2>2, <2>5, DispatchMoves
<1>5. QED BY <1>3, <1>4

LEMMA HookNextStep == ASSUME HookInv, Watch!HookNext PROVE HookInv'
<1>1. PICK s : s = hooks OBVIOUS
<1>2. s \in Seq(HookPool) /\ ByPriority(s) BY <1>1 DEF HookInv
<1>3. ASSUME NEW h \in HookPool, Watch!RegisterRoute(h) PROVE HookInv'
  <2>1. hooks' = Watch!SortedIn(s, h) /\ UNCHANGED <<emit, delivered>>
    BY <1>1, <1>3 DEF Watch!RegisterRoute, Watch!RegisterHook
  <2>2. QED BY <1>2, <2>1, RegisteredInOrder, RegistryChanges
<1>4. ASSUME NEW id, Watch!UnregisterHook(id) PROVE HookInv'
  <2>1. PICK S : S = {i \in DOMAIN hooks : hooks[i].id # id} OBVIOUS
  <2>2. hooks' = Watch!Picked(s, S) /\ UNCHANGED <<emit, delivered>>
    BY <1>1, <1>4, <2>1 DEF Watch!UnregisterHook
  <2>3. QED BY <1>2, <2>2, PickedHooks, RegistryChanges
<1>5. CASE Watch!ClearHooks
  <2>1. hooks' = <<>> /\ UNCHANGED <<emit, delivered>> BY <1>5 DEF Watch!ClearHooks
  <2>2. hooks' \in Seq(HookPool) /\ ByPriority(hooks') BY <2>1 DEF ByPriority
  <2>3. QED BY <2>1, <2>2, RegistryChanges
<1>6. QED BY <1>3, <1>4, <1>5, HookBegins, HookAnswered, HookPasses, HookForwards, HookEnds
     DEF Watch!HookNext

LEMMA HookPromise ==
  ASSUME HookInv
  PROVE  Watch!LostOnlyWhenBlocked /\ Watch!DeliveredIsSanitized /\ Watch!PriorityOrder
<1>1. ASSUME NEW e \in Emits
      PROVE  DispatchInv(e, emit[e]) /\ DeliveryInv(e, emit[e], delivered)
  BY DEF HookInv
<1>2. Watch!LostOnlyWhenBlocked
  BY <1>1 DEF Watch!LostOnlyWhenBlocked, DispatchInv, DeliveryInv, Judged
<1>3. Watch!PriorityOrder BY <1>1 DEF Watch!PriorityOrder, DispatchInv, RanInOrder
<1>4. Watch!DeliveredIsSanitized
  <2> SUFFICES ASSUME NEW e \in Emits, NEW d \in delivered, d.event = e,
                      emit[e].stage = "forwarded", NEW i \in DOMAIN emit[e].ran,
                      ~emit[e].ran[i].failed
               PROVE  Watch!Sanitized(emit[e].ran[i].hook, d.data) = d.data
    BY DEF Watch!DeliveredIsSanitized
  <2>1. ~emit[e].blocked /\ d.data = emit[e].data BY <1>1 DEF DeliveryInv
  <2>2. QED BY <1>1, <2>1 DEF DispatchInv, Judged
<1>5. QED BY <1>2, <1>3, <1>4

------------------------------------------------------------
(* The adapters: the identifiers of a dialogue, and what is sent of it. *)

(* Where an identifier comes from: one that the adapter made up is a digest *)
(* of the dialogue before its message, and so tells how long that was. *)
IdFine(i, x) ==
    /\ x.by \in {"server", "adapter"}
    /\ x.by = "adapter" => DOMAIN x.id[3] = 1..i - 1

MessageFine(d, i) ==
    /\ d[i].calls \in Seq(Range(d[i].calls))
    /\ \A j \in DOMAIN d[i].calls : IdFine(i, d[i].calls[j].id)
    /\ d[i].role = "tool" => d[i].answers \in Model!IdsBefore(d, i)

NewIds(d, i) ==
    \A j \in DOMAIN d[i].calls :
        d[i].calls[j].id \notin Model!IdsBefore(d, i)
                                \cup Model!IdsOf(SubSeq(d[i].calls, 1, j - 1))

DialogueInv ==
    /\ dialogue \in Seq(Range(dialogue)) /\ Len(dialogue) \in Nat /\ Len(dialogue) >= 1
    /\ \A i \in 1..Len(dialogue) : MessageFine(dialogue, i)
    /\ ~repeated => \A i \in 1..Len(dialogue) : NewIds(dialogue, i)

UsageInv ==
    /\ counted \in [input : Nat, read : Nat, write : Nat, processed : Nat]
    /\ Model!UsageIsTheWholePrompt

AdapterInv ==
    /\ DialogueInv /\ UsageInv
    /\ Model!HistoryStaysSendable /\ Model!ContractsAreAnsweredInJson

(* A dialogue that grew holds the same identifiers before the same messages. *)
LEMMA SameIds ==
  ASSUME NEW d, NEW e, NEW n \in Nat, \A k \in 1..n : e[k] = d[k]
  PROVE  \A i \in 1..n + 1 : Model!IdsBefore(e, i) = Model!IdsBefore(d, i)
<1>1. TAKE i \in 1..n + 1
<1>2. \A k \in 1..i - 1 : e[k] = d[k] OBVIOUS
<1>3. {Model!IdsOf(e[k].calls) : k \in 1..i - 1}
          = {Model!IdsOf(d[k].calls) : k \in 1..i - 1}
  BY <1>2
<1>4. QED BY <1>3 DEF Model!IdsBefore

LEMMA OldMessages ==
  ASSUME NEW d, NEW e, NEW n \in Nat, \A k \in 1..n : e[k] = d[k], NEW i \in 1..n
  PROVE  /\ MessageFine(d, i) => MessageFine(e, i)
         /\ NewIds(d, i) => NewIds(e, i)
<1>1. e[i] = d[i] /\ i \in 1..n + 1 OBVIOUS
<1>2. Model!IdsBefore(e, i) = Model!IdsBefore(d, i) BY <1>1, SameIds
<1>3. QED BY <1>1, <1>2 DEF MessageFine, NewIds

LEMMA IdsOfEarlier ==
  ASSUME NEW A, NEW s \in Seq(A), NEW j \in 1..Len(s)
  PROVE  Model!IdsOf(SubSeq(s, 1, j - 1)) = {s[k].id : k \in 1..j - 1}
<1>1. PICK t : t = SubSeq(s, 1, j - 1) OBVIOUS
<1>2. Len(s) \in Nat /\ j \in Nat /\ j - 1 \in Nat OBVIOUS
<1>3. Len(t) = j - 1 /\ DOMAIN t = 1..j - 1 /\ \A k \in 1..j - 1 : t[k] = s[k] BY <1>1, <1>2
<1>4. Model!IdsOf(t) = {s[k].id : k \in 1..j - 1} BY <1>3 DEF Model!IdsOf
<1>5. QED BY <1>1, <1>4

LEMMA AdapterStart == ASSUME Model!AdapterInit PROVE AdapterInv
<1>1. /\ dialogue = <<Model!Say("user", <<>>, Model!Missing)>>
      /\ asking = Model!Idle /\ repeated = FALSE /\ counted = Model!Uncounted
  BY DEF Model!AdapterInit
<1>2. PICK m : m = Model!Say("user", <<>>, Model!Missing) OBVIOUS
<1>3. m.role = "user" /\ m.calls = <<>> BY <1>2 DEF Model!Say
<1>4. dialogue = <<m>> /\ Len(dialogue) = 1 /\ dialogue[1] = m /\ DOMAIN dialogue = {1}
  BY <1>1, <1>2
<1>5. dialogue \in Seq(Range(dialogue)) BY <1>4 DEF Range
<1>6. 1..Len(dialogue) = {1} BY <1>4
<1>7. MessageFine(dialogue, 1) /\ NewIds(dialogue, 1)
  <2>1. PICK none : none = <<>> OBVIOUS
  <2>2. DOMAIN none = {} /\ none \in Seq(Range(none)) BY <2>1
  <2>3. dialogue[1].calls = none /\ dialogue[1].role # "tool" BY <1>3, <1>4, <2>1
  <2>4. QED BY <2>2, <2>3 DEF MessageFine, NewIds
<1>8. DialogueInv BY <1>4, <1>5, <1>6, <1>7 DEF DialogueInv
<1>9. UsageInv BY <1>1 DEF UsageInv, Model!Uncounted, Model!UsageIsTheWholePrompt
<1>10. asking.stage = "idle" BY <1>1 DEF Model!Idle, Model!Asking
<1>11. QED BY <1>8, <1>9, <1>10 DEF AdapterInv, Model!HistoryStaysSendable,
     Model!ContractsAreAnsweredInJson

LEMMA Sendable ==
  ASSUME DialogueInv, ~repeated
  PROVE  Model!OllamaMessages(dialogue) /\ Model!OpenAIMessages(dialogue)
<1>1. DOMAIN dialogue = 1..Len(dialogue) BY DEF DialogueInv
<1>2. Model!OllamaMessages(dialogue)
  BY <1>1 DEF DialogueInv, MessageFine, NewIds, Model!OllamaMessages
<1>3. ASSUME NEW i \in 1..Len(dialogue), dialogue[i].role = "tool"
      PROVE  dialogue[i].answers # Model!Missing
  <2>1. dialogue[i].answers \in Model!IdsBefore(dialogue, i) BY <1>3 DEF DialogueInv, MessageFine
  <2>2. PICK k \in 1..i - 1 : dialogue[i].answers \in Model!IdsOf(dialogue[k].calls)
    BY <2>1 DEF Model!IdsBefore
  <2>3. PICK j \in DOMAIN dialogue[k].calls : dialogue[i].answers = dialogue[k].calls[j].id
    BY <2>2 DEF Model!IdsOf
  <2>4. k \in 1..Len(dialogue) BY DEF DialogueInv
  <2>5. IdFine(k, dialogue[k].calls[j].id) BY <2>4 DEF DialogueInv, MessageFine
  <2>6. dialogue[i].answers.by # "none" BY <2>3, <2>5 DEF IdFine
  <2>7. QED BY <2>6 DEF Model!Missing
<1>4. QED BY <1>1, <1>2, <1>3 DEF Model!OpenAIMessages

(* A message joins the dialogue. *)
LEMMA MessageJoins ==
  ASSUME DialogueInv, NEW m, NEW A, m.calls \in Seq(A), m.role = "assistant",
         dialogue' = Append(dialogue, m),
         \A j \in DOMAIN m.calls : IdFine(Len(dialogue) + 1, m.calls[j].id),
         ~repeated' =>
             /\ ~repeated
             /\ \A j \in DOMAIN m.calls :
                    m.calls[j].id \notin Model!IdsBefore(dialogue, Len(dialogue) + 1)
                                         \cup Model!IdsOf(SubSeq(m.calls, 1, j - 1))
  PROVE  DialogueInv'
<1>1. PICK d, e, n : d = dialogue /\ e = dialogue' /\ n = Len(dialogue) OBVIOUS
<1>2. d \in Seq(Range(d)) /\ n \in Nat /\ n >= 1 /\ n = Len(d) /\ DOMAIN d = 1..n
  BY <1>1 DEF DialogueInv
<1>3. e = Append(d, m) BY <1>1
<1>4. d \in Seq(Range(d) \cup {m}) /\ m \in Range(d) \cup {m} BY <1>2
<1>5. /\ Len(e) = n + 1 /\ DOMAIN e = 1..n + 1 /\ e[n + 1] = m
      /\ \A k \in 1..n : e[k] = d[k]
  BY <1>2, <1>3
<1>6. e \in Seq(Range(e))
  <2>1. e \in Seq(Range(d) \cup {m}) BY <1>3, <1>4
  <2>2. QED BY <1>5, <2>1 DEF Range
<1>7. Model!IdsBefore(e, n + 1) = Model!IdsBefore(d, n + 1)
  <2>1. n + 1 \in 1..n + 1 BY <1>2
  <2>2. \A i \in 1..n + 1 : Model!IdsBefore(e, i) = Model!IdsBefore(d, i)
    BY <1>2, <1>5, SameIds
  <2>3. QED BY <2>1, <2>2
<1>8. m.calls \in Seq(Range(m.calls)) BY DEF Range
<1>9. MessageFine(e, n + 1)
  <2>1. \A j \in DOMAIN m.calls : IdFine(n + 1, m.calls[j].id) BY <1>1
  <2> HIDE DEF IdFine
  <2>2. m.role # "tool" OBVIOUS
  <2>3. e[n + 1] = m BY <1>5
  <2>4. QED BY <1>8, <2>1, <2>2, <2>3 DEF MessageFine
<1>10. ~repeated' => NewIds(e, n + 1) BY <1>1, <1>5, <1>7 DEF NewIds
<1>11. \A i \in 1..n + 1 : i \in 1..n \/ i = n + 1 BY <1>2
<1>12. ASSUME NEW i \in 1..n PROVE MessageFine(e, i) /\ (~repeated' => NewIds(e, i))
  <2>1. MessageFine(d, i) /\ (~repeated' => NewIds(d, i)) BY <1>1, <1>2 DEF DialogueInv
  <2>2. QED BY <1>2, <1>5, <2>1, OldMessages
<1>13. /\ \A i \in 1..n + 1 : MessageFine(e, i)
       /\ ~repeated' => \A i \in 1..n + 1 : NewIds(e, i)
  BY <1>9, <1>10, <1>11, <1>12
<1>14. dialogue' = e /\ Len(dialogue') = n + 1 BY <1>1, <1>5
<1>15. QED BY <1>2, <1>6, <1>13, <1>14 DEF DialogueInv

LEMMA JoinedAt ==
  ASSUME NEW A, NEW a \in Seq(A), NEW b \in Seq(A)
  PROVE  /\ Len(a \o b) = Len(a) + Len(b) /\ DOMAIN (a \o b) = 1..Len(a) + Len(b)
         /\ \A k \in 1..Len(a) : (a \o b)[k] = a[k]
         /\ \A k \in Len(a) + 1..Len(a) + Len(b) : (a \o b)[k] = b[k - Len(a)]
<1>1. Len(a) \in Nat /\ Len(b) \in Nat OBVIOUS
<1>2. Len(a \o b) = Len(a) + Len(b) /\ DOMAIN (a \o b) = 1..Len(a) + Len(b) BY <1>1
<1>3. \A k \in 1..Len(a) : (a \o b)[k] = a[k] BY <1>1
<1>4. \A k \in Len(a) + 1..Len(a) + Len(b) : (a \o b)[k] = b[k - Len(a)] BY <1>1
<1>5. QED BY <1>2, <1>3, <1>4

LEMMA ResultsJoin == ASSUME AdapterInv, Model!AppendResults PROVE AdapterInv'
<1>1. PICK d, n : d = dialogue /\ n = Len(dialogue) OBVIOUS
<1>2. PICK c : c = d[n].calls OBVIOUS
<1>3. PICK t : t = [i \in DOMAIN c |-> Model!Say("tool", <<>>, c[i].id)] OBVIOUS
<1>4. PICK e : e = d \o t OBVIOUS
<1>5. /\ dialogue' = e /\ asking' = Model!Idle /\ UNCHANGED <<wants, turns, repeated, counted>>
  BY <1>1, <1>2, <1>3, <1>4 DEF Model!AppendResults
<1>6. d \in Seq(Range(d)) /\ n \in Nat /\ n >= 1 /\ n = Len(d) /\ DOMAIN d = 1..n
  BY <1>1 DEF AdapterInv, DialogueInv
<1>7. MessageFine(d, n) BY <1>1, <1>6 DEF AdapterInv, DialogueInv
<1>8. c \in Seq(Range(c)) /\ Len(c) \in Nat /\ DOMAIN c = 1..Len(c) BY <1>2, <1>7 DEF MessageFine
<1>9. t \in Seq(Range(t)) /\ Len(t) = Len(c) /\ DOMAIN t = 1..Len(c) BY <1>3, <1>8 DEF Range
<1>10. /\ Len(e) = n + Len(c) /\ DOMAIN e = 1..n + Len(c)
       /\ \A k \in 1..n : e[k] = d[k]
       /\ \A k \in n + 1..n + Len(c) : e[k] = t[k - n]
  <2>1. d \in Seq(Range(d) \cup Range(t)) /\ t \in Seq(Range(d) \cup Range(t)) BY <1>6, <1>9
  <2>2. /\ Len(d \o t) = Len(d) + Len(t) /\ DOMAIN (d \o t) = 1..Len(d) + Len(t)
        /\ \A k \in 1..Len(d) : (d \o t)[k] = d[k]
        /\ \A k \in Len(d) + 1..Len(d) + Len(t) : (d \o t)[k] = t[k - Len(d)]
    BY <2>1, JoinedAt
  <2>3. QED BY <1>4, <1>6, <1>9, <2>2
<1>11. e \in Seq(Range(e))
  <2>1. e \in Seq(Range(d) \cup Range(t))
    <3>1. d \in Seq(Range(d) \cup Range(t)) /\ t \in Seq(Range(d) \cup Range(t)) BY <1>6, <1>9
    <3>2. QED BY <1>4, <3>1
  <2>2. QED BY <1>10, <2>1 DEF Range
<1>12. ASSUME NEW k \in n + 1..n + Len(c) PROVE MessageFine(e, k) /\ NewIds(e, k)
  <2>1. k - n \in DOMAIN c /\ k \in Nat BY <1>6, <1>8
  <2>2. PICK none : none = <<>> OBVIOUS
  <2>3. e[k] = Model!Say("tool", none, c[k - n].id) BY <1>3, <1>10, <2>1, <2>2
  <2>4. e[k].calls = none /\ e[k].answers = c[k - n].id BY <2>3 DEF Model!Say
  <2>5. DOMAIN none = {} /\ none \in Seq(Range(none)) BY <2>2
  <2>6. c[k - n].id \in Model!IdsOf(e[n].calls) BY <1>2, <1>6, <1>10, <2>1 DEF Model!IdsOf
  <2>7. n \in 1..k - 1 BY <1>6, <2>1
  <2>8. c[k - n].id \in Model!IdsBefore(e, k) BY <2>6, <2>7 DEF Model!IdsBefore
  <2>9. QED BY <2>4, <2>5, <2>8 DEF MessageFine, NewIds
<1>13. ASSUME NEW i \in 1..n PROVE MessageFine(e, i) /\ (~repeated => NewIds(e, i))
  <2>1. MessageFine(d, i) /\ (~repeated => NewIds(d, i)) BY <1>1, <1>6 DEF AdapterInv, DialogueInv
  <2>2. QED BY <1>6, <1>10, <2>1, OldMessages
<1>14. \A i \in 1..n + Len(c) : i \in 1..n \/ i \in n + 1..n + Len(c) BY <1>6, <1>8
<1>15. n + Len(c) \in Nat /\ n + Len(c) >= 1 BY <1>6, <1>8
<1>16. DialogueInv' BY <1>5, <1>10, <1>11, <1>12, <1>13, <1>14, <1>15 DEF DialogueInv
<1>17. UsageInv' BY <1>5 DEF AdapterInv, UsageInv, Model!UsageIsTheWholePrompt
<1>18. asking'.stage = "idle" BY <1>5 DEF Model!Idle, Model!Asking
<1>19. QED BY <1>16, <1>17, <1>18 DEF AdapterInv, Model!HistoryStaysSendable,
     Model!ContractsAreAnsweredInJson

(* A step that leaves the dialogue and the usage alone. *)
LEMMA AskingMoves ==
  ASSUME AdapterInv, UNCHANGED <<dialogue, repeated, counted>>,
         asking'.stage = "refused" => repeated, asking'.stage # "answered"
  PROVE  AdapterInv'
<1>1. DialogueInv' BY DEF AdapterInv, DialogueInv, MessageFine, NewIds
<1>2. UsageInv' BY DEF AdapterInv, UsageInv, Model!UsageIsTheWholePrompt
<1>3. QED BY <1>1, <1>2 DEF AdapterInv, Model!HistoryStaysSendable,
     Model!ContractsAreAnsweredInJson

LEMMA RequestSent == ASSUME AdapterInv, NEW p, Model!Request(p) PROVE AdapterInv'
<1>1. PICK stage0 :
        /\ stage0 = (IF Model!MissingCapabilities(p) # {} THEN "unsupported"
                     ELSE CASE p = "ollama" -> Model!OllamaRequest
                            [] p = "openai" -> Model!OpenAIRequest
                            [] OTHER        -> "sent")
        /\ asking' = Model!Asking(stage0, p, "none", "none")
        /\ UNCHANGED <<dialogue, wants, turns, repeated, counted>>
  BY DEF Model!Request
<1>2. asking'.stage = stage0 BY <1>1 DEF Model!Asking
<1>3. Model!OllamaRequest \in {"unsupported", "refused", "sent"}
      /\ (Model!OllamaRequest = "refused" => ~Model!OllamaMessages(dialogue))
  BY DEF Model!OllamaRequest
<1>4. Model!OpenAIRequest \in {"refused", "sent"}
      /\ (Model!OpenAIRequest = "refused" => ~Model!OpenAIMessages(dialogue))
  BY DEF Model!OpenAIRequest
<1>5. /\ stage0 \in {"unsupported", "refused", "sent"}
      /\ stage0 = "refused" => ~Model!OllamaMessages(dialogue)
                               \/ ~Model!OpenAIMessages(dialogue)
  BY <1>1, <1>3, <1>4
<1>6. stage0 = "refused" => repeated BY <1>5, Sendable DEF AdapterInv
<1>7. QED BY <1>1, <1>2, <1>5, <1>6, AskingMoves

LEMMA UsageAdds ==
  ASSUME NEW i1 \in Nat, NEW r1 \in Nat, NEW w1 \in Nat, NEW p1 \in Nat, NEW i2 \in Nat,
         NEW r2 \in Nat, NEW w2 \in Nat, NEW p2 \in Nat,
         i1 = p1, i2 = p2, r1 + w1 <= i1, r2 + w2 <= i2
  PROVE  /\ i1 + i2 \in Nat /\ r1 + r2 \in Nat /\ w1 + w2 \in Nat /\ p1 + p2 \in Nat
         /\ i1 + i2 = p1 + p2 /\ (r1 + r2) + (w1 + w2) <= i1 + i2 OBVIOUS

(* The runtime takes an answer whose identifiers are a server's or new. *)
LEMMA AnswerTaken ==
  ASSUME AdapterInv, NEW A, NEW c \in Seq(A), NEW text, NEW form, NEW reason,
         NEW u \in [input : Nat, read : Nat, write : Nat], NEW processed \in Nat,
         u.input = processed, u.read + u.write <= u.input,
         \A j \in DOMAIN c : c[j].id # Model!Missing => IdFine(Len(dialogue) + 1, c[j].id),
         \A j \in DOMAIN c : c[j].id.by = "adapter" =>
             c[j].id \notin Model!IdsBefore(dialogue, Len(dialogue) + 1)
                            \cup Model!IdsOf(SubSeq(c, 1, j - 1)),
         "json_mode" \in wants /\ form \in Model!JsonForms(asking.provider)
             => text = "object",
         Model!TakeAnswer(c, text, form, reason, u, processed), wants' = wants
  PROVE  AdapterInv'
<1>1. counted' = [input |-> counted.input + u.input, read |-> counted.read + u.read,
                  write |-> counted.write + u.write, processed |-> counted.processed + processed]
  BY DEF Model!TakeAnswer, Model!AddUsage
<1>2. UsageInv'
  <2>1. /\ counted.input \in Nat /\ counted.read \in Nat /\ counted.write \in Nat
        /\ counted.processed \in Nat /\ counted.input = counted.processed
        /\ counted.read + counted.write <= counted.input
    <3>1. counted \in [input : Nat, read : Nat, write : Nat, processed : Nat]
          /\ Model!UsageIsTheWholePrompt
      BY DEF AdapterInv, UsageInv
    <3>2. QED BY <3>1 DEF Model!UsageIsTheWholePrompt
  <2>2. u.input \in Nat /\ u.read \in Nat /\ u.write \in Nat OBVIOUS
  <2>3. PICK i, r, w, p : /\ i = counted.input + u.input /\ r = counted.read + u.read
                          /\ w = counted.write + u.write /\ p = counted.processed + processed
    OBVIOUS
  <2>4. i \in Nat /\ r \in Nat /\ w \in Nat /\ p \in Nat /\ i = p /\ r + w <= i
    <3>1. PICK i1, r1, w1, p1 : /\ i1 = counted.input /\ r1 = counted.read
                                /\ w1 = counted.write /\ p1 = counted.processed OBVIOUS
    <3>2. PICK i2, r2, w2 : i2 = u.input /\ r2 = u.read /\ w2 = u.write OBVIOUS
    <3>3. /\ i1 \in Nat /\ r1 \in Nat /\ w1 \in Nat /\ p1 \in Nat /\ i2 \in Nat
          /\ r2 \in Nat /\ w2 \in Nat /\ i1 = p1 /\ r1 + w1 <= i1
      BY <2>1, <2>2, <3>1, <3>2
    <3>4. i2 = processed /\ r2 + w2 <= i2 BY <3>2
    <3>5. i = i1 + i2 /\ r = r1 + r2 /\ w = w1 + w2 /\ p = p1 + processed BY <2>3, <3>1, <3>2
    <3>6. /\ i1 + i2 \in Nat /\ r1 + r2 \in Nat /\ w1 + w2 \in Nat
          /\ p1 + processed \in Nat /\ i1 + i2 = p1 + processed
          /\ (r1 + r2) + (w1 + w2) <= i1 + i2
      BY <3>3, <3>4, UsageAdds
    <3>7. QED BY <3>5, <3>6
  <2>5. counted' = [input |-> i, read |-> r, write |-> w, processed |-> p] BY <1>1, <2>3
  <2>6. QED BY <2>4, <2>5 DEF UsageInv, Model!UsageIsTheWholePrompt
<1>3. CASE \/ Model!SnapshotFails(c)
           \/ Model!ProviderStop(reason, c # <<>>) \notin {"none", "completed"}
  <2>1. /\ asking' = Model!Asking("stopped", asking.provider, "none", "none")
        /\ UNCHANGED <<dialogue, repeated>>
    BY <1>3 DEF Model!TakeAnswer
  <2>2. asking'.stage = "stopped" BY <2>1 DEF Model!Asking
  <2>3. DialogueInv' BY <2>1 DEF AdapterInv, DialogueInv, MessageFine, NewIds
  <2>4. QED BY <1>2, <2>2, <2>3 DEF AdapterInv, Model!HistoryStaysSendable,
       Model!ContractsAreAnsweredInJson
<1>4. CASE /\ ~Model!SnapshotFails(c)
           /\ Model!ProviderStop(reason, c # <<>>) \in {"none", "completed"}
  <2>1. PICK m : m = Model!Say("assistant", c, Model!Missing) OBVIOUS
  <2>2. /\ dialogue' = Append(dialogue, m)
        /\ repeated' = (repeated \/ Model!RepeatedId(c))
        /\ asking' = IF c = <<>> THEN Model!Asking("answered", asking.provider, form, text)
                     ELSE Model!Asking("calling", asking.provider, "none", "none")
    BY <1>4, <2>1 DEF Model!TakeAnswer
  <2>3. m.calls = c /\ m.role = "assistant" BY <2>1 DEF Model!Say
  <2>4. \A j \in DOMAIN c : IdFine(Len(dialogue) + 1, c[j].id) BY <1>4 DEF Model!SnapshotFails
  <2>5. ASSUME ~repeated', NEW j \in DOMAIN c
        PROVE  c[j].id \notin Model!IdsBefore(dialogue, Len(dialogue) + 1)
                              \cup Model!IdsOf(SubSeq(c, 1, j - 1))
    <3>1. ~Model!RepeatedId(c) BY <2>2, <2>5
    <3>2. CASE c[j].id.by = "server" BY <3>1, <3>2 DEF Model!RepeatedId
    <3>3. CASE c[j].id.by = "adapter" BY <3>3
    <3>4. QED BY <2>4, <3>2, <3>3 DEF IdFine
  <2>6. ~repeated' => ~repeated BY <2>2
  <2>7. DialogueInv' BY <2>2, <2>3, <2>4, <2>5, <2>6, MessageJoins DEF AdapterInv
  <2>8. /\ asking'.stage \in {"answered", "calling"}
        /\ asking'.stage = "answered" =>
               /\ asking'.form = form /\ asking'.said = text
               /\ asking'.provider = asking.provider
    BY <2>2 DEF Model!Asking
  <2>9. Model!HistoryStaysSendable' /\ Model!ContractsAreAnsweredInJson'
    BY <2>8 DEF Model!HistoryStaysSendable, Model!ContractsAreAnsweredInJson
  <2>10. QED BY <1>2, <2>7, <2>9 DEF AdapterInv
<1>5. QED BY <1>3, <1>4

LEMMA InvalidAnswer == ASSUME AdapterInv, Model!Invalid, wants' = wants PROVE AdapterInv'
<1>1. asking'.stage = "invalid" /\ UNCHANGED <<dialogue, repeated, counted>>
  BY DEF Model!Invalid, Model!Asking
<1>2. QED BY <1>1, AskingMoves

(* The calls a server sends: each with its identifier or none. *)
CallRecords ==
    [name : {"tool"}, id : {Model!Missing} \cup {Model!Supplied(i) : i \in ServerIds}]

LEMMA ServerIdsFine ==
  ASSUME NEW c \in Model!ServerCalls
  PROVE  /\ c \in Seq(CallRecords)
         /\ \A j \in DOMAIN c : c[j].id # Model!Missing =>
                c[j].id.by = "server" /\ \A n : IdFine(n, c[j].id)
         /\ \A j \in DOMAIN c : c[j].id.by # "adapter"
<1>1. c \in Seq(CallRecords)
  <2>1. PICK n \in 0..MaxCalls : c \in [1..n -> CallRecords]
    BY DEF Model!ServerCalls, CallRecords
  <2>2. n \in Nat BY <2>1
  <2>3. QED BY <2>1, <2>2
<1>2. \A j \in DOMAIN c : c[j] \in CallRecords BY <1>1
<1>3. \A x \in {Model!Supplied(i) : i \in ServerIds} : x.by = "server" BY DEF Model!Supplied
<1>4. Model!Missing.by = "none" BY DEF Model!Missing
<1>5. \A j \in DOMAIN c : c[j].id = Model!Missing \/ c[j].id.by = "server"
  BY <1>2, <1>3 DEF CallRecords
<1>6. QED BY <1>1, <1>4, <1>5 DEF IdFine

LEMMA OpenAIAnswered ==
  ASSUME AdapterInv, NEW c \in Model!ServerCalls, NEW form, NEW reason,
         NEW asked \in Nat, NEW cached \in Nat,
         Model!OpenAIAnswers(c, form, reason, asked, cached), wants' = wants
  PROVE  AdapterInv'
<1>1. form \in Model!JsonForms(asking.provider) => form = "object"
  BY DEF Model!OpenAIAnswers, Model!JsonForms
<1>2. CASE Model!OpenAIResponse(c, form) /\ cached <= asked
  <2>1. PICK u : u = Model!OpenAIUsage(asked, cached) OBVIOUS
  <2>2. /\ u \in [input : Nat, read : Nat, write : Nat] /\ u.input = asked
        /\ u.read + u.write <= u.input
    BY <1>2, <2>1 DEF Model!OpenAIUsage
  <2>3. Model!TakeAnswer(c, form, form, reason, u, asked)
    BY <1>2, <2>1 DEF Model!OpenAIAnswers
  <2>4. QED BY <1>1, <2>2, <2>3, ServerIdsFine, AnswerTaken
<1>3. CASE ~(Model!OpenAIResponse(c, form) /\ cached <= asked)
  BY <1>3, InvalidAnswer DEF Model!OpenAIAnswers
<1>4. QED BY <1>2, <1>3

LEMMA AnthropicAnswered ==
  ASSUME AdapterInv, NEW p, NEW c \in Model!ServerCalls,
         NEW form \in {"object", "prose", "fenced", "continuation", "none"}, NEW reason,
         NEW asked \in Nat, NEW cached \in Nat, NEW written \in Nat,
         Model!AnthropicAnswers(p, c, form, reason, asked, cached, written), wants' = wants
  PROVE  AdapterInv'
<1>1. form = "continuation" => Model!AnthropicPrefills(p) BY DEF Model!AnthropicAnswers
<1>2. CASE Model!AnthropicResponse(c, form)
  <2>1. PICK u : u = Model!AnthropicUsage(asked, cached, written) OBVIOUS
  <2>2. PICK text : text = Model!AnthropicText(p, form) OBVIOUS
  <2>3. asked + cached + written \in Nat OBVIOUS
  <2>4. u \in [input : Nat, read : Nat, write : Nat] BY <2>1, <2>3 DEF Model!AnthropicUsage
  <2>5. /\ u.input = asked + cached + written /\ u.read = cached /\ u.write = written
    BY <2>1 DEF Model!AnthropicUsage
  <2>6. u.read + u.write <= u.input BY <2>5
  <2>7. Model!TakeAnswer(c, text, form, reason, u, asked + cached + written)
    BY <1>2, <2>1, <2>2 DEF Model!AnthropicAnswers
  <2>8. "json_mode" \in wants /\ form \in Model!JsonForms(asking.provider)
            => text = "object"
    BY <1>1, <2>2 DEF Model!AnthropicText, Model!NormalizeJson, Model!JsonForms
  <2>9. PICK total : total = asked + cached + written OBVIOUS
  <2>10. total \in Nat /\ u.input = total
         /\ Model!TakeAnswer(c, text, form, reason, u, total)
    BY <2>3, <2>5, <2>7, <2>9
  <2>11. QED BY <2>4, <2>6, <2>8, <2>10, ServerIdsFine, AnswerTaken
<1>3. CASE ~Model!AnthropicResponse(c, form) BY <1>3, InvalidAnswer DEF Model!AnthropicAnswers
<1>4. QED BY <1>2, <1>3

(* The identifiers the Ollama adapter makes up: a position of the answer *)
(* and a digest of the whole dialogue. *)
LEMMA OllamaIdsFine ==
  ASSUME DialogueInv, NEW c \in Model!ServerCalls, NEW o, o = Model!OllamaCalls(c)
  PROVE  /\ o \in Seq(Range(o))
         /\ \A j \in DOMAIN o : IdFine(Len(dialogue) + 1, o[j].id)
         /\ \A j \in DOMAIN o : o[j].id.by = "adapter" =>
                o[j].id \notin Model!IdsBefore(dialogue, Len(dialogue) + 1)
                               \cup Model!IdsOf(SubSeq(o, 1, j - 1))
<1>1. PICK n, ns : n = Len(dialogue) /\ ns = Model!RequestNamespace(dialogue) OBVIOUS
<1>2. n \in Nat /\ DOMAIN dialogue = 1..n /\ DOMAIN ns = 1..n
  BY <1>1 DEF DialogueInv, Model!RequestNamespace
<1>3. /\ c \in Seq(CallRecords) /\ DOMAIN c = 1..Len(c) /\ Len(c) \in Nat
      /\ \A j \in DOMAIN c : c[j].id # Model!Missing =>
             c[j].id.by = "server" /\ IdFine(n + 1, c[j].id)
  BY ServerIdsFine
<1>4. /\ DOMAIN o = DOMAIN c
      /\ \A j \in DOMAIN c : o[j] = IF c[j].id = Model!Missing
            THEN [c[j] EXCEPT !.id = Model!GeneratedCallId(j, c[j].name, ns)] ELSE c[j]
  BY <1>1 DEF Model!OllamaCalls
<1>5. o \in Seq(Range(o)) /\ Len(o) = Len(c)
  <2>1. o = [j \in 1..Len(c) |-> o[j]] BY <1>3, <1>4 DEF Model!OllamaCalls
  <2>2. o \in [1..Len(c) -> Range(o)] BY <2>1 DEF Range
  <2>3. o \in Seq(Range(o)) BY <1>3, <2>2
  <2>4. QED BY <1>3, <2>2, <2>3
<1>6. ASSUME NEW j \in DOMAIN c, c[j].id = Model!Missing
      PROVE  o[j].id = Model!GeneratedCallId(j, c[j].name, ns)
  <2>1. c[j] \in CallRecords BY <1>3
  <2>2. o[j] = [c[j] EXCEPT !.id = Model!GeneratedCallId(j, c[j].name, ns)] BY <1>4, <1>6
  <2>3. QED BY <2>1, <2>2 DEF CallRecords
<1>7. ASSUME NEW j \in DOMAIN c, c[j].id # Model!Missing
      PROVE  o[j].id.by = "server" /\ IdFine(n + 1, o[j].id)
  <2>1. o[j] = c[j] BY <1>4, <1>7
  <2>2. QED BY <1>3, <1>7, <2>1
<1>8. ASSUME NEW j \in DOMAIN c, c[j].id = Model!Missing
      PROVE  /\ o[j].id.by = "adapter" /\ o[j].id.id[1] = j /\ o[j].id.id[3] = ns
  <2>1. PICK name0, x : name0 = c[j].name /\ x = <<j, name0, ns>> OBVIOUS
  <2>2. o[j].id = [by |-> "adapter", id |-> x] BY <1>6, <1>8, <2>1 DEF Model!GeneratedCallId
  <2>3. x[1] = j /\ x[3] = ns BY <2>1
  <2>4. QED BY <2>2, <2>3
<1>9. ASSUME NEW j \in DOMAIN o PROVE IdFine(n + 1, o[j].id)
  <2>1. n + 1 - 1 = n BY <1>2
  <2>2. QED BY <1>2, <1>4, <1>7, <1>8, <1>9, <2>1 DEF IdFine
<1>10. ASSUME NEW j \in DOMAIN o, o[j].id.by = "adapter"
       PROVE  o[j].id \notin Model!IdsBefore(dialogue, n + 1)
                             \cup Model!IdsOf(SubSeq(o, 1, j - 1))
  <2>1. c[j].id = Model!Missing /\ DOMAIN o[j].id.id[3] = 1..n /\ o[j].id.id[1] = j
    BY <1>2, <1>4, <1>7, <1>8, <1>10
  <2>2. o[j].id \notin Model!IdsBefore(dialogue, n + 1)
    <3>1. SUFFICES ASSUME NEW i \in 1..n, o[j].id \in Model!IdsOf(dialogue[i].calls)
                   PROVE  FALSE
      <4>1. 1..(n + 1) - 1 = 1..n BY <1>2
      <4>2. QED BY <4>1 DEF Model!IdsBefore
    <3>2. PICK k \in DOMAIN dialogue[i].calls : o[j].id = dialogue[i].calls[k].id
      BY <3>1 DEF Model!IdsOf
    <3>3. IdFine(i, o[j].id) BY <1>1, <3>2 DEF DialogueInv, MessageFine
    <3>4. DOMAIN o[j].id.id[3] = 1..i - 1 BY <1>10, <3>3 DEF IdFine
    <3>5. 1..n = 1..i - 1 BY <2>1, <3>4
    <3>6. i \in 1..n /\ i \notin 1..i - 1 BY <1>2
    <3>7. QED BY <3>5, <3>6
  <2>3. o[j].id \notin Model!IdsOf(SubSeq(o, 1, j - 1))
    <3>1. j \in 1..Len(o) BY <1>3, <1>4, <1>5
    <3>2. Model!IdsOf(SubSeq(o, 1, j - 1)) = {o[k].id : k \in 1..j - 1}
      BY <1>5, <3>1, IdsOfEarlier
    <3>3. SUFFICES ASSUME NEW k \in 1..j - 1, o[j].id = o[k].id PROVE FALSE BY <3>2
    <3>4. k \in DOMAIN c /\ k # j BY <1>3, <1>4, <1>5, <3>1
    <3>5. c[k].id = Model!Missing BY <1>7, <1>10, <3>3, <3>4
    <3>6. o[k].id.id[1] = k BY <1>8, <3>4, <3>5
    <3>7. QED BY <2>1, <3>3, <3>4, <3>6
  <2>4. QED BY <2>2, <2>3
<1>11. QED BY <1>1, <1>5, <1>9, <1>10

LEMMA OllamaAnswered ==
  ASSUME AdapterInv, NEW c \in Model!ServerCalls, NEW form, NEW reason, NEW asked \in Nat,
         Model!OllamaAnswers(c, form, reason, asked), wants' = wants
  PROVE  AdapterInv'
<1>1. form \in Model!JsonForms(asking.provider) => form = "object"
  BY DEF Model!OllamaAnswers, Model!JsonForms
<1>2. PICK o : o = Model!OllamaCalls(c) OBVIOUS
<1>3. CASE Model!OllamaResponse(o, form)
  <2>1. PICK u : u = Model!OpenAIUsage(asked, 0) OBVIOUS
  <2>2. /\ u \in [input : Nat, read : Nat, write : Nat] /\ u.input = asked
        /\ u.read + u.write <= u.input
    BY <2>1 DEF Model!OpenAIUsage
  <2>3. Model!TakeAnswer(o, form, form, reason, u, asked)
    BY <1>2, <1>3, <2>1 DEF Model!OllamaAnswers
  <2>4. DialogueInv BY DEF AdapterInv
  <2>5. /\ o \in Seq(Range(o))
        /\ \A j \in DOMAIN o : IdFine(Len(dialogue) + 1, o[j].id)
        /\ \A j \in DOMAIN o : o[j].id.by = "adapter" =>
               o[j].id \notin Model!IdsBefore(dialogue, Len(dialogue) + 1)
                              \cup Model!IdsOf(SubSeq(o, 1, j - 1))
    BY <1>2, <2>4, OllamaIdsFine
  <2>6. QED BY <1>1, <2>2, <2>3, <2>5, AnswerTaken
<1>4. CASE ~Model!OllamaResponse(o, form) BY <1>2, <1>4, InvalidAnswer DEF Model!OllamaAnswers
<1>5. QED BY <1>3, <1>4

LEMMA AdapterNextStep == ASSUME AdapterInv, Model!AdapterNext PROVE AdapterInv'
<1>1. CASE Model!Answered
  <2>1. PICK c \in Model!ServerCalls,
             form \in {"object", "prose", "fenced", "continuation", "none"},
             reason \in Reasons, asked \in 0..MaxCount, cached \in 0..MaxCount :
          /\ \/ Model!OpenAIAnswers(c, form, reason, asked, cached)
             \/ Model!OllamaAnswers(c, form, reason, asked)
             \/ \E written \in 0..MaxCount :
                    \/ Model!AnthropicAnswers("anthropic", c, form, reason, asked, cached,
                                                 written)
                    \/ Model!AnthropicAnswers("foundry", c, form, reason, asked, cached,
                                                 written)
          /\ wants' = wants
    BY <1>1 DEF Model!Answered, Model!FoundryAnswers
  <2>2. asked \in Nat /\ cached \in Nat /\ \A k \in 0..MaxCount : k \in Nat OBVIOUS
  <2>3. CASE Model!OpenAIAnswers(c, form, reason, asked, cached)
    BY <2>1, <2>2, <2>3, OpenAIAnswered
  <2>4. CASE Model!OllamaAnswers(c, form, reason, asked) BY <2>1, <2>2, <2>4, OllamaAnswered
  <2>5. ASSUME NEW written \in 0..MaxCount, NEW p,
               Model!AnthropicAnswers(p, c, form, reason, asked, cached, written)
        PROVE  AdapterInv'
    BY <2>1, <2>2, <2>5, AnthropicAnswered
  <2>6. QED BY <2>1, <2>3, <2>4, <2>5
<1>2. CASE Model!SendFails BY <1>2, InvalidAnswer DEF Model!SendFails
<1>3. CASE Model!AppendResults BY <1>3, ResultsJoin
<1>4. CASE Model!AskNext
  <2>1. asking'.stage = "idle" /\ UNCHANGED <<dialogue, repeated, counted>>
    BY <1>4 DEF Model!AskNext, Model!Idle, Model!Asking
  <2>2. QED BY <2>1, AskingMoves
<1>5. CASE \E p \in Providers : Model!Request(p) BY <1>5, RequestSent
<1>6. QED BY <1>1, <1>2, <1>3, <1>4, <1>5 DEF Model!AdapterNext

(* What was counted, and what an adapter hands on. *)
LEMMA AdapterPromise ==
  ASSUME AdapterInv
  PROVE  /\ Model!HistoryStaysSendable /\ Model!ContractsAreAnsweredInJson
         /\ Model!UsageIsTheWholePrompt
  BY DEF AdapterInv, UsageInv

------------------------------------------------------------
(* What the parts hand on, composed as before: each part takes a step of *)
(* its own or rests. *)

LEMMA EachPart ==
  ASSUME Next
  PROVE  /\ Run!RunNext \/ UNCHANGED runPart
         /\ Policy!PolicyNext \/ UNCHANGED policyPart
         /\ Watch!HookNext \/ UNCHANGED hooksPart
         /\ Judge!VerifierNext \/ UNCHANGED verifierPart
         /\ Team!EnvelopeNext \/ UNCHANGED envelopesPart
         /\ Team!TeamNext \/ UNCHANGED teamPart
         /\ Model!ChainNext \/ UNCHANGED fallbackPart
         /\ \/ Work!CoordinatorNext \/ Work!SwarmNext \/ Work!BatchNext
            \/ UNCHANGED workersPart
         /\ Judge!BenefitNext \/ UNCHANGED benefitPart
         /\ Rag!GroundedNext \/ UNCHANGED groundedPart
         /\ Pricing!PricingNext \/ UNCHANGED pricingPart
         /\ Loop!ReflectionNext \/ UNCHANGED reflectionPart
         /\ Box!SandboxNext \/ UNCHANGED sandboxPart
         /\ Model!AdapterNext \/ UNCHANGED adaptersPart
<1>1. CASE RunStep \/ PolicyStep \/ HooksStep \/ SpansStep \/ VerifierStep
  BY <1>1 DEF RunStep, PolicyStep, HooksStep, SpansStep, VerifierStep, Rest
<1>2. CASE EnvelopesStep \/ TeamStep \/ FallbackStep \/ PipelineStep
  BY <1>2 DEF EnvelopesStep, TeamStep, FallbackStep, PipelineStep, Rest
<1>3. CASE CoordinatorStep \/ SwarmStep \/ BatchStep \/ BenefitStep
  BY <1>3 DEF CoordinatorStep, SwarmStep, BatchStep, BenefitStep, Rest
<1>4. CASE GroundedStep \/ PricingStep \/ ReflectionStep \/ SandboxStep
  BY <1>4 DEF GroundedStep, PricingStep, ReflectionStep, SandboxStep, Rest
<1>5. CASE AdaptersStep \/ ServerStep BY <1>5 DEF AdaptersStep, ServerStep, Rest
<1>6. QED BY <1>1, <1>2, <1>3, <1>4, <1>5 DEF Next

HistoryInv == CallsInv /\ HookInv /\ AdapterInv

LEMMA CallsRest == ASSUME CallsInv, UNCHANGED runPart PROVE CallsInv'
<1>1. UNCHANGED <<policyMode, pc, calls, seen, batch, unanswered, executed>> BY DEF runPart
<1>2. QED BY <1>1 DEF CallsInv, BatchTypes, OpenCalls, CallsPaid, Run!Working

LEMMA HooksRest == ASSUME HookInv, UNCHANGED hooksPart PROVE HookInv'
<1>1. UNCHANGED <<hooks, emit, delivered>> BY DEF hooksPart
<1>2. QED BY <1>1 DEF HookInv

LEMMA AdaptersRest == ASSUME AdapterInv, UNCHANGED adaptersPart PROVE AdapterInv'
<1>1. UNCHANGED <<dialogue, wants, asking, repeated, counted>> BY DEF adaptersPart
<1>2. QED BY <1>1 DEF AdapterInv, DialogueInv, UsageInv, Model!UsageIsTheWholePrompt,
     Model!HistoryStaysSendable, Model!ContractsAreAnsweredInJson

(* Whichever part acts: exactly the calls of a run that are still to be *)
(* handled are open, none ran twice or beyond its budget; an event was *)
(* judged by the hooks that ran, in their order; and the identifiers of a *)
(* dialogue name one call each and were made up from the whole of what was *)
(* sent (engine.py, runtime/hooks.py, the adapters). *)
THEOREM HistoryInvariant == Spec => []HistoryInv
<1>1. Init => HistoryInv BY CallsStart, HookStart, AdapterStart DEF Init, HistoryInv
<1>2. HistoryInv /\ [Next]_vars => HistoryInv'
  <2>1. ASSUME HistoryInv, Next PROVE HistoryInv'
    BY <2>1, EachPart, CallsNextStep, HookNextStep, AdapterNextStep, CallsRest, HooksRest,
       AdaptersRest DEF HistoryInv
  <2>2. ASSUME HistoryInv, UNCHANGED vars PROVE HistoryInv'
    <3>1. UNCHANGED runPart /\ UNCHANGED hooksPart /\ UNCHANGED adaptersPart BY <2>2 DEF vars
    <3>2. QED BY <2>2, <3>1, CallsRest, HooksRest, AdaptersRest DEF HistoryInv
  <2>3. QED BY <2>1, <2>2
<1>3. QED BY <1>1, <1>2, PTL DEF Spec

(* Every tool call of a history is answered before the model is asked *)
(* again, a dialogue one adapter built can be sent by every other unless a *)
(* server repeated an identifier, a contract's answer reaches the validator *)
(* as JSON, and an event reaches the sink unless a hook blocked it, *)
(* sanitized, in the order of the hooks' priorities (engine.py:566-858, the *)
(* adapters, runtime/hooks.py). *)
THEOREM HistoryWellFormed == Spec => []HistoryStaysWellFormed
<1>1. HistoryInv => HistoryStaysWellFormed
  BY CallsPromise, HookPromise, AdapterPromise DEF HistoryInv, HistoryStaysWellFormed
<1>2. QED BY <1>1, HistoryInvariant, PTL

------------------------------------------------------------
(* The workers: the queue of the swarm and the batch of tool calls. *)

SwarmInv ==
    /\ claimed \in Seq(Nat \X Workers) /\ taskQueue \in Seq(Nat)
    /\ \A i \in 1..Len(claimed) : claimed[i][1] = i
    /\ \A i \in 1..Len(taskQueue) : taskQueue[i] = Len(claimed) + i

(* While a call that is not safe runs, all safe ones and all before it have *)
(* ended. *)
WaveInv ==
    /\ wave = [i \in DOMAIN BatchCalls |-> wave[i]]
    /\ \A i \in DOMAIN BatchCalls :
           wave[i] = "running" /\ ~Work!Safe(BatchCalls[i]) =>
               \A j \in DOMAIN BatchCalls :
                   Work!Safe(BatchCalls[j]) \/ j < i => Work!Ended(j)

WorkersInv == SwarmInv /\ WaveInv

LEMMA WorkersStart == ASSUME Work!WorkersInit PROVE WorkersInv
<1>1. claimed = <<>> /\ taskQueue = <<>> /\ wave = [i \in DOMAIN BatchCalls |-> "waiting"]
  BY DEF Work!WorkersInit
<1>2. SwarmInv BY <1>1 DEF SwarmInv
<1>3. WaveInv BY <1>1 DEF WaveInv
<1>4. QED BY <1>2, <1>3 DEF WorkersInv

LEMMA WaveRests == ASSUME WaveInv, wave' = wave PROVE WaveInv'
  BY DEF WaveInv, Work!Ended

LEMMA TaskSubmitted == ASSUME SwarmInv, Work!SubmitTask PROVE SwarmInv'
<1>1. PICK q, c, m : q = taskQueue /\ c = Len(claimed) /\ m = Len(taskQueue) OBVIOUS
<1>2. q \in Seq(Nat) /\ c \in Nat /\ m \in Nat /\ m = Len(q) /\ m + c + 1 \in Nat
  BY <1>1 DEF SwarmInv
<1>3. PICK n : n = m + c + 1 OBVIOUS
<1>4. PICK r : r = Append(q, n) OBVIOUS
<1>5. taskQueue' = r /\ claimed' = claimed BY <1>1, <1>3, <1>4 DEF Work!SubmitTask
<1>6. /\ r \in Seq(Nat) /\ Len(r) = m + 1 /\ r[m + 1] = n
      /\ \A i \in 1..m : r[i] = q[i]
  BY <1>2, <1>3, <1>4
<1>7. \A i \in 1..m + 1 : i \in 1..m \/ i = m + 1 BY <1>2
<1>8. \A i \in 1..m + 1 : r[i] = c + i
  <2>1. \A i \in 1..m : q[i] = c + i BY <1>1 DEF SwarmInv
  <2>2. c + (m + 1) = n BY <1>2, <1>3
  <2>3. QED BY <1>6, <1>7, <2>1, <2>2
<1>9. QED BY <1>1, <1>5, <1>6, <1>8 DEF SwarmInv

LEMMA TaskClaimed == ASSUME SwarmInv, NEW w \in Workers, Work!ClaimTask(w) PROVE SwarmInv'
<1>1. PICK q, c, k, m : q = taskQueue /\ c = claimed /\ k = Len(claimed) /\ m = Len(taskQueue)
  OBVIOUS
<1>2. /\ q \in Seq(Nat) /\ q # <<>> /\ m = Len(q) /\ m \in Nat
      /\ c \in Seq(Nat \X Workers) /\ k = Len(c) /\ k \in Nat
  BY <1>1 DEF SwarmInv, Work!ClaimTask
<1>3. m >= 1 /\ Head(q) = q[1] /\ Head(q) \in Nat BY <1>2
<1>4. PICK h, x, t, d : h = Head(q) /\ x = <<h, w>> /\ t = Tail(q) /\ d = Append(c, x) OBVIOUS
<1>5. taskQueue' = t /\ claimed' = d BY <1>1, <1>4 DEF Work!ClaimTask
<1>6. h = k + 1 BY <1>1, <1>2, <1>3, <1>4 DEF SwarmInv
<1>7. x \in Nat \X Workers /\ x[1] = k + 1 BY <1>3, <1>4, <1>6
<1>8. /\ d \in Seq(Nat \X Workers) /\ Len(d) = k + 1 /\ d[k + 1] = x
      /\ \A i \in 1..k : d[i] = c[i]
  BY <1>2, <1>4, <1>7
<1>9. t \in Seq(Nat) /\ Len(t) = m - 1 /\ \A i \in 1..m - 1 : t[i] = q[i + 1] BY <1>2, <1>3, <1>4
<1>10. \A i \in 1..k + 1 : i \in 1..k \/ i = k + 1 BY <1>2
<1>11. \A i \in 1..k + 1 : d[i][1] = i BY <1>1, <1>7, <1>8, <1>10 DEF SwarmInv
<1>12. ASSUME NEW i \in 1..m - 1 PROVE t[i] = (k + 1) + i
  <2>1. i + 1 \in 1..m BY <1>2
  <2>2. q[i + 1] = k + (i + 1) BY <1>1, <2>1 DEF SwarmInv
  <2>3. QED BY <1>2, <1>9, <2>2
<1>13. QED BY <1>5, <1>8, <1>9, <1>11, <1>12 DEF SwarmInv

LEMMA CallStarts ==
  ASSUME WaveInv, NEW i \in DOMAIN BatchCalls, Work!StartCall(i)
  PROVE  WaveInv'
<1>1. /\ wave[i] = "waiting" /\ wave' = [wave EXCEPT ![i] = "running"]
      /\ ~Work!Safe(BatchCalls[i]) =>
             \A j \in DOMAIN BatchCalls :
                 Work!Safe(BatchCalls[j]) \/ j < i => wave[j] \in {"done", "failed"}
  BY DEF Work!StartCall, Work!Ended
<1>2. /\ wave' = [j \in DOMAIN BatchCalls |-> wave'[j]] /\ wave'[i] = "running"
      /\ \A j \in DOMAIN BatchCalls : j # i => wave'[j] = wave[j]
  BY <1>1 DEF WaveInv
<1>3. \A j \in DOMAIN BatchCalls : wave[j] \in {"done", "failed"} => wave'[j] \in {"done", "failed"}
  BY <1>1, <1>2
<1>4. ASSUME NEW k \in DOMAIN BatchCalls, wave'[k] = "running", ~Work!Safe(BatchCalls[k]),
             NEW j \in DOMAIN BatchCalls, Work!Safe(BatchCalls[j]) \/ j < k
      PROVE  wave'[j] \in {"done", "failed"}
  <2>1. CASE k = i BY <1>1, <1>3, <1>4, <2>1
  <2>2. CASE k # i BY <1>2, <1>3, <1>4, <2>2 DEF WaveInv, Work!Ended
  <2>3. QED BY <2>1, <2>2
<1>5. QED BY <1>2, <1>4 DEF WaveInv, Work!Ended

LEMMA CallEnds ==
  ASSUME WaveInv, NEW i \in DOMAIN BatchCalls, NEW ok \in BOOLEAN, Work!EndCall(i, ok)
  PROVE  WaveInv'
<1>1. wave[i] = "running" BY DEF Work!EndCall
<1>2. /\ wave' = [j \in DOMAIN BatchCalls |-> wave'[j]]
      /\ wave'[i] # "running"
      /\ \A j \in DOMAIN BatchCalls :
             j # i => wave'[j] = wave[j] \/ (wave[j] = "waiting" /\ wave'[j] = "aborted")
  BY DEF Work!EndCall, WaveInv
<1>3. \A j \in DOMAIN BatchCalls :
          /\ wave[j] \in {"done", "failed"} => wave'[j] \in {"done", "failed"}
          /\ wave'[j] = "running" => wave[j] = "running"
  BY <1>1, <1>2
<1>4. QED BY <1>2, <1>3 DEF WaveInv, Work!Ended

LEMMA WorkersNextStep ==
  ASSUME WorkersInv, Work!CoordinatorNext \/ Work!SwarmNext \/ Work!BatchNext
  PROVE  WorkersInv'
<1>1. CASE UNCHANGED <<taskQueue, claimed, wave>> BY <1>1, WaveRests DEF WorkersInv, SwarmInv
<1>2. CASE Work!CoordinatorNext
  BY <1>1, <1>2 DEF Work!CoordinatorNext, Work!StartWorker, Work!EndWorker,
     Work!Gather, Work!Fork
<1>3. CASE Work!SubmitTask BY <1>3, TaskSubmitted, WaveRests DEF WorkersInv, Work!SubmitTask
<1>4. ASSUME NEW w \in Workers, Work!ClaimTask(w) PROVE WorkersInv'
  BY <1>4, TaskClaimed, WaveRests DEF WorkersInv, Work!ClaimTask
<1>5. ASSUME NEW w \in Workers,
             Work!RegisterPeer(w) \/ Work!UnregisterPeer(w) \/ Work!PostResult(w)
      PROVE  WorkersInv'
  BY <1>1, <1>5 DEF Work!RegisterPeer, Work!UnregisterPeer, Work!PostResult
<1>6. CASE Work!SwarmNext BY <1>3, <1>4, <1>5, <1>6 DEF Work!SwarmNext
<1>7. ASSUME NEW i \in DOMAIN BatchCalls, Work!StartCall(i) PROVE WorkersInv'
  BY <1>7, CallStarts DEF WorkersInv, SwarmInv, Work!StartCall
<1>8. ASSUME NEW i \in DOMAIN BatchCalls, NEW ok \in BOOLEAN, Work!EndCall(i, ok)
      PROVE  WorkersInv'
  BY <1>8, CallEnds DEF WorkersInv, SwarmInv, Work!EndCall
<1>9. CASE Work!BatchNext BY <1>7, <1>8, <1>9 DEF Work!BatchNext
<1>10. QED BY <1>2, <1>6, <1>9

LEMMA WorkersRest == ASSUME WorkersInv, UNCHANGED workersPart PROVE WorkersInv'
<1>1. UNCHANGED <<taskQueue, claimed, wave>> BY DEF workersPart
<1>2. QED BY <1>1, WaveRests DEF WorkersInv, SwarmInv

LEMMA WorkersPromise ==
  ASSUME WorkersInv
  PROVE  Work!ClaimedOnceInOrder /\ Work!UnsafeCallsRunAlone
<1>1. Work!ClaimedOnceInOrder
  <2>1. DOMAIN claimed = 1..Len(claimed) /\ \A i \in 1..Len(claimed) : claimed[i][1] = i
    BY DEF WorkersInv, SwarmInv
  <2>2. QED BY <2>1 DEF Work!ClaimedOnceInOrder
<1>2. ASSUME NEW i \in DOMAIN BatchCalls, NEW j \in DOMAIN BatchCalls,
             wave[i] = "running", wave[j] = "running", i # j
      PROVE  Work!Safe(BatchCalls[i])
  <2>1. i \in Nat /\ j \in Nat BY BatchAssumption
  <2>2. ~Work!Ended(i) /\ ~Work!Ended(j) BY <1>2 DEF Work!Ended
  <2>3. SUFFICES ASSUME ~Work!Safe(BatchCalls[i]) PROVE FALSE OBVIOUS
  <2>4. ~Work!Safe(BatchCalls[j]) /\ ~(j < i) BY <1>2, <2>2, <2>3 DEF WorkersInv, WaveInv
  <2>5. i < j BY <1>2, <2>1, <2>4
  <2>6. QED BY <1>2, <2>2, <2>4, <2>5 DEF WorkersInv, WaveInv
<1>3. Work!UnsafeCallsRunAlone BY <1>2 DEF Work!UnsafeCallsRunAlone, Work!Safe
<1>4. QED BY <1>1, <1>3

------------------------------------------------------------
(* The signed envelopes: one nonce stands for one payload, and its receipt *)
(* is kept until no process would accept the envelope any more. *)

Envelopes ==
    [nonce : Nonces, child : ChildRuns, context : ChildRuns, issued : Int, key : {ActiveKey},
     signature : ChildRuns \X ChildRuns \X Int \X Nonces \X {ActiveKey}]

(* An accepted envelope: its receipt is there, or it is too old. *)
Spent(a) ==
    \E x \in sent :
        /\ x.nonce = a.nonce /\ x.child = a.child /\ x.signature = Team!Payload(x)
        /\ \/ \E r \in receipts : r.nonce = a.nonce /\ r.issued = x.issued
           \/ x.issued < wall - MaxAge - FutureSkew

EnvelopeInv ==
    /\ wall \in Int /\ sent \subseteq Envelopes /\ \A r \in receipts : r.issued \in Int
    /\ \A x, y \in sent : x.nonce = y.nonce => x.signature = y.signature
    /\ \A a \in accepted : a.nth = 1 /\ Spent(a)

LEMMA EnvelopeStart == ASSUME Team!EnvelopeInit PROVE EnvelopeInv
  BY DEF Team!EnvelopeInit, EnvelopeInv

LEMMA EnvelopeSent ==
  ASSUME EnvelopeInv, NEW y \in Envelopes, sent' = sent \cup {y},
         \A x \in sent : x.nonce = y.nonce => x.signature = y.signature,
         UNCHANGED <<wall, receipts, accepted>>
  PROVE  EnvelopeInv'
<1>1. \A a \in accepted : Spent(a)' BY DEF EnvelopeInv, Spent
<1>2. \A x, z \in sent' : x.nonce = z.nonce => x.signature = z.signature BY DEF EnvelopeInv
<1>3. QED BY <1>1, <1>2 DEF EnvelopeInv

LEMMA EnvelopeIssued ==
  ASSUME EnvelopeInv, NEW n \in Nonces, NEW c \in ChildRuns, Team!Issue(n, c)
  PROVE  EnvelopeInv'
<1>1. PICK now, s : now = wall /\ s = <<c, c, now, n, ActiveKey>> OBVIOUS
<1>2. now \in Int /\ s \in ChildRuns \X ChildRuns \X Int \X Nonces \X {ActiveKey}
  BY <1>1 DEF EnvelopeInv
<1>3. PICK y : y = [nonce |-> n, child |-> c, context |-> c, issued |-> now,
                    key |-> ActiveKey, signature |-> s] OBVIOUS
<1>4. y \in Envelopes /\ y.nonce = n BY <1>2, <1>3 DEF Envelopes
<1>5. /\ \A x \in sent : x.nonce # n
      /\ sent' = sent \cup {y} /\ UNCHANGED <<wall, receipts, accepted>>
  BY <1>1, <1>3 DEF Team!Issue, Team!Payload
<1>6. QED BY <1>4, <1>5, EnvelopeSent

LEMMA EnvelopeAltered ==
  ASSUME EnvelopeInv, NEW e \in sent, NEW c \in ChildRuns, NEW t \in {e.issued, wall},
         Team!Alter(e, c, t)
  PROVE  EnvelopeInv'
<1>1. e \in Envelopes /\ t \in Int BY DEF EnvelopeInv, Envelopes
<1>2. PICK y : y = [e EXCEPT !.child = c, !.context = c, !.issued = t] OBVIOUS
<1>3. y \in Envelopes /\ y.nonce = e.nonce /\ y.signature = e.signature BY <1>1, <1>2 DEF Envelopes
<1>4. sent' = sent \cup {y} /\ UNCHANGED <<wall, receipts, accepted>> BY <1>2 DEF Team!Alter
<1>5. \A x \in sent : x.nonce = y.nonce => x.signature = y.signature BY <1>3 DEF EnvelopeInv
<1>6. QED BY <1>3, <1>4, <1>5, EnvelopeSent

(* Two authentic envelopes with one nonce are of one time. *)
LEMMA OnePayload ==
  ASSUME EnvelopeInv, NEW x \in sent, NEW y \in sent, x.nonce = y.nonce,
         x.signature = Team!Payload(x), y.signature = Team!Payload(y)
  PROVE  x.issued = y.issued /\ x.child = y.child
<1>1. Team!Payload(x) = Team!Payload(y) BY DEF EnvelopeInv
<1>2. QED BY <1>1 DEF Team!Payload

LEMMA EnvelopeConsumed ==
  ASSUME EnvelopeInv, NEW e \in sent, NEW c \in ChildRuns, NEW lag \in 0..FutureSkew,
         Team!VerifyAndConsume(e, c, lag)
  PROVE  EnvelopeInv'
<1>1. PICK now, kept : now = wall - lag /\ kept = Team!Kept(now) OBVIOUS
<1>2. /\ wall \in Int /\ now \in Int /\ now <= wall /\ now >= wall - FutureSkew
      /\ MaxAge \in Nat /\ FutureSkew \in Nat
  BY <1>1, EnvelopeAssumption DEF EnvelopeInv
<1>3. PICK x : x = [nonce |-> e.nonce, issued |-> e.issued] OBVIOUS
<1>4. PICK a1 : a1 = [nonce |-> e.nonce, child |-> e.child,
                      nth |-> 1 + Cardinality({a \in accepted : a.nonce = e.nonce})] OBVIOUS
<1>5. /\ e.signature = Team!Payload(e) /\ now - MaxAge <= e.issued
      /\ \A r \in kept : r.nonce # e.nonce
      /\ receipts' = kept \cup {x} /\ accepted' = accepted \cup {a1}
      /\ UNCHANGED <<wall, sent>>
  <2>1. \A S : Team!Cardinality(S) = Cardinality(S) BY DEF Team!Cardinality, Cardinality
  <2>2. QED BY <1>1, <1>3, <1>4, <2>1 DEF Team!VerifyAndConsume, Team!Authentic,
       Team!Fresh
<1>6. e \in Envelopes /\ e.issued \in Int BY DEF EnvelopeInv, Envelopes
<1>7. \A r \in receipts : r \in kept \/ r.issued < now - MaxAge - FutureSkew
  BY <1>1 DEF Team!Kept
<1>8. ASSUME NEW a \in accepted, a.nonce = e.nonce PROVE FALSE
  <2>1. PICK y \in sent :
          /\ y.nonce = a.nonce /\ y.signature = Team!Payload(y)
          /\ \/ \E r \in receipts : r.nonce = a.nonce /\ r.issued = y.issued
             \/ y.issued < wall - MaxAge - FutureSkew
    BY DEF EnvelopeInv, Spent
  <2>2. y.issued = e.issued BY <1>5, <1>8, <2>1, OnePayload
  <2>3. ~(e.issued < wall - MaxAge - FutureSkew) /\ ~(e.issued < now - MaxAge - FutureSkew)
    BY <1>2, <1>5, <1>6
  <2>4. PICK r \in receipts : r.nonce = a.nonce /\ r.issued = e.issued BY <2>1, <2>2, <2>3
  <2>5. r \in kept BY <1>7, <2>3, <2>4
  <2>6. QED BY <1>5, <1>8, <2>4, <2>5
<1>9. {a \in accepted : a.nonce = e.nonce} = {} BY <1>8
<1>10. a1.nth = 1 /\ a1.nonce = e.nonce /\ a1.child = e.child
  <2>1. Cardinality({a \in accepted : a.nonce = e.nonce}) = 0 BY <1>9, FS_EmptySet
  <2>2. QED BY <1>4, <2>1
<1>11. x.nonce = e.nonce /\ x.issued = e.issued BY <1>3
<1>12. Spent(a1)' BY <1>5, <1>10, <1>11 DEF Spent
<1>13. ASSUME NEW a \in accepted PROVE Spent(a)'
  <2>1. PICK y \in sent :
          /\ y.nonce = a.nonce /\ y.child = a.child /\ y.signature = Team!Payload(y)
          /\ \/ \E r \in receipts : r.nonce = a.nonce /\ r.issued = y.issued
             \/ y.issued < wall - MaxAge - FutureSkew
    BY DEF EnvelopeInv, Spent
  <2>2. y.issued \in Int BY DEF EnvelopeInv, Envelopes
  <2>3. CASE y.issued < wall - MaxAge - FutureSkew BY <1>5, <2>1, <2>3 DEF Spent
  <2>4. ASSUME NEW r \in receipts, r.nonce = a.nonce, r.issued = y.issued PROVE Spent(a)'
    <3>1. CASE r \in kept BY <1>5, <2>1, <2>4, <3>1 DEF Spent
    <3>2. CASE r.issued < now - MaxAge - FutureSkew
      <4>1. y.issued < wall - MaxAge - FutureSkew BY <1>2, <2>2, <2>4, <3>2
      <4>2. QED BY <2>3, <4>1
    <3>3. QED BY <1>7, <3>1, <3>2
  <2>5. QED BY <2>1, <2>3, <2>4
<1>14. \A r \in receipts' : r.issued \in Int
  BY <1>1, <1>5, <1>6, <1>11 DEF EnvelopeInv, Team!Kept
<1>15. QED BY <1>5, <1>10, <1>12, <1>13, <1>14 DEF EnvelopeInv

LEMMA EnvelopeNextStep == ASSUME EnvelopeInv, Team!EnvelopeNext PROVE EnvelopeInv'
<1>1. CASE Team!EnvelopeTick
  <2>1. wall' = wall + 1 /\ UNCHANGED <<sent, receipts, accepted>> /\ wall \in Int
        /\ MaxAge \in Nat /\ FutureSkew \in Nat
    BY <1>1, EnvelopeAssumption DEF Team!EnvelopeTick, EnvelopeInv
  <2>2. \A i \in Int : i < wall - MaxAge - FutureSkew => i < wall' - MaxAge - FutureSkew BY <2>1
  <2>3. \A x \in sent : x.issued \in Int BY DEF EnvelopeInv, Envelopes
  <2>4. \A a \in accepted : Spent(a) => Spent(a)' BY <2>1, <2>2, <2>3 DEF Spent
  <2>5. QED BY <2>1, <2>4 DEF EnvelopeInv
<1>2. QED BY <1>1, EnvelopeIssued, EnvelopeAltered, EnvelopeConsumed DEF Team!EnvelopeNext

LEMMA EnvelopesRest == ASSUME EnvelopeInv, UNCHANGED envelopesPart PROVE EnvelopeInv'
<1>1. UNCHANGED <<wall, sent, receipts, accepted>> BY DEF envelopesPart
<1>2. QED BY <1>1 DEF EnvelopeInv, Spent

LEMMA EnvelopePromise ==
  ASSUME EnvelopeInv
  PROVE  Team!ConsumedOnce /\ Team!SignedForThisChild
  BY DEF EnvelopeInv, Spent, Team!ConsumedOnce, Team!SignedForThisChild

------------------------------------------------------------
(* The team of a request. *)

LEMMA Appended ==
  ASSUME NEW s, s \in Seq(Range(s)), NEW x, NEW t, t = Append(s, x)
  PROVE  /\ t \in Seq(Range(t)) /\ Len(s) \in Nat /\ Len(t) = Len(s) + 1
         /\ DOMAIN s = 1..Len(s) /\ DOMAIN t = 1..Len(s) + 1 /\ t[Len(s) + 1] = x
         /\ \A i \in 1..Len(s) : t[i] = s[i]
<1>1. s \in Seq(Range(s) \cup {x}) /\ x \in Range(s) \cup {x} OBVIOUS
<1>2. /\ Len(s) \in Nat /\ Len(t) = Len(s) + 1 /\ DOMAIN t = 1..Len(s) + 1
      /\ DOMAIN s = 1..Len(s) /\ t[Len(s) + 1] = x /\ \A i \in 1..Len(s) : t[i] = s[i]
      /\ t \in Seq(Range(s) \cup {x})
  BY <1>1
<1>3. t \in Seq(Range(t)) BY <1>2 DEF Range
<1>4. QED BY <1>2, <1>3

(* How often a member occurs in a sequence. *)
Times(s, x) == Cardinality({i \in DOMAIN s : s[i] = x})

OnceMore(s, x, t) ==
    /\ Times(t, x) = Times(s, x) + 1 /\ \A y : Times(s, y) \in Nat
    /\ \A y : y # x => Times(t, y) = Times(s, y)

LEMMA OneMoreTime ==
  ASSUME NEW s, s \in Seq(Range(s)), NEW x, NEW t, t = Append(s, x)
  PROVE  OnceMore(s, x, t)
<1>1. /\ Len(s) \in Nat /\ DOMAIN s = 1..Len(s) /\ DOMAIN t = 1..Len(s) + 1
      /\ t[Len(s) + 1] = x /\ \A i \in 1..Len(s) : t[i] = s[i]
  BY Appended
<1>2. PICK n : n = Len(s) OBVIOUS
<1>3. \A y : IsFiniteSet({i \in DOMAIN s : s[i] = y}) /\ Times(s, y) \in Nat
  <2>1. IsFiniteSet(1..Len(s)) BY <1>1, FS_Interval
  <2>2. \A y : IsFiniteSet({i \in DOMAIN s : s[i] = y}) BY <1>1, <2>1, FS_Subset
  <2>3. QED BY <2>2, FS_CardinalityType DEF Times
<1>4. {i \in DOMAIN t : t[i] = x} = {i \in DOMAIN s : s[i] = x} \cup {n + 1}
      /\ n + 1 \notin {i \in DOMAIN s : s[i] = x}
  BY <1>1, <1>2
<1>5. Times(t, x) = Times(s, x) + 1
  <2>1. PICK A : A = {i \in DOMAIN s : s[i] = x} OBVIOUS
  <2>2. IsFiniteSet(A) /\ n + 1 \notin A /\ {i \in DOMAIN t : t[i] = x} = A \cup {n + 1}
    BY <1>3, <1>4, <2>1
  <2>3. Cardinality(A \cup {n + 1}) = Cardinality(A) + 1 BY <2>2, FS_AddElement
  <2>4. QED BY <2>1, <2>2, <2>3 DEF Times
<1>6. ASSUME NEW y, y # x PROVE Times(t, y) = Times(s, y)
  <2>1. {i \in DOMAIN t : t[i] = y} = {i \in DOMAIN s : s[i] = y} BY <1>1, <1>6
  <2>2. QED BY <2>1 DEF Times
<1>7. QED BY <1>3, <1>5, <1>6 DEF OnceMore

LEMMA AnnouncedTimes == \A kind, p : Team!Announced(kind, p) = Times(teamEvents, <<kind, p>>)
<1>1. \A S : Team!Cardinality(S) = Cardinality(S) BY DEF Team!Cardinality, Cardinality
<1>2. QED BY <1>1 DEF Team!Announced, Times

ProfileNames == {Profiles[i] : i \in DOMAIN Profiles}

(* The time of the children and what they may use. *)
ChildrenInv ==
    /\ elapsed \in Int /\ elapsed <= TotalSeconds + CleanupSeconds
    /\ child # Team!NoChild => child.limit \in Int /\ child.limit <= TotalSeconds - elapsed
    /\ child.tools \in {{}, Team!BuildRegistry}

Under(p) == IF child # Team!NoChild /\ child.profile = p THEN 1 ELSE 0

(* What was announced: the child under way is the one not completed. *)
AnnouncedInv ==
    /\ query.children \in 1..2 /\ todo \in Seq(ProfileNames)
    /\ teamEvents \in Seq(Range(teamEvents))
    /\ \A p : Times(teamEvents, <<"requested", p>>)
                  = Times(teamEvents, <<"completed", p>>) + Under(p)

(* What was told, once it is. *)
ToldInv ==
    /\ findings \in Seq(Range(findings))
    /\ route.mode = "none" =>
           todo = <<>> /\ child = Team!NoChild /\ findings = <<>> /\ ~teamOutcome.ready
    /\ teamOutcome.ready =>
           /\ todo = <<>> /\ child = Team!NoChild
           /\ \A i \in DOMAIN teamOutcome.told :
                  teamOutcome.told[i].finding => findings[i].status = "completed"
           /\ (\E i \in DOMAIN findings : findings[i].status # "completed")
                  => teamOutcome.degraded

TeamInv == ChildrenInv /\ AnnouncedInv /\ ToldInv

LEMMA TeamStart == ASSUME Team!TeamInit PROVE TeamInv
<1>1. /\ query \in Team!Queries /\ route = [mode |-> "none"] /\ todo = <<>>
      /\ child = Team!NoChild /\ findings = <<>> /\ teamEvents = <<>> /\ elapsed = 0
      /\ teamOutcome = [ready |-> FALSE]
  BY DEF Team!TeamInit
<1>2. child.tools = {} /\ query.children \in 1..2 /\ ~teamOutcome.ready /\ route.mode = "none"
  BY <1>1 DEF Team!NoChild, Team!Queries
<1>3. ChildrenInv BY <1>1, <1>2, TeamAssumption DEF ChildrenInv
<1>4. \A y : Times(teamEvents, y) = 0
  <2>1. \A y : {i \in DOMAIN teamEvents : teamEvents[i] = y} = {} BY <1>1
  <2>2. QED BY <2>1, FS_EmptySet DEF Times
<1>5. \A p : Under(p) = 0 BY <1>1 DEF Under
<1>6. <<>> \in Seq(Range(<<>>)) /\ <<>> \in Seq(ProfileNames) OBVIOUS
<1>7. AnnouncedInv BY <1>1, <1>2, <1>4, <1>5, <1>6 DEF AnnouncedInv
<1>8. ToldInv BY <1>1, <1>2, <1>6 DEF ToldInv
<1>9. QED BY <1>3, <1>7, <1>8 DEF TeamInv

LEMMA TeamRouted == ASSUME TeamInv, Team!Route PROVE TeamInv'
<1>1. PICK d : d = Team!ResolveExecutionMode(query) OBVIOUS
<1>2. d.mode \in {"single", "team"} BY <1>1 DEF Team!ResolveExecutionMode
<1>3. PICK x, o : x = <<"routed", d.mode>>
                  /\ o = [ready |-> TRUE, degraded |-> d.degraded, told |-> <<>>] OBVIOUS
<1>4. /\ route.mode = "none" /\ route' = d /\ teamEvents' = Append(teamEvents, x)
      /\ todo' = IF d.mode = "team" THEN SubSeq(Profiles, 1, query.children) ELSE <<>>
      /\ teamOutcome' = IF d.mode = "single" THEN o ELSE teamOutcome
      /\ UNCHANGED <<query, child, findings, elapsed>>
  BY <1>1, <1>3 DEF Team!Route, Team!PilotPlan
<1>5. ChildrenInv' BY <1>4 DEF TeamInv, ChildrenInv
<1>6. todo' \in Seq(ProfileNames)
  <2>1. PICK n : n = query.children OBVIOUS
  <2>2. n \in 1..Len(Profiles) /\ n \in Nat BY <2>1, TeamAssumption DEF TeamInv, AnnouncedInv
  <2>3. SubSeq(Profiles, 1, n) = [i \in 1..n |-> Profiles[i]] BY <2>2, TeamAssumption
  <2>4. \A i \in 1..n : Profiles[i] \in ProfileNames BY <2>2, TeamAssumption DEF ProfileNames
  <2>5. [i \in 1..n |-> Profiles[i]] \in Seq(ProfileNames) BY <2>2, <2>4
  <2>6. <<>> \in Seq(ProfileNames) OBVIOUS
  <2>7. QED BY <1>4, <2>1, <2>3, <2>5, <2>6
<1>7. \A p : x # <<"requested", p>> /\ x # <<"completed", p>> BY <1>3
<1>8. AnnouncedInv'
  <2>1. PICK s, t : s = teamEvents /\ t = teamEvents' OBVIOUS
  <2>2. s \in Seq(Range(s)) /\ t = Append(s, x) BY <1>4, <2>1 DEF TeamInv, AnnouncedInv
  <2>3. t \in Seq(Range(t)) /\ \A y : y # x => Times(t, y) = Times(s, y)
    <3>1. t \in Seq(Range(t)) BY <2>2, Appended
    <3>2. \A y : y # x => Times(t, y) = Times(s, y)
      <4>1. OnceMore(s, x, t) BY <2>2, OneMoreTime
      <4>2. QED BY <4>1 DEF OnceMore
    <3>3. QED BY <3>1, <3>2
  <2>4. \A p : Under(p)' = Under(p) BY <1>4 DEF Under
  <2>5. \A p : Times(t, <<"requested", p>>) = Times(t, <<"completed", p>>) + Under(p)'
    BY <1>7, <2>1, <2>3, <2>4 DEF TeamInv, AnnouncedInv
  <2>6. QED BY <1>4, <1>6, <2>1, <2>3, <2>5 DEF TeamInv, AnnouncedInv
<1>9. child = Team!NoChild /\ findings = <<>> /\ ~teamOutcome.ready /\ findings \in Seq(Range(findings))
  BY <1>4 DEF TeamInv, ToldInv
<1>10. CASE d.mode = "team"
  <2>1. ToldInv' BY <1>2, <1>4, <1>9, <1>10 DEF ToldInv
  <2>2. QED BY <1>5, <1>8, <2>1 DEF TeamInv
<1>11. CASE d.mode = "single"
  <2>1. PICK none : none = <<>> OBVIOUS
  <2>2. teamOutcome'.told = none /\ DOMAIN none = {} BY <1>3, <1>4, <1>11, <2>1
  <2>3. todo' = <<>> /\ findings' = <<>> /\ child' = Team!NoChild /\ DOMAIN findings' = {}
    BY <1>4, <1>9, <1>11
  <2>4. route'.mode # "none" BY <1>2, <1>4
  <2>5. ToldInv' BY <1>4, <1>9, <2>2, <2>3, <2>4 DEF ToldInv
  <2>6. QED BY <1>5, <1>8, <2>5 DEF TeamInv
<1>12. QED BY <1>2, <1>10, <1>11

LEMMA TeamBegins == ASSUME TeamInv, Team!Begin PROVE TeamInv'
<1>1. PICK q, h, s : q = todo /\ h = Head(todo) /\ s = teamEvents OBVIOUS
<1>2. PICK left, limit, x : /\ left = TotalSeconds - elapsed /\ limit = Team!ChildLimit(left)
                            /\ x = <<"requested", h>> OBVIOUS
<1>3. PICK c : c = [profile |-> h, limit |-> limit, tools |-> Team!BuildRegistry] OBVIOUS
<1>4. /\ q # <<>> /\ child = Team!NoChild /\ teamEvents' = Append(s, x) /\ todo' = Tail(q)
      /\ child' = c /\ UNCHANGED <<query, route, findings, elapsed, teamOutcome>>
  BY <1>1, <1>2, <1>3 DEF Team!Begin
<1>5. q \in Seq(ProfileNames) /\ s \in Seq(Range(s)) /\ h \in ProfileNames
      /\ Tail(q) \in Seq(ProfileNames)
  BY <1>1, <1>4 DEF TeamInv, AnnouncedInv
<1>6. h # "none" BY <1>5, TeamAssumption DEF ProfileNames
<1>7. c # Team!NoChild /\ c.profile = h /\ c.limit = limit
      /\ c.tools = Team!BuildRegistry
  <2>1. c.profile = h /\ c.limit = limit /\ c.tools = Team!BuildRegistry BY <1>3
  <2>2. Team!NoChild.profile = "none" BY DEF Team!NoChild
  <2>3. QED BY <1>6, <2>1, <2>2
<1>8. left \in Int /\ limit \in Int /\ limit <= left
  <2>1. left \in Int /\ TaskSeconds \in Int BY <1>2, TeamAssumption DEF TeamInv, ChildrenInv
  <2>2. QED BY <1>2, <2>1 DEF Team!ChildLimit, Team!Least
<1>9. ChildrenInv' BY <1>2, <1>4, <1>7, <1>8 DEF TeamInv, ChildrenInv
<1>10. PICK t : t = Append(s, x) OBVIOUS
<1>11. /\ t \in Seq(Range(t)) /\ Times(t, x) = Times(s, x) + 1
       /\ \A y : y # x => Times(t, y) = Times(s, y)
       /\ \A y : Times(s, y) \in Nat
  <2>1. t \in Seq(Range(t)) BY <1>5, <1>10, Appended
  <2>2. /\ Times(t, x) = Times(s, x) + 1 /\ \A y : y # x => Times(t, y) = Times(s, y)
        /\ \A y : Times(s, y) \in Nat
    <3>1. OnceMore(s, x, t) BY <1>5, <1>10, OneMoreTime
    <3>2. QED BY <3>1 DEF OnceMore
  <2>3. QED BY <2>1, <2>2
<1>12. \A p : <<"completed", p>> # x /\ (<<"requested", p>> = x <=> p = h) BY <1>2
<1>13. \A p : Under(p) = 0 /\ Under(p)' = IF p = h THEN 1 ELSE 0 BY <1>4, <1>7 DEF Under
<1>14. ASSUME NEW p
       PROVE  Times(t, <<"requested", p>>) = Times(t, <<"completed", p>>) + Under(p)'
  <2>1. Times(s, <<"requested", p>>) = Times(s, <<"completed", p>>) + 0
    BY <1>1, <1>13 DEF TeamInv, AnnouncedInv
  <2>2. Times(t, <<"completed", p>>) = Times(s, <<"completed", p>>) BY <1>11, <1>12
  <2>3. PICK n, m : n = Times(s, <<"requested", p>>) /\ m = Times(s, <<"completed", p>>) OBVIOUS
  <2>4. n \in Nat /\ m \in Nat /\ n = m BY <1>11, <2>1, <2>3
  <2>5. CASE p = h BY <1>2, <1>11, <1>13, <2>2, <2>3, <2>4, <2>5
  <2>6. CASE p # h
    <3>1. Times(t, <<"requested", p>>) = n BY <1>11, <1>12, <2>3, <2>6
    <3>2. Under(p)' = 0 /\ n = m + 0 BY <1>13, <2>4, <2>6
    <3>3. QED BY <2>2, <2>3, <3>1, <3>2
  <2>7. QED BY <2>5, <2>6
<1>15. AnnouncedInv' BY <1>4, <1>5, <1>10, <1>11, <1>14 DEF TeamInv, AnnouncedInv
<1>16. ToldInv' BY <1>1, <1>4 DEF TeamInv, ToldInv
<1>17. QED BY <1>9, <1>15, <1>16 DEF TeamInv

(* A child ends within what it was given, but for its cleanup. *)
LEMMA TeamFinds ==
  ASSUME TeamInv, child # Team!NoChild, NEW status, NEW content, NEW took \in Int,
         elapsed + took <= TotalSeconds + CleanupSeconds,
         Team!Finding(status, content, took)
  PROVE  TeamInv'
<1>1. PICK h, s, f : h = child.profile /\ s = teamEvents /\ f = findings OBVIOUS
<1>2. PICK x, y : /\ x = <<"completed", h>>
                  /\ y = [profile |-> h, status |-> status, content |-> content] OBVIOUS
<1>3. /\ findings' = Append(f, y) /\ teamEvents' = Append(s, x) /\ elapsed' = elapsed + took
      /\ child' = Team!NoChild /\ UNCHANGED <<query, route, todo, teamOutcome>>
  BY <1>1, <1>2 DEF Team!Finding
<1>4. Team!NoChild.tools = {} BY DEF Team!NoChild
<1>5. ChildrenInv' BY <1>3, <1>4 DEF TeamInv, ChildrenInv
<1>6. s \in Seq(Range(s)) /\ f \in Seq(Range(f)) BY <1>1 DEF TeamInv, AnnouncedInv, ToldInv
<1>7. PICK t : t = Append(s, x) OBVIOUS
<1>8. /\ t \in Seq(Range(t)) /\ Times(t, x) = Times(s, x) + 1
      /\ \A z : z # x => Times(t, z) = Times(s, z)
      /\ \A z : Times(s, z) \in Nat
  <2>1. t \in Seq(Range(t)) BY <1>6, <1>7, Appended
  <2>2. /\ Times(t, x) = Times(s, x) + 1 /\ \A z : z # x => Times(t, z) = Times(s, z)
        /\ \A z : Times(s, z) \in Nat
    <3>1. OnceMore(s, x, t) BY <1>6, <1>7, OneMoreTime
    <3>2. QED BY <3>1 DEF OnceMore
  <2>3. QED BY <2>1, <2>2
<1>9. \A p : <<"requested", p>> # x /\ (<<"completed", p>> = x <=> p = h) BY <1>2
<1>10. \A p : Under(p)' = 0 /\ Under(p) = IF p = h THEN 1 ELSE 0 BY <1>1, <1>3 DEF Under
<1>11. ASSUME NEW p
       PROVE  Times(t, <<"requested", p>>) = Times(t, <<"completed", p>>) + Under(p)'
  <2>1. PICK n, m, u : /\ n = Times(s, <<"requested", p>>) /\ m = Times(s, <<"completed", p>>)
                       /\ u = Under(p) OBVIOUS
  <2>2. n \in Nat /\ m \in Nat /\ n = m + u BY <1>1, <1>8, <2>1 DEF TeamInv, AnnouncedInv
  <2>3. Times(t, <<"requested", p>>) = n BY <1>8, <1>9, <2>1
  <2>4. CASE p = h BY <1>2, <1>8, <1>10, <2>1, <2>2, <2>3, <2>4
  <2>5. CASE p # h
    <3>1. Times(t, <<"completed", p>>) = m BY <1>8, <1>9, <2>1, <2>5
    <3>2. QED BY <1>10, <2>1, <2>2, <2>3, <2>5, <3>1
  <2>6. QED BY <2>4, <2>5
<1>12. AnnouncedInv' BY <1>3, <1>7, <1>8, <1>11 DEF TeamInv, AnnouncedInv
<1>13. PICK g : g = Append(f, y) OBVIOUS
<1>14. g \in Seq(Range(g)) BY <1>6, <1>13, Appended
<1>15. ToldInv' BY <1>3, <1>13, <1>14 DEF TeamInv, ToldInv
<1>16. QED BY <1>5, <1>12, <1>15 DEF TeamInv

LEMMA TeamSynthesizes == ASSUME TeamInv, Team!Synthesize PROVE TeamInv'
<1>1. PICK f, told0, bad : /\ f = findings
                           /\ told0 = [i \in DOMAIN f |-> [profile |-> f[i].profile,
                                                           finding |-> Team!Usable(f[i])]]
                           /\ bad = (route.degraded \/ \E i \in DOMAIN f : ~Team!Usable(f[i]))
  OBVIOUS
<1>2. PICK o : o = [ready |-> TRUE, degraded |-> bad, told |-> told0] OBVIOUS
<1>3. /\ route.mode = "team" /\ todo = <<>> /\ child = Team!NoChild /\ teamOutcome' = o
      /\ UNCHANGED <<query, route, todo, child, findings, teamEvents, elapsed>>
  BY <1>1, <1>2 DEF Team!Synthesize
<1>4. o.told = told0 /\ o.degraded = bad BY <1>2
<1>5. \A i \in DOMAIN told0 : told0[i].finding => f[i].status = "completed"
  BY <1>1 DEF Team!Usable
<1>6. (\E i \in DOMAIN f : f[i].status # "completed") => bad BY <1>1 DEF Team!Usable
<1>7. ToldInv' BY <1>1, <1>3, <1>4, <1>5, <1>6 DEF TeamInv, ToldInv
<1>8. ChildrenInv' BY <1>3 DEF TeamInv, ChildrenInv
<1>9. AnnouncedInv' BY <1>3 DEF TeamInv, AnnouncedInv, Under
<1>10. QED BY <1>7, <1>8, <1>9 DEF TeamInv

LEMMA TeamNextStep == ASSUME TeamInv, Team!TeamNext PROVE TeamInv'
<1>1. /\ elapsed \in Int /\ TotalSeconds \in Nat /\ CleanupSeconds \in Nat /\ TaskSeconds \in Nat
      /\ elapsed <= TotalSeconds + CleanupSeconds
      /\ child # Team!NoChild => child.limit \in Int /\ child.limit <= TotalSeconds - elapsed
  BY TeamAssumption DEF TeamInv, ChildrenInv
<1>2. ASSUME NEW reason, NEW content, NEW took \in 0..TaskSeconds,
             Team!ChildStops(reason, content, took)
      PROVE  TeamInv'
  <2>1. child # Team!NoChild /\ took < child.limit /\ took \in Int
        /\ Team!Finding(Team!StatusOf(reason, content), content, took)
    BY <1>1, <1>2 DEF Team!ChildStops
  <2>2. elapsed + took <= TotalSeconds + CleanupSeconds BY <1>1, <2>1
  <2>3. QED BY <2>1, <2>2, TeamFinds
<1>3. ASSUME NEW took \in 0..TaskSeconds, Team!ChildRaises(took) PROVE TeamInv'
  <2>1. child # Team!NoChild /\ took < child.limit /\ took \in Int
    BY <1>1, <1>3 DEF Team!ChildRaises
  <2>2. elapsed + took <= TotalSeconds + CleanupSeconds BY <1>1, <2>1
  <2>3. \E content : Team!Finding("failed", content, took)
    BY <1>3, Zenon DEF Team!ChildRaises
  <2>4. QED BY <2>1, <2>2, <2>3, TeamFinds
<1>4. ASSUME NEW cleanup \in 0..CleanupSeconds, Team!ChildTimesOut(cleanup) PROVE TeamInv'
  <2>1. child # Team!NoChild /\ cleanup \in Int /\ cleanup <= CleanupSeconds
    BY <1>1, <1>4 DEF Team!ChildTimesOut
  <2>2. ASSUME NEW none, Team!Finding("timed_out", none, child.limit + cleanup)
        PROVE  TeamInv'
    <3>1. PICK took : took = child.limit + cleanup OBVIOUS
    <3>2. took \in Int /\ elapsed + took <= TotalSeconds + CleanupSeconds BY <1>1, <2>1, <3>1
    <3>3. QED BY <2>1, <2>2, <3>1, <3>2, TeamFinds
  <2>3. ASSUME NEW none, Team!Finding("timed_out", none, 0) PROVE TeamInv'
    <3>1. elapsed + 0 <= TotalSeconds + CleanupSeconds BY <1>1
    <3>2. QED BY <2>1, <2>3, <3>1, TeamFinds
  <2>4. \E none : \/ Team!Finding("timed_out", none, child.limit + cleanup)
                  \/ Team!Finding("timed_out", none, 0)
    BY <1>4, Zenon DEF Team!ChildTimesOut
  <2>5. QED BY <2>2, <2>3, <2>4
<1>5. QED BY <1>2, <1>3, <1>4, TeamRouted, TeamBegins, TeamSynthesizes DEF Team!TeamNext

LEMMA TeamRests == ASSUME TeamInv, UNCHANGED teamPart PROVE TeamInv'
<1>1. UNCHANGED <<query, route, todo, child, findings, teamEvents, elapsed, teamOutcome>>
  BY DEF teamPart
<1>2. ChildrenInv' /\ AnnouncedInv' /\ ToldInv'
  BY <1>1 DEF TeamInv, ChildrenInv, AnnouncedInv, ToldInv, Under
<1>3. QED BY <1>2 DEF TeamInv

LEMMA TeamPromise ==
  ASSUME TeamInv
  PROVE  /\ Team!ChildrenOnlyRead /\ Team!TeamStaysInTime
         /\ Team!FailedChildIsNoFinding
<1>1. ASSUME NEW t \in ParentTools, t.name \in child.tools
      PROVE  t.risks \cap Team!Forbidden = {}
  <2>1. child.tools = Team!BuildRegistry BY <1>1 DEF TeamInv, ChildrenInv
  <2>2. PICK u \in ParentTools : u.name = t.name /\ u.risks \cap Team!Forbidden = {}
    BY <1>1, <2>1 DEF Team!BuildRegistry
  <2>3. QED BY <2>2, ParentToolsAssumption
<1>2. Team!ChildrenOnlyRead BY <1>1 DEF Team!ChildrenOnlyRead
<1>3. Team!TeamStaysInTime BY DEF TeamInv, ChildrenInv, Team!TeamStaysInTime
<1>4. ASSUME teamOutcome.ready, NEW p
      PROVE  Team!Announced("requested", p) = Team!Announced("completed", p)
  <2>1. Under(p) = 0 BY <1>4 DEF TeamInv, ToldInv, Under
  <2>2. PICK x, n : x = <<"completed", p>> /\ n = Times(teamEvents, x) OBVIOUS
  <2>3. n \in Nat
    <3>1. PICK s, t : s = teamEvents /\ t = Append(s, x) OBVIOUS
    <3>2. OnceMore(s, x, t) BY <3>1, OneMoreTime DEF TeamInv, AnnouncedInv
    <3>3. QED BY <2>2, <3>1, <3>2 DEF OnceMore
  <2>4. Times(teamEvents, <<"requested", p>>) = n + 0 BY <2>1, <2>2 DEF TeamInv, AnnouncedInv
  <2>5. QED BY <2>2, <2>3, <2>4, AnnouncedTimes
<1>5. Team!FailedChildIsNoFinding
  BY <1>4 DEF Team!FailedChildIsNoFinding, TeamInv, ToldInv
<1>6. QED BY <1>2, <1>3, <1>5

------------------------------------------------------------
(* Reflection. *)

LEMMA LeastOf2 ==
  ASSUME NEW a \in Int, NEW b \in Int
  PROVE  /\ Loop!Min({a, b}) \in Int /\ Loop!Min({a, b}) \in {a, b}
         /\ Loop!Min({a, b}) <= a /\ Loop!Min({a, b}) <= b
<1>1. \E x \in {a, b} : \A y \in {a, b} : x <= y
  <2>1. CASE a <= b BY <2>1
  <2>2. CASE b <= a BY <2>2
  <2>3. QED BY <2>1, <2>2
<1>2. /\ Loop!Min({a, b}) \in {a, b}
      /\ \A y \in {a, b} : Loop!Min({a, b}) <= y
  BY <1>1 DEF Loop!Min
<1>3. QED BY <1>2

LEMMA LeastOf3 ==
  ASSUME NEW a \in Int, NEW b \in Int, NEW c \in Int, NEW m, m = Loop!Min({a, b, c})
  PROVE  m \in Int /\ m <= a /\ m <= b /\ m <= c
<1>1. \E x \in {a, b, c} : \A y \in {a, b, c} : x <= y
  <2>1. CASE a <= b /\ a <= c BY <2>1
  <2>2. CASE b <= a /\ b <= c BY <2>2
  <2>3. CASE c <= a /\ c <= b BY <2>3
  <2>4. QED BY <2>1, <2>2, <2>3
<1>2. /\ Loop!Min({a, b, c}) \in {a, b, c}
      /\ \A y \in {a, b, c} : Loop!Min({a, b, c}) <= y
  BY <1>1 DEF Loop!Min
<1>3. QED BY <1>2

LEMMA GreatestOf2 == ASSUME NEW a \in Int, NEW b \in Int PROVE Loop!Max({a, b}) \in Int
<1>1. \E x \in {a, b} : \A y \in {a, b} : x >= y
  <2>1. CASE a <= b BY <2>1
  <2>2. CASE b <= a BY <2>2
  <2>3. QED BY <2>1, <2>2
<1>2. Loop!Max({a, b}) \in {a, b} BY <1>1 DEF Loop!Max
<1>3. QED BY <1>2

ReflectionStages ==
    {"idle", "critique", "critique-called", "revision", "revision-called", "done", "raised"}
ReflectionOutcomes ==
    {"none", "kept", "revised", "time_limit", "token_limit", "cost_limit", "provider_error",
     "tool_call_blocked", "invalid_verdict", "empty_revision"}

Reflections ==
    [pc : ReflectionStages, calls : Nat, cap : Int, in : Int, out : Int, cost : Int,
     verdict : ReflectionVerdicts \cup {Loop!NoVerdict},
     selected : {"draft", "revision"}, outcome : ReflectionOutcomes]

(* A verdict to revise that points into what was shown. *)
GoodVerdict(v) ==
    /\ v.decision = "revise" /\ v.issues > 0
    /\ v.line <= (IF v.source = "draft" THEN DraftLines ELSE RequestLines)

WithinLimits(r) ==
    /\ r.in <= MaxReflectionIn /\ r.out <= MaxReflectionOut
    /\ r.in + r.out <= MaxReflectionTotal /\ r.cost <= MaxReflectionCost

(* The calls made so far and what they led to. *)
ReflectionHistory(r) ==
    /\ r.pc \in {"idle", "critique"} => r.calls = 0
    /\ r.pc \in {"critique-called", "revision"} => r.calls = 1
    /\ r.pc = "revision-called" => r.calls = 2
    /\ r.pc \in {"revision", "revision-called"} => GoodVerdict(r.verdict)
    /\ r.pc # "done" => r.outcome = "none" /\ r.selected = "draft"
    /\ r.selected = "revision" => r.outcome = "revised" /\ r.calls = 2 /\ GoodVerdict(r.verdict)
    /\ r.outcome \in {"kept", "revised"} => WithinLimits(r)

ReflectionInv ==
    /\ reflection \in Reflections /\ ReflectionHistory(reflection)
    /\ Loop!CapsArePayable

LEMMA ReflectionStart == ASSUME Loop!ReflectionInit PROVE ReflectionInv
<1>1. reflection = [pc |-> "idle", calls |-> 0, cap |-> 0, in |-> 0, out |-> 0, cost |-> 0,
                    verdict |-> Loop!NoVerdict, selected |-> "draft", outcome |-> "none"]
  BY DEF Loop!ReflectionInit
<1>2. reflection \in Reflections BY <1>1 DEF Reflections, ReflectionStages, ReflectionOutcomes
<1>3. /\ reflection.pc = "idle" /\ reflection.calls = 0 /\ reflection.outcome = "none"
      /\ reflection.selected = "draft"
  BY <1>1
<1>4. QED BY <1>2, <1>3 DEF ReflectionInv, ReflectionHistory, Loop!CapsArePayable,
     Loop!Called

(* A reflection that ends without a choice keeps the draft. *)
LEMMA ReflectionFinishes ==
  ASSUME NEW r \in Reflections, r.selected = "draft", NEW outcome0 \in ReflectionOutcomes,
         outcome0 \notin {"kept", "revised"}, Loop!FinishReflection(r, outcome0)
  PROVE  ReflectionInv'
<1>1. reflection' = [r EXCEPT !.pc = "done", !.outcome = outcome0, !.cap = 0]
  BY DEF Loop!FinishReflection
<1>2. reflection' \in Reflections
  <2>1. PICK r1 : r1 = [r EXCEPT !.pc = "done"] OBVIOUS
  <2>2. r1 \in Reflections
    <3>1. "done" \in ReflectionStages BY DEF ReflectionStages
    <3>2. QED BY <2>1, <3>1 DEF Reflections
  <2>3. PICK r2 : r2 = [r1 EXCEPT !.outcome = outcome0] OBVIOUS
  <2>4. r2 \in Reflections BY <2>2, <2>3 DEF Reflections
  <2>5. reflection' = [r2 EXCEPT !.cap = 0] BY <1>1, <2>1, <2>3
  <2>6. QED BY <2>4, <2>5 DEF Reflections
<1>3. reflection'.pc = "done" /\ reflection'.outcome = outcome0 /\ reflection'.selected = "draft"
  BY <1>1 DEF Reflections
<1>4. QED BY <1>2, <1>3 DEF ReflectionInv, ReflectionHistory, Loop!CapsArePayable,
     Loop!Called

(* A call whose cap can be used up within every limit. *)
Payable(in0, out0, cost0, size, cap1) ==
    /\ cap1 > 0 /\ out0 + cap1 <= MaxReflectionOut
    /\ in0 + size <= MaxReflectionIn
    /\ in0 + size + out0 + cap1 <= MaxReflectionTotal
    /\ cost0 + size * InputPrice + cap1 * OutputPrice <= MaxReflectionCost

(* A call is paid for before it is made. *)
LEMMA PayableCall ==
  ASSUME NEW in0 \in Int, NEW out0 \in Int, NEW cost0 \in Int, NEW size \in Nat,
         NEW cap1 \in Int, NEW token \in Int, NEW afford \in Int, NEW after \in Int,
         after = MaxReflectionCost - cost0 - size * InputPrice, after >= 0,
         afford = IF OutputPrice > 0 THEN after \div OutputPrice ELSE MaxReflectionOut,
         cap1 <= token, cap1 <= afford, cap1 \in {token, afford}, token > 0, afford > 0,
         in0 + size <= MaxReflectionIn, token <= MaxReflectionOut - out0,
         token <= MaxReflectionTotal - in0 - out0 - size
  PROVE  Payable(in0, out0, cost0, size, cap1)
<1>1. /\ InputPrice \in Nat /\ OutputPrice \in Nat /\ MaxReflectionCost \in Nat
      /\ MaxReflectionIn \in Nat /\ MaxReflectionOut \in Nat /\ MaxReflectionTotal \in Nat
  BY ReflectionAssumption
<1>2. cap1 > 0 OBVIOUS
<1>3. cap1 * OutputPrice <= after
  <2>1. CASE OutputPrice > 0
    <3>1. PICK p, q : p = OutputPrice /\ q = after \div p OBVIOUS
    <3>2. p \in Nat /\ p > 0 /\ q \in Int /\ q * p <= after BY <1>1, <2>1, <3>1
    <3>3. cap1 <= q BY <2>1, <3>1
    <3>4. cap1 * p <= q * p BY <3>2, <3>3
    <3>5. cap1 * p \in Int /\ q * p \in Int BY <3>2
    <3>6. QED BY <3>1, <3>2, <3>4, <3>5
  <2>2. CASE OutputPrice = 0 BY <2>2
  <2>3. QED BY <1>1, <2>1, <2>2
<1>4. PICK s, c : s = size * InputPrice /\ c = cap1 * OutputPrice OBVIOUS
<1>5. s \in Int /\ c \in Int /\ c <= after /\ after = MaxReflectionCost - cost0 - s
  BY <1>1, <1>3, <1>4
<1>6. cost0 + s + c <= MaxReflectionCost BY <1>1, <1>5
<1>7. out0 + cap1 <= MaxReflectionOut /\ in0 + size + out0 + cap1 <= MaxReflectionTotal BY <1>1
<1>8. QED BY <1>2, <1>4, <1>6, <1>7 DEF Payable

LEMMA ReflectionCalls == ASSUME ReflectionInv, Loop!CallProvider PROVE ReflectionInv'
<1>1. PICK r : r = reflection OBVIOUS
<1>2. /\ r \in Reflections /\ ReflectionHistory(r) /\ r.pc \in {"critique", "revision"}
      /\ r.in \in Int /\ r.out \in Int /\ r.cost \in Int /\ r.selected = "draft"
      /\ r.outcome = "none" /\ r.calls \in Nat
  BY <1>1 DEF ReflectionInv, ReflectionHistory, Reflections, Loop!CallProvider
<1>3. CASE \E o \in {"time_limit", "token_limit", "cost_limit"} :
               Loop!FinishReflection(r, o)
  BY <1>2, <1>3, ReflectionFinishes DEF ReflectionOutcomes
<1>4. CASE /\ ~Loop!OverTokens /\ ~Loop!OverCost
           /\ reflection' = [r EXCEPT !.pc = Loop!CallOf(r.pc), !.calls = r.calls + 1,
                                !.cap = Loop!Min({Loop!TokenCap, Loop!Affordable})]
  <2>1. PICK size, callCap, after :
          /\ size = Loop!PromptSize /\ callCap = Loop!CallCap
          /\ after = Loop!AfterInput OBVIOUS
  <2>2. /\ MaxReflectionIn \in Nat /\ MaxReflectionOut \in Nat /\ MaxReflectionTotal \in Nat
        /\ MaxReflectionCost \in Nat /\ InputPrice \in Nat /\ OutputPrice \in Nat
    BY ReflectionAssumption
  <2>3. size \in Nat /\ callCap \in Nat
    BY <2>1, ReflectionAssumption DEF Loop!PromptSize, Loop!CallCap
  <2>4. size * InputPrice \in Nat BY <2>2, <2>3
  <2>5. after = MaxReflectionCost - r.cost - size * InputPrice /\ after \in Int
    BY <1>1, <1>2, <2>1, <2>2, <2>4 DEF Loop!AfterInput
  <2>6. PICK a, b : a = MaxReflectionOut - r.out
                    /\ b = MaxReflectionTotal - r.in - r.out - size OBVIOUS
  <2>7. a \in Int /\ b \in Int BY <1>2, <2>2, <2>3, <2>6
  <2>8. PICK token : token = Loop!TokenCap OBVIOUS
  <2>9. token = Loop!Min({callCap, a, b}) BY <1>1, <2>1, <2>6, <2>8 DEF Loop!TokenCap
  <2>10. token \in Int /\ token <= a /\ token <= b
    <3>1. callCap \in Int BY <2>3
    <3>2. QED BY <2>7, <2>9, <3>1, LeastOf3
  <2>11. PICK afford : afford = Loop!Affordable OBVIOUS
  <2>12. afford = IF OutputPrice > 0 THEN after \div OutputPrice ELSE MaxReflectionOut
    BY <2>1, <2>11 DEF Loop!Affordable
  <2>13. afford \in Int BY <2>2, <2>5, <2>12
  <2>14. r.in + size <= MaxReflectionIn /\ token > 0
    <3>1. ~(r.in + size > MaxReflectionIn) /\ ~(token <= 0)
      BY <1>1, <1>4, <2>1, <2>8 DEF Loop!OverTokens
    <3>2. QED BY <1>2, <2>2, <2>3, <2>10, <3>1
  <2>15. after >= 0 /\ afford > 0
    <3>1. ~(after < 0) /\ ~(afford <= 0) BY <1>4, <2>1, <2>11 DEF Loop!OverCost
    <3>2. QED BY <2>5, <2>13, <3>1
  <2>16. PICK cap1 : cap1 = Loop!Min({token, afford}) OBVIOUS
  <2>17. cap1 \in Int /\ cap1 \in {token, afford} /\ cap1 <= token /\ cap1 <= afford
    BY <2>10, <2>13, <2>16, LeastOf2
  <2>18. /\ cap1 > 0 /\ r.out + cap1 <= MaxReflectionOut
         /\ r.in + size <= MaxReflectionIn
         /\ r.in + size + r.out + cap1 <= MaxReflectionTotal
         /\ r.cost + size * InputPrice + cap1 * OutputPrice <= MaxReflectionCost
    <3>1. PICK in0, out0, cost0 : in0 = r.in /\ out0 = r.out /\ cost0 = r.cost OBVIOUS
    <3>2. /\ in0 \in Int /\ out0 \in Int /\ cost0 \in Int
          /\ after = MaxReflectionCost - cost0 - size * InputPrice
          /\ in0 + size <= MaxReflectionIn /\ token <= MaxReflectionOut - out0
          /\ token <= MaxReflectionTotal - in0 - out0 - size
      BY <1>2, <2>5, <2>6, <2>10, <2>14, <3>1
    <3>3. Payable(in0, out0, cost0, size, cap1)
      BY <2>3, <2>5, <2>10, <2>12, <2>13, <2>14, <2>15, <2>17, <3>2, PayableCall
    <3>4. QED BY <3>1, <3>3 DEF Payable
  <2>19. PICK stage1 : stage1 = Loop!CallOf(r.pc) OBVIOUS
  <2>20. stage1 = IF r.pc = "critique" THEN "critique-called" ELSE "revision-called"
    BY <2>19 DEF Loop!CallOf
  <2>21. reflection' = [r EXCEPT !.pc = stage1, !.calls = r.calls + 1, !.cap = cap1]
    BY <1>4, <2>8, <2>11, <2>16, <2>19
  <2>22. stage1 \in ReflectionStages /\ r.calls + 1 \in Nat BY <1>2, <2>20 DEF ReflectionStages
  <2>23. reflection' \in Reflections BY <1>2, <2>17, <2>21, <2>22 DEF Reflections
  <2>24. /\ reflection'.pc = stage1 /\ reflection'.calls = r.calls + 1 /\ reflection'.cap = cap1
         /\ reflection'.in = r.in /\ reflection'.out = r.out /\ reflection'.cost = r.cost
         /\ reflection'.verdict = r.verdict /\ reflection'.selected = r.selected
         /\ reflection'.outcome = r.outcome
    BY <1>2, <2>21 DEF Reflections
  <2>25. Loop!CalledSize' = size
    BY <1>1, <1>2, <2>1, <2>20, <2>24 DEF Loop!CalledSize, Loop!PromptSize
  <2>26. Loop!CapsArePayable' BY <2>18, <2>24, <2>25 DEF Loop!CapsArePayable
  <2>27. ReflectionHistory(reflection') BY <1>2, <2>20, <2>24 DEF ReflectionHistory
  <2>28. QED BY <2>23, <2>26, <2>27 DEF ReflectionInv
<1>5. QED BY <1>1, <1>3, <1>4 DEF Loop!CallProvider

(* A step that only moves the stage, before a call and without a choice. *)
LEMMA ReflectionMoves ==
  ASSUME ReflectionInv, NEW stage1,
         reflection.pc = "idle" /\ stage1 = "critique" /\ reflection' = [reflection EXCEPT !.pc = stage1]
  PROVE  ReflectionInv'
<1>1. PICK r : r = reflection OBVIOUS
<1>2. /\ r \in Reflections /\ ReflectionHistory(r) /\ r.pc = "idle"
      /\ reflection' = [r EXCEPT !.pc = "critique"] /\ "critique" \in ReflectionStages
  BY <1>1 DEF ReflectionInv, ReflectionStages
<1>3. reflection' \in Reflections BY <1>2 DEF Reflections
<1>4. /\ reflection'.pc = "critique" /\ reflection'.calls = r.calls
      /\ reflection'.selected = r.selected /\ reflection'.outcome = r.outcome
  BY <1>2 DEF Reflections
<1>5. ReflectionHistory(reflection') BY <1>2, <1>4 DEF ReflectionHistory
<1>6. QED BY <1>3, <1>4, <1>5 DEF ReflectionInv, Loop!CapsArePayable, Loop!Called

LEMMA ReflectionRaises == ASSUME ReflectionInv, Loop!CallRaises PROVE ReflectionInv'
<1>1. PICK r : r = reflection OBVIOUS
<1>2. /\ r \in Reflections /\ ReflectionHistory(r)
      /\ r.pc \in {"critique-called", "revision-called"}
      /\ reflection' = [r EXCEPT !.pc = "raised", !.cap = 0] /\ "raised" \in ReflectionStages
  BY <1>1 DEF ReflectionInv, ReflectionStages, Loop!CallRaises, Loop!Called
<1>3. reflection' \in Reflections
  <2>1. PICK r1 : r1 = [r EXCEPT !.pc = "raised"] OBVIOUS
  <2>2. r1 \in Reflections BY <1>2, <2>1 DEF Reflections
  <2>3. reflection' = [r1 EXCEPT !.cap = 0] BY <1>2, <2>1
  <2>4. QED BY <2>2, <2>3 DEF Reflections
<1>4. /\ reflection'.pc = "raised" /\ reflection'.selected = r.selected
      /\ reflection'.outcome = r.outcome
  BY <1>2 DEF Reflections
<1>5. ReflectionHistory(reflection') BY <1>2, <1>4 DEF ReflectionHistory
<1>6. QED BY <1>3, <1>4, <1>5 DEF ReflectionInv, Loop!CapsArePayable, Loop!Called

(* What a call used is added up, and nothing else changes. *)
LEMMA UsageCounted ==
  ASSUME ReflectionInv, NEW given \in Int, NEW reported \in Int, NEW floor \in Int, NEW r,
         r = Loop!UsageAfter(given, reported, floor)
  PROVE  /\ r \in Reflections /\ r.pc = reflection.pc /\ r.calls = reflection.calls
         /\ r.verdict = reflection.verdict /\ r.selected = reflection.selected
         /\ r.outcome = reflection.outcome
<1>1. PICK q : q = reflection OBVIOUS
<1>2. q \in Reflections BY <1>1 DEF ReflectionInv
<1>3. PICK cs, size, top : /\ cs = Loop!CalledSize /\ size = Loop!Max({given, cs})
                           /\ top = Loop!Max({reported, floor}) OBVIOUS
<1>4. size \in Int /\ top \in Int
  <2>1. cs \in Int BY <1>3, ReflectionAssumption DEF Loop!CalledSize
  <2>2. size \in Int BY <1>3, <2>1, GreatestOf2
  <2>3. top \in Int BY <1>3, GreatestOf2
  <2>4. QED BY <2>2, <2>3
<1>5. InputPrice \in Nat /\ OutputPrice \in Nat BY ReflectionAssumption
<1>6. PICK a, b : a = size * InputPrice /\ b = top * OutputPrice OBVIOUS
<1>7. a \in Int /\ b \in Int BY <1>4, <1>5, <1>6
<1>8. q.in \in Int /\ q.out \in Int /\ q.cost \in Int BY <1>2 DEF Reflections
<1>9. PICK x, y, z : x = q.in + size /\ y = q.out + top /\ z = q.cost + a + b OBVIOUS
<1>10. x \in Int /\ y \in Int /\ z \in Int BY <1>4, <1>7, <1>8, <1>9
<1>11. r = [q EXCEPT !.in = x, !.out = y, !.cost = z]
  BY <1>1, <1>3, <1>6, <1>9 DEF Loop!UsageAfter
<1>12. r \in Reflections
  <2>1. PICK r1 : r1 = [q EXCEPT !.in = x] OBVIOUS
  <2>2. r1 \in Reflections BY <1>2, <1>10, <2>1 DEF Reflections
  <2>3. PICK r2 : r2 = [r1 EXCEPT !.out = y] OBVIOUS
  <2>4. r2 \in Reflections BY <1>10, <2>2, <2>3 DEF Reflections
  <2>5. r = [r2 EXCEPT !.cost = z] BY <1>11, <2>1, <2>3
  <2>6. QED BY <1>10, <2>4, <2>5 DEF Reflections
<1>13. QED BY <1>1, <1>2, <1>11, <1>12 DEF Reflections

LEMMA LimitsKept ==
  ASSUME NEW r, NEW floor, NEW tools0, Loop!AnswerLimit(r, floor, tools0) = "none",
         r \in Reflections
  PROVE  WithinLimits(r)
<1>1. Loop!WithinTokens(r, floor) /\ ~(r.cost > MaxReflectionCost)
  BY DEF Loop!AnswerLimit
<1>2. r.cost \in Int /\ MaxReflectionCost \in Int BY ReflectionAssumption DEF Reflections
<1>3. r.cost <= MaxReflectionCost BY <1>1, <1>2
<1>4. QED BY <1>1, <1>3 DEF WithinLimits, Loop!WithinTokens

LEMMA LimitIsAnOutcome ==
  ASSUME NEW r, NEW floor, NEW tools0, NEW limit,
         limit = Loop!AnswerLimit(r, floor, tools0), limit # "none"
  PROVE  limit \in ReflectionOutcomes /\ limit \notin {"kept", "revised"}
<1>1. limit \in {"token_limit", "cost_limit", "tool_call_blocked", "none"}
  BY Zenon DEF Loop!AnswerLimit
<1>2. QED BY <1>1 DEF ReflectionOutcomes

LEMMA RevisionHeard ==
  ASSUME ReflectionInv, NEW given \in Int, NEW reported \in Int, NEW floor \in Int, NEW blank,
         NEW tools0, Loop!RevisionAnswers(given, reported, floor, blank, tools0)
  PROVE  ReflectionInv'
<1>1. PICK r : r = Loop!UsageAfter(given, reported, floor) OBVIOUS
<1>2. /\ r \in Reflections /\ r.pc = reflection.pc /\ r.calls = reflection.calls
      /\ r.verdict = reflection.verdict /\ r.selected = reflection.selected
      /\ r.outcome = reflection.outcome
  BY <1>1, UsageCounted
<1>3. r.selected = "draft" /\ r.calls = 2 /\ GoodVerdict(r.verdict)
  BY <1>2 DEF ReflectionInv, ReflectionHistory, Loop!RevisionAnswers
<1>4. PICK limit : limit = Loop!AnswerLimit(r, floor, tools0) OBVIOUS
<1>5. ASSUME limit # "none", Loop!FinishReflection(r, limit) PROVE ReflectionInv'
  <2>1. limit \in ReflectionOutcomes /\ limit \notin {"kept", "revised"}
    BY <1>4, <1>5, LimitIsAnOutcome
  <2>2. QED BY <1>2, <1>3, <1>5, <2>1, ReflectionFinishes
<1>6. ASSUME Loop!FinishReflection(r, "empty_revision") PROVE ReflectionInv'
  <2>1. "empty_revision" \in ReflectionOutcomes /\ "empty_revision" \notin {"kept", "revised"}
    BY DEF ReflectionOutcomes
  <2>2. QED BY <1>2, <1>3, <1>6, <2>1, ReflectionFinishes
<1>7. ASSUME limit = "none",
             Loop!FinishReflection([r EXCEPT !.selected = "revision"], "revised")
      PROVE  ReflectionInv'
  <2>1. WithinLimits(r) BY <1>2, <1>4, <1>7, LimitsKept
  <2>2. PICK r1 : r1 = [r EXCEPT !.selected = "revision"] OBVIOUS
  <2>3. r1 \in Reflections BY <1>2, <2>2 DEF Reflections
  <2>4. /\ r1.calls = 2 /\ r1.verdict = r.verdict /\ r1.selected = "revision" /\ r1.in = r.in
        /\ r1.out = r.out /\ r1.cost = r.cost
    BY <1>2, <1>3, <2>2 DEF Reflections
  <2>5. reflection' = [r1 EXCEPT !.pc = "done", !.outcome = "revised", !.cap = 0]
    BY <1>7, <2>2 DEF Loop!FinishReflection
  <2>6. "done" \in ReflectionStages /\ "revised" \in ReflectionOutcomes
    BY DEF ReflectionStages, ReflectionOutcomes
  <2>7. PICK r2 : r2 = [r1 EXCEPT !.pc = "done"] OBVIOUS
  <2>8. r2 \in Reflections BY <2>3, <2>6, <2>7 DEF Reflections
  <2>9. PICK r3 : r3 = [r2 EXCEPT !.outcome = "revised"] OBVIOUS
  <2>10. r3 \in Reflections BY <2>6, <2>8, <2>9 DEF Reflections
  <2>11. reflection' = [r3 EXCEPT !.cap = 0] BY <2>5, <2>7, <2>9
  <2>12. reflection' \in Reflections BY <2>10, <2>11 DEF Reflections
  <2>13. /\ reflection'.pc = "done" /\ reflection'.outcome = "revised" /\ reflection'.calls = 2
         /\ reflection'.selected = "revision" /\ reflection'.verdict = r.verdict
         /\ reflection'.in = r.in /\ reflection'.out = r.out /\ reflection'.cost = r.cost
    BY <2>3, <2>4, <2>5 DEF Reflections
  <2>14. WithinLimits(reflection') BY <2>1, <2>13 DEF WithinLimits
  <2>15. ReflectionHistory(reflection') BY <1>3, <2>13, <2>14 DEF ReflectionHistory
  <2>16. QED BY <2>12, <2>13, <2>15 DEF ReflectionInv, Loop!CapsArePayable, Loop!Called
<1>8. QED BY <1>1, <1>4, <1>5, <1>6, <1>7 DEF Loop!RevisionAnswers

(* A verdict that is followed points into what was shown. *)
LEMMA VerdictHeard ==
  ASSUME NEW v \in ReflectionVerdicts, Loop!VerdictShape(v), Loop!EvidenceInside(v),
         v.decision # "keep"
  PROVE  GoodVerdict(v)
<1>1. /\ v.decision \in {"keep", "revise"} /\ v.issues \in Nat /\ v.line \in Nat
      /\ v.source \in {"none", "draft", "request"} /\ (v.source = "none" => v.line = 0)
  BY VerdictAssumption
<1>2. DraftLines \in Nat /\ RequestLines \in Nat BY ReflectionAssumption
<1>3. v.decision = "revise" /\ v.issues > 0 BY <1>1 DEF Loop!VerdictShape
<1>4. v.line <= (IF v.source = "draft" THEN DraftLines ELSE RequestLines)
  BY <1>1, <1>2 DEF Loop!EvidenceInside
<1>5. QED BY <1>3, <1>4 DEF GoodVerdict

LEMMA CritiqueHeard ==
  ASSUME ReflectionInv, NEW v \in ReflectionVerdicts, NEW given \in Int, NEW reported \in Int,
         NEW floor \in Int, NEW tools0,
         Loop!CritiqueAnswers(v, given, reported, floor, tools0)
  PROVE  ReflectionInv'
<1>1. PICK r : r = Loop!UsageAfter(given, reported, floor) OBVIOUS
<1>2. /\ r \in Reflections /\ r.pc = reflection.pc /\ r.calls = reflection.calls
      /\ r.verdict = reflection.verdict /\ r.selected = reflection.selected
      /\ r.outcome = reflection.outcome
  BY <1>1, UsageCounted
<1>3. r.selected = "draft" /\ r.calls = 1 /\ r.outcome = "none"
  BY <1>2 DEF ReflectionInv, ReflectionHistory, Loop!CritiqueAnswers
<1>4. PICK limit : limit = Loop!AnswerLimit(r, floor, tools0) OBVIOUS
<1>5. PICK h : h = IF Loop!VerdictShape(v) THEN [r EXCEPT !.verdict = v] ELSE r OBVIOUS
<1>6. h \in Reflections BY <1>2, <1>5 DEF Reflections
<1>7. /\ h.selected = "draft" /\ h.calls = 1 /\ h.outcome = "none"
      /\ h.in = r.in /\ h.out = r.out /\ h.cost = r.cost
      /\ Loop!VerdictShape(v) => h.verdict = v
  BY <1>2, <1>3, <1>5 DEF Reflections
<1>8. ASSUME limit # "none", Loop!FinishReflection(r, limit) PROVE ReflectionInv'
  <2>1. limit \in ReflectionOutcomes /\ limit \notin {"kept", "revised"}
    BY <1>4, <1>8, LimitIsAnOutcome
  <2>2. QED BY <1>2, <1>3, <1>8, <2>1, ReflectionFinishes
<1>9. ASSUME Loop!FinishReflection(h, "invalid_verdict") PROVE ReflectionInv'
  <2>1. "invalid_verdict" \in ReflectionOutcomes /\ "invalid_verdict" \notin {"kept", "revised"}
    BY DEF ReflectionOutcomes
  <2>2. QED BY <1>6, <1>7, <1>9, <2>1, ReflectionFinishes
<1>10. ASSUME limit = "none", reflection' = [h EXCEPT !.pc = "done", !.outcome = "kept", !.cap = 0]
       PROVE  ReflectionInv'
  <2>1. WithinLimits(r) BY <1>2, <1>4, <1>10, LimitsKept
  <2>2. "done" \in ReflectionStages /\ "kept" \in ReflectionOutcomes
    BY DEF ReflectionStages, ReflectionOutcomes
  <2>3. PICK r2 : r2 = [h EXCEPT !.pc = "done"] OBVIOUS
  <2>4. r2 \in Reflections BY <1>6, <2>2, <2>3 DEF Reflections
  <2>5. PICK r3 : r3 = [r2 EXCEPT !.outcome = "kept"] OBVIOUS
  <2>6. r3 \in Reflections BY <2>2, <2>4, <2>5 DEF Reflections
  <2>7. reflection' = [r3 EXCEPT !.cap = 0] BY <1>10, <2>3, <2>5
  <2>8. reflection' \in Reflections BY <2>6, <2>7 DEF Reflections
  <2>9. /\ reflection'.pc = "done" /\ reflection'.outcome = "kept"
        /\ reflection'.selected = "draft"
        /\ reflection'.in = r.in /\ reflection'.out = r.out /\ reflection'.cost = r.cost
    BY <1>6, <1>7, <1>10 DEF Reflections
  <2>10. WithinLimits(reflection') BY <2>1, <2>9 DEF WithinLimits
  <2>11. ReflectionHistory(reflection') BY <2>9, <2>10 DEF ReflectionHistory
  <2>12. QED BY <2>8, <2>9, <2>11 DEF ReflectionInv, Loop!CapsArePayable, Loop!Called
<1>11. ASSUME Loop!VerdictShape(v), Loop!EvidenceInside(v), v.decision # "keep",
              reflection' = [h EXCEPT !.pc = "revision", !.cap = 0]
       PROVE  ReflectionInv'
  <2>1. GoodVerdict(v) BY <1>11, VerdictHeard
  <2>2. "revision" \in ReflectionStages BY DEF ReflectionStages
  <2>3. PICK r2 : r2 = [h EXCEPT !.pc = "revision"] OBVIOUS
  <2>4. r2 \in Reflections BY <1>6, <2>2, <2>3 DEF Reflections
  <2>5. reflection' = [r2 EXCEPT !.cap = 0] BY <1>11, <2>3
  <2>6. reflection' \in Reflections BY <2>4, <2>5 DEF Reflections
  <2>7. /\ reflection'.pc = "revision" /\ reflection'.outcome = "none"
        /\ reflection'.selected = "draft" /\ reflection'.calls = 1 /\ reflection'.verdict = v
    BY <1>6, <1>7, <1>11 DEF Reflections
  <2>8. ReflectionHistory(reflection') BY <2>1, <2>7 DEF ReflectionHistory
  <2>9. QED BY <2>6, <2>7, <2>8 DEF ReflectionInv, Loop!CapsArePayable, Loop!Called
<1>12. \/ limit # "none" /\ Loop!FinishReflection(r, limit)
       \/ Loop!FinishReflection(h, "invalid_verdict")
       \/ limit = "none" /\ reflection' = [h EXCEPT !.pc = "done", !.outcome = "kept", !.cap = 0]
       \/ /\ Loop!VerdictShape(v) /\ Loop!EvidenceInside(v) /\ v.decision # "keep"
          /\ reflection' = [h EXCEPT !.pc = "revision", !.cap = 0]
  BY <1>1, <1>4, <1>5, Zenon DEF Loop!CritiqueAnswers
<1>13. QED BY <1>8, <1>9, <1>10, <1>11, <1>12

LEMMA ReflectionRests == ASSUME ReflectionInv, UNCHANGED reflection PROVE ReflectionInv'
<1>1. reflection' = reflection OBVIOUS
<1>2. Loop!CapsArePayable'
  BY <1>1 DEF ReflectionInv, Loop!CapsArePayable, Loop!Called, Loop!CalledSize
<1>3. QED BY <1>1, <1>2 DEF ReflectionInv

LEMMA ReflectionNextStep == ASSUME ReflectionInv, Loop!ReflectionNext PROVE ReflectionInv'
<1>1. ASSUME Loop!StartReflection PROVE ReflectionInv'
  BY <1>1, ReflectionMoves DEF Loop!StartReflection
<1>2. ASSUME Loop!CallTimesOut \/ Loop!CallFails PROVE ReflectionInv'
  <2>1. PICK r, o : /\ r = reflection /\ o \in {"time_limit", "provider_error"}
                    /\ Loop!FinishReflection(r, o) /\ Loop!Called
    BY <1>2 DEF Loop!CallTimesOut, Loop!CallFails, Loop!Waited
  <2>2. r \in Reflections /\ r.selected = "draft"
    BY <2>1 DEF ReflectionInv, ReflectionHistory, Loop!Called
  <2>3. o \in ReflectionOutcomes /\ o \notin {"kept", "revised"} BY <2>1 DEF ReflectionOutcomes
  <2>4. QED BY <2>1, <2>2, <2>3, ReflectionFinishes
<1>3. ASSUME Loop!ReflectionTick PROVE ReflectionInv'
  BY <1>3, ReflectionRests DEF Loop!ReflectionTick
<1>4. ASSUME NEW floor \in 0..MaxReflectionOut, NEW given \in 0..MaxReflectionIn,
             NEW reported \in 0..MaxReflectionOut + ReportedExtra
      PROVE  floor \in Int /\ reported \in Int /\ given \in Int OBVIOUS
<1>5. QED BY <1>1, <1>2, <1>3, <1>4, ReflectionCalls, ReflectionRaises, CritiqueHeard, RevisionHeard
     DEF Loop!ReflectionNext

LEMMA ReflectionPromise ==
  ASSUME ReflectionInv
  PROVE  Loop!CapsArePayable /\ Loop!DraftUnlessRevised
  BY DEF ReflectionInv, ReflectionHistory, GoodVerdict, WithinLimits, Loop!DraftUnlessRevised

------------------------------------------------------------
(* The sandbox runner: whose processes live. *)

BoxStages ==
    {"none", "health", "execute", "invalid", "cut", "spawning", "running", "stopping",
     "rejecting", "finishing", "closed"}
BoxAlive == {"spawning", "running", "stopping"}
BoxBusy == BoxAlive \cup {"rejecting", "finishing"}

(* The flag is held by the one request that is being executed, and only it *)
(* may have processes. *)
TurnInv ==
    /\ executionActive \in BOOLEAN
    /\ DOMAIN boxHandler = Box!BoxRequests /\ DOMAIN groups = Box!BoxRequests
    /\ DOMAIN boxCaller = Box!BoxRequests
    /\ \A q \in Box!BoxRequests :
           /\ DOMAIN boxCaller[q] = {"stage", "result"}
           /\ boxCaller[q].stage = "idle" => boxHandler[q].stage = "none"
           /\ DOMAIN boxHandler[q] = {"stage", "response"}
           /\ boxHandler[q].stage \in BoxStages
           /\ groups[q] # {} => boxHandler[q].stage \in BoxAlive
           /\ boxHandler[q].stage \in BoxBusy => executionActive
    /\ \A q, p \in Box!BoxRequests :
           boxHandler[q].stage \in BoxBusy /\ boxHandler[p].stage \in BoxBusy => q = p

LEMMA TurnStart == ASSUME Box!SandboxInit PROVE TurnInv
  BY DEF Box!SandboxInit, TurnInv, BoxStages, BoxAlive, BoxBusy

(* What a step leaves of the handlers and of the processes. *)
HandlerAt(q, stage1) ==
    /\ DOMAIN boxHandler' = Box!BoxRequests
    /\ DOMAIN boxHandler'[q] = {"stage", "response"} /\ boxHandler'[q].stage = stage1
    /\ \A p \in Box!BoxRequests : p # q => boxHandler'[p] = boxHandler[p]

GroupAt(q, G) ==
    /\ DOMAIN groups' = Box!BoxRequests /\ groups'[q] = G
    /\ \A p \in Box!BoxRequests : p # q => groups'[p] = groups[p]

LEMMA HandlerMoves ==
  ASSUME TurnInv, NEW q \in Box!BoxRequests, NEW stage1,
         \/ boxHandler' = [boxHandler EXCEPT ![q].stage = stage1]
         \/ \E r : boxHandler' = [boxHandler EXCEPT ![q] = [stage |-> stage1, response |-> r]]
  PROVE  HandlerAt(q, stage1)
  BY DEF TurnInv, HandlerAt

LEMMA GroupMoves ==
  ASSUME TurnInv, NEW q \in Box!BoxRequests, NEW G, groups' = [groups EXCEPT ![q] = G]
  PROVE  GroupAt(q, G)
  BY DEF TurnInv, GroupAt

LEMMA GroupStays ==
  ASSUME TurnInv, NEW q \in Box!BoxRequests, UNCHANGED groups
  PROVE  GroupAt(q, groups[q])
  BY DEF TurnInv, GroupAt

LEMMA HandlerStays ==
  ASSUME TurnInv, NEW q \in Box!BoxRequests, UNCHANGED boxHandler
  PROVE  HandlerAt(q, boxHandler[q].stage)
  BY DEF TurnInv, HandlerAt

CallerAt(q, stage1) ==
    /\ DOMAIN boxCaller' = Box!BoxRequests
    /\ DOMAIN boxCaller'[q] = {"stage", "result"} /\ boxCaller'[q].stage = stage1
    /\ \A p \in Box!BoxRequests : p # q => boxCaller'[p] = boxCaller[p]

LEMMA CallerMoves ==
  ASSUME TurnInv, NEW q \in Box!BoxRequests, NEW stage1,
         \/ boxCaller' = [boxCaller EXCEPT ![q].stage = stage1]
         \/ \E r : boxCaller' = [boxCaller EXCEPT ![q] = [stage |-> stage1, result |-> r]]
  PROVE  CallerAt(q, stage1)
  BY DEF TurnInv, CallerAt

LEMMA CallerStays ==
  ASSUME TurnInv, NEW q \in Box!BoxRequests, UNCHANGED boxCaller
  PROVE  CallerAt(q, boxCaller[q].stage)
  BY DEF TurnInv, CallerAt

(* A step of one request keeps the invariant if it moves no request into an *)
(* execution but the one that takes the flag, and frees the flag only at *)
(* the end of its own. *)
LEMMA TurnMoves ==
  ASSUME TurnInv, NEW q \in Box!BoxRequests, NEW stage1 \in BoxStages, NEW G, NEW stage2,
         HandlerAt(q, stage1), GroupAt(q, G), CallerAt(q, stage2), stage2 # "idle",
         G # {} => stage1 \in BoxAlive,
         executionActive' \in BOOLEAN, stage1 \in BoxBusy => executionActive',
         stage1 \in BoxBusy => boxHandler[q].stage \in BoxBusy \/ ~executionActive,
         executionActive /\ ~executionActive' => boxHandler[q].stage \in BoxBusy
  PROVE  TurnInv'
<1>1. ASSUME NEW p \in Box!BoxRequests, boxHandler'[p].stage \in BoxBusy, p # q
      PROVE  executionActive' /\ boxHandler[p].stage \in BoxBusy /\ stage1 \notin BoxBusy
  BY <1>1 DEF TurnInv, HandlerAt
<1>2. ASSUME NEW p \in Box!BoxRequests
      PROVE  /\ DOMAIN boxHandler'[p] = {"stage", "response"} /\ boxHandler'[p].stage \in BoxStages
             /\ DOMAIN boxCaller'[p] = {"stage", "result"}
             /\ boxCaller'[p].stage = "idle" => boxHandler'[p].stage = "none"
             /\ groups'[p] # {} => boxHandler'[p].stage \in BoxAlive
             /\ boxHandler'[p].stage \in BoxBusy => executionActive'
  <2>1. CASE p = q BY <2>1 DEF TurnInv, HandlerAt, GroupAt, CallerAt
  <2>2. CASE p # q BY <1>1, <2>2 DEF TurnInv, HandlerAt, GroupAt, CallerAt
  <2>3. QED BY <2>1, <2>2
<1>3. ASSUME NEW p \in Box!BoxRequests, NEW o \in Box!BoxRequests,
             boxHandler'[p].stage \in BoxBusy, boxHandler'[o].stage \in BoxBusy
      PROVE  p = o
  BY <1>1, <1>3 DEF TurnInv, HandlerAt
<1>4. QED BY <1>2, <1>3 DEF TurnInv, HandlerAt, GroupAt, CallerAt

LEMMA TurnRests ==
  ASSUME TurnInv, UNCHANGED <<executionActive, boxHandler, boxCaller, groups>>
  PROVE  TurnInv'
  BY DEF TurnInv

(* A request whose handler has begun is not idle. *)
LEMMA BegunIsNotIdle ==
  ASSUME TurnInv, NEW q \in Box!BoxRequests, boxHandler[q].stage # "none",
         UNCHANGED boxCaller
  PROVE  \E stage2 : CallerAt(q, stage2) /\ stage2 # "idle"
  BY CallerStays DEF TurnInv

LEMMA TurnOfTheClient ==
  ASSUME TurnInv, NEW q \in Box!BoxRequests,
         Box!Connect(q) \/ Box!LeaveRunner(q) \/ Box!ReceiveAnswer(q)
  PROVE  TurnInv'
<1>1. /\ boxHandler[q].stage \in BoxStages /\ executionActive \in BOOLEAN
      /\ groups[q] # {} => boxHandler[q].stage \in BoxAlive
      /\ boxHandler[q].stage \in BoxBusy => executionActive
  BY DEF TurnInv
<1>2. ASSUME Box!Connect(q) PROVE TurnInv'
  <2>1. PICK op \in {"health", "execute", "invalid", "cut"} :
          boxHandler' = [boxHandler EXCEPT ![q].stage = op]
    BY <1>2 DEF Box!Connect
  <2>2. /\ UNCHANGED <<executionActive, groups>> /\ boxCaller[q].stage = "idle"
        /\ boxCaller' = [boxCaller EXCEPT ![q].stage = "waiting"]
    BY <1>2 DEF Box!Connect
  <2>3. boxHandler[q].stage = "none" /\ groups[q] = {} BY <2>2 DEF TurnInv, BoxAlive
  <2>4. HandlerAt(q, op) BY <2>1, HandlerMoves
  <2>5. GroupAt(q, {}) BY <2>2, <2>3, GroupStays
  <2>6. CallerAt(q, "waiting") BY <2>2, CallerMoves
  <2>7. op \in BoxStages /\ op \notin BoxBusy BY <2>1 DEF BoxStages, BoxBusy, BoxAlive
  <2>8. QED BY <1>1, <2>2, <2>4, <2>5, <2>6, <2>7, TurnMoves
<1>3. ASSUME NEW stage2, stage2 # "idle", CallerAt(q, stage2),
             UNCHANGED <<executionActive, boxHandler, groups>>
      PROVE  TurnInv'
  <2>1. HandlerAt(q, boxHandler[q].stage) /\ GroupAt(q, groups[q]) BY <1>3, HandlerStays, GroupStays
  <2>2. QED BY <1>1, <1>3, <2>1, TurnMoves
<1>4. ASSUME Box!LeaveRunner(q) PROVE TurnInv'
  <2>1. CallerAt(q, "left") /\ UNCHANGED <<executionActive, boxHandler, groups>>
    BY <1>4, CallerMoves DEF Box!LeaveRunner
  <2>2. QED BY <1>3, <2>1
<1>5. ASSUME Box!ReceiveAnswer(q) PROVE TurnInv'
  <2>1. PICK r, stage2 : /\ boxCaller' = [boxCaller EXCEPT ![q] = [stage |-> stage2, result |-> r]]
                         /\ stage2 \in {"accepted", "refused"}
    BY <1>5 DEF Box!ReceiveAnswer
  <2>2. UNCHANGED <<executionActive, boxHandler, groups>> BY <1>5 DEF Box!ReceiveAnswer
  <2>3. CallerAt(q, stage2) BY <2>1, CallerMoves
  <2>4. QED BY <1>3, <2>1, <2>2, <2>3
<1>6. QED BY <1>2, <1>4, <1>5

(* A step of the daemon in the turn of a request. *)
LEMMA TurnGoesOn ==
  ASSUME TurnInv, NEW q \in Box!BoxRequests, NEW stage1 \in BoxBusy, NEW G,
         boxHandler[q].stage \in BoxBusy, UNCHANGED <<executionActive, boxCaller>>,
         HandlerAt(q, stage1), GroupAt(q, G), G # {} => stage1 \in BoxAlive
  PROVE  TurnInv'
<1>1. stage1 \in BoxStages /\ executionActive \in BOOLEAN /\ executionActive
      /\ boxHandler[q].stage # "none"
  BY DEF TurnInv, BoxBusy, BoxAlive, BoxStages
<1>2. PICK stage2 : CallerAt(q, stage2) /\ stage2 # "idle" BY <1>1, BegunIsNotIdle
<1>3. QED BY <1>1, <1>2, TurnMoves

LEMMA TurnOfTheDaemon ==
  ASSUME TurnInv, NEW q \in Box!BoxRequests,
         \/ Box!Handle(q) \/ Box!BeginExecution(q) \/ Box!HandlerEnds(q)
  PROVE  TurnInv'
<1>1. /\ boxHandler[q].stage \in BoxStages /\ executionActive \in BOOLEAN
      /\ groups[q] # {} => boxHandler[q].stage \in BoxAlive
      /\ boxHandler[q].stage \in BoxBusy => executionActive
  BY DEF TurnInv
<1>2. ASSUME NEW r, Box!Answer(q, r), boxHandler[q].stage \notin BoxAlive,
             boxHandler[q].stage # "none", UNCHANGED <<groups, boxCaller>>,
             executionActive' \in BOOLEAN,
             executionActive /\ ~executionActive' => boxHandler[q].stage \in BoxBusy
      PROVE  TurnInv'
  <2>1. HandlerAt(q, "closed") BY <1>2, HandlerMoves DEF Box!Answer
  <2>2. GroupAt(q, {}) BY <1>1, <1>2, GroupStays
  <2>3. PICK stage2 : CallerAt(q, stage2) /\ stage2 # "idle" BY <1>2, BegunIsNotIdle
  <2>4. "closed" \in BoxStages /\ "closed" \notin BoxBusy BY DEF BoxStages, BoxBusy, BoxAlive
  <2>5. QED BY <1>2, <2>1, <2>2, <2>3, <2>4, TurnMoves
<1>3. ASSUME Box!Handle(q) PROVE TurnInv'
  <2>1. PICK r : Box!Answer(q, r) BY <1>3 DEF Box!Handle
  <2>2. /\ boxHandler[q].stage \in {"health", "cut", "execute", "invalid"}
        /\ UNCHANGED <<groups, boxCaller, executionActive>>
    BY <1>3 DEF Box!Handle
  <2>3. boxHandler[q].stage \notin BoxAlive /\ boxHandler[q].stage # "none" BY <2>2 DEF BoxAlive
  <2>4. QED BY <1>1, <1>2, <2>1, <2>2, <2>3
<1>4. ASSUME Box!HandlerEnds(q) PROVE TurnInv'
  <2>1. PICK r : Box!Answer(q, r) BY <1>4 DEF Box!HandlerEnds
  <2>2. /\ boxHandler[q].stage = "finishing" /\ executionActive' \in BOOLEAN
        /\ UNCHANGED <<groups, boxCaller>>
    BY <1>4 DEF Box!HandlerEnds
  <2>3. /\ boxHandler[q].stage \notin BoxAlive /\ boxHandler[q].stage # "none"
        /\ boxHandler[q].stage \in BoxBusy
    BY <2>2 DEF BoxAlive, BoxBusy
  <2>4. QED BY <1>2, <2>1, <2>2, <2>3
<1>5. ASSUME Box!BeginExecution(q) PROVE TurnInv'
  <2>1. PICK stage1, G :
          /\ stage1 = IF boxHandler[q].stage = "invalid" THEN "rejecting" ELSE "spawning"
          /\ G = IF boxHandler[q].stage = "invalid" THEN {} ELSE {"leader"} OBVIOUS
  <2>2. /\ boxHandler[q].stage \in {"execute", "invalid"} /\ ~executionActive
        /\ executionActive' = TRUE /\ boxHandler' = [boxHandler EXCEPT ![q].stage = stage1]
        /\ UNCHANGED boxCaller
    BY <1>5, <2>1 DEF Box!BeginExecution
  <2>3. groups[q] = {} /\ boxHandler[q].stage # "none" BY <1>1, <2>2 DEF BoxAlive
  <2>4. GroupAt(q, G)
    <3>1. CASE boxHandler[q].stage = "invalid"
      BY <1>5, <2>1, <2>3, <3>1, GroupStays DEF Box!BeginExecution
    <3>2. CASE boxHandler[q].stage # "invalid"
      BY <1>5, <2>1, <3>2, GroupMoves DEF Box!BeginExecution
    <3>3. QED BY <3>1, <3>2
  <2>5. HandlerAt(q, stage1) BY <2>2, HandlerMoves
  <2>6. PICK stage2 : CallerAt(q, stage2) /\ stage2 # "idle" BY <2>2, <2>3, BegunIsNotIdle
  <2>7. stage1 \in BoxStages /\ (G # {} => stage1 \in BoxAlive) BY <2>1 DEF BoxStages, BoxAlive
  <2>8. QED BY <2>2, <2>4, <2>5, <2>6, <2>7, TurnMoves
<1>6. QED BY <1>3, <1>4, <1>5

LEMMA TurnOfTheProgram ==
  ASSUME TurnInv, NEW q \in Box!BoxRequests,
         \/ Box!Spawned(q) \/ Box!SpawnFails(q) \/ Box!RejectRequest(q)
         \/ Box!ProgramSteps(q) \/ Box!CapReached(q) \/ Box!ExecutionEnds(q)
         \/ Box!ExecutionTimesOut(q) \/ Box!ExecutionCleanup(q)
         \/ Box!PeerReadReturns(q)
  PROVE  TurnInv'
<1>1. /\ boxHandler[q].stage \in BoxBusy /\ UNCHANGED <<executionActive, boxCaller>>
  BY DEF Box!Spawned, Box!SpawnFails, Box!RejectRequest, Box!ProgramSteps,
     Box!CapReached, Box!ExecutionEnds, Box!ExecutionTimesOut,
     Box!ExecutionCleanup, Box!PeerReadReturns, BoxBusy, BoxAlive
<1>2. PICK stage1 : HandlerAt(q, stage1) /\ stage1 \in BoxBusy /\
          ((Box!Spawned(q) \/ Box!ProgramSteps(q) \/ Box!CapReached(q)
            \/ Box!ExecutionEnds(q) \/ Box!ExecutionTimesOut(q)) => stage1 \in BoxAlive)
  <2>1. ASSUME Box!ProgramSteps(q) \/ Box!CapReached(q)
        PROVE  boxHandler[q].stage \in BoxAlive /\ UNCHANGED boxHandler
    BY <2>1 DEF Box!ProgramSteps, Box!CapReached, BoxAlive
  <2>2. ASSUME Box!Spawned(q) PROVE HandlerAt(q, "running")
    BY <2>2, HandlerMoves DEF Box!Spawned
  <2>3. ASSUME Box!ExecutionEnds(q) \/ Box!ExecutionTimesOut(q)
        PROVE  HandlerAt(q, "stopping")
    BY <2>3, HandlerMoves DEF Box!ExecutionEnds, Box!ExecutionTimesOut
  <2>4. ASSUME \/ Box!SpawnFails(q) \/ Box!RejectRequest(q)
               \/ Box!ExecutionCleanup(q) \/ Box!PeerReadReturns(q)
        PROVE  HandlerAt(q, "finishing") /\ boxHandler'[q].stage = "finishing"
    <3>1. \E r : boxHandler' = [boxHandler EXCEPT ![q] = [stage |-> "finishing", response |-> r]]
      BY <2>4 DEF Box!SpawnFails, Box!RejectRequest, Box!ExecutionCleanup,
         Box!PeerReadReturns
    <3>2. HandlerAt(q, "finishing") BY <3>1, HandlerMoves
    <3>3. QED BY <3>2 DEF HandlerAt
  <2>5. ASSUME \/ Box!SpawnFails(q) \/ Box!RejectRequest(q)
               \/ Box!ExecutionCleanup(q) \/ Box!PeerReadReturns(q)
        PROVE  ~(Box!Spawned(q) \/ Box!ProgramSteps(q) \/ Box!CapReached(q)
                 \/ Box!ExecutionEnds(q) \/ Box!ExecutionTimesOut(q))
    <3>1. boxHandler'[q].stage = "finishing" BY <2>4, <2>5
    <3>2. ASSUME Box!Spawned(q) PROVE FALSE BY <2>2, <3>1, <3>2 DEF HandlerAt
    <3>3. ASSUME Box!ExecutionEnds(q) \/ Box!ExecutionTimesOut(q) PROVE FALSE
      BY <2>3, <3>1, <3>3 DEF HandlerAt
    <3>4. ASSUME Box!ProgramSteps(q) \/ Box!CapReached(q) PROVE FALSE
      BY <2>1, <3>1, <3>4 DEF BoxAlive
    <3>5. QED BY <3>2, <3>3, <3>4
  <2>6. {"running", "stopping"} \subseteq BoxAlive /\ BoxAlive \subseteq BoxBusy
        /\ "finishing" \in BoxBusy
    BY DEF BoxBusy, BoxAlive
  <2>7. QED BY <2>1, <2>2, <2>3, <2>4, <2>5, <2>6, HandlerStays
<1>3. PICK G : GroupAt(q, G) /\ (G # {} => stage1 \in BoxAlive)
  <2>1. ASSUME Box!Spawned(q) \/ Box!ExecutionEnds(q) PROVE GroupAt(q, groups[q])
    BY <2>1, GroupStays DEF Box!Spawned, Box!ExecutionEnds
  <2>2. ASSUME Box!CapReached(q) \/ Box!ExecutionTimesOut(q)
               \/ Box!SpawnFails(q) \/ Box!ExecutionCleanup(q) \/ Box!PeerReadReturns(q)
        PROVE  GroupAt(q, {})
    BY <2>2, GroupMoves DEF Box!CapReached, Box!ExecutionTimesOut, Box!SpawnFails,
       Box!ExecutionCleanup, Box!PeerReadReturns, Box!KillGroup
  <2>3. ASSUME Box!RejectRequest(q) PROVE GroupAt(q, {})
    <3>1. groups[q] = {} /\ UNCHANGED groups BY <2>3 DEF Box!RejectRequest, TurnInv, BoxAlive
    <3>2. QED BY <3>1, GroupStays
  <2>4. ASSUME Box!ProgramSteps(q) PROVE \E G : GroupAt(q, G)
    <3>1. \/ UNCHANGED groups
          \/ \E p \in {"holder", "quiet"} : groups' = [groups EXCEPT ![q] = groups[q] \cup {p}]
          \/ \E p \in groups[q] : groups' = [groups EXCEPT ![q] = groups[q] \ {p}]
      BY <2>4 DEF Box!ProgramSteps
    <3>2. QED BY <3>1, GroupStays, GroupMoves
  <2>5. QED BY <1>2, <2>1, <2>2, <2>3, <2>4
<1>4. QED BY <1>1, <1>2, <1>3, TurnGoesOn

LEMMA TurnNextStep == ASSUME TurnInv, Box!SandboxNext PROVE TurnInv'
<1>1. ASSUME NEW q \in Box!BoxRequests, NEW s, Box!ReadChunk(q, s) PROVE TurnInv'
  BY <1>1, TurnRests DEF Box!ReadChunk
<1>2. QED BY <1>1, TurnOfTheClient, TurnOfTheDaemon, TurnOfTheProgram DEF Box!SandboxNext

LEMMA TurnPromise == ASSUME TurnInv PROVE Box!GroupsDoNotOutliveTheirTurn
<1>1. PICK S : S = {q \in Box!BoxRequests : groups[q] # {}} OBVIOUS
<1>2. \A q, p \in S : q = p BY <1>1 DEF TurnInv, BoxBusy
<1>3. Cardinality(S) <= 1
  <2>1. CASE S = {} BY <2>1, FS_EmptySet
  <2>2. CASE S # {}
    <3>1. PICK q : q \in S BY <2>2
    <3>2. S = {q} BY <1>2, <3>1
    <3>3. Cardinality({q}) = 1 BY FS_Singleton
    <3>4. QED BY <3>2, <3>3
  <2>3. QED BY <2>1, <2>2
<1>4. Box!Cardinality(S) = Cardinality(S) BY DEF Box!Cardinality, Cardinality
<1>5. QED BY <1>1, <1>3, <1>4 DEF Box!GroupsDoNotOutliveTheirTurn, TurnInv, BoxAlive, BoxBusy

------------------------------------------------------------
(* The policy engine.  The sum in _specificity() is MapThenSumSet, which *)
(* adds up the members in the order in which CHOOSE picks them; IsWeighing *)
(* is that recursion as an equation, for all subsets at once. *)

Chosen(s) == CHOOSE x \in s : TRUE

WeighStep(g, s) == IF s = {} THEN 0 ELSE Policy!Literal(Chosen(s)) + g[s \ {Chosen(s)}]

IsWeighing(g, S) ==
    g = [s \in SUBSET S |-> IF s = {} THEN 0 ELSE Policy!Literal(Chosen(s)) + g[s \ {Chosen(s)}]]

LEMMA ChosenIn == \A s : s # {} => Chosen(s) \in s
  BY DEF Chosen

LEMMA WeighingExists == ASSUME NEW S, IsFiniteSet(S) PROVE \E g : IsWeighing(g, S)
<1> DEFINE Small(n) == {s \in SUBSET S : Cardinality(s) <= n}
           Ok(g, n) == g = [s \in Small(n) |-> WeighStep(g, s)]
           Bad == {n \in Nat : \A g : ~Ok(g, n)}
<1>1. \A s \in SUBSET S : IsFiniteSet(s) /\ Cardinality(s) \in Nat BY FS_Subset, FS_CardinalityType
<1>2. 0 \notin Bad
  <2>1. \A s \in Small(0) : s = {} BY <1>1, FS_EmptySet
  <2>2. Ok([s \in Small(0) |-> 0], 0) BY <2>1 DEF WeighStep
  <2>3. QED BY <2>2
<1>3. ASSUME NEW n \in Nat, NEW g, Ok(g, n) PROVE \E h : Ok(h, n + 1)
  <2> DEFINE h == [s \in Small(n + 1) |-> WeighStep(g, s)]
  <2>1. \A s \in Small(n + 1) : s # {} => s \ {Chosen(s)} \in Small(n)
    <3> TAKE s \in Small(n + 1)
    <3> HAVE s # {}
    <3>1. Chosen(s) \in s /\ s \subseteq S /\ Cardinality(s) <= n + 1 BY ChosenIn
    <3>2. IsFiniteSet(s) /\ Cardinality(s) \in Nat BY <1>1, <3>1
    <3>3. Cardinality(s \ {Chosen(s)}) = Cardinality(s) - 1 BY <3>1, <3>2, FS_RemoveElement
    <3>4. QED BY <3>1, <3>2, <3>3
  <2>2. \A s \in Small(n) : s \in Small(n + 1) BY <1>1
  <2>3. \A s \in Small(n) : g[s] = WeighStep(g, s) BY <1>3
  <2>4. \A s \in Small(n) : h[s] = g[s]
    <3> HIDE DEF Small
    <3>1. QED BY <2>2, <2>3
  <2>5. \A s \in Small(n + 1) : WeighStep(h, s) = WeighStep(g, s)
    <3> HIDE DEF Small, h
    <3>1. QED BY <2>1, <2>4 DEF WeighStep
  <2>6. h = [s \in Small(n + 1) |-> WeighStep(h, s)]
    <3> DEFINE k == [s \in Small(n + 1) |-> WeighStep(h, s)]
    <3>1. \A s \in Small(n + 1) : h[s] = k[s]
      <4> HIDE DEF Small
      <4>1. QED BY <2>5
    <3>2. QED BY <3>1
  <2> HIDE DEF h
  <2>7. QED BY <2>6
<1>4. Bad = {}
  <2> SUFFICES ASSUME Bad # {} PROVE FALSE OBVIOUS
  <2>1. PICK m \in Bad : \A k \in Bad : m <= k
    <3>1. Bad \subseteq Nat OBVIOUS
    <3> HIDE DEF Bad
    <3>2. QED BY <3>1, LeastNumber
  <2>2. m \in Nat /\ m # 0 BY <1>2, <2>1
  <2>3. m - 1 \in Nat /\ m - 1 \notin Bad
    <3> HIDE DEF Bad
    <3>1. QED BY <2>1, <2>2
  <2>4. PICK g : Ok(g, m - 1) BY <2>3
  <2>5. \E h : Ok(h, (m - 1) + 1)
    <3> HIDE DEF Ok
    <3>1. QED BY <2>3, <2>4, <1>3
  <2>6. (m - 1) + 1 = m BY <2>2
  <2>7. \E h : Ok(h, m) BY <2>5, <2>6
  <2>8. QED BY <2>1, <2>7
<1>5. Cardinality(S) \in Nat BY FS_CardinalityType
<1>6. PICK g : Ok(g, Cardinality(S)) BY <1>4, <1>5
<1>7. Small(Cardinality(S)) = SUBSET S BY FS_Subset
<1>8. g = [s \in SUBSET S |-> WeighStep(g, s)] BY <1>6, <1>7
<1>9. QED BY <1>8 DEF IsWeighing, WeighStep

LEMMA WeightIsANumber ==
  ASSUME NEW S, IsFiniteSet(S), \A p \in S : Policy!Literal(p) \in Int
  PROVE  Policy!MapThenSumSet(Policy!Literal, S) \in Int
<1>1. PICK g : IsWeighing(g, S) /\ Policy!MapThenSumSet(Policy!Literal, S) = g[S]
  BY WeighingExists DEF IsWeighing, Policy!MapThenSumSet, Policy!MapThenFoldSet, Chosen
<1>2. \A U \in SUBSET S : g[U] = WeighStep(g, U) BY <1>1 DEF IsWeighing, WeighStep
<1> DEFINE B == {n \in Nat : \E U \in SUBSET S : Cardinality(U) = n /\ g[U] \notin Int}
<1>3. \A U \in SUBSET S : IsFiniteSet(U) /\ Cardinality(U) \in Nat BY FS_Subset, FS_CardinalityType
<1>4. ASSUME B # {} PROVE FALSE
  <2>1. PICK m \in B : \A k \in B : m <= k
    <3>1. B \subseteq Nat OBVIOUS
    <3> HIDE DEF B
    <3>2. QED BY <1>4, <3>1, LeastNumber
  <2>2. PICK U \in SUBSET S : Cardinality(U) = m /\ g[U] \notin Int BY <2>1
  <2>3. U # {}
    <3>1. {} \in SUBSET S /\ WeighStep(g, {}) = 0 BY DEF WeighStep
    <3>2. g[{}] = 0 BY <1>2, <3>1
    <3>3. QED BY <2>2, <3>2
  <2>4. PICK x : x = Chosen(U) OBVIOUS
  <2>5. x \in U BY <2>3, <2>4, ChosenIn
  <2>6. Cardinality(U \ {x}) = m - 1 /\ m \in Nat /\ U \ {x} \in SUBSET S
    BY <1>3, <2>2, <2>5, FS_RemoveElement
  <2>7. m - 1 \in Nat BY <1>3, <2>6
  <2>8. m - 1 \notin B
    <3>1. ~(m <= m - 1) BY <2>6
    <3> HIDE DEF B
    <3>2. QED BY <2>1, <3>1
  <2>9. g[U \ {x}] \in Int BY <2>6, <2>7, <2>8
  <2>10. Policy!Literal(x) \in Int /\ g[U] = Policy!Literal(x) + g[U \ {x}]
    BY <1>2, <2>2, <2>3, <2>4, <2>5 DEF WeighStep
  <2>11. QED BY <2>2, <2>9, <2>10
<1>5. S \in SUBSET S /\ Cardinality(S) \in Nat BY FS_CardinalityType
<1>6. QED BY <1>1, <1>4, <1>5

(* The greatest of finitely many numbers. *)
LEMMA GreatestExists ==
  ASSUME NEW n \in Nat, NEW S, S \subseteq 0..n, S # {}
  PROVE  \E x \in S : \A y \in S : x >= y
<1> DEFINE B == {m \in Nat : \A y \in S : y <= m}
<1>1. B \subseteq Nat /\ n \in B OBVIOUS
<1>2. PICK m \in B : \A k \in B : m <= k
  <2> HIDE DEF B
  <2>1. QED BY <1>1, LeastNumber
<1>3. m \in Nat /\ \A y \in S : y \in Nat /\ y <= m BY <1>2
<1>4. ASSUME m \notin S PROVE FALSE
  <2>1. \A y \in S : y <= m - 1 BY <1>3, <1>4
  <2>2. m - 1 \in Nat
    <3>1. PICK y : y \in S OBVIOUS
    <3>2. y \in Nat /\ y <= m - 1 BY <1>3, <2>1, <3>1
    <3>3. QED BY <1>3, <3>2
  <2>3. m - 1 \in B BY <2>1, <2>2
  <2>4. m <= m - 1
    <3> HIDE DEF B
    <3>1. QED BY <1>2, <2>3
  <2>5. QED BY <1>3, <2>4
<1>5. QED BY <1>3, <1>4

(* Specificities are compared like Python's tuples: a strict order in which *)
(* any two that are different can be compared. *)
Triples == Int \X Int \X Int

LEMMA BelowIsAnOrder ==
  ASSUME NEW a \in Triples, NEW b \in Triples, NEW c \in Triples
  PROVE  /\ ~Policy!Below(a, a)
         /\ Policy!Below(a, b) /\ Policy!Below(b, c) => Policy!Below(a, c)
         /\ Policy!Below(a, b) /\ ~Policy!Below(c, b) => Policy!Below(a, c)
<1>1. /\ a[1] \in Int /\ a[2] \in Int /\ a[3] \in Int
      /\ b[1] \in Int /\ b[2] \in Int /\ b[3] \in Int
      /\ c[1] \in Int /\ c[2] \in Int /\ c[3] \in Int
  BY DEF Triples
<1>2. QED BY <1>1 DEF Policy!Below

(* Among finitely many rules one is not below any other. *)
LEMMA MaximalExists ==
  ASSUME NEW N \in Nat, NEW f, \A i \in 1..N : f[i] \in Triples,
         NEW M, M \subseteq 1..N, M # {}
  PROVE  \E m \in M : \A j \in M : ~Policy!Below(f[m], f[j])
<1> DEFINE Has(L) == \E m \in L : \A j \in L : ~Policy!Below(f[m], f[j])
           B == {n \in Nat : n <= N /\ \E L : L \subseteq 1..n /\ L # {} /\ ~Has(L)}
<1>1. ASSUME B # {} PROVE FALSE
  <2>1. PICK n \in B : \A k \in B : n <= k
    <3>1. B \subseteq Nat OBVIOUS
    <3> HIDE DEF B
    <3>2. QED BY <1>1, <3>1, LeastNumber
  <2>2. n \in Nat /\ n <= N BY <2>1
  <2>3. PICK L : L \subseteq 1..n /\ L # {} /\ ~Has(L) BY <2>1
  <2>4. n >= 1 BY <2>2, <2>3
  <2>5. n - 1 \in Nat /\ n - 1 <= N /\ n - 1 \notin B
    <3>1. n - 1 \in Nat /\ n - 1 <= N /\ ~(n <= n - 1) BY <2>2, <2>4
    <3> HIDE DEF B
    <3>2. QED BY <2>1, <3>1
  <2>6. \A K : K \subseteq 1..n - 1 /\ K # {} => Has(K)
    <3> HIDE DEF Has
    <3>1. QED BY <2>5
  <2>7. PICK K : K = L \ {n} OBVIOUS
  <2>8. K \subseteq 1..n - 1 BY <2>2, <2>3, <2>7
  <2>9. n \in L
    <3>1. ASSUME n \notin L PROVE FALSE
      <4>1. K = L BY <2>7, <3>1
      <4> HIDE DEF Has
      <4>2. QED BY <2>3, <2>6, <2>8, <4>1
    <3>2. QED BY <3>1
  <2>10. \A i \in L : f[i] \in Triples BY <2>2, <2>3
  <2>11. K # {}
    <3>1. ASSUME K = {} PROVE FALSE
      <4>1. L = {n} BY <2>7, <2>9, <3>1
      <4>2. ~Policy!Below(f[n], f[n]) BY <2>9, <2>10, BelowIsAnOrder
      <4>3. QED BY <2>3, <4>1, <4>2
    <3>2. QED BY <3>1
  <2>12. PICK m \in K : \A j \in K : ~Policy!Below(f[m], f[j]) BY <2>6, <2>8, <2>11
  <2>13. m \in L /\ \A j \in L : j = n \/ j \in K BY <2>7, <2>12
  <2>14. Policy!Below(f[m], f[n]) BY <2>3, <2>12, <2>13
  <2>15. \A j \in L : ~Policy!Below(f[n], f[j])
    <3>1. ASSUME NEW j \in L, Policy!Below(f[n], f[j]) PROVE FALSE
      <4>1. j # n BY <2>9, <2>10, <3>1, BelowIsAnOrder
      <4>2. Policy!Below(f[m], f[j]) BY <2>9, <2>10, <2>13, <2>14, <3>1, BelowIsAnOrder
      <4>3. QED BY <2>12, <2>13, <3>1, <4>1, <4>2
    <3>2. QED BY <3>1
  <2>16. QED BY <2>3, <2>9, <2>15
<1>2. Has(M)
  <2>1. ~Has(M) => N \in B
    <3> HIDE DEF Has
    <3>1. N <= N OBVIOUS
    <3>2. ~Has(M) => \E L : L \subseteq 1..N /\ L # {} /\ ~Has(L) OBVIOUS
    <3>3. QED BY <3>1, <3>2
  <2> HIDE DEF Has, B
  <2>2. QED BY <1>1, <2>1
<1>3. QED BY <1>2

(* What a rule may hold. *)
WellFormedRule(r) ==
    /\ IsFiniteSet(r.resources)
    /\ \A p \in r.resources : p.kind \in {"tool", "path", "host"} /\ Len(p.labels) \in Nat

LEMMA SpecificityIsATriple ==
  ASSUME NEW r, WellFormedRule(r)
  PROVE  Policy!Specificity(r) \in Triples
<1>1. ASSUME NEW p \in r.resources PROVE Policy!Literal(p) \in Int
  <2>1. PICK k, n : k = p.kind /\ n = Len(p.labels) OBVIOUS
  <2>2. k \in {"tool", "path", "host"} /\ n \in Nat BY <2>1 DEF WellFormedRule
  <2>3. Policy!Literal(p) \in {n, 2 * n + 1, 2 * n + 0, 2 * n, 2 * n - 1}
    BY <2>1, <2>2 DEF Policy!Literal
  <2>4. QED BY <2>2, <2>3
<1>2. PICK weight : weight = Policy!MapThenSumSet(Policy!Literal, r.resources) OBVIOUS
<1>3. weight \in Int BY <1>1, <1>2, WeightIsANumber DEF WellFormedRule
<1>4. PICK E : E = {p \in r.resources : ~p.wildcard} OBVIOUS
<1>5. Cardinality(E) \in Nat
  <2>1. E \subseteq r.resources /\ IsFiniteSet(r.resources) BY <1>4 DEF WellFormedRule
  <2>2. IsFiniteSet(E) BY <2>1, FS_Subset
  <2>3. QED BY <2>2, FS_CardinalityType
<1>6. Policy!Cardinality(E) = Cardinality(E) BY DEF Policy!Cardinality, Cardinality
<1>7. PICK c, k : c = Policy!Cardinality(E) /\ k = IF r.risks = {} THEN 0 ELSE 1 OBVIOUS
<1>8. c \in Int /\ k \in Int BY <1>5, <1>6, <1>7
<1>9. Policy!Specificity(r) = <<c, weight, k>> BY <1>2, <1>4, <1>7 DEF Policy!Specificity
<1>10. QED BY <1>3, <1>8, <1>9 DEF Triples

(* The winning rule matches, none that matches is more specific, and if it *)
(* is no DENY rule every DENY rule that matches is less specific. *)
Wins(rs, request, w) ==
    /\ w \in DOMAIN rs /\ Policy!Matches(rs[w], request)
    /\ rs[w].action # "deny" =>
           \A j \in DOMAIN rs :
               rs[j].action = "deny" /\ Policy!Matches(rs[j], request) =>
                   Policy!Below(Policy!Specificity(rs[j]), Policy!Specificity(rs[w]))

LEMMA WinnerWins ==
  ASSUME NEW n \in Nat, NEW rs, DOMAIN rs = 1..n, \A i \in 1..n : WellFormedRule(rs[i]),
         NEW request, NEW w, w = Policy!Winner(rs, request), w # 0
  PROVE  Wins(rs, request, w)
<1>1. PICK f : f = [i \in 1..n |-> Policy!Specificity(rs[i])] OBVIOUS
<1>2. \A i \in 1..n : f[i] \in Triples /\ f[i] = Policy!Specificity(rs[i])
  BY <1>1, SpecificityIsATriple
<1>3. PICK M : M = {i \in DOMAIN rs : Policy!Matches(rs[i], request)} OBVIOUS
<1>4. PICK T : T = {i \in M : \A j \in M : ~Policy!Below(Policy!Specificity(rs[i]), Policy!Specificity(rs[j]))}
  OBVIOUS
<1>5. PICK D : D = {i \in T : rs[i].action = "deny"} OBVIOUS
<1>6. PICK X : X = IF D # {} THEN D ELSE T OBVIOUS
<1>7. M # {} /\ w = Policy!Max(X) BY <1>3, <1>4, <1>5, <1>6 DEF Policy!Winner
<1>8. M \subseteq 1..n /\ T \subseteq M /\ D \subseteq T BY <1>3, <1>4, <1>5
<1>9. T = {i \in M : \A j \in M : ~Policy!Below(f[i], f[j])} BY <1>2, <1>4, <1>8
<1>10. PICK m \in M : \A j \in M : ~Policy!Below(f[m], f[j]) BY <1>2, <1>7, <1>8, MaximalExists
<1>11. X # {} /\ X \subseteq T BY <1>6, <1>8, <1>9, <1>10
<1>12. w \in X
  <2>1. X \subseteq 0..n BY <1>8, <1>11
  <2>2. \E x \in X : \A y \in X : x >= y BY <1>11, <2>1, GreatestExists
  <2>3. QED BY <1>7, <2>2 DEF Policy!Max
<1>13. w \in M /\ w \in T BY <1>8, <1>11, <1>12
<1>14. ASSUME rs[w].action # "deny", NEW j \in DOMAIN rs, rs[j].action = "deny",
              Policy!Matches(rs[j], request)
       PROVE  Policy!Below(Policy!Specificity(rs[j]), Policy!Specificity(rs[w]))
  <2>1. D = {} BY <1>5, <1>6, <1>12, <1>14
  <2>2. j \in M /\ j \notin T BY <1>3, <1>5, <1>14, <2>1
  <2>3. PICK k \in M : Policy!Below(f[j], f[k]) BY <1>9, <2>2
  <2>4. ~Policy!Below(f[w], f[k]) BY <1>9, <1>13
  <2>5. f[j] \in Triples /\ f[k] \in Triples /\ f[w] \in Triples BY <1>2, <1>8, <1>13, <2>2
  <2>6. Policy!Below(f[j], f[w]) BY <2>3, <2>4, <2>5, BelowIsAnOrder
  <2>7. QED BY <1>2, <1>8, <1>13, <2>2, <2>6
<1>15. QED BY <1>3, <1>13, <1>14 DEF Wins

LEMMA AllowedByTheWinner ==
  ASSUME NEW rs, NEW request, Policy!Evaluate(rs, "deny", request) = "allow"
  PROVE  /\ request.risks # {}
         /\ \E w : w = Policy!Winner(rs, request) /\ w # 0 /\ rs[w].action = "allow"
  BY DEF Policy!Evaluate

LEMMA DefaultRulesAreWellFormed ==
  \A i \in 1..3 : WellFormedRule(Policy!DefaultRules[i])
<1>1. PICK p : p = [kind |-> "tool", wildcard |-> FALSE, labels |-> <<"web_search">>] OBVIOUS
<1>2. p.kind = "tool" /\ Len(p.labels) = 1 BY <1>1
<1>3. IsFiniteSet({p}) /\ IsFiniteSet({}) BY FS_Singleton, FS_EmptySet
<1>4. /\ Policy!DefaultRules[1].resources = {} /\ Policy!DefaultRules[2].resources = {}
      /\ Policy!DefaultRules[3].resources = {p}
  BY <1>1, Zenon DEF Policy!DefaultRules
<1>5. ASSUME NEW r, r.resources = {} \/ r.resources = {p} PROVE WellFormedRule(r)
  <2>1. PICK R : R = r.resources OBVIOUS
  <2>2. IsFiniteSet(R) BY <1>3, <1>5, <2>1
  <2>3. \A q \in R : q = p BY <1>5, <2>1
  <2>4. \A q \in R : q.kind \in {"tool", "path", "host"} /\ Len(q.labels) \in Nat BY <1>2, <2>3
  <2>5. QED BY <2>1, <2>2, <2>4 DEF WellFormedRule
<1>6. \A i \in 1..3 : i = 1 \/ i = 2 \/ i = 3 OBVIOUS
<1>7. QED BY <1>4, <1>5, <1>6

PolicyInv ==
    /\ \E n \in Nat : rules \in [1..n -> RuleBook]
    /\ banned \subseteq disabled
    /\ \A r \in ran \cup admitted : ~r.banned

LEMMA PolicyStart == ASSUME Policy!PolicyInit PROVE PolicyInv
<1>1. PICK n \in 0..MaxRules : rules \in [1..n -> RuleBook] BY DEF Policy!PolicyInit
<1>2. n \in Nat OBVIOUS
<1>3. QED BY <1>1, <1>2 DEF Policy!PolicyInit, PolicyInv

LEMMA PolicyNextStep == ASSUME PolicyInv, Policy!PolicyNext PROVE PolicyInv'
<1>1. ASSUME NEW d, Policy!Register(d) PROVE PolicyInv' BY <1>1 DEF PolicyInv, Policy!Register
<1>2. ASSUME NEW id, NEW n0, Policy!RemoveCapability(id, n0) PROVE PolicyInv'
  BY <1>2 DEF PolicyInv, Policy!RemoveCapability
<1>3. ASSUME NEW ids, NEW perms, Policy!ApplyCapabilityPolicy(ids, perms) PROVE PolicyInv'
  BY <1>3 DEF PolicyInv, Policy!ApplyCapabilityPolicy
<1>4. ASSUME NEW call, Policy!Execute(call) PROVE PolicyInv'
  <2>1. PICK t : t = tools[call.name] OBVIOUS
  <2>2. PICK g, b : g = (t.permissions # {}) /\ b = (Policy!Identifiers(t) \cap banned # {}) OBVIOUS
  <2>3. /\ Policy!Identifiers(t) \cap disabled = {} /\ UNCHANGED <<rules, disabled, ran, banned>>
        /\ admitted' = admitted \cup {[name |-> t.name, gated |-> g, banned |-> b]}
    BY <1>4, <2>1, <2>2, Zenon DEF Policy!Execute, Policy!Requestable, Policy!Visible
  <2>4. ~b BY <2>2, <2>3 DEF PolicyInv
  <2>5. PICK r : r = [name |-> t.name, gated |-> g, banned |-> b] OBVIOUS
  <2>6. ~r.banned BY <2>4, <2>5
  <2>7. admitted' = admitted \cup {r} BY <2>3, <2>5
  <2>8. QED BY <2>3, <2>6, <2>7 DEF PolicyInv
<1>5. ASSUME NEW call, Policy!PermissionDenied(call) \/ Policy!RunHandler(call) PROVE PolicyInv'
  BY <1>5 DEF PolicyInv, Policy!PermissionDenied, Policy!RunHandler
<1>6. QED BY <1>1, <1>2, <1>3, <1>4, <1>5 DEF Policy!PolicyNext

LEMMA PolicyRests == ASSUME PolicyInv, UNCHANGED policyPart PROVE PolicyInv'
  BY DEF PolicyInv, policyPart

LEMMA PolicyPromise ==
  ASSUME PolicyInv
  PROVE  /\ Policy!EffectsArePermitted /\ Policy!DefaultPolicyIsConservative
         /\ Policy!DisabledNeverRuns
<1>1. PICK n \in Nat : rules \in [1..n -> RuleBook] BY DEF PolicyInv
<1>2. DOMAIN rules = 1..n /\ \A i \in 1..n : WellFormedRule(rules[i])
  BY <1>1, RuleBookAssumption DEF WellFormedRule
<1>3. ASSUME NEW request, Policy!Evaluate(rules, "deny", request) = "allow"
      PROVE  \E i \in DOMAIN rules :
                 /\ rules[i].action = "allow" /\ Policy!Matches(rules[i], request)
                 /\ rules[i].risks # {} => request.risks \subseteq rules[i].risks
                 /\ \A j \in DOMAIN rules :
                        rules[j].action = "deny" /\ Policy!Matches(rules[j], request) =>
                            Policy!Below(Policy!Specificity(rules[j]), Policy!Specificity(rules[i]))
  <2>1. PICK rs : rs = rules OBVIOUS
  <2>2. PICK w : w = Policy!Winner(rs, request) /\ w # 0 /\ rs[w].action = "allow"
    BY <1>3, <2>1, AllowedByTheWinner
  <2>3. Wins(rs, request, w) BY <1>2, <2>1, <2>2, WinnerWins
  <2>4. rs[w].risks # {} => request.risks \subseteq rs[w].risks
    BY <2>2, <2>3 DEF Wins, Policy!Matches, Policy!RiskApplies
  <2>5. QED BY <2>1, <2>2, <2>3, <2>4 DEF Wins
<1>4. ASSUME NEW request, Policy!Evaluate(Policy!DefaultRules, "deny", request) = "allow"
      PROVE  \/ request.risks = {"read"}
             \/ request.risks = {"network"} /\
                \E p \in request.resources : p.kind = "tool" /\ p.labels = <<"web_search">>
  <2>1. PICK rs : rs = Policy!DefaultRules OBVIOUS
  <2>2. DOMAIN rs = 1..3 /\ \A i \in 1..3 : WellFormedRule(rs[i])
    <3>1. DOMAIN rs = 1..3 BY <2>1 DEF Policy!DefaultRules
    <3>2. QED BY <2>1, <3>1, DefaultRulesAreWellFormed
  <2>3. PICK w : w = Policy!Winner(rs, request) /\ w # 0 /\ rs[w].action = "allow"
    BY <1>4, <2>1, AllowedByTheWinner
  <2>4. Wins(rs, request, w)
    <3>1. 3 \in Nat OBVIOUS
    <3>2. QED BY <2>2, <2>3, <3>1, WinnerWins
  <2>5. w = 1 \/ w = 2 \/ w = 3 BY <2>2, <2>4 DEF Wins
  <2>6. PICK p : p = [kind |-> "tool", wildcard |-> FALSE, labels |-> <<"web_search">>] OBVIOUS
  <2>7. /\ rs[1].action = "ask" /\ rs[2].risks = {"read"} /\ rs[3].risks = {"network"}
        /\ rs[3].resources = {p} /\ rs[3].action = "allow" /\ rs[2].action = "allow"
    BY <2>1, <2>6, Zenon DEF Policy!DefaultRules
  <2>8. w = 2 \/ w = 3 BY <2>3, <2>5, <2>7
  <2>9. request.risks # {} /\ request.risks \subseteq rs[w].risks
    <3>1. request.risks # {} BY <1>4, AllowedByTheWinner
    <3>2. QED BY <2>3, <2>4, <2>7, <2>8, <3>1 DEF Wins, Policy!Matches, Policy!RiskApplies
  <2>10. p.kind = "tool" /\ ~p.wildcard /\ p.labels = <<"web_search">> BY <2>6
  <2>11. CASE w = 2 BY <2>7, <2>9, <2>11
  <2>12. CASE w = 3
    <3>1. request.risks = {"network"} BY <2>7, <2>9, <2>12
    <3>2. PICK concrete \in request.resources : Policy!ResourceMatches(p, concrete)
      BY <2>4, <2>7, <2>12 DEF Wins, Policy!Matches
    <3>3. concrete.kind = "tool" /\ concrete.labels = <<"web_search">>
      BY <2>10, <3>2 DEF Policy!ResourceMatches
    <3>4. QED BY <3>1, <3>3
  <2>13. QED BY <2>8, <2>11, <2>12
<1>5. Policy!EffectsArePermitted BY <1>3 DEF Policy!EffectsArePermitted
<1>6. Policy!DefaultPolicyIsConservative BY <1>4 DEF Policy!DefaultPolicyIsConservative
<1>7. Policy!DisabledNeverRuns BY DEF PolicyInv, Policy!DisabledNeverRuns
<1>8. QED BY <1>5, <1>6, <1>7

------------------------------------------------------------
(* Prices. *)

(* Division as the quotient between two multiples. *)
LEMMA Quotient ==
  ASSUME NEW x \in Int, NEW p \in Nat, p > 0, NEW q, q = x \div p
  PROVE  q \in Int /\ q * p <= x /\ x < q * p + p OBVIOUS

LEMMA Multiples ==
  ASSUME NEW a \in Int, NEW b \in Int, NEW p \in Nat, a <= b
  PROVE  a * p \in Int /\ b * p \in Int /\ a * p <= b * p OBVIOUS

(* A price in nano-dollars is the exact one rounded up. *)
LEMMA RoundedUp ==
  ASSUME NEW a \in Nat, NEW q, q = Pricing!CeilDiv(a, PerNano)
  PROVE  /\ q \in Nat /\ q * PerNano \in Int
         /\ a <= q * PerNano /\ q * PerNano <= a + (PerNano - 1)
<1>1. PICK p, x : p = PerNano /\ x = a + p - 1 OBVIOUS
<1>2. p \in Nat /\ p > 0 /\ x \in Int /\ x >= 0 BY <1>1, PriceAssumption
<1>3. q = x \div p BY <1>1 DEF Pricing!CeilDiv
<1>4. q \in Int /\ q * p <= x /\ x < q * p + p BY <1>2, <1>3, Quotient
<1>5. PICK m : m = q * p OBVIOUS
<1>6. m \in Int BY <1>2, <1>4, <1>5
<1>7. a <= m /\ m <= a + (p - 1) BY <1>1, <1>2, <1>4, <1>5, <1>6
<1>8. q >= 0
  <2>1. ASSUME q <= -1 PROVE FALSE
    <3>1. q * p <= (-1) * p BY <1>2, <1>4, <2>1, Multiples
    <3>2. (-1) * p = -p BY <1>2
    <3>3. QED BY <1>2, <1>5, <1>6, <1>7, <3>1, <3>2
  <2>2. QED BY <1>4, <2>1
<1>9. QED BY <1>1, <1>4, <1>5, <1>6, <1>7, <1>8

LEMMA RoundingKeepsOrder ==
  ASSUME NEW a \in Nat, NEW b \in Nat, a <= b
  PROVE  Pricing!CeilDiv(a, PerNano) <= Pricing!CeilDiv(b, PerNano)
<1>1. PICK p, q, r : /\ p = PerNano /\ q = Pricing!CeilDiv(a, PerNano)
                     /\ r = Pricing!CeilDiv(b, PerNano) OBVIOUS
<1>2. q \in Nat /\ a <= q * p /\ q * p <= a + (p - 1) BY <1>1, RoundedUp
<1>3. r \in Nat /\ b <= r * p /\ r * p <= b + (p - 1) BY <1>1, RoundedUp
<1>4. p \in Nat /\ p > 0 BY <1>1, PriceAssumption
<1>5. ASSUME r + 1 <= q PROVE FALSE
  <2>1. (r + 1) * p <= q * p BY <1>2, <1>3, <1>4, <1>5, Multiples
  <2>2. (r + 1) * p = r * p + p BY <1>3, <1>4
  <2>3. PICK m, k : m = q * p /\ k = r * p OBVIOUS
  <2>4. m \in Int /\ k \in Int BY <1>2, <1>3, <1>4, <2>3
  <2>5. k + p <= m /\ m <= a + (p - 1) /\ b <= k BY <1>2, <1>3, <2>1, <2>2, <2>3
  <2>6. QED BY <1>4, <2>4, <2>5
<1>6. QED BY <1>1, <1>2, <1>3, <1>5

(* The parts of an input at their own rates cost at most the whole of it at *)
(* the dearest of them. *)
LEMMA DearestRate ==
  ASSUME NEW i \in Nat, NEW r \in Nat, NEW w \in Nat, r + w <= i, NEW I \in Nat, i <= I,
         NEW x \in Nat, NEW y \in Nat, NEW z \in Nat, NEW d \in Nat, x <= d, y <= d, z <= d
  PROVE  (i - r - w) * x + r * y + w * z <= I * d
<1>1. PICK k : k = i - r - w OBVIOUS
<1>2. k \in Nat /\ k + r + w = i BY <1>1
<1>3. x * k <= d * k /\ x * k = k * x /\ d * k = k * d BY <1>2, Multiples
<1>4. y * r <= d * r /\ y * r = r * y /\ d * r = r * d BY Multiples
<1>5. z * w <= d * w /\ z * w = w * z /\ d * w = w * d BY Multiples
<1>6. i * d <= I * d BY Multiples
<1>7. k * d + r * d + w * d = i * d BY <1>2
<1>8. /\ k * x \in Int /\ r * y \in Int /\ w * z \in Int /\ k * d \in Int /\ r * d \in Int
      /\ w * d \in Int /\ i * d \in Int /\ I * d \in Int
  BY <1>2
<1>9. PICK a, b, c, a1, b1, c1, e, f :
        /\ a = k * x /\ b = r * y /\ c = w * z /\ a1 = k * d /\ b1 = r * d /\ c1 = w * d
        /\ e = i * d /\ f = I * d OBVIOUS
<1>10. /\ a \in Int /\ b \in Int /\ c \in Int /\ a1 \in Int /\ b1 \in Int /\ c1 \in Int
       /\ e \in Int /\ f \in Int
       /\ a <= a1 /\ b <= b1 /\ c <= c1 /\ a1 + b1 + c1 = e /\ e <= f
  BY <1>3, <1>4, <1>5, <1>6, <1>7, <1>8, <1>9
<1>11. a + b + c <= f BY <1>10
<1>12. QED BY <1>1, <1>9, <1>11

GoodRates(rates) ==
    /\ rates.input \in Nat /\ rates.output \in Nat
    /\ rates.cacheRead \in Nat \cup {-1} /\ rates.cacheWrite \in Nat \cup {-1}

GoodUsage(u) ==
    /\ u.input \in Nat /\ u.input <= MaxTokensIn /\ u.output \in Nat /\ u.output <= MaxTokensOut
    /\ Pricing!OrZero(u.read) \in Nat /\ Pricing!OrZero(u.write) \in Nat /\ Pricing!UsageFits(u)

LEMMA ReportedUsage == ASSUME NEW u \in Pricing!Usages, Pricing!UsageFits(u) PROVE GoodUsage(u)
<1>1. PICK i \in {0, MaxTokensIn}, o \in 0..MaxTokensOut,
           r \in {Pricing!Absent} \union 0..MaxTokensIn, w \in {Pricing!Absent, 0, 1} :
        u = Pricing!Usage(i, o, r, w)
  BY DEF Pricing!Usages
<1>2. u.input = i /\ u.output = o /\ u.read = r /\ u.write = w BY <1>1 DEF Pricing!Usage
<1>3. MaxTokensIn \in Nat /\ MaxTokensOut \in Nat BY PriceAssumption
<1>4. Pricing!OrZero(r) \in Nat /\ Pricing!OrZero(w) \in Nat BY <1>1, <1>3 DEF Pricing!OrZero
<1>5. QED BY <1>1, <1>2, <1>3, <1>4 DEF GoodUsage

(* The classes of a quote are usages too. *)
LEMMA QuotedUsage == ASSUME NEW pair, NEW u \in Pricing!InputClasses(pair) PROVE GoodUsage(u)
<1>1. MaxTokensIn \in Nat /\ MaxTokensOut \in Nat BY PriceAssumption
<1>2. PICK r, w : /\ u = Pricing!Usage(MaxTokensIn, MaxTokensOut, r, w)
                  /\ <<r, w>> \in {<<Pricing!Absent, Pricing!Absent>>,
                                   <<MaxTokensIn, Pricing!Absent>>,
                                   <<Pricing!Absent, MaxTokensIn>>}
  BY DEF Pricing!InputClasses
<1>3. u.input = MaxTokensIn /\ u.output = MaxTokensOut /\ u.read = r /\ u.write = w
  BY <1>2 DEF Pricing!Usage
<1>4. /\ Pricing!OrZero(Pricing!Absent) = 0 /\ Pricing!OrZero(MaxTokensIn) = MaxTokensIn
  BY <1>1 DEF Pricing!OrZero, Pricing!Absent
<1>5. QED BY <1>1, <1>2, <1>3, <1>4 DEF GoodUsage, Pricing!UsageFits

LEMMA AmountIsPositive ==
  ASSUME NEW rates, GoodRates(rates), NEW provider, NEW u, GoodUsage(u)
  PROVE  Pricing!Amount(rates, provider, u) \in Nat
<1>1. PICK i, o, r, w : /\ i = u.input /\ o = u.output /\ r = Pricing!OrZero(u.read)
                        /\ w = Pricing!OrZero(u.write) OBVIOUS
<1>2. i \in Nat /\ o \in Nat /\ r \in Nat /\ w \in Nat /\ r + w <= i
  BY <1>1 DEF GoodUsage, Pricing!UsageFits
<1>3. PICK x, y, z, t : /\ x = rates.input /\ t = rates.output
                        /\ y = Pricing!RateOr(rates.cacheRead, provider, rates.input)
                        /\ z = Pricing!RateOr(rates.cacheWrite, provider, rates.input) OBVIOUS
<1>4. x \in Nat /\ y \in Nat /\ z \in Nat /\ t \in Nat
  BY <1>3 DEF GoodRates, Pricing!RateOr, Pricing!NoRate
<1>5. Pricing!Amount(rates, provider, u) = (i - r - w) * x + r * y + w * z + o * t
  BY <1>1, <1>3 DEF Pricing!Amount
<1>6. i - r - w \in Nat BY <1>2
<1>7. (i - r - w) * x \in Nat /\ r * y \in Nat /\ w * z \in Nat /\ o * t \in Nat BY <1>2, <1>4, <1>6
<1>8. QED BY <1>5, <1>7

(* Whatever was cached, some class of the quote costs as much. *)
LEMMA ClassCoversUsage ==
  ASSUME NEW pair, NEW rates, rates = PriceTable[pair.model], GoodRates(rates),
         NEW u, GoodUsage(u)
  PROVE  \E c \in Pricing!InputClasses(pair) :
             Pricing!Amount(rates, pair.provider, u) <= Pricing!Amount(rates, pair.provider, c)
<1>1. PICK i, o, r, w : /\ i = u.input /\ o = u.output /\ r = Pricing!OrZero(u.read)
                        /\ w = Pricing!OrZero(u.write) OBVIOUS
<1>2. PICK I, O : I = MaxTokensIn /\ O = MaxTokensOut OBVIOUS
<1>3. /\ i \in Nat /\ o \in Nat /\ r \in Nat /\ w \in Nat /\ r + w <= i
      /\ i <= I /\ o <= O /\ I \in Nat /\ O \in Nat
  BY <1>1, <1>2, PriceAssumption DEF GoodUsage, Pricing!UsageFits
<1>4. PICK x, y, z, t : /\ x = rates.input /\ t = rates.output
                        /\ y = Pricing!RateOr(rates.cacheRead, pair.provider, rates.input)
                        /\ z = Pricing!RateOr(rates.cacheWrite, pair.provider, rates.input) OBVIOUS
<1>5. x \in Nat /\ y \in Nat /\ z \in Nat /\ t \in Nat
  BY <1>4 DEF GoodRates, Pricing!RateOr, Pricing!NoRate
<1>6. Pricing!Amount(rates, pair.provider, u) = (i - r - w) * x + r * y + w * z + o * t
  BY <1>1, <1>4 DEF Pricing!Amount
<1>7. PICK a, b : a = (i - r - w) * x + r * y + w * z /\ b = o * t OBVIOUS
<1>8. a \in Int /\ b \in Int
  <2>1. i - r - w \in Int BY <1>3
  <2>2. (i - r - w) * x \in Int /\ r * y \in Int /\ w * z \in Int /\ o * t \in Int
    BY <1>3, <1>5, <2>1
  <2>3. QED BY <1>7, <2>2
<1>9. b <= O * t /\ O * t \in Int BY <1>3, <1>5, <1>7, Multiples
<1>10. ASSUME NEW d \in Nat, x <= d, y <= d, z <= d, NEW c,
              Pricing!Amount(rates, pair.provider, c) = I * d + O * t
       PROVE  Pricing!Amount(rates, pair.provider, u) <= Pricing!Amount(rates, pair.provider, c)
  <2>1. a <= I * d BY <1>3, <1>5, <1>7, <1>10, DearestRate
  <2>2. PICK e, f : e = I * d /\ f = O * t OBVIOUS
  <2>3. e \in Int /\ f \in Int BY <1>3, <1>9, <1>10, <2>2
  <2>4. a + b <= e + f BY <1>8, <1>9, <2>1, <2>2, <2>3
  <2>5. QED BY <1>6, <1>7, <1>10, <2>2, <2>4
<1>11. /\ Pricing!OrZero(Pricing!Absent) = 0 /\ Pricing!OrZero(I) = I
  BY <1>3 DEF Pricing!OrZero, Pricing!Absent
<1>12. ASSUME NEW c, NEW r1, NEW w1, c = Pricing!Usage(I, O, r1, w1)
       PROVE  Pricing!Amount(rates, pair.provider, c) =
                  (I - Pricing!OrZero(r1) - Pricing!OrZero(w1)) * x + Pricing!OrZero(r1) * y
                  + Pricing!OrZero(w1) * z + O * t
  <2>1. c.input = I /\ c.output = O /\ c.read = r1 /\ c.write = w1 BY <1>12 DEF Pricing!Usage
  <2>2. QED BY <1>4, <2>1 DEF Pricing!Amount
<1>13. CASE y <= x /\ z <= x
  <2>1. PICK c : c = Pricing!Usage(I, O, Pricing!Absent, Pricing!Absent) OBVIOUS
  <2>2. c \in Pricing!InputClasses(pair) BY <1>2, <2>1 DEF Pricing!InputClasses
  <2>3. Pricing!Amount(rates, pair.provider, c) = (I - 0 - 0) * x + 0 * y + 0 * z + O * t
    BY <1>11, <1>12, <2>1
  <2>4. (I - 0 - 0) * x + 0 * y + 0 * z + O * t = I * x + O * t BY <1>3, <1>5
  <2>5. x <= x BY <1>5
  <2>6. QED BY <1>5, <1>10, <1>13, <2>2, <2>3, <2>4, <2>5
<1>14. CASE ~(y <= x) /\ z <= y
  <2>1. PICK c : c = Pricing!Usage(I, O, I, Pricing!Absent) OBVIOUS
  <2>2. Pricing!SupportsCachePricing(pair.provider) /\ rates.cacheRead # Pricing!NoRate
    BY <1>4, <1>5, <1>14 DEF Pricing!RateOr
  <2>3. c \in Pricing!InputClasses(pair) BY <1>2, <2>1, <2>2 DEF Pricing!InputClasses
  <2>4. Pricing!Amount(rates, pair.provider, c) = (I - I - 0) * x + I * y + 0 * z + O * t
    BY <1>11, <1>12, <2>1
  <2>5. (I - I - 0) * x + I * y + 0 * z + O * t = I * y + O * t BY <1>3, <1>5
  <2>6. x <= y /\ y <= y BY <1>5, <1>14
  <2>7. QED BY <1>5, <1>10, <1>14, <2>3, <2>4, <2>5, <2>6
<1>15. CASE ~(z <= x) /\ ~(z <= y)
  <2>1. PICK c : c = Pricing!Usage(I, O, Pricing!Absent, I) OBVIOUS
  <2>2. Pricing!SupportsCachePricing(pair.provider) /\ rates.cacheWrite # Pricing!NoRate
    BY <1>4, <1>5, <1>15 DEF Pricing!RateOr
  <2>3. c \in Pricing!InputClasses(pair) BY <1>2, <2>1, <2>2 DEF Pricing!InputClasses
  <2>4. Pricing!Amount(rates, pair.provider, c) = (I - 0 - I) * x + 0 * y + I * z + O * t
    BY <1>11, <1>12, <2>1
  <2>5. (I - 0 - I) * x + 0 * y + I * z + O * t = I * z + O * t BY <1>3, <1>5
  <2>6. x <= z /\ y <= z /\ z <= z BY <1>5, <1>15
  <2>7. QED BY <1>5, <1>10, <2>3, <2>4, <2>5, <2>6
<1>16. QED BY <1>5, <1>13, <1>14, <1>15

LEMMA PricedUsage ==
  ASSUME NEW pair, NEW u, NEW n, n = Pricing!PriceUsage(pair, u), n # Pricing!Refused
  PROVE  /\ Pricing!ValidPair(pair) /\ n <= PriceLimit
         /\ n = Pricing!CeilDiv(Pricing!Amount(PriceTable[pair.model], pair.provider, u), PerNano)
  BY DEF Pricing!PriceUsage

LEMMA ValidPairsHaveRates ==
  ASSUME NEW pair, Pricing!ValidPair(pair)
  PROVE  pair.model \in DOMAIN PriceTable /\ GoodRates(PriceTable[pair.model])
  BY PriceAssumption DEF Pricing!ValidPair, GoodRates

(* Whichever candidate answers, the quote is enough. *)
LEMMA QuoteIsEnough ==
  ASSUME NEW candidates, NEW amount, amount = Pricing!QuoteCall(candidates),
         amount # Pricing!Refused, NEW pair \in candidates, NEW u, GoodUsage(u)
  PROVE  Pricing!PriceUsage(pair, u) \in 0..amount
<1>1. /\ \A c \in candidates : Pricing!ValidPair(c)
      /\ \A c \in candidates : \A v \in Pricing!InputClasses(c) :
             Pricing!PriceUsage(c, v) # Pricing!Refused
  BY DEF Pricing!QuoteCall
<1>2. PICK Q : Q = UNION {{Pricing!PriceUsage(c, v) : v \in Pricing!InputClasses(c)} : c \in candidates}
  OBVIOUS
<1>3. amount = Pricing!Max(Q) BY <1>2 DEF Pricing!QuoteCall
<1>4. ASSUME NEW c \in candidates, NEW v \in Pricing!InputClasses(c), NEW n,
             n = Pricing!PriceUsage(c, v)
      PROVE  /\ n \in 0..PriceLimit
             /\ n = Pricing!CeilDiv(Pricing!Amount(PriceTable[c.model], c.provider, v), PerNano)
  <2>1. PICK m : m = Pricing!Amount(PriceTable[c.model], c.provider, v) OBVIOUS
  <2>2. m \in Nat BY <1>1, <2>1, QuotedUsage, ValidPairsHaveRates, AmountIsPositive
  <2>3. n <= PriceLimit /\ n = Pricing!CeilDiv(m, PerNano) BY <1>1, <1>4, <2>1, PricedUsage
  <2>4. n \in Nat BY <2>2, <2>3, RoundedUp
  <2>5. QED BY <2>1, <2>3, <2>4, PriceAssumption
<1>5. Q \subseteq 0..PriceLimit BY <1>2, <1>4
<1>6. PICK rates : rates = PriceTable[pair.model] OBVIOUS
<1>7. GoodRates(rates) BY <1>1, <1>6, ValidPairsHaveRates
<1>8. PICK c \in Pricing!InputClasses(pair) :
        Pricing!Amount(rates, pair.provider, u) <= Pricing!Amount(rates, pair.provider, c)
  BY <1>6, <1>7, ClassCoversUsage
<1>9. PICK n : n = Pricing!PriceUsage(pair, c) OBVIOUS
<1>10. n \in Q BY <1>2, <1>9
<1>11. amount \in Q /\ amount >= n
  <2>1. \E x \in Q : \A y \in Q : x >= y BY <1>5, <1>10, PriceAssumption, GreatestExists
  <2>2. QED BY <1>3, <1>10, <2>1 DEF Pricing!Max
<1>12. PICK a, b : /\ a = Pricing!Amount(rates, pair.provider, u)
                   /\ b = Pricing!Amount(rates, pair.provider, c) OBVIOUS
<1>13. a \in Nat /\ b \in Nat /\ a <= b
  <2>1. GoodUsage(c) BY QuotedUsage
  <2>2. QED BY <1>7, <1>8, <1>12, <2>1, AmountIsPositive
<1>14. n \in 0..PriceLimit /\ n = Pricing!CeilDiv(b, PerNano) BY <1>4, <1>6, <1>9, <1>12
<1>15. PICK m : m = Pricing!CeilDiv(a, PerNano) OBVIOUS
<1>16. m \in Nat BY <1>13, <1>15, RoundedUp
<1>17. m <= n BY <1>13, <1>14, <1>15, RoundingKeepsOrder
<1>18. m <= PriceLimit /\ n \in Int /\ amount \in Int /\ PriceLimit \in Int
  BY <1>5, <1>11, <1>14, <1>16, <1>17, PriceAssumption
<1>19. Pricing!ValidPair(pair) /\ Pricing!UsageFits(u) BY <1>1 DEF GoodUsage
<1>20. Pricing!PriceUsage(pair, u) = m BY <1>6, <1>12, <1>15, <1>18, <1>19 DEF Pricing!PriceUsage
<1>21. QED BY <1>11, <1>16, <1>17, <1>18, <1>20

(* What the budget charged covers the tracker's sum, by at most the rounding. *)
BooksAgree(t) ==
    /\ t = [cost |-> t.cost, calls |-> t.calls, read |-> t.read, write |-> t.write,
            charged |-> t.charged, budgeted |-> t.budgeted]
    /\ t.budgeted =>
           /\ t.cost \in Nat /\ t.calls \in Nat /\ t.charged \in Nat
           /\ t.charged * PerNano - t.cost \in 0..(PerNano - 1) * t.calls

LEMMA ShownAgrees == ASSUME BooksAgree(tally) PROVE Pricing!TrackerAgrees
<1>1. PICK c, n, k, p, q, w : /\ c = tally.cost /\ n = tally.calls /\ k = tally.charged * PerNano
                              /\ p = PerMicro /\ q = PerNano /\ w = (q - 1) * n OBVIOUS
<1>2. SUFFICES ASSUME tally.budgeted, NEW m \in Pricing!ShownTotals(c)
               PROVE  2 * m * p - 2 * k \in (-(p + 2 * (q - 1) * n))..p
  BY <1>1 DEF Pricing!TrackerAgrees, BooksAgree
<1>3. c \in Nat /\ n \in Nat /\ p \in Nat /\ q \in Nat /\ q >= 1 /\ k \in Int /\ w \in Int
  BY <1>1, <1>2, PriceAssumption DEF BooksAgree
<1>4. k - c \in 0..w BY <1>1, <1>2 DEF BooksAgree
<1>5. m \in Nat /\ 2 * m * p - 2 * c \in (-p)..p BY <1>1, <1>2, <1>3 DEF Pricing!ShownTotals
<1>6. PICK x : x = 2 * m * p OBVIOUS
<1>7. x \in Int BY <1>3, <1>5, <1>6
<1>8. 2 * (q - 1) * n = 2 * w BY <1>1, <1>3
<1>9. x - 2 * k \in (-(p + 2 * w))..p BY <1>3, <1>4, <1>5, <1>6, <1>7
<1>10. QED BY <1>6, <1>8, <1>9

(* A call is made on the quote of its candidates; what was paid for the last *)
(* one agrees with the quote and with the tracker. *)
PricingInv ==
    /\ quoted.pc = "calling" =>
           /\ quoted.amount = Pricing!QuoteCall(quoted.candidates)
           /\ quoted.amount # Pricing!Refused
    /\ quoted = [pc |-> quoted.pc, candidates |-> quoted.candidates, amount |-> quoted.amount]
    /\ Pricing!QuotesCoverTheCall /\ BooksAgree(tally)

LEMMA PricingStart == ASSUME Pricing!PricingInit PROVE PricingInv
<1>1. quoted = [pc |-> "idle", candidates |-> {}, amount |-> Pricing!Refused]
      /\ priced = Pricing!NoPrice
  BY DEF Pricing!PricingInit
<1>2. quoted.pc = "idle" /\ quoted.candidates = {} /\ quoted.amount = Pricing!Refused BY <1>1
<1>3. tally = Pricing!EmptyTally BY DEF Pricing!PricingInit
<1>4. /\ tally.cost = 0 /\ tally.calls = 0 /\ tally.charged = 0
      /\ tally = [cost |-> tally.cost, calls |-> tally.calls, read |-> tally.read,
                  write |-> tally.write, charged |-> tally.charged, budgeted |-> tally.budgeted]
  BY <1>3 DEF Pricing!EmptyTally
<1>5. BooksAgree(tally) BY <1>4, PriceAssumption DEF BooksAgree
<1>6. QED BY <1>1, <1>2, <1>5 DEF PricingInv, Pricing!QuotesCoverTheCall

LEMMA QuotedStep ==
  ASSUME PricingInv, NEW candidates, Pricing!QuoteFor(candidates)
  PROVE  PricingInv'
<1>1. PICK amount : amount = Pricing!QuoteCall(candidates) OBVIOUS
<1>2. PICK pc1, cs : /\ pc1 = IF amount = Pricing!Refused THEN "idle" ELSE "calling"
                     /\ cs = IF amount = Pricing!Refused THEN {} ELSE candidates OBVIOUS
<1>3. quoted' = [pc |-> pc1, candidates |-> cs, amount |-> amount]
      /\ UNCHANGED priced /\ UNCHANGED tally
  BY <1>1, <1>2 DEF Pricing!QuoteFor
<1>4. quoted'.pc = pc1 /\ quoted'.candidates = cs /\ quoted'.amount = amount BY <1>3
<1>5. CASE amount = Pricing!Refused
  BY <1>2, <1>3, <1>4, <1>5 DEF PricingInv, Pricing!QuotesCoverTheCall
<1>6. CASE amount # Pricing!Refused
  BY <1>1, <1>2, <1>3, <1>4, <1>6 DEF PricingInv, Pricing!QuotesCoverTheCall
<1>7. QED BY <1>5, <1>6

LEMMA AnsweredStep ==
  ASSUME PricingInv, NEW u \in Pricing!Usages, NEW pair, Pricing!AnswerWith(pair, u)
  PROVE  PricingInv'
<1>1. PICK n, a : n = Pricing!PriceUsage(pair, u) /\ a = Pricing!TrackedAmount(pair, u) OBVIOUS
<1>2. /\ quoted.pc = "calling" /\ pair \in quoted.candidates /\ Pricing!UsageFits(u)
      /\ priced' = [usage |-> u, pair |-> pair, exact |-> n]
      /\ tally' = Pricing!TallyAfter(pair, u, n)
      /\ quoted' = [quoted EXCEPT !.pc = "idle"]
  BY <1>1 DEF Pricing!AnswerWith
<1>3. GoodUsage(u) BY <1>2, ReportedUsage
<1>4. n \in 0..quoted.amount
  <2>1. PICK cs, amount : cs = quoted.candidates /\ amount = quoted.amount OBVIOUS
  <2>2. amount = Pricing!QuoteCall(cs) /\ amount # Pricing!Refused /\ pair \in cs
    BY <1>2, <2>1 DEF PricingInv
  <2>3. QED BY <1>1, <1>3, <2>1, <2>2, QuoteIsEnough
<1>5. n # Pricing!Refused BY <1>4 DEF Pricing!Refused
<1>6. PICK m : m = Pricing!Amount(PriceTable[pair.model], pair.provider, u) OBVIOUS
<1>7. Pricing!ValidPair(pair) /\ n = Pricing!CeilDiv(m, PerNano) BY <1>1, <1>5, <1>6, PricedUsage
<1>8. pair.model \in DOMAIN PriceTable /\ GoodRates(PriceTable[pair.model])
  BY <1>7, ValidPairsHaveRates
<1>9. a = m BY <1>1, <1>6, <1>8 DEF Pricing!TrackedAmount
<1>10. m \in Nat BY <1>3, <1>6, <1>8, AmountIsPositive
<1>11. n * PerNano \in Int /\ m <= n * PerNano /\ n * PerNano <= m + (PerNano - 1)
  BY <1>7, <1>10, RoundedUp
<1>12. PICK k, p : k = n * p /\ p = PerNano OBVIOUS
<1>13. k \in Int /\ p \in Nat /\ m <= k /\ k <= m + (p - 1) BY <1>11, <1>12, PriceAssumption
<1>14. k - m \in 0..(p - 1) BY <1>10, <1>13
<1>15. priced'.exact = n BY <1>2
<1>16. BooksAgree(tally')
  <2>1. PICK c, i, h, b : c = tally.cost /\ i = tally.calls /\ h = tally.charged /\ b = tally.budgeted
    OBVIOUS
  <2>2. PICK r, w : /\ r = Pricing!PlusReported(tally.read, u.read)
                    /\ w = Pricing!PlusReported(tally.write, u.write) OBVIOUS
  <2>3. tally' = [cost |-> c + m, calls |-> i + 1, read |-> r, write |-> w,
                  charged |-> h + n, budgeted |-> b /\ TRUE]
    BY <1>1, <1>2, <1>5, <1>9, <2>1, <2>2 DEF Pricing!TallyAfter
  <2>4. /\ tally'.cost = c + m /\ tally'.calls = i + 1 /\ tally'.charged = h + n
        /\ tally'.budgeted = (b /\ TRUE) /\ tally'.read = r /\ tally'.write = w
    BY <2>3
  <2>5. ASSUME b
        PROVE  /\ c + m \in Nat /\ i + 1 \in Nat /\ h + n \in Nat
               /\ (h + n) * PerNano - (c + m) \in 0..(PerNano - 1) * (i + 1)
    <3>1. /\ c \in Nat /\ i \in Nat /\ h \in Nat
          /\ h * PerNano - c \in 0..(PerNano - 1) * i
      BY <2>1, <2>5 DEF PricingInv, BooksAgree
    <3>2. n \in Nat BY <1>7, <1>10, RoundedUp
    <3>3. PICK x, y : x = h * p /\ y = (p - 1) * i OBVIOUS
    <3>4. x \in Int /\ y \in Int /\ p >= 1 BY <1>12, <1>13, <3>1, <3>3, PriceAssumption
    <3>5. (h + n) * p = x + k /\ (p - 1) * (i + 1) = y + (p - 1) BY <1>12, <1>13, <3>1, <3>2, <3>3
    <3>6. x + k - (c + m) \in 0..(y + (p - 1)) BY <1>10, <1>12, <1>13, <1>14, <3>1, <3>3, <3>4
    <3>7. (h + n) * p - (c + m) \in 0..(p - 1) * (i + 1)
      <4>1. PICK s, t : s = (h + n) * p /\ t = (p - 1) * (i + 1) OBVIOUS
      <4>2. s = x + k /\ t = y + (p - 1) BY <3>5, <4>1
      <4>3. s - (c + m) \in 0..t BY <1>10, <1>13, <3>1, <3>4, <3>6, <4>2
      <4>4. QED BY <4>1, <4>3
    <3>8. c + m \in Nat /\ i + 1 \in Nat /\ h + n \in Nat BY <1>10, <3>1, <3>2
    <3>9. QED BY <1>12, <3>7, <3>8
  <2>6. PICK t : t = tally' OBVIOUS
  <2>7. b => /\ t.cost \in Nat /\ t.calls \in Nat /\ t.charged \in Nat
             /\ t.charged * PerNano - t.cost \in 0..(PerNano - 1) * t.calls
    BY <2>4, <2>5, <2>6
  <2>8. BooksAgree(t) BY <2>3, <2>4, <2>6, <2>7 DEF BooksAgree
  <2>9. QED BY <2>6, <2>8
<1>17. /\ quoted' = [pc |-> "idle", candidates |-> quoted.candidates, amount |-> quoted.amount]
       /\ quoted'.pc = "idle" /\ quoted'.amount = quoted.amount
       /\ quoted'.candidates = quoted.candidates
  BY <1>2 DEF PricingInv
<1>18. Pricing!QuotesCoverTheCall' BY <1>4, <1>15, <1>17 DEF Pricing!QuotesCoverTheCall
<1>19. QED BY <1>16, <1>17, <1>18 DEF PricingInv

LEMMA UnbudgetedStep ==
  ASSUME PricingInv, NEW u, NEW pair, Pricing!AnswerUnbudgeted(pair, u)
  PROVE  PricingInv'
<1>1. PICK a : a = Pricing!TrackedAmount(pair, u) OBVIOUS
<1>2. /\ quoted.pc = "idle" /\ quoted' = [quoted EXCEPT !.amount = Pricing!Refused]
      /\ priced' = [usage |-> u, pair |-> pair, exact |-> Pricing!Refused]
      /\ tally' = Pricing!TallyAfter(pair, u, Pricing!Refused)
  BY <1>1 DEF Pricing!AnswerUnbudgeted
<1>3. /\ quoted' = [pc |-> "idle", candidates |-> quoted.candidates, amount |-> Pricing!Refused]
      /\ quoted'.pc = "idle" /\ quoted'.amount = Pricing!Refused
      /\ quoted'.candidates = quoted.candidates
  BY <1>2 DEF PricingInv
<1>4. BooksAgree(tally')
  <2>1. PICK c, i, r, w, h, b :
            tally' = [cost |-> c, calls |-> i, read |-> r, write |-> w, charged |-> h,
                      budgeted |-> b /\ FALSE]
    BY <1>2 DEF Pricing!TallyAfter
  <2>2. /\ tally'.cost = c /\ tally'.calls = i /\ tally'.read = r /\ tally'.write = w
        /\ tally'.charged = h /\ tally'.budgeted = (b /\ FALSE)
    BY <2>1
  <2>3. QED BY <2>1, <2>2 DEF BooksAgree
<1>5. QED BY <1>3, <1>4 DEF PricingInv, Pricing!QuotesCoverTheCall

LEMMA PricingNextStep == ASSUME PricingInv, Pricing!PricingNext PROVE PricingInv'
  BY QuotedStep, AnsweredStep, UnbudgetedStep DEF Pricing!PricingNext

LEMMA PricingRests == ASSUME PricingInv, UNCHANGED pricingPart PROVE PricingInv'
<1>1. UNCHANGED quoted /\ UNCHANGED priced /\ UNCHANGED tally BY DEF pricingPart
<1>2. QED BY <1>1 DEF PricingInv, Pricing!QuotesCoverTheCall

------------------------------------------------------------
(* Only permitted work is done. *)

PermittedInv ==
    /\ CallsInv /\ PolicyInv /\ EnvelopeInv /\ TeamInv /\ WorkersInv /\ TurnInv /\ PricingInv
    /\ ReflectionInv

LEMMA PermittedStep == ASSUME PermittedInv, Next PROVE PermittedInv'
<1>1. CallsInv' BY EachPart, CallsNextStep, CallsRest DEF PermittedInv
<1>2. PolicyInv' BY EachPart, PolicyNextStep, PolicyRests DEF PermittedInv
<1>3. EnvelopeInv' BY EachPart, EnvelopeNextStep, EnvelopesRest DEF PermittedInv
<1>4. TeamInv' BY EachPart, TeamNextStep, TeamRests DEF PermittedInv
<1>5. WorkersInv' BY EachPart, WorkersNextStep, WorkersRest DEF PermittedInv
<1>6. TurnInv'
  <2>1. UNCHANGED sandboxPart => UNCHANGED <<executionActive, boxHandler, boxCaller, groups>>
    BY DEF sandboxPart
  <2>2. QED BY <2>1, EachPart, TurnNextStep, TurnRests DEF PermittedInv
<1>7. PricingInv' BY EachPart, PricingNextStep, PricingRests DEF PermittedInv
<1>8. ReflectionInv'
  <2>1. UNCHANGED reflectionPart => UNCHANGED reflection BY DEF reflectionPart
  <2>2. QED BY <2>1, EachPart, ReflectionNextStep, ReflectionRests DEF PermittedInv
<1>9. QED BY <1>1, <1>2, <1>3, <1>4, <1>5, <1>6, <1>7, <1>8 DEF PermittedInv

LEMMA PermittedRests == ASSUME PermittedInv, UNCHANGED vars PROVE PermittedInv'
<1>1. /\ UNCHANGED runPart /\ UNCHANGED policyPart /\ UNCHANGED envelopesPart
      /\ UNCHANGED teamPart /\ UNCHANGED workersPart /\ UNCHANGED sandboxPart
      /\ UNCHANGED pricingPart /\ UNCHANGED reflectionPart
  BY DEF vars
<1>2. UNCHANGED <<executionActive, boxHandler, boxCaller, groups>> /\ UNCHANGED reflection
  BY <1>1 DEF sandboxPart, reflectionPart
<1>3. CallsInv' /\ PolicyInv' /\ EnvelopeInv' /\ TeamInv'
  BY <1>1, CallsRest, PolicyRests, EnvelopesRest, TeamRests DEF PermittedInv
<1>4. WorkersInv' /\ TurnInv' /\ PricingInv' /\ ReflectionInv'
  BY <1>1, <1>2, WorkersRest, TurnRests, PricingRests, ReflectionRests DEF PermittedInv
<1>5. QED BY <1>3, <1>4 DEF PermittedInv

(* Whichever part acts: the calls of a run are paid for; the rules stay as *)
(* they are written and what was disabled stays so; an envelope is spent *)
(* once; a child's registry, its time and its events agree with its team's *)
(* plan; the workers' queue and batch are in order; the sandbox's flag is *)
(* held by the one request that may have processes; a call is quoted from *)
(* its candidates; and a reflection's cap is payable. *)
THEOREM PermittedInvariant == Spec => []PermittedInv
<1>1. Init => PermittedInv
  BY CallsStart, PolicyStart, EnvelopeStart, TeamStart, WorkersStart, TurnStart, PricingStart,
     ReflectionStart DEF Init, PermittedInv
<1>2. PermittedInv /\ [Next]_vars => PermittedInv' BY PermittedStep, PermittedRests
<1>3. QED BY <1>1, <1>2, PTL DEF Spec

(* A tool call runs once and within the budget, only what a rule covers and *)
(* no DENY rule as specific forbids passes the policy, a disabled tool *)
(* never runs, an envelope is used once and by the child it was signed for, *)
(* children only read and stay in time, tasks are claimed once in order, an *)
(* unsafe call runs alone, no process outlives its turn in the sandbox, a *)
(* quote covers the call it was made for, and no reflection starts a call *)
(* it may not pay (engine.py, security/policy.py, delegation/, sandbox *)
(* server.py, cost_tracker.py, reflection/service.py). *)
THEOREM PermittedWork == Spec => []OnlyPermittedWorkIsDone
<1>1. ASSUME PermittedInv PROVE OnlyPermittedWorkIsDone
  <2>1. Run!CallsRunOnceWithinBudget BY <1>1, CallsPromise DEF PermittedInv
  <2>2. /\ Policy!EffectsArePermitted /\ Policy!DefaultPolicyIsConservative
        /\ Policy!DisabledNeverRuns
    BY <1>1, PolicyPromise DEF PermittedInv
  <2>3. Team!ConsumedOnce /\ Team!SignedForThisChild
    BY <1>1, EnvelopePromise DEF PermittedInv
  <2>4. Team!ChildrenOnlyRead /\ Team!TeamStaysInTime
    BY <1>1, TeamPromise DEF PermittedInv
  <2>5. Work!ClaimedOnceInOrder /\ Work!UnsafeCallsRunAlone
    BY <1>1, WorkersPromise DEF PermittedInv
  <2>6. Box!GroupsDoNotOutliveTheirTurn BY <1>1, TurnPromise DEF PermittedInv
  <2>7. Pricing!QuotesCoverTheCall BY <1>1 DEF PermittedInv, PricingInv
  <2>8. Loop!CapsArePayable BY <1>1, ReflectionPromise DEF PermittedInv
  <2>9. QED BY <2>1, <2>2, <2>3, <2>4, <2>5, <2>6, <2>7, <2>8 DEF OnlyPermittedWorkIsDone
<1>2. PermittedInv => OnlyPermittedWorkIsDone BY <1>1
<1>3. QED BY <1>2, PermittedInvariant, PTL

------------------------------------------------------------
(* What the verifier child tells its parent. *)

LEMMA VerifierCardinality == ASSUME NEW S PROVE Judge!Cardinality(S) = Cardinality(S)
  BY DEF Judge!Cardinality, Cardinality

LEMMA VerifierRange == ASSUME NEW f PROVE Judge!Range(f) = Range(f)
  BY DEF Judge!Range, Range

(* One verdict per claim, and no claim passed but on evidence of its own. *)
SoundVerdicts(r) ==
    r # Judge!NoResult =>
        /\ {v.claim : v \in r.verdicts} = Claims
        /\ Cardinality(r.verdicts) = Cardinality(Claims)
        /\ \A v \in r.verdicts :
               v.status # "escalate" => /\ r.status = "completed"
                                        /\ v.cites \subseteq Delegated[v.claim]
                                        /\ v.status = "supported" => v.cites # {}

(* _fail_closed() escalates every claim once. *)
LEMMA FailedClosed ==
  ASSUME NEW reason, NEW st
  PROVE  SoundVerdicts(Judge!Result(st, Judge!FailClosed(reason)))
<1> DEFINE e(c) == [claim |-> c, status |-> "escalate", reason |-> reason, cites |-> {}]
           V == {e(c) : c \in Claims}
           g == [c \in Claims |-> e(c)]
<1>1. Judge!FailClosed(reason) = V BY DEF Judge!FailClosed
<1>e. \A c : e(c).claim = c /\ e(c).status = "escalate" OBVIOUS
<1> HIDE DEF e
<1>2. {v.claim : v \in V} = Claims
  <2>1. \A v \in V : v.claim \in Claims BY <1>e
  <2>2. \A c \in Claims : e(c) \in V /\ c = e(c).claim BY <1>e
  <2> HIDE DEF V
  <2>3. QED BY <2>1, <2>2
<1>3. \A v \in V : v.status = "escalate" BY <1>e
<1>4. g \in Bijection(Claims, V)
  <2>1. g \in [Claims -> V] OBVIOUS
  <2>2. \A a, b \in Claims : g[a] = g[b] => a = b
    <3> SUFFICES ASSUME NEW a \in Claims, NEW b \in Claims, g[a] = g[b] PROVE a = b OBVIOUS
    <3>1. g[a] = e(a) /\ g[b] = e(b) OBVIOUS
    <3>2. e(a).claim = a /\ e(b).claim = b BY <1>e
    <3> HIDE DEF g
    <3>3. QED BY <3>1, <3>2
  <2>3. \A v \in V : \E a \in Claims : g[a] = v OBVIOUS
  <2> HIDE DEF g, V
  <2>4. QED
    <3>1. IsInjective(g) BY <2>1, <2>2 DEF IsInjective
    <3>2. QED BY <2>1, <2>3, <3>1 DEF Bijection, Injection, Surjection
<1>5. ExistsBijection(Claims, V) BY <1>4 DEF ExistsBijection
<1>6. Cardinality(V) = Cardinality(Claims) BY <1>5, FS_Bijection, VerifierAssumption
<1> HIDE DEF V
<1>7. Judge!Result(st, V).verdicts = V BY DEF Judge!Result
<1>8. QED BY <1>1, <1>2, <1>3, <1>6, <1>7 DEF SoundVerdicts

(* An answer that parses has one verdict per claim. *)
LEMMA ParsedAnswer ==
  ASSUME NEW answer \in Answers, Judge!Parses(answer)
  PROVE  SoundVerdicts(Judge!Result("completed", Judge!Range(answer)))
<1> DEFINE R == Range(answer)
           n == Len(answer)
           f == [i \in 1..n |-> answer[i]]
           h == [v \in R |-> v.claim]
<1>1. Judge!Range(answer) = R BY VerifierRange
<1>2. /\ n = Cardinality(Claims) /\ {v.claim : v \in R} = Claims
      /\ \A v \in R : v.cites \subseteq Delegated[v.claim] /\ Judge!ConsistentReason(v)
  BY <1>1, VerifierCardinality DEF Judge!Parses
<1>3. n \in Nat /\ DOMAIN answer = 1..n BY <1>2, VerifierAssumption, FS_CardinalityType
<1>4. f \in Surjection(1..n, R) BY <1>3 DEF Surjection, Range
<1>5. h \in Surjection(R, Claims)
  <2>1. h \in [R -> Claims] BY <1>2
  <2>2. \A c \in Claims : \E v \in R : h[v] = c BY <1>2
  <2>3. QED BY <2>1, <2>2 DEF Surjection
<1>6. IsFiniteSet(1..n) /\ Cardinality(1..n) = n
  <2> HIDE DEF n
  <2>1. n \in Int /\ n >= 0 /\ 1 \in Int BY <1>3
  <2>2. /\ IsFiniteSet(1..n)
        /\ Cardinality(1..n) = IF 1 > n THEN 0 ELSE n - 1 + 1
    BY <2>1, FS_Interval
  <2>3. QED BY <2>1, <2>2
<1>7. IsFiniteSet(R) /\ Cardinality(R) <= n BY <1>4, <1>6, FS_Surjection
<1>8. Cardinality(Claims) <= Cardinality(R) BY <1>5, <1>7, FS_Surjection
<1>9. Cardinality(R) = Cardinality(Claims)
  <2>1. Cardinality(R) \in Nat /\ Cardinality(Claims) \in Nat
    BY <1>7, VerifierAssumption, FS_CardinalityType
  <2>2. QED BY <1>2, <1>7, <1>8, <2>1
<1> HIDE DEF R
<1>10. \A v \in R : v.status = "supported" => v.cites # {} BY <1>2 DEF Judge!ConsistentReason
<1>11. /\ Judge!Result("completed", R).verdicts = R
       /\ Judge!Result("completed", R).status = "completed"
  BY DEF Judge!Result
<1>12. QED BY <1>1, <1>2, <1>9, <1>10, <1>11 DEF SoundVerdicts

TrustInv == VerifierInv /\ SoundVerdicts(vTerminal.result)

LEMMA TrustStart == ASSUME Judge!VerifierInit PROVE TrustInv
<1>1. vTerminal.result = Judge!NoResult BY DEF Judge!VerifierInit
<1>2. QED BY <1>1, VerifierStart DEF TrustInv, SoundVerdicts

LEMMA TrustRests == ASSUME TrustInv, UNCHANGED verifierPart PROVE TrustInv'
<1>1. vTerminal' = vTerminal BY DEF verifierPart
<1>2. QED BY <1>1, VerifierRests DEF TrustInv

(* Whoever decides, decides soundly. *)
LEMMA TrustDecides ==
  ASSUME VerdictInv, SoundVerdicts(vTerminal.result), NEW r, SoundVerdicts(r),
         Judge!Decides(r)
  PROVE  SoundVerdicts(vTerminal'.result)
<1>1. CASE vTerminal.started BY <1>1 DEF Judge!Decides
<1>2. CASE ~vTerminal.started
  <2>1. vTerminal' = [vTerminal EXCEPT !.started = TRUE, !.result = r] BY <1>2 DEF Judge!Decides
  <2>2. vTerminal'.result = r BY <2>1 DEF VerdictInv
  <2>3. QED BY <2>2
<1>3. QED BY <1>1, <1>2

LEMMA TrustNextStep == ASSUME TrustInv, Judge!VerifierNext PROVE TrustInv'
<1>1. VerifierInv' /\ VerdictInv /\ SoundVerdicts(vTerminal.result)
  BY VerifierNextStep DEF TrustInv, VerifierInv
<1>2. ASSUME UNCHANGED vTerminal PROVE SoundVerdicts(vTerminal'.result) BY <1>1, <1>2
<1>3. ASSUME NEW st, NEW reason, Judge!Decides(Judge!Result(st, Judge!FailClosed(reason)))
      PROVE  SoundVerdicts(vTerminal'.result)
  <2>1. SoundVerdicts(Judge!Result(st, Judge!FailClosed(reason))) BY FailedClosed
  <2>2. QED BY <1>1, <1>3, <2>1, TrustDecides
<1>4. ASSUME NEW st, NEW reason, Judge!Finish(st, Judge!FailClosed(reason))
      PROVE  SoundVerdicts(vTerminal'.result)
  BY <1>3, <1>4 DEF Judge!Finish
<1>5. CASE Judge!Authorise \/ Judge!EnsureChild \/ Judge!CancelArrives
           \/ Judge!FinishReturns \/ Judge!PersistFails \/ Judge!VerifierExpires
           \/ Judge!ClientCancels
  <2>1. UNCHANGED vTerminal
    BY <1>5 DEF Judge!Authorise, Judge!EnsureChild, Judge!CancelArrives,
       Judge!FinishReturns, Judge!PersistFails, Judge!VerifierExpires,
       Judge!ClientCancels
  <2>2. QED BY <1>1, <1>2, <2>1 DEF TrustInv
<1>6. CASE Judge!Requested \/ Judge!Call \/ Judge!CallFails \/ Judge!CallTimesOut
  <2>1. UNCHANGED vTerminal \/ \E st, reason : Judge!Finish(st, Judge!FailClosed(reason))
    BY <1>6 DEF Judge!Requested, Judge!Call, Judge!CallFails, Judge!CallTimesOut
  <2>2. QED BY <1>1, <1>2, <1>4, <2>1 DEF TrustInv
<1>7. ASSUME NEW answer \in Answers, NEW in, NEW out, Judge!Respond(answer, in, out)
      PROVE  TrustInv'
  <2>1. \/ UNCHANGED vTerminal
        \/ \E st, reason : Judge!Finish(st, Judge!FailClosed(reason))
        \/ Judge!Parses(answer) /\ Judge!Finish("completed", Judge!Range(answer))
    BY <1>7 DEF Judge!Respond
  <2>2. ASSUME Judge!Parses(answer), Judge!Finish("completed", Judge!Range(answer))
        PROVE  SoundVerdicts(vTerminal'.result)
    <3>1. SoundVerdicts(Judge!Result("completed", Judge!Range(answer))) BY <2>2, ParsedAnswer
    <3>2. Judge!Decides(Judge!Result("completed", Judge!Range(answer)))
      BY <2>2 DEF Judge!Finish
    <3>3. QED BY <1>1, <3>1, <3>2, TrustDecides
  <2>3. QED BY <1>1, <1>2, <1>4, <2>1, <2>2 DEF TrustInv
<1>8. CASE Judge!CancelTaskRuns
  <2>1. Judge!Decides(Judge!Result("cancelled", Judge!FailClosed("provider_error")))
    BY <1>8 DEF Judge!CancelTaskRuns
  <2>2. QED BY <1>1, <1>3, <2>1 DEF TrustInv
<1>9. CASE Judge!PersistStep
  <2>1. UNCHANGED vTerminal \/ vTerminal' = [vTerminal EXCEPT !.persisted = TRUE]
    BY <1>9 DEF Judge!PersistStep
  <2>2. vTerminal'.result = vTerminal.result BY <1>1, <2>1 DEF VerdictInv
  <2>3. QED BY <1>1, <2>2 DEF TrustInv
<1>10. CASE Judge!VerifierOuter
  <2>1. \/ UNCHANGED vTerminal
        \/ Judge!Decides(Judge!Result("timeout", Judge!FailClosed("timeout")))
        \/ Judge!Decides(Judge!Result("cancelled", Judge!FailClosed("provider_error")))
    BY <1>10 DEF Judge!VerifierOuter, Judge!VerifyReturns, Judge!DeadlineHits,
       Judge!BoundedFinish, Judge!BoundedEnds, Judge!AwaitedEnds
  <2>2. QED BY <1>1, <1>2, <1>3, <2>1 DEF TrustInv
<1>11. QED BY <1>5, <1>6, <1>7, <1>8, <1>9, <1>10 DEF Judge!VerifierNext

LEMMA TrustPromise == ASSUME TrustInv PROVE Judge!VerdictsAreGrounded
<1>1. returned # Judge!NoResult => SoundVerdicts(returned)
  BY DEF TrustInv, VerifierInv, PlacesInv
<1>2. QED BY <1>1, VerifierCardinality DEF SoundVerdicts, Judge!VerdictsAreGrounded

------------------------------------------------------------
(* The claims of a grounded answer. *)

LEMMA GroundedRange == ASSUME NEW f PROVE Rag!Range(f) = Range(f)
  BY DEF Rag!Range, Range

LEMMA GroundedPicked ==
  ASSUME NEW A, NEW s \in Seq(A), NEW S, NEW r, r = Rag!Picked(s, S)
  PROVE  /\ r \in Seq(A) /\ Range(r) = {s[i] : i \in {j \in DOMAIN s : j \in S}}
         /\ IsInjective(s) => IsInjective(r)
<1>1. r = Run!Picked(s, S) BY DEF Run!Picked, Rag!Picked
<1>2. r \in Seq(A) BY <1>1, PickedTaken
<1>3. Range(r) = {s[i] : i \in {j \in DOMAIN s : j \in S}} BY <1>1, PickedMembers
<1>4. ASSUME IsInjective(s) PROVE IsInjective(r)
  <2>1. \A i, j \in DOMAIN s : i \in S /\ j \in S /\ s[i] = s[j] => i = j BY <1>4 DEF IsInjective
  <2>2. QED BY <1>1, <2>1, PickedOnce
<1>5. QED BY <1>2, <1>3, <1>4

(* A list without repetition, split by its positions. *)
LEMMA Split ==
  ASSUME NEW A, NEW s \in Seq(A), IsInjective(s), NEW S, NEW T,
         \A i \in DOMAIN s : ~(i \in S /\ i \in T),
         NEW k, k = Rag!Picked(s, S), NEW l, l = Rag!Picked(s, T)
  PROVE  \A c \in Range(k) : c \notin Range(l)
<1>1. Range(k) = {s[i] : i \in {j \in DOMAIN s : j \in S}} BY GroundedPicked
<1>2. Range(l) = {s[i] : i \in {j \in DOMAIN s : j \in T}} BY GroundedPicked
<1>3. QED BY <1>1, <1>2 DEF IsInjective

LEMMA JoinedRange ==
  ASSUME NEW A, NEW a \in Seq(A), NEW B, NEW b \in Seq(B)
  PROVE  a \o b \in Seq(A \cup B) /\ Range(a \o b) = Range(a) \cup Range(b)
<1>0. PICK c : c = a \o b OBVIOUS
<1>1. a \in Seq(A \cup B) /\ b \in Seq(A \cup B)
  <2>1. ASSUME NEW C, NEW D, NEW s \in Seq(C), C \subseteq D PROVE s \in Seq(D) BY <2>1
  <2>2. A \subseteq A \cup B /\ B \subseteq A \cup B OBVIOUS
  <2>3. QED BY <2>1, <2>2
<1>2. /\ c \in Seq(A \cup B) /\ Len(a) \in Nat /\ Len(b) \in Nat
      /\ DOMAIN c = 1..Len(a) + Len(b)
      /\ DOMAIN a = 1..Len(a) /\ DOMAIN b = 1..Len(b)
  BY <1>0, <1>1
<1>3. \A i \in DOMAIN c :
          IF i <= Len(a) THEN i \in DOMAIN a /\ c[i] = a[i]
          ELSE i - Len(a) \in DOMAIN b /\ c[i] = b[i - Len(a)]
  BY <1>0, <1>1, <1>2
<1>4. \A i \in DOMAIN a : i \in DOMAIN c /\ c[i] = a[i] BY <1>0, <1>1, <1>2
<1>5. \A i \in DOMAIN b : i + Len(a) \in DOMAIN c /\ c[i + Len(a)] = b[i] BY <1>0, <1>1, <1>2
<1>6. \A x \in Range(c) : x \in Range(a) \cup Range(b) BY <1>3 DEF Range
<1>7. \A x \in Range(a) : x \in Range(c) BY <1>4 DEF Range
<1>8. \A x \in Range(b) : x \in Range(c) BY <1>5 DEF Range
<1>9. QED BY <1>0, <1>2, <1>6, <1>7, <1>8

(* What is known of a claim that passed _supports_claim(). *)
ClaimFine(c, ev) == Rag!SupportsClaim(c, ev) /\ IsFiniteSet(c.words)

(* The evidence it cites, and the sentences of it that speak of the claim. *)
CitedBy(c, ev) == {ev[e] : e \in c.cites}
SpeakOf(c, ev) ==
    {s \in UNION {x.spans : x \in CitedBy(c, ev)} :
        2 * Rag!Cardinality(s.words \cap c.words) >= Rag!Cardinality(c.words)}

LEMMA ClaimIsGrounded ==
  ASSUME NEW c, NEW ev, ClaimFine(c, ev)
  PROVE  /\ c.cites \subseteq DOMAIN ev /\ SpeakOf(c, ev) # {}
         /\ \A s \in SpeakOf(c, ev) : s.neg = c.neg
         /\ \A n \in c.numbers : \E x \in CitedBy(c, ev) : n \in x.numbers
<1> DEFINE U == UNION {ev[e].spans : e \in c.cites}
           T == {t \in U : Rag!Overlaps(c, t.words, 1, 2)}
<1>1. /\ c.cites \subseteq DOMAIN ev
      /\ c.numbers \subseteq UNION {ev[e].numbers : e \in c.cites}
      /\ Rag!RelevantPolarities(c, ev) = {c.neg}
  BY DEF ClaimFine, Rag!SupportsClaim, Rag!Current
<1>2. {s.neg : s \in T} = {c.neg} BY <1>1 DEF Rag!RelevantPolarities
<1>3. U = UNION {x.spans : x \in CitedBy(c, ev)} BY DEF CitedBy
<1>4. ASSUME NEW t PROVE Rag!Overlaps(c, t.words, 1, 2) <=>
             2 * Rag!Cardinality(t.words \cap c.words) >= Rag!Cardinality(c.words)
  <2>1. t.words \cap c.words = c.words \cap t.words OBVIOUS
  <2>2. Rag!Cardinality(c.words) = Cardinality(c.words) BY GroundedCardinality
  <2>3. Cardinality(c.words) \in Nat BY FS_CardinalityType DEF ClaimFine
  <2>4. PICK m : m = Rag!Cardinality(c.words) OBVIOUS
  <2>5. m \in Nat /\ 1 * m = m BY <2>2, <2>3, <2>4
  <2>6. QED BY <2>1, <2>4, <2>5 DEF Rag!Overlaps
<1>5. SpeakOf(c, ev) = T
  <2> HIDE DEF U
  <2>1. SpeakOf(c, ev) = {s \in U : 2 * Rag!Cardinality(s.words \cap c.words)
                              >= Rag!Cardinality(c.words)}
    BY <1>3 DEF SpeakOf
  <2>2. QED BY <1>4, <2>1
<1> HIDE DEF T
<1>6. SpeakOf(c, ev) # {} /\ \A s \in SpeakOf(c, ev) : s.neg = c.neg BY <1>2, <1>5
<1>7. \A n \in c.numbers : \E x \in CitedBy(c, ev) : n \in x.numbers BY <1>1 DEF CitedBy
<1>8. QED BY <1>1, <1>6, <1>7

(* The claims kept, those rejected, and the child that judged them. *)
KeptClaims ==
    /\ gKept \in Seq(Range(gKept)) /\ gRejected \in Seq(Range(gRejected))
    /\ IsInjective(gKept)
    /\ \A c \in Range(gKept) : ClaimFine(c, gEvidence) /\ c \notin Range(gRejected)

QueryEarly == {"ensure", "retrieve", "record_evidence", "complete"}

KeptStages ==
    /\ gRun \in QueryEarly => gKept = <<>> /\ gRejected = <<>> /\ gChild = "none"
    /\ gRun = "delegate" => gConfig.verifier
    /\ gRun = "record_child" /\ gKept # <<>> => gChild = "completed" /\ gConfig.verifier
    /\ gRun \in {"record_claims", "record_answer"} /\ gKept # <<>> =>
           (gConfig.verifier <=> gChild = "completed")

GoodAnswer(r, ev, cfg) ==
    r.claims # <<>> =>
        /\ \A c \in Range(r.claims) :
               ClaimFine(c, ev) /\ c.cites \subseteq r.cited /\ c \notin Range(r.unsupported)
        /\ cfg.verifier <=> (r.method = "live_bounded_verifier")
        /\ \A e \in r.cited : \E c \in Range(r.claims) : e \in c.cites

AnswerInv ==
    /\ GroundedInv /\ KeptClaims /\ KeptStages
    /\ GoodAnswer(gTerminal.result, gEvidence, gConfig)

LEMMA NoAnswerIsGood == ASSUME NEW ev, NEW cfg PROVE GoodAnswer(Rag!NoAnswer, ev, cfg)
  BY DEF GoodAnswer, Rag!NoAnswer

LEMMA NoClaims == IsInjective(<<>>) /\ Range(<<>>) = {} /\ <<>> \in Seq({})
  BY DEF IsInjective, Range

LEMMA AnswerStart == ASSUME Rag!GroundedInit PROVE AnswerInv
<1>1. /\ gKept = <<>> /\ gRejected = <<>> /\ gChild = "none" /\ gRun = "ensure"
      /\ gTerminal.result = Rag!NoAnswer
  BY DEF Rag!GroundedInit
<1>2. KeptClaims BY <1>1, NoClaims DEF KeptClaims
<1>3. KeptStages BY <1>1 DEF KeptStages
<1>4. QED BY <1>1, <1>2, <1>3, GroundedStart, NoAnswerIsGood DEF AnswerInv

LEMMA AnswerRests == ASSUME AnswerInv, UNCHANGED groundedPart PROVE AnswerInv'
<1>1. UNCHANGED <<gRun, gConfig, gKept, gRejected, gChild, gEvidence, gTerminal>>
  BY DEF groundedPart
<1>2. QED BY <1>1, GroundedRests DEF AnswerInv, KeptClaims, KeptStages

LEMMA AnswerPromise == ASSUME AnswerInv PROVE Rag!AnswersAreGrounded
<1>1. PICK r : r = gTerminal.result OBVIOUS
<1>2. CASE r.claims = <<>> BY <1>1, <1>2 DEF Rag!AnswersAreGrounded
<1>3. CASE r.claims # <<>>
  <2>1. /\ \A c \in Range(r.claims) :
             ClaimFine(c, gEvidence) /\ c.cites \subseteq r.cited /\ c \notin Range(r.unsupported)
        /\ gConfig.verifier <=> (r.method = "live_bounded_verifier")
        /\ \A e \in r.cited : \E c \in Range(r.claims) : e \in c.cites
    BY <1>1, <1>3 DEF AnswerInv, GoodAnswer
  <2>2. Rag!Range(r.claims) = Range(r.claims)
        /\ Rag!Range(r.unsupported) = Range(r.unsupported)
    BY GroundedRange
  <2> DEFINE cites(c) == {gEvidence[e] : e \in c.cites}
             about(c) == {s \in UNION {ev.spans : ev \in cites(c)} :
                            2 * Rag!Cardinality(s.words \cap c.words)
                                >= Rag!Cardinality(c.words)}
  <2>3. ASSUME NEW c \in Range(r.claims)
        PROVE  /\ c.cites \subseteq DOMAIN gEvidence /\ about(c) # {}
               /\ \A s \in about(c) : s.neg = c.neg
               /\ \A n \in c.numbers : \E ev \in cites(c) : n \in ev.numbers
    <3>1. cites(c) = CitedBy(c, gEvidence) BY DEF CitedBy
    <3>2. about(c) = SpeakOf(c, gEvidence) BY DEF SpeakOf, CitedBy
    <3> HIDE DEF cites, about
    <3>3. /\ c.cites \subseteq DOMAIN gEvidence /\ SpeakOf(c, gEvidence) # {}
          /\ \A s \in SpeakOf(c, gEvidence) : s.neg = c.neg
          /\ \A n \in c.numbers : \E x \in CitedBy(c, gEvidence) : n \in x.numbers
      BY <2>1, ClaimIsGrounded
    <3>4. QED BY <3>1, <3>2, <3>3
  <2> HIDE DEF about
  <2>4. /\ \A c \in Rag!Range(r.claims) :
              /\ c.cites \subseteq DOMAIN gEvidence /\ about(c) # {}
              /\ \A s \in about(c) : s.neg = c.neg
              /\ \A n \in c.numbers : \E ev \in cites(c) : n \in ev.numbers
              /\ c.cites \subseteq r.cited /\ c \notin Rag!Range(r.unsupported)
        /\ gConfig.verifier <=> (r.method = "live_bounded_verifier")
        /\ \A e \in r.cited : \E c \in Rag!Range(r.claims) : e \in c.cites
    <3> HIDE DEF cites
    <3>1. QED BY <2>1, <2>2, <2>3
  <2>5. QED BY <1>1, <2>4, Zenon DEF Rag!AnswersAreGrounded, about
<1>4. QED BY <1>2, <1>3

LEMMA KeptStay == ASSUME KeptClaims, UNCHANGED <<gKept, gRejected, gEvidence>> PROVE KeptClaims'
  BY DEF KeptClaims

(* A list whose members are claims of the model, none of them twice. *)
ClaimList(a) ==
    /\ a \in Seq(Range(a)) /\ IsInjective(a)
    /\ \A c \in Range(a) : IsFiniteSet(c.words)

LEMMA ModelAnswerIsAList == ASSUME NEW a, a \in ModelAnswers \/ a = <<>> PROVE ClaimList(a)
<1>1. CASE a = <<>> BY <1>1, NoClaims DEF ClaimList
<1>2. CASE a \in ModelAnswers
  <2>1. /\ Len(a) \in Nat /\ a = [i \in 1..Len(a) |-> a[i]]
        /\ \A i, j \in DOMAIN a : a[i] = a[j] => i = j
        /\ \A i \in DOMAIN a : IsFiniteSet(a[i].words)
    BY <1>2, ClaimsAssumption
  <2>2. \A i \in 1..Len(a) : a[i] \in Range(a)
    <3>1. DOMAIN a = 1..Len(a) BY <2>1
    <3>2. QED BY <3>1 DEF Range
  <2>3. PICK n \in Nat : n = Len(a) BY <2>1
  <2>4. a = [i \in 1..n |-> a[i]] /\ \A i \in 1..n : a[i] \in Range(a) BY <2>1, <2>2, <2>3
  <2>5. a \in [1..n -> Range(a)] BY <2>4
  <2>6. a \in Seq(Range(a)) BY <2>3, <2>5
  <2>7. QED BY <2>1, <2>6 DEF ClaimList, IsInjective, Range
<1>3. QED BY <1>1, <1>2

LEMMA OfItsRange == ASSUME NEW A, NEW s \in Seq(A) PROVE s \in Seq(Range(s))
<1>1. Len(s) \in Nat /\ s \in [1..Len(s) -> A] OBVIOUS
<1>2. s \in [1..Len(s) -> Range(s)] BY <1>1 DEF Range
<1>3. QED BY <1>1, <1>2

(* The lists that verify_document_claims() makes of an answer. *)
LEMMA ClaimsVerified ==
  ASSUME NEW a, ClaimList(a), NEW ev, NEW k, k = Rag!Supported(a, ev),
         NEW l, l = Rag!Unsupported(a, ev)
  PROVE  /\ k \in Seq(Range(k)) /\ l \in Seq(Range(l)) /\ IsInjective(k)
         /\ \A c \in Range(k) : ClaimFine(c, ev) /\ c \notin Range(l)
<1> DEFINE S == {i \in DOMAIN a : Rag!SupportsClaim(a[i], ev)}
           T == {i \in DOMAIN a : ~Rag!SupportsClaim(a[i], ev)}
<1>1. k = Rag!Picked(a, S) /\ l = Rag!Picked(a, T)
  BY DEF Rag!Supported, Rag!Unsupported
<1>2. a \in Seq(Range(a)) /\ IsInjective(a) BY DEF ClaimList
<1>3. \A i \in DOMAIN a : ~(i \in S /\ i \in T) OBVIOUS
<1>4. \A i \in S : i \in DOMAIN a /\ Rag!SupportsClaim(a[i], ev) OBVIOUS
<1> HIDE DEF S, T
<1>5. /\ k \in Seq(Range(a)) /\ Range(k) = {a[i] : i \in {j \in DOMAIN a : j \in S}}
      /\ IsInjective(k)
  BY <1>1, <1>2, GroundedPicked
<1>6. l \in Seq(Range(a)) BY <1>1, <1>2, GroundedPicked
<1>7. \A c \in Range(k) : c \notin Range(l) BY <1>1, <1>2, <1>3, Split
<1>8. \A c \in Range(k) : Rag!SupportsClaim(c, ev) /\ c \in Range(a)
  <2>1. \A c \in Range(k) : \E i \in DOMAIN a : i \in S /\ c = a[i] BY <1>5
  <2>2. QED BY <1>4, <2>1 DEF Range
<1>9. k \in Seq(Range(k)) /\ l \in Seq(Range(l)) BY <1>5, <1>6, OfItsRange
<1>10. QED BY <1>5, <1>7, <1>8, <1>9 DEF ClaimFine, ClaimList

LEMMA VerifyStep ==
  ASSUME NEW claims, claims \in ModelAnswers \/ claims = <<>>, Rag!Verify(claims),
         gChild = "none", UNCHANGED <<gConfig, gChild, gEvidence>>
  PROVE  KeptClaims' /\ KeptStages'
<1>1. PICK ev : ev = gEvidence OBVIOUS
<1>2. PICK k : k = gKept' OBVIOUS
<1>3. PICK l : l = gRejected' OBVIOUS
<1>4. k = Rag!Supported(claims, ev) /\ l = Rag!Unsupported(claims, ev)
  BY <1>1, <1>2, <1>3 DEF Rag!Verify
<1>5. /\ k \in Seq(Range(k)) /\ l \in Seq(Range(l)) /\ IsInjective(k)
      /\ \A c \in Range(k) : ClaimFine(c, ev) /\ c \notin Range(l)
  BY <1>4, ModelAnswerIsAList, ClaimsVerified
<1>6. KeptClaims' BY <1>1, <1>2, <1>3, <1>5 DEF KeptClaims
<1>7. gRun' = IF gKept' # <<>> /\ gConfig.verifier THEN "delegate" ELSE "record_claims"
  BY DEF Rag!Verify
<1>8. KeptStages' BY <1>7 DEF KeptStages, QueryEarly
<1>9. QED BY <1>6, <1>8

(* _verify_with_child() moves what its child did not support. *)
LEMMA ChildStep ==
  ASSUME KeptClaims, NEW kept \in SUBSET DOMAIN gKept, UNCHANGED gEvidence,
         gKept' = Rag!Picked(gKept, kept),
         gRejected' = gRejected \o Rag!Picked(gKept, DOMAIN gKept \ kept)
  PROVE  KeptClaims' /\ (kept = {} => gKept' = <<>>)
<1>1. PICK s : s = gKept OBVIOUS
<1>2. PICK k : k = gKept' OBVIOUS
<1>3. PICK D : D = DOMAIN s \ kept OBVIOUS
<1>4. PICK l : l = Rag!Picked(s, D) OBVIOUS
<1>5. PICK r : r = gRejected OBVIOUS
<1>6. PICK q : q = gRejected' OBVIOUS
<1>7. /\ s \in Seq(Range(s)) /\ r \in Seq(Range(r)) /\ IsInjective(s)
      /\ \A c \in Range(s) : ClaimFine(c, gEvidence) /\ c \notin Range(r)
  BY <1>1, <1>5 DEF KeptClaims
<1>8. k = Rag!Picked(s, kept) /\ q = r \o l BY <1>1, <1>2, <1>3, <1>4, <1>5, <1>6
<1>9. /\ k \in Seq(Range(s)) /\ Range(k) = {s[i] : i \in {j \in DOMAIN s : j \in kept}}
      /\ IsInjective(k)
  BY <1>7, <1>8, GroundedPicked
<1>10. l \in Seq(Range(s)) BY <1>4, <1>7, GroundedPicked
<1>11. \A i \in DOMAIN s : ~(i \in kept /\ i \in D) BY <1>3
<1>12. \A c \in Range(k) : c \notin Range(l)
  <2>1. s \in Seq(Range(s)) /\ IsInjective(s) BY <1>7
  <2>2. k = Rag!Picked(s, kept) BY <1>8
  <2>3. QED BY <1>4, <1>11, <2>1, <2>2, Split
<1>13. q \in Seq(Range(r) \cup Range(s)) /\ Range(q) = Range(r) \cup Range(l)
  <2>1. PICK A : A = Range(r) OBVIOUS
  <2>2. PICK B : B = Range(s) OBVIOUS
  <2>3. r \in Seq(A) /\ l \in Seq(B) /\ q = r \o l BY <1>7, <1>8, <1>10, <2>1, <2>2
  <2>4. q \in Seq(A \cup B) /\ Range(q) = Range(r) \cup Range(l) BY <2>3, JoinedRange
  <2>5. QED BY <2>1, <2>2, <2>4
<1>14. \A c \in Range(k) : c \in Range(s)
  <2>1. \A c \in Range(k) : \E i \in DOMAIN s : c = s[i] BY <1>9
  <2>2. QED BY <2>1 DEF Range
<1>15. k \in Seq(Range(k)) /\ q \in Seq(Range(q)) BY <1>9, <1>13, OfItsRange
<1>16. KeptClaims' BY <1>2, <1>6, <1>7, <1>9, <1>12, <1>13, <1>14, <1>15 DEF KeptClaims
<1>17. ASSUME kept = {} PROVE gKept' = <<>>
  <2>1. Range(k) = {} BY <1>9, <1>17
  <2>2. DOMAIN k = {} BY <2>1 DEF Range
  <2>3. Len(k) = 0 BY <1>9, <2>2
  <2>4. QED BY <1>2, <1>9, <2>3
<1>18. QED BY <1>16, <1>17

(* _finish() hands on the claims that are left and what they cite. *)
LEMMA AnswerIsGood ==
  ASSUME KeptClaims, KeptStages, gRun = "record_answer"
  PROVE  GoodAnswer(Rag!Answer, gEvidence, gConfig)
<1>1. PICK r : r = Rag!Answer OBVIOUS
<1>2. /\ r.claims = gKept /\ r.unsupported = gRejected
      /\ r.cited = UNION {c.cites : c \in Range(gKept)}
      /\ r.method = Rag!FaithfulnessMethod
  BY <1>1, GroundedRange DEF Rag!Answer
<1>3. ASSUME gKept # <<>> PROVE gConfig.verifier <=> r.method = "live_bounded_verifier"
  <2>1. gConfig.verifier <=> gChild = "completed" BY <1>3 DEF KeptStages
  <2>2. r.method = "live_bounded_verifier" <=> gChild = "completed"
    BY <1>2 DEF Rag!FaithfulnessMethod
  <2>3. QED BY <2>1, <2>2
<1>4. /\ \A c \in Range(gKept) : c.cites \subseteq r.cited
      /\ \A e \in r.cited : \E c \in Range(gKept) : e \in c.cites
  BY <1>2
<1>5. \A c \in Range(gKept) : ClaimFine(c, gEvidence) /\ c \notin Range(gRejected) BY DEF KeptClaims
<1>6. GoodAnswer(r, gEvidence, gConfig) BY <1>2, <1>3, <1>4, <1>5 DEF GoodAnswer
<1>7. QED BY <1>1, <1>6

LEMMA NoResultYet ==
  ASSUME GroundedInv, ~gCancelled, gRun \in QueryWorks
  PROVE  gTerminal.result = Rag!NoAnswer
  BY DEF GroundedInv, QueryPlaces, QueryDecision

LEMMA StopSets ==
  ASSUME QueryDecision, NEW reason, NEW answer, Rag!Stop(reason, answer)
  PROVE  gTerminal'.result = answer
<1>1. gTerminal' = [gTerminal EXCEPT !.started = TRUE, !.reason = reason, !.result = answer]
  BY DEF Rag!Stop
<1>2. gTerminal' = [started |-> TRUE, persisted |-> gTerminal.persisted, reason |-> reason,
                    result |-> answer]
  BY <1>1 DEF QueryDecision
<1>3. QED BY <1>2

(* _run() goes on with what it has, or ends without an answer. *)
LEMMA ClaimsRest ==
  ASSUME AnswerInv, UNCHANGED <<gKept, gRejected, gEvidence, gChild, gConfig>>,
         \/ gRun' = gRun
         \/ gRun' \notin QueryWorks
         \/ gRun = "ensure" /\ gRun' = "retrieve"
         \/ gRun = "record_evidence" /\ gRun' \in {"record_claims", "complete"}
         \/ gRun = "record_child" /\ gRun' = "record_claims"
         \/ gRun = "record_claims" /\ gRun' = "record_answer"
  PROVE  KeptClaims' /\ KeptStages'
<1>1. KeptClaims' BY KeptStay DEF AnswerInv
<1>2. KeptStages BY DEF AnswerInv
<1>3. KeptStages' BY <1>2 DEF KeptStages, QueryEarly, QueryWorks
<1>4. QED BY <1>1, <1>3

LEMMA AnswerRunStep ==
  ASSUME AnswerInv, Rag!RunStep
  PROVE  /\ KeptClaims' /\ KeptStages'
         /\ GoodAnswer(gTerminal.result, gEvidence, gConfig)'
<1>1. ~gCancelled /\ UNCHANGED gConfig /\ GroundedInv /\ QueryDecision /\ KeptClaims /\ KeptStages
  BY DEF Rag!RunStep, AnswerInv, GroundedInv
<1>2. ASSUME gRun \in QueryWorks, UNCHANGED gTerminal
      PROVE  GoodAnswer(gTerminal.result, gEvidence, gConfig)'
  BY <1>1, <1>2, NoResultYet, NoAnswerIsGood
<1>3. ASSUME NEW reason, Rag!Stop(reason, Rag!NoAnswer)
      PROVE  GoodAnswer(gTerminal.result, gEvidence, gConfig)'
  BY <1>1, <1>3, StopSets, NoAnswerIsGood
<1>4. CASE Rag!EnsureRun
  <2>1. /\ gRun = "ensure" /\ gRun' \in {"late", "retrieve", "store_error"}
        /\ UNCHANGED <<gKept, gRejected, gEvidence, gChild, gTerminal>>
    BY <1>4 DEF Rag!EnsureRun, Rag!RunsLate
  <2>2. QED BY <1>1, <1>2, <2>1, ClaimsRest DEF QueryWorks
<1>5. ASSUME Rag!Fails
      PROVE  /\ KeptClaims' /\ KeptStages'
             /\ GoodAnswer(gTerminal.result, gEvidence, gConfig)'
  <2>1. /\ gRun' = "failing" /\ UNCHANGED <<gKept, gRejected, gEvidence, gChild>>
        /\ Rag!Stop("provider_error", Rag!NoAnswer)
    BY <1>5 DEF Rag!Fails
  <2>2. QED BY <1>1, <1>3, <2>1, ClaimsRest DEF QueryWorks
<1>6. ASSUME Rag!RunsLate, gRun \in QueryWorks
      PROVE  /\ KeptClaims' /\ KeptStages'
             /\ GoodAnswer(gTerminal.result, gEvidence, gConfig)'
  <2>1. gRun' = "late" /\ UNCHANGED <<gKept, gRejected, gEvidence, gChild, gTerminal>>
    BY <1>6 DEF Rag!RunsLate
  <2>2. QED BY <1>1, <1>2, <1>6, <2>1, ClaimsRest DEF QueryWorks
<1>7. CASE Rag!Retrieve
  <2>1. gRun = "retrieve" BY <1>7 DEF Rag!Retrieve
  <2>2. ASSUME ~Rag!Fails, ~Rag!RunsLate
        PROVE  /\ KeptClaims' /\ KeptStages'
               /\ GoodAnswer(gTerminal.result, gEvidence, gConfig)'
    <3>1. gRun' = "record_evidence" /\ UNCHANGED <<gKept, gRejected, gChild, gTerminal>>
      BY <1>7, <2>2 DEF Rag!Retrieve
    <3>2. gKept = <<>> /\ gRejected = <<>> /\ gChild = "none"
      BY <1>1, <2>1 DEF KeptStages, QueryEarly
    <3>3. KeptClaims' BY <3>1, <3>2, NoClaims DEF KeptClaims
    <3>4. KeptStages' BY <3>1, <3>2 DEF KeptStages
    <3>5. QED BY <1>2, <2>1, <3>1, <3>3, <3>4 DEF QueryWorks
  <2>3. QED BY <1>5, <1>6, <2>1, <2>2 DEF QueryWorks
<1>8. CASE Rag!RecordEvidence
  <2>1. gRun = "record_evidence" BY <1>8 DEF Rag!RecordEvidence
  <2>2. ASSUME ~Rag!Fails, ~Rag!RunsLate
        PROVE  /\ KeptClaims' /\ KeptStages'
               /\ GoodAnswer(gTerminal.result, gEvidence, gConfig)'
    <3>1. /\ gRun' \in {"record_claims", "complete"}
          /\ UNCHANGED <<gKept, gRejected, gEvidence, gChild, gTerminal>>
      BY <1>8, <2>2 DEF Rag!RecordEvidence
    <3>2. QED BY <1>1, <1>2, <2>1, <3>1, ClaimsRest DEF QueryWorks
  <2>3. QED BY <1>5, <1>6, <2>1, <2>2 DEF QueryWorks
<1>9. CASE Rag!CompleteClaims
  <2>1. gRun = "complete" /\ gChild = "none"
    BY <1>1, <1>9 DEF Rag!CompleteClaims, KeptStages, QueryEarly
  <2>2. ASSUME UNCHANGED <<gEvidence, gChild>>, NEW claims,
               claims \in ModelAnswers \/ claims = <<>>, Rag!Verify(claims)
        PROVE  /\ KeptClaims' /\ KeptStages'
               /\ GoodAnswer(gTerminal.result, gEvidence, gConfig)'
    <3>1. KeptClaims' /\ KeptStages' BY <1>1, <2>1, <2>2, VerifyStep
    <3>2. UNCHANGED gTerminal BY <2>2 DEF Rag!Verify
    <3>3. QED BY <1>2, <2>1, <3>1, <3>2 DEF QueryWorks
  <2>3. ASSUME UNCHANGED <<gEvidence, gChild, gRun, gKept, gRejected, gTerminal>>
        PROVE  /\ KeptClaims' /\ KeptStages'
               /\ GoodAnswer(gTerminal.result, gEvidence, gConfig)'
    BY <1>1, <1>2, <2>1, <2>3, ClaimsRest DEF QueryWorks
  <2>4. ASSUME UNCHANGED <<gEvidence, gChild, gKept, gRejected>>, gRun' = "failing",
               Rag!Stop("provider_error", Rag!NoAnswer)
        PROVE  /\ KeptClaims' /\ KeptStages'
               /\ GoodAnswer(gTerminal.result, gEvidence, gConfig)'
    BY <1>1, <1>3, <2>4, ClaimsRest DEF QueryWorks
  <2>5. \/ Rag!RunsLate \/ Rag!Fails
        \/ /\ UNCHANGED <<gEvidence, gChild>>
           /\ \/ \E claims \in ModelAnswers : Rag!Verify(claims)
              \/ UNCHANGED <<gRun, gKept, gRejected, gTerminal>>
              \/ Rag!Verify(<<>>)
              \/ /\ gRun' = "failing" /\ UNCHANGED <<gKept, gRejected>>
                 /\ Rag!Stop("provider_error", Rag!NoAnswer)
    BY <1>9 DEF Rag!CompleteClaims
  <2>6. QED BY <1>5, <1>6, <2>1, <2>2, <2>3, <2>4, <2>5 DEF QueryWorks
<1>10. CASE Rag!VerifyWithChild
  <2>1. gRun = "delegate" BY <1>10 DEF Rag!VerifyWithChild
  <2>2. ASSUME ~Rag!RunsLate
        PROVE  /\ KeptClaims' /\ KeptStages'
               /\ GoodAnswer(gTerminal.result, gEvidence, gConfig)'
    <3>1. PICK status \in {"completed", "failed", "timed_out"}, supported \in SUBSET DOMAIN gKept :
            /\ gKept' = Rag!Picked(gKept, Rag!Retained(status, supported))
            /\ gRejected' = gRejected \o
                   Rag!Picked(gKept, DOMAIN gKept \ Rag!Retained(status, supported))
            /\ gChild' = status
      BY <1>10, <2>2 DEF Rag!VerifyWithChild
    <3>2. gRun' = "record_child" /\ UNCHANGED <<gEvidence, gTerminal>>
      BY <1>10, <2>2 DEF Rag!VerifyWithChild
    <3>3. PICK kept : kept = Rag!Retained(status, supported) OBVIOUS
    <3>4. kept \in SUBSET DOMAIN gKept /\ (status # "completed" => kept = {})
      BY <3>3 DEF Rag!Retained
    <3>5. KeptClaims' /\ (kept = {} => gKept' = <<>>) BY <1>1, <3>1, <3>2, <3>3, <3>4, ChildStep
    <3>6. gConfig.verifier BY <1>1, <2>1 DEF KeptStages
    <3>7. KeptStages' BY <1>1, <3>1, <3>2, <3>4, <3>5, <3>6 DEF KeptStages, QueryEarly
    <3>8. QED BY <1>2, <2>1, <3>2, <3>5, <3>7 DEF QueryWorks
  <2>3. QED BY <1>6, <2>1, <2>2 DEF QueryWorks
<1>11. CASE Rag!RecordChild \/ Rag!RecordClaims
  <2>1. gRun \in {"record_child", "record_claims"}
    BY <1>11 DEF Rag!RecordChild, Rag!RecordClaims
  <2>2. ASSUME ~Rag!Fails, ~Rag!RunsLate
        PROVE  /\ KeptClaims' /\ KeptStages'
               /\ GoodAnswer(gTerminal.result, gEvidence, gConfig)'
    <3>1. /\ \/ gRun = "record_child" /\ gRun' = "record_claims"
             \/ gRun = "record_claims" /\ gRun' = "record_answer"
          /\ UNCHANGED <<gKept, gRejected, gEvidence, gChild, gTerminal>>
      BY <1>11, <2>2 DEF Rag!RecordChild, Rag!RecordClaims
    <3>2. QED BY <1>1, <1>2, <3>1, ClaimsRest DEF QueryWorks
  <2>3. QED BY <1>5, <1>6, <2>1, <2>2 DEF QueryWorks
<1>12. CASE Rag!RecordAnswer
  <2>1. gRun = "record_answer" BY <1>12 DEF Rag!RecordAnswer
  <2>2. ASSUME ~Rag!Fails, ~Rag!RunsLate
        PROVE  /\ KeptClaims' /\ KeptStages'
               /\ GoodAnswer(gTerminal.result, gEvidence, gConfig)'
    <3>1. /\ gRun' = "stopping" /\ Rag!Stop("completed", Rag!Answer)
          /\ UNCHANGED <<gKept, gRejected, gEvidence, gChild>>
      BY <1>12, <2>2 DEF Rag!RecordAnswer
    <3>2. KeptClaims' /\ KeptStages' BY <1>1, <3>1, ClaimsRest DEF QueryWorks
    <3>3. gTerminal'.result = Rag!Answer BY <1>1, <3>1, StopSets
    <3>4. QED BY <1>1, <2>1, <3>1, <3>2, <3>3, AnswerIsGood
  <2>3. QED BY <1>5, <1>6, <2>1, <2>2 DEF QueryWorks
<1>13. CASE Rag!StopReturns
  <2>1. /\ gRun' \in {"store_error", "answered", "provider_error"}
        /\ UNCHANGED <<gKept, gRejected, gEvidence, gChild, gTerminal>>
    BY <1>13 DEF Rag!StopReturns
  <2>2. KeptClaims' /\ KeptStages' BY <1>1, <2>1, ClaimsRest DEF QueryWorks
  <2>3. QED BY <1>1, <2>1, <2>2 DEF AnswerInv
<1>14. QED BY <1>4, <1>7, <1>8, <1>9, <1>10, <1>11, <1>12, <1>13 DEF Rag!RunStep

LEMMA AnswerNextStep == ASSUME AnswerInv, Rag!GroundedNext PROVE AnswerInv'
<1>1. GroundedInv' /\ QueryDecision BY GroundedNextStep DEF AnswerInv, GroundedInv
<1>2. CASE Rag!RunStep BY <1>1, <1>2, AnswerRunStep DEF AnswerInv
<1>3. ASSUME UNCHANGED <<gRun, gConfig, gKept, gRejected, gChild, gEvidence>>,
             gTerminal'.result \in {gTerminal.result, Rag!NoAnswer}
      PROVE  AnswerInv'
  <2>1. KeptClaims' /\ KeptStages' BY <1>3, ClaimsRest
  <2>2. GoodAnswer(gTerminal.result, gEvidence, gConfig)' BY <1>3, NoAnswerIsGood DEF AnswerInv
  <2>3. QED BY <1>1, <2>1, <2>2 DEF AnswerInv
<1>4. CASE Rag!Expire \/ Rag!GroundedDone
  <2>1. UNCHANGED <<gRun, gConfig, gKept, gRejected, gChild, gEvidence, gTerminal>>
    BY <1>4 DEF Rag!Expire, Rag!GroundedDone, Rag!groundedVars
  <2>2. QED BY <1>3, <2>1
<1>5. CASE Rag!PersistTerminal
  <2>1. /\ UNCHANGED <<gRun, gConfig, gKept, gRejected, gChild, gEvidence>>
        /\ UNCHANGED gTerminal \/ gTerminal' = [gTerminal EXCEPT !.persisted = TRUE]
    BY <1>5 DEF Rag!PersistTerminal
  <2>2. gTerminal'.result = gTerminal.result BY <1>1, <2>1 DEF QueryDecision
  <2>3. QED BY <1>3, <2>1, <2>2
<1>6. CASE Rag!CallStep
  <2>1. UNCHANGED <<gRun, gConfig, gKept, gRejected, gChild, gEvidence>>
    BY <1>6 DEF Rag!CallStep
  <2>2. UNCHANGED gTerminal \/ \E reason : Rag!Stop(reason, Rag!NoAnswer)
    BY <1>6 DEF Rag!CallStep, Rag!RunReturns, Rag!TimesOut,
       Rag!DeadlineBranch, Rag!CallerCancelled, Rag!CleanUp,
       Rag!WaitEnds, Rag!CleanupEnds
  <2>3. gTerminal'.result \in {gTerminal.result, Rag!NoAnswer} BY <1>1, <2>2, StopSets
  <2>4. QED BY <1>3, <2>1, <2>3
<1>7. QED BY <1>2, <1>4, <1>5, <1>6 DEF Rag!GroundedNext

------------------------------------------------------------
(* The fallback chain: who is left, who failed, and who fits. *)

LEMMA ProviderRange == ASSUME NEW f PROVE Model!Range(f) = Range(f)
  BY DEF Model!Range, Range

Fit(needs) == {i \in DOMAIN Chain : needs \subseteq Chain[i]}

Rising(s) == \A i, j \in DOMAIN s : i < j => s[i] < s[j]

OnTrack(left, tried, F) ==
    /\ Rising(left) /\ Range(left) \cup Range(tried) = F
    /\ \A a \in Range(tried), b \in Range(left) : a < b

LEMMA EveryProvider ==
  ASSUME NEW s, s = [i \in DOMAIN Chain |-> i]
  PROVE  /\ s \in Seq(DOMAIN Chain) /\ Rising(s) /\ Range(s) = DOMAIN Chain
         /\ \A i \in DOMAIN Chain : s[i] = i
<1>1. PICK n \in Nat : DOMAIN Chain = 1..n BY ChainAssumption
<1>2. s \in [1..n -> 1..n] /\ \A i \in 1..n : s[i] = i BY <1>1
<1>3. s \in Seq(1..n) BY <1>2
<1>4. Rising(s) BY <1>2 DEF Rising
<1>5. Range(s) = 1..n BY <1>2 DEF Range
<1>6. QED BY <1>1, <1>2, <1>3, <1>4, <1>5

LEMMA CompatibleFits ==
  ASSUME NEW needs, NEW r, r = Model!Compatible(needs)
  PROVE  r \in Seq(DOMAIN Chain) /\ Rising(r) /\ Range(r) = Fit(needs)
<1>1. PICK s : s = [i \in DOMAIN Chain |-> i] OBVIOUS
<1>2. PICK D : D = DOMAIN Chain OBVIOUS
<1>3. PICK F : F = Fit(needs) OBVIOUS
<1>4. s \in Seq(D) /\ \A i \in D : s[i] = i BY <1>1, <1>2, EveryProvider
<1>5. DOMAIN s = D /\ F \subseteq D BY <1>1, <1>2, <1>3 DEF Fit
<1>6. r = Run!Picked(s, F) BY <1>1, <1>3 DEF Model!Compatible, Model!Picked, Run!Picked, Fit
<1>7. r \in Seq(D) /\ \E f : TakenFrom(r, s, F, Len(s), f) BY <1>4, <1>6, PickedTaken
<1>8. PICK f : TakenFrom(r, s, F, Len(s), f) BY <1>7
<1>9. DOMAIN r = 1..Len(r) /\ DOMAIN s = 1..Len(s) BY <1>4, <1>7
<1>10. \A k \in DOMAIN r : f[k] \in D /\ f[k] \in F /\ r[k] = f[k]
  BY <1>4, <1>5, <1>8, <1>9 DEF TakenFrom
<1>11. Rising(r) BY <1>8, <1>9, <1>10 DEF TakenFrom, Rising
<1>12. \A i \in F : \E k \in DOMAIN r : r[k] = i BY <1>5, <1>8, <1>9, <1>10 DEF TakenFrom
<1>13. Range(r) = F BY <1>10, <1>12 DEF Range
<1>14. QED BY <1>2, <1>3, <1>7, <1>11, <1>13

LEMMA FirstOfTheRest ==
  ASSUME NEW left \in Seq(DOMAIN Chain), NEW tried \in Seq(DOMAIN Chain), left # <<>>, NEW F,
         OnTrack(left, tried, F)
  PROVE  /\ Head(left) \in F /\ Head(left) \in DOMAIN Chain
         /\ {i \in F : i < Head(left)} = Range(tried)
         /\ Tail(left) \in Seq(DOMAIN Chain)
         /\ Append(tried, Head(left)) \in Seq(DOMAIN Chain)
         /\ OnTrack(Tail(left), Append(tried, Head(left)), F)
<1>1. PICK n \in Nat : DOMAIN Chain = 1..n BY ChainAssumption
<1>2. PICK h : h = Head(left) OBVIOUS
<1>3. PICK t : t = Tail(left) OBVIOUS
<1>4. PICK u : u = Append(tried, h) OBVIOUS
<1>5. left \in Seq(1..n) /\ tried \in Seq(1..n) BY <1>1
<1>6. /\ Len(left) \in Nat /\ Len(left) > 0 /\ DOMAIN left = 1..Len(left)
      /\ h = left[1] /\ h \in 1..n /\ t \in Seq(1..n)
      /\ DOMAIN t = 1..Len(left) - 1
      /\ \A i \in DOMAIN t : t[i] = left[i + 1] /\ i + 1 \in DOMAIN left
  BY <1>2, <1>3, <1>5
<1>7. /\ Len(tried) \in Nat /\ DOMAIN tried = 1..Len(tried) /\ u \in Seq(1..n)
      /\ DOMAIN u = 1..Len(tried) + 1
      /\ \A i \in DOMAIN u : u[i] = IF i = Len(tried) + 1 THEN h ELSE tried[i]
  BY <1>4, <1>5, <1>6
<1>8. \A i \in DOMAIN left : left[i] \in 1..n BY <1>5
<1>9. \A i \in DOMAIN tried : tried[i] \in 1..n BY <1>5
<1>10. Range(u) = Range(tried) \cup {h}
  <2>1. \A x \in Range(u) : x \in Range(tried) \/ x = h BY <1>7 DEF Range
  <2>2. \A i \in DOMAIN tried : i \in DOMAIN u /\ u[i] = tried[i] BY <1>7
  <2>3. \A x \in Range(tried) : x \in Range(u) BY <2>2 DEF Range
  <2>4. Len(tried) + 1 \in DOMAIN u /\ u[Len(tried) + 1] = h BY <1>7
  <2>5. h \in Range(u) BY <2>4 DEF Range
  <2>6. QED BY <2>1, <2>3, <2>5
<1>11. Range(left) = {h} \cup Range(t)
  <2>1. \A i \in DOMAIN left : i = 1 \/ (i - 1 \in DOMAIN t /\ t[i - 1] = left[i]) BY <1>6
  <2>2. \A x \in Range(left) : x = h \/ x \in Range(t) BY <1>6, <2>1 DEF Range
  <2>3. \A x \in Range(t) : x \in Range(left) BY <1>6 DEF Range
  <2>4. 1 \in DOMAIN left BY <1>6
  <2>5. h \in Range(left) BY <1>6, <2>4 DEF Range
  <2>6. QED BY <2>2, <2>3, <2>5
<1>12. \A x \in Range(t) : h < x
  <2>1. \A i \in DOMAIN t : 1 < i + 1 /\ 1 \in DOMAIN left BY <1>6
  <2>2. \A i \in DOMAIN t : h < t[i] BY <1>6, <2>1 DEF OnTrack, Rising
  <2>3. QED BY <2>2 DEF Range
<1>13. \A x \in Range(tried) : x < h BY <1>11 DEF OnTrack
<1>14. /\ \A x \in Range(t) : x \in Int
       /\ \A x \in Range(tried) : x \in Int
       /\ h \in Int
  <2>1. \A x \in Range(t) : x \in 1..n BY <1>6 DEF Range
  <2>2. \A x \in Range(tried) : x \in 1..n BY <1>9 DEF Range
  <2>3. QED BY <1>6, <2>1, <2>2
<1>15. F = Range(tried) \cup {h} \cup Range(t) BY <1>11 DEF OnTrack
<1>16. {i \in F : i < h} = Range(tried) BY <1>12, <1>13, <1>14, <1>15
<1>17. Rising(t)
  <2>1. \A i, j \in DOMAIN t : i < j => i + 1 < j + 1 BY <1>6
  <2>2. QED BY <1>6, <2>1 DEF OnTrack, Rising
<1>18. \A a \in Range(u), b \in Range(t) : a < b BY <1>10, <1>11, <1>12 DEF OnTrack
<1>19. OnTrack(t, u, F) BY <1>10, <1>15, <1>17, <1>18 DEF OnTrack
<1>20. QED BY <1>1, <1>2, <1>3, <1>4, <1>6, <1>7, <1>15, <1>16, <1>19

ChainStages == {"idle", "trying", "incompatible", "answered", "refused", "exhausted"}

ChainCalls ==
    [stage : ChainStages, needs : SUBSET Model!Capabilities, typed : BOOLEAN,
     left : Seq(DOMAIN Chain), tried : Seq(DOMAIN Chain), by : Int]

ChainFine(c) ==
    /\ c.stage = "idle" => c = Model!Unasked
    /\ c.stage = "trying" => OnTrack(c.left, c.tried, Fit(c.needs))
    /\ c.stage = "answered" =>
           c.by \in Fit(c.needs) /\ {i \in Fit(c.needs) : i < c.by} = Range(c.tried)
    /\ c.stage = "exhausted" => Range(c.tried) = Fit(c.needs)
    /\ c.stage = "incompatible" => Fit(c.needs) = {}

ChainInv ==
    /\ chainCall \in [ChainRequests -> ChainCalls]
    /\ \A r \in ChainRequests : ChainFine(chainCall[r])

LEMMA UnaskedIsACall ==
  ASSUME NEW u, u = Model!Unasked
  PROVE  u \in ChainCalls /\ u.stage = "idle" /\ u.needs = {} /\ u.tried = <<>>
<1>1. u = [stage |-> "idle", needs |-> {}, typed |-> TRUE, left |-> <<>>, tried |-> <<>>, by |-> 0]
  BY DEF Model!Unasked
<1>2. u \in ChainCalls BY <1>1 DEF ChainCalls, ChainStages
<1>3. QED BY <1>1, <1>2

LEMMA ChainStart == ASSUME Model!ChainInit PROVE ChainInv
<1>1. PICK u : u = Model!Unasked OBVIOUS
<1>2. u \in ChainCalls /\ ChainFine(u) BY <1>1, UnaskedIsACall DEF ChainFine
<1>3. chainCall = [r \in ChainRequests |-> u] BY <1>1 DEF Model!ChainInit
<1>4. QED BY <1>2, <1>3 DEF ChainInv

LEMMA ChainBecomes ==
  ASSUME ChainInv, NEW r \in ChainRequests, NEW x \in ChainCalls, ChainFine(x),
         chainCall' = [chainCall EXCEPT ![r] = x]
  PROVE  ChainInv'
  BY DEF ChainInv

(* A call begins with the providers that may be asked. *)
LEMMA ChainBegins ==
  ASSUME ChainInv, NEW r \in ChainRequests,
         Model!Chat(r) \/ \E t, i, j \in BOOLEAN : \E e \in {{}, {"images"}} :
             Model!Complete(r, Model!Required(t, i, j, e))
  PROVE  ChainInv'
<1>1. CASE Model!Chat(r)
  <2>1. PICK s : s = [i \in DOMAIN Chain |-> i] OBVIOUS
  <2>2. PICK u : u = Model!Unasked OBVIOUS
  <2>3. PICK b \in BOOLEAN : chainCall' = [chainCall EXCEPT ![r] =
            [u EXCEPT !.typed = b, !.left = s, !.stage = "trying"]]
    BY <1>1, <2>1, <2>2 DEF Model!Chat
  <2>a. PICK y : y = [u EXCEPT !.typed = b] OBVIOUS
  <2>b. PICK z : z = [y EXCEPT !.left = s] OBVIOUS
  <2>c. PICK x : x = [z EXCEPT !.stage = "trying"] OBVIOUS
  <2>4. chainCall' = [chainCall EXCEPT ![r] = x] BY <2>3, <2>a, <2>b, <2>c
  <2>5. s \in Seq(DOMAIN Chain) /\ Rising(s) /\ Range(s) = DOMAIN Chain BY <2>1, EveryProvider
  <2>d. u \in ChainCalls /\ u.needs = {} /\ u.tried = <<>>
    BY <2>2, UnaskedIsACall
  <2>e. y \in ChainCalls /\ y.needs = {} /\ y.tried = <<>>
    BY <2>a, <2>d DEF ChainCalls
  <2>f. z \in ChainCalls /\ z.needs = {} /\ z.tried = <<>> /\ z.left = s
    BY <2>5, <2>b, <2>e DEF ChainCalls
  <2>6. x \in ChainCalls BY <2>c, <2>f DEF ChainCalls, ChainStages
  <2>7. /\ x.stage = "trying" /\ x.needs = {} /\ x.left = s /\ x.tried = <<>>
    BY <2>c, <2>f DEF ChainCalls
  <2>8. Fit({}) = DOMAIN Chain BY DEF Fit
  <2>9. OnTrack(x.left, x.tried, Fit(x.needs)) BY <2>5, <2>7, <2>8, NoClaims DEF OnTrack
  <2>10. ChainFine(x) BY <2>7, <2>9 DEF ChainFine
  <2>11. QED BY <2>4, <2>6, <2>10, ChainBecomes
<1>2. ASSUME NEW t \in BOOLEAN, NEW i \in BOOLEAN, NEW j \in BOOLEAN,
             NEW e \in {{}, {"images"}}, Model!Complete(r, Model!Required(t, i, j, e))
      PROVE  ChainInv'
  <2>1. PICK needs : needs = Model!Required(t, i, j, e) OBVIOUS
  <2>2. needs \in SUBSET Model!Capabilities BY <2>1 DEF Model!Required, Model!Capabilities
  <2>3. PICK s : s = Model!Compatible(needs) OBVIOUS
  <2>4. s \in Seq(DOMAIN Chain) /\ Rising(s) /\ Range(s) = Fit(needs) BY <2>3, CompatibleFits
  <2>5. PICK st : st = IF s = <<>> THEN "incompatible" ELSE "trying" OBVIOUS
  <2>6. PICK u : u = Model!Unasked OBVIOUS
  <2>a. PICK y : y = [u EXCEPT !.needs = needs] OBVIOUS
  <2>b. PICK z : z = [y EXCEPT !.left = s] OBVIOUS
  <2>c. PICK x : x = [z EXCEPT !.stage = st] OBVIOUS
  <2>7. chainCall' = [chainCall EXCEPT ![r] =
            [u EXCEPT !.needs = needs, !.left = s, !.stage = st]]
    BY <1>2, <2>1, <2>3, <2>5, <2>6 DEF Model!Complete
  <2>8. chainCall' = [chainCall EXCEPT ![r] = x] BY <2>7, <2>a, <2>b, <2>c
  <2>9. st \in {"incompatible", "trying"} BY <2>5
  <2>d. u \in ChainCalls /\ u.tried = <<>>
    BY <2>6, UnaskedIsACall
  <2>e. y \in ChainCalls /\ y.needs = needs /\ y.tried = <<>>
    BY <2>2, <2>a, <2>d DEF ChainCalls
  <2>f. z \in ChainCalls /\ z.needs = needs /\ z.tried = <<>> /\ z.left = s
    BY <2>4, <2>b, <2>e DEF ChainCalls
  <2>10. x \in ChainCalls BY <2>9, <2>c, <2>f DEF ChainCalls, ChainStages
  <2>11. x.stage = st /\ x.needs = needs /\ x.left = s /\ x.tried = <<>>
    BY <2>c, <2>f DEF ChainCalls
  <2>12. OnTrack(x.left, x.tried, Fit(x.needs)) BY <2>4, <2>11, NoClaims DEF OnTrack
  <2>13. st = "incompatible" => Fit(needs) = {} BY <2>4, <2>5, NoClaims
  <2>14. ChainFine(x) BY <2>9, <2>11, <2>12, <2>13 DEF ChainFine
  <2>15. QED BY <2>8, <2>10, <2>14, ChainBecomes
<1>3. QED BY <1>1, <1>2

LEMMA ChainNextStep == ASSUME ChainInv, Model!ChainNext PROVE ChainInv'
<1>1. PICK r \in ChainRequests :
        \/ \E t, i, j \in BOOLEAN : \E e \in {{}, {"images"}} :
               Model!Complete(r, Model!Required(t, i, j, e))
        \/ Model!Chat(r) \/ Model!CandidateAnswers(r) \/ Model!CandidateFails(r)
        \/ Model!CandidateRefuses(r) \/ Model!Exhausted(r)
  BY DEF Model!ChainNext
<1>2. PICK c \in ChainCalls : c = chainCall[r] BY DEF ChainInv
<1>3. ChainFine(c) /\ chainCall \in [ChainRequests -> ChainCalls] BY <1>2 DEF ChainInv
<1>4. PICK left \in Seq(DOMAIN Chain), tried \in Seq(DOMAIN Chain) :
          left = c.left /\ tried = c.tried
  BY DEF ChainCalls
<1>5. CASE Model!CandidateAnswers(r)
  <2>1. c.stage = "trying" /\ left # <<>>
    BY <1>2, <1>4, <1>5 DEF Model!CandidateAnswers, Model!Trying
  <2>2. OnTrack(left, tried, Fit(c.needs)) BY <1>3, <1>4, <2>1 DEF ChainFine
  <2>3. PICK h : h = Head(left) OBVIOUS
  <2>4. h \in Fit(c.needs) /\ h \in DOMAIN Chain /\ {i \in Fit(c.needs) : i < h} = Range(tried)
    BY <2>1, <2>2, <2>3, FirstOfTheRest
  <2>5. h \in Int BY <2>4, ChainAssumption
  <2>6. PICK y : y = [c EXCEPT !.stage = "answered"] OBVIOUS
  <2>7. PICK x : x = [y EXCEPT !.by = h] OBVIOUS
  <2>8. chainCall' = [chainCall EXCEPT ![r] = x]
    BY <1>2, <1>3, <1>4, <1>5, <2>3, <2>6, <2>7 DEF Model!CandidateAnswers
  <2>9. /\ y \in ChainCalls /\ y.stage = "answered" /\ y.needs = c.needs /\ y.tried = c.tried
    BY <2>6 DEF ChainCalls, ChainStages
  <2>10. /\ x \in ChainCalls /\ x.stage = "answered" /\ x.needs = c.needs /\ x.tried = tried
         /\ x.by = h
    BY <1>4, <2>5, <2>7, <2>9 DEF ChainCalls
  <2>11. ChainFine(x) BY <2>4, <2>10 DEF ChainFine
  <2>12. QED BY <2>8, <2>10, <2>11, ChainBecomes
<1>6. CASE Model!CandidateFails(r)
  <2>1. c.stage = "trying" /\ left # <<>>
    BY <1>2, <1>4, <1>6 DEF Model!CandidateFails, Model!Trying
  <2>2. OnTrack(left, tried, Fit(c.needs)) BY <1>3, <1>4, <2>1 DEF ChainFine
  <2>3. PICK t : t = Tail(left) OBVIOUS
  <2>4. PICK u : u = Append(tried, Head(left)) OBVIOUS
  <2>5. t \in Seq(DOMAIN Chain) /\ u \in Seq(DOMAIN Chain) /\ OnTrack(t, u, Fit(c.needs))
    BY <2>1, <2>2, <2>3, <2>4, FirstOfTheRest
  <2>6. PICK y : y = [c EXCEPT !.left = t] OBVIOUS
  <2>7. PICK x : x = [y EXCEPT !.tried = u] OBVIOUS
  <2>8. chainCall' = [chainCall EXCEPT ![r] = x]
    BY <1>2, <1>3, <1>4, <1>6, <2>3, <2>4, <2>6, <2>7 DEF Model!CandidateFails
  <2>9. y \in ChainCalls /\ y.stage = "trying" /\ y.needs = c.needs /\ y.left = t
    BY <2>1, <2>5, <2>6 DEF ChainCalls
  <2>10. /\ x \in ChainCalls /\ x.stage = "trying" /\ x.needs = c.needs /\ x.left = t
         /\ x.tried = u
    BY <2>5, <2>7, <2>9 DEF ChainCalls
  <2>11. ChainFine(x) BY <2>5, <2>10 DEF ChainFine
  <2>12. QED BY <2>8, <2>10, <2>11, ChainBecomes
<1>7. CASE Model!CandidateRefuses(r)
  <2>1. PICK x : x = [c EXCEPT !.stage = "refused"] OBVIOUS
  <2>2. chainCall' = [chainCall EXCEPT ![r] = x]
    BY <1>2, <1>3, <1>7, <2>1 DEF Model!CandidateRefuses
  <2>3. x \in ChainCalls /\ x.stage = "refused" BY <2>1 DEF ChainCalls, ChainStages
  <2>4. QED BY <2>2, <2>3, ChainBecomes DEF ChainFine
<1>8. CASE Model!Exhausted(r)
  <2>1. c.stage = "trying" /\ left = <<>> BY <1>2, <1>4, <1>8 DEF Model!Exhausted
  <2>2. PICK x : x = [c EXCEPT !.stage = "exhausted"] OBVIOUS
  <2>3. chainCall' = [chainCall EXCEPT ![r] = x] BY <1>2, <1>3, <1>8, <2>2 DEF Model!Exhausted
  <2>4. x \in ChainCalls /\ x.stage = "exhausted" /\ x.needs = c.needs /\ x.tried = tried
    BY <1>4, <2>2 DEF ChainCalls, ChainStages
  <2>5. Range(tried) = Fit(c.needs) BY <1>3, <1>4, <2>1, NoClaims DEF ChainFine, OnTrack
  <2>6. QED BY <2>3, <2>4, <2>5, ChainBecomes DEF ChainFine
<1>9. QED BY <1>1, <1>5, <1>6, <1>7, <1>8, ChainBegins

LEMMA ChainRests == ASSUME ChainInv, UNCHANGED fallbackPart PROVE ChainInv'
  BY DEF ChainInv, fallbackPart

LEMMA ChainPromise == ASSUME ChainInv PROVE Model!AnsweredByTheFirstFit
<1> SUFFICES ASSUME NEW r \in ChainRequests
             PROVE  LET c == chainCall[r]
                        fit == {i \in DOMAIN Chain : c.needs \subseteq Chain[i]}
                    IN  /\ c.stage = "answered" /\ c.typed =>
                              c.by \in fit /\ {i \in fit : i < c.by} = Model!Range(c.tried)
                        /\ c.stage = "exhausted" => Model!Range(c.tried) = fit
                        /\ c.stage = "incompatible" => fit = {}
  BY DEF Model!AnsweredByTheFirstFit
<1>1. PICK c : c = chainCall[r] OBVIOUS
<1>2. ChainFine(c) BY <1>1 DEF ChainInv
<1>3. {i \in DOMAIN Chain : c.needs \subseteq Chain[i]} = Fit(c.needs) BY DEF Fit
<1>4. Model!Range(c.tried) = Range(c.tried) BY ProviderRange
<1>5. QED BY <1>1, <1>2, <1>3, <1>4 DEF ChainFine

------------------------------------------------------------
(* What a report of the verifier's value counts. *)

BenefitInv ==
    /\ IsFiniteSet(observations)
    /\ \A o \in observations : o.baseline \in BOOLEAN /\ o.child \in Judge!Verdicts

LEMMA BenefitStart == ASSUME Judge!BenefitInit PROVE BenefitInv
  BY FS_EmptySet DEF Judge!BenefitInit, BenefitInv

LEMMA OneMoreObservation ==
  ASSUME BenefitInv, NEW o, o.baseline \in BOOLEAN, o.child \in Judge!Verdicts,
         observations' = observations \cup {o}
  PROVE  BenefitInv'
<1>1. IsFiniteSet(observations \cup {o}) BY FS_AddElement DEF BenefitInv
<1>2. QED BY <1>1 DEF BenefitInv

LEMMA BenefitNextStep == ASSUME BenefitInv, Judge!BenefitNext PROVE BenefitInv'
<1>1. ASSUME NEW c, Judge!ObserveNothing(c) PROVE BenefitInv'
  <2>1. PICK b \in BOOLEAN, v \in Judge!Verdicts :
          observations' = observations \cup
              {[case |-> c.key, claim |-> "none", label |-> "no_evidence",
                baseline |-> b, child |-> v]}
    BY <1>1 DEF Judge!ObserveNothing, Judge!Verdicts
  <2>2. PICK o : o = [case |-> c.key, claim |-> "none", label |-> "no_evidence",
                      baseline |-> b, child |-> v] OBVIOUS
  <2>3. o.baseline = b /\ o.child = v BY <2>2
  <2>4. QED BY <2>1, <2>2, <2>3, OneMoreObservation
<1>2. ASSUME NEW c, NEW claim, NEW b \in BOOLEAN, NEW v \in Judge!Verdicts,
             Judge!Observe(c, claim, b, v)
      PROVE  BenefitInv'
  <2>1. PICK o : o = [case |-> c.key, claim |-> claim.id, label |-> claim.label,
                      baseline |-> b, child |-> v] OBVIOUS
  <2>2. observations' = observations \cup {o} BY <1>2, <2>1 DEF Judge!Observe
  <2>3. o.baseline = b /\ o.child = v BY <2>1
  <2>4. QED BY <2>2, <2>3, OneMoreObservation
<1>3. QED BY <1>1, <1>2 DEF Judge!BenefitNext

LEMMA BenefitRests == ASSUME BenefitInv, UNCHANGED benefitPart PROVE BenefitInv'
  BY DEF BenefitInv, benefitPart

LEMMA BenefitPromise == ASSUME BenefitInv PROVE Judge!ClaimedValueIsReal
<1> SUFFICES ASSUME Judge!ValueAdded(0)
             PROVE  /\ Judge!BeneficialRejections > 0
                    /\ \A o \in Judge!Labelled("supported") : o.child \in {"supported", "none"}
                    /\ \E o \in observations \ Judge!Unnecessary :
                           o.label = "unsupported" /\ o.child \in {"rejected", "escalate"}
  BY DEF Judge!ClaimedValueIsReal
<1> DEFINE B == {o \in Judge!Labelled("unsupported") : o.baseline}
           C == {o \in Judge!Labelled("unsupported") : Judge!ChildSupported(o)}
           R == {o \in Judge!Labelled("supported") : ~Judge!ChildSupported(o)}
           S == {o \in Judge!Labelled("unsupported") :
                   o.baseline /\ ~Judge!ChildSupported(o)}
<1>1. /\ B \subseteq observations /\ C \subseteq observations /\ R \subseteq observations
      /\ S \subseteq observations
  BY DEF Judge!Labelled
<1>2. /\ Judge!BaselineFalseSupports = Cardinality(B)
      /\ Judge!ChildFalseSupports = Cardinality(C)
      /\ Judge!ChildFalseRejects = Cardinality(R)
      /\ Judge!BeneficialRejections = Cardinality(S)
  BY VerifierCardinality DEF Judge!BaselineFalseSupports, Judge!ChildFalseSupports,
     Judge!ChildFalseRejects, Judge!BeneficialRejections
<1>3. \A o \in B : o \notin C => o \in S OBVIOUS
<1>4. \A o \in S : /\ o \in observations /\ o.label = "unsupported" /\ o.baseline
                   /\ ~Judge!ChildSupported(o)
  BY DEF Judge!Labelled
<1>5. R = {} => \A o \in Judge!Labelled("supported") : Judge!ChildSupported(o) OBVIOUS
<1> HIDE DEF B, C, R, S
<1>6. IsFiniteSet(observations) BY DEF BenefitInv
<1>7. IsFiniteSet(B) /\ IsFiniteSet(C) /\ IsFiniteSet(R) /\ IsFiniteSet(S) BY <1>1, <1>6, FS_Subset
<1>8. /\ Cardinality(B) \in Nat /\ Cardinality(C) \in Nat /\ Cardinality(R) \in Nat
      /\ Cardinality(S) \in Nat
  BY <1>7, FS_CardinalityType
<1>9. Cardinality(C) < Cardinality(B) /\ Cardinality(R) <= 0 BY <1>2 DEF Judge!ValueAdded
<1>10. ~(B \subseteq C)
  <2>1. ASSUME B \subseteq C PROVE Cardinality(B) <= Cardinality(C) BY <1>7, <2>1, FS_Subset
  <2>2. QED BY <1>8, <1>9, <2>1
<1>11. PICK o \in S : TRUE BY <1>3, <1>10
<1>12. Cardinality(S) > 0 BY <1>7, <1>8, <1>11, FS_EmptySet
<1>13. R = {} BY <1>7, <1>8, <1>9, FS_EmptySet
<1>14. \A x \in Judge!Labelled("supported") : x.child \in {"supported", "none"}
  BY <1>5, <1>13 DEF Judge!ChildSupported
<1>15. /\ o \in observations /\ o.label = "unsupported" /\ o.baseline
       /\ ~Judge!ChildSupported(o) /\ o.child \in Judge!Verdicts /\ o.baseline \in BOOLEAN
  BY <1>4, <1>11 DEF BenefitInv
<1>16. o.child \in {"rejected", "escalate"} BY <1>15 DEF Judge!ChildSupported, Judge!Verdicts
<1>17. o \notin Judge!Unnecessary BY <1>15 DEF Judge!Unnecessary
<1>18. QED BY <1>2, <1>12, <1>14, <1>15, <1>16, <1>17

------------------------------------------------------------
(* The sandbox runner: what becomes of a program's output. *)

LEMMA BoxLeast ==
  ASSUME NEW a \in Int, NEW b \in Int, NEW m, m = Box!Min({a, b})
  PROVE  m \in Int /\ m \in {a, b} /\ m <= a /\ m <= b
<1>1. Box!Min({a, b}) = Loop!Min({a, b}) BY DEF Box!Min, Loop!Min
<1>2. QED BY <1>1, LeastOf2

LEMMA BoxGreatest2 ==
  ASSUME NEW a \in Int, NEW b \in Int, NEW m, m = Box!Max({a, b})
  PROVE  m \in {a, b} /\ m >= a /\ m >= b
<1>1. \E x \in {a, b} : \A y \in {a, b} : x >= y
  <2>1. CASE a <= b BY <2>1
  <2>2. CASE b <= a BY <2>2
  <2>3. QED BY <2>1, <2>2
<1>2. QED BY <1>1 DEF Box!Max

LEMMA BoxGreatest ==
  ASSUME NEW n \in Nat, NEW S, S \subseteq 0..n, S # {}, NEW m, m = Box!Max(S)
  PROVE  m \in 0..n
<1>1. \E x \in S : \A y \in S : x >= y BY GreatestExists
<1>2. m \in S BY <1>1 DEF Box!Max
<1>3. QED BY <1>2

BoxUnits == Units \cup {"plain"}
Outputs == [Box!Streams -> Seq(BoxUnits)]

(* s is how t begins. *)
Starts(s, t) == Len(s) <= Len(t) /\ \A i \in 1..Len(s) : s[i] = t[i]

LEMMA StartsIsPrefix ==
  ASSUME NEW A, NEW s \in Seq(A), NEW t \in Seq(A), Starts(s, t)
  PROVE  Box!IsPrefixOf(s, t)
<1>1. PICK u : u = SubSeq(t, 1, Len(s)) OBVIOUS
<1>2. /\ Len(s) \in Nat /\ Len(t) \in Nat /\ Len(s) <= Len(t) /\ DOMAIN s = 1..Len(s)
      /\ \A i \in 1..Len(s) : s[i] = t[i]
  BY DEF Starts
<1>3. u \in Seq(A) /\ Len(u) = Len(s) /\ \A i \in 1..Len(s) : u[i] = t[i] BY <1>1, <1>2
<1>4. u = s
  <2>1. DOMAIN u = 1..Len(s) BY <1>3
  <2>2. QED BY <1>2, <1>3, <2>1
<1>5. QED BY <1>1, <1>2, <1>4 DEF Box!IsPrefixOf

LEMMA PartStarts ==
  ASSUME NEW A, NEW s \in Seq(A), NEW t \in Seq(A), Starts(s, t),
         NEW m \in Nat, m <= Len(s), NEW u, u = SubSeq(s, 1, m)
  PROVE  u \in Seq(A) /\ Len(u) = m /\ Starts(u, t)
<1>1. /\ Len(s) \in Nat /\ Len(t) \in Nat /\ Len(s) <= Len(t)
      /\ \A i \in 1..Len(s) : s[i] = t[i]
  BY DEF Starts
<1>2. u \in Seq(A) /\ Len(u) = m /\ \A i \in 1..m : u[i] = s[i] BY <1>1
<1>3. QED BY <1>1, <1>2 DEF Starts

LEMMA SameUnits ==
  ASSUME NEW A, NEW s \in Seq(A), NEW t \in Seq(A), Len(s) = Len(t),
         \A i \in 1..Len(s) : s[i] = t[i]
  PROVE  s = t OBVIOUS

(* What was read is how the writing begins, whatever part of a chunk is kept. *)
Joined(w, g, u) == w = g \o u
Read(w, g, u, m) ==
    LET x == g \o SubSeq(u, 1, m) IN
    x \in Seq(BoxUnits) /\ Len(x) = Len(g) + m /\ Starts(x, w) /\ (m = Len(u) => x = w)

LEMMA ReadStarts ==
  ASSUME NEW w \in Seq(BoxUnits), NEW g \in Seq(BoxUnits), NEW u \in Seq(BoxUnits),
         Joined(w, g, u), NEW m \in Nat, m <= Len(u)
  PROVE  Read(w, g, u, m)
<1>0. PICK k : k = SubSeq(u, 1, m) OBVIOUS
<1>1. /\ Len(g) \in Nat /\ Len(u) \in Nat /\ Len(w) = Len(g) + Len(u)
      /\ \A i \in 1..Len(w) : w[i] = IF i <= Len(g) THEN g[i] ELSE u[i - Len(g)]
  BY DEF Joined
<1>2. k \in Seq(BoxUnits) /\ Len(k) = m /\ \A i \in 1..m : k[i] = u[i] BY <1>0, <1>1
<1>3. PICK x : x = g \o k OBVIOUS
<1>4. /\ x \in Seq(BoxUnits) /\ Len(x) = Len(g) + m
      /\ \A i \in 1..Len(x) : x[i] = IF i <= Len(g) THEN g[i] ELSE k[i - Len(g)]
  <2>0. k \in Seq(BoxUnits) BY <1>2
  <2>1. x \in Seq(BoxUnits) /\ Len(x) = Len(g) + Len(k)
    <3>1. g \o k \in Seq(BoxUnits) BY <2>0
    <3>2. Len(g \o k) = Len(g) + Len(k) BY <2>0
    <3>3. QED BY <1>3, <3>1, <3>2
  <2>2. \A i \in 1..Len(g) + Len(k) : (g \o k)[i] = IF i <= Len(g) THEN g[i] ELSE k[i - Len(g)]
    BY <1>2
  <2>3. QED BY <1>2, <1>3, <2>1, <2>2
<1>5. \A i \in 1..Len(x) : x[i] = w[i]
  <2> SUFFICES ASSUME NEW i \in 1..Len(x) PROVE x[i] = w[i] OBVIOUS
  <2>1. i \in 1..Len(w) /\ i \in Nat BY <1>1, <1>4
  <2>2. CASE i <= Len(g) BY <1>1, <1>4, <2>1, <2>2
  <2>3. CASE ~(i <= Len(g))
    <3>1. i - Len(g) \in 1..m BY <1>1, <1>4, <2>1, <2>3
    <3>2. QED BY <1>1, <1>2, <1>4, <2>1, <2>3, <3>1
  <2>4. QED BY <2>2, <2>3
<1>6. Starts(x, w) BY <1>1, <1>4, <1>5 DEF Starts
<1>7. ASSUME m = Len(u) PROVE x = w
  <2>1. Len(x) = Len(w) BY <1>1, <1>4, <1>7
  <2>2. QED BY <1>4, <1>5, <2>1, SameUnits
<1>8. QED BY <1>0, <1>3, <1>4, <1>6, <1>7 DEF Read

LEMMA WritingGrows ==
  ASSUME NEW A, NEW w \in Seq(A), NEW g \in Seq(A), NEW u \in Seq(A), NEW x \in A
  PROVE  /\ w = g \o u => Append(w, x) = g \o Append(u, x)
         /\ Starts(g, w) => Starts(g, Append(w, x))
<1>1. ASSUME w = g \o u PROVE Append(w, x) = g \o Append(u, x)
  <2>1. PICK a : a = Append(g \o u, x) OBVIOUS
  <2>2. PICK b : b = g \o Append(u, x) OBVIOUS
  <2>3. /\ Len(g) \in Nat /\ Len(u) \in Nat /\ a \in Seq(A) /\ b \in Seq(A)
        /\ Len(a) = Len(g) + Len(u) + 1 /\ Len(b) = Len(g) + Len(u) + 1
    BY <2>1, <2>2
  <2>4. ASSUME NEW i \in 1..Len(a) PROVE a[i] = b[i]
    <3>1. PICK v : v = Append(u, x) OBVIOUS
    <3>2. v \in Seq(A) /\ Len(v) = Len(u) + 1 /\ v[Len(u) + 1] = x
          /\ \A j \in 1..Len(u) : v[j] = u[j]
      BY <3>1
    <3>3. b[i] = IF i <= Len(g) THEN g[i] ELSE v[i - Len(g)]
      <4>1. b = g \o v /\ i \in 1..Len(g) + Len(v) /\ v \in Seq(A) BY <2>2, <2>3, <3>1, <3>2
      <4>2. \A j \in 1..Len(g) + Len(v) :
                (g \o v)[j] = IF j <= Len(g) THEN g[j] ELSE v[j - Len(g)]
        BY <4>1
      <4>3. QED BY <4>1, <4>2
    <3>4. CASE i = Len(g) + Len(u) + 1
      <4>1. a[i] = x BY <2>1, <2>3, <3>4
      <4>2. ~(i <= Len(g)) /\ i - Len(g) = Len(u) + 1 BY <2>3, <3>4
      <4>3. QED BY <3>2, <3>3, <4>1, <4>2
    <3>5. CASE i \in 1..Len(g) + Len(u)
      <4>1. a[i] = IF i <= Len(g) THEN g[i] ELSE u[i - Len(g)] BY <2>1, <2>3, <3>5
      <4>2. ~(i <= Len(g)) => i - Len(g) \in 1..Len(u) BY <2>3, <3>5
      <4>3. QED BY <3>2, <3>3, <4>1, <4>2
    <3>6. QED BY <2>3, <3>4, <3>5
  <2>6. a = b BY <2>3, <2>4, SameUnits
  <2>7. QED BY <1>1, <2>1, <2>2, <2>6
<1>2. ASSUME Starts(g, w) PROVE Starts(g, Append(w, x)) BY <1>2 DEF Starts
<1>3. QED BY <1>1, <1>2

BoxPipes ==
    [wrote : Outputs, unread : Outputs, got : Outputs, closed : SUBSET Box!Streams,
     truncated : BOOLEAN, timedOut : BOOLEAN]

(* While a reader is open nothing is lost between it and the program; one *)
(* that is closed met the limit. *)
StreamFine(p, s) ==
    /\ s \notin p.closed => p.wrote[s] = p.got[s] \o p.unread[s]
    /\ s \in p.closed => p.truncated /\ Starts(p.got[s], p.wrote[s])

PipeFine(p) ==
    /\ Box!Kept(p.got) <= OutputLimit
    /\ StreamFine(p, "stdout") /\ StreamFine(p, "stderr")

(* The readers are not cancelled over output they have yet to read, unless *)
(* the result will say so. *)
NothingLeft(p) ==
    p.truncated \/ p.timedOut \/ (p.unread["stdout"] = <<>> /\ p.unread["stderr"] = <<>>)

IsResult(r) == DOMAIN r = {"status", "output", "timedOut", "truncated"} /\ r.output \in Outputs

Whole(r, w) ==
    /\ Box!Kept(r.output) <= OutputLimit
    /\ Starts(r.output["stdout"], w["stdout"]) /\ Starts(r.output["stderr"], w["stderr"])
    /\ r.truncated \/ r.timedOut \/ r.output = w

LEMMA FreshFine ==
  /\ Box!NoOutput \in Outputs /\ Box!FreshPipes \in BoxPipes
  /\ PipeFine(Box!FreshPipes)
<1>1. \A s \in Box!Streams : Box!NoOutput[s] = <<>> BY DEF Box!NoOutput
<1>2. Box!NoOutput \in Outputs BY DEF Box!NoOutput, Outputs
<1>3. Box!FreshPipes \in BoxPipes BY <1>2 DEF Box!FreshPipes, BoxPipes
<1>4. PICK p : p = Box!FreshPipes OBVIOUS
<1>5. p.got = Box!NoOutput /\ p.wrote = Box!NoOutput /\ p.unread = Box!NoOutput
      /\ p.closed = {}
  BY <1>4 DEF Box!FreshPipes
<1>6. Box!Kept(p.got) <= OutputLimit
  <2>1. p.got["stdout"] = <<>> /\ p.got["stderr"] = <<>> /\ Len(<<>>) = 0
    BY <1>1, <1>5 DEF Box!Streams
  <2>2. Box!Kept(p.got) = 0 BY <2>1 DEF Box!Kept
  <2>3. QED BY <2>2, OutputLimitAssumption
<1>7. \A s \in Box!Streams : p.wrote[s] = p.got[s] \o p.unread[s]
  <2>1. <<>> = <<>> \o <<>> OBVIOUS
  <2>2. QED BY <1>1, <1>5, <2>1
<1>8. PipeFine(p) BY <1>5, <1>6, <1>7 DEF PipeFine, StreamFine, Box!Streams
<1>9. QED BY <1>2, <1>3, <1>4, <1>8

LEMMA StreamsTyped ==
  ASSUME NEW o \in Outputs
  PROVE  /\ o["stdout"] \in Seq(BoxUnits) /\ o["stderr"] \in Seq(BoxUnits)
         /\ Len(o["stdout"]) \in Nat /\ Len(o["stderr"]) \in Nat
         /\ Box!Kept(o) = Len(o["stdout"]) + Len(o["stderr"])
         /\ Box!Kept(o) \in Nat
<1>1. o["stdout"] \in Seq(BoxUnits) /\ o["stderr"] \in Seq(BoxUnits) BY DEF Outputs, Box!Streams
<1>2. PICK x, y : x = o["stdout"] /\ y = o["stderr"] OBVIOUS
<1>3. x \in Seq(BoxUnits) /\ y \in Seq(BoxUnits) /\ Box!Kept(o) = Len(x) + Len(y)
  BY <1>1, <1>2 DEF Box!Kept
<1>4. Len(x) \in Nat /\ Len(y) \in Nat BY <1>3
<1>5. Len(x) + Len(y) \in Nat BY <1>4
<1>6. QED BY <1>1, <1>2, <1>3, <1>4, <1>5

LEMMA PartOfStream ==
  \A s, t \in Seq(BoxUnits) : \A m \in Nat :
      Starts(s, t) /\ m <= Len(s)
          => /\ SubSeq(s, 1, m) \in Seq(BoxUnits) /\ Len(SubSeq(s, 1, m)) = m
             /\ Starts(SubSeq(s, 1, m), t)
  BY PartStarts

(* _encode_response() shortens an answer and says so. *)
LEMMA ShortenedStarts ==
  ASSUME NEW o \in Outputs, NEW w \in Outputs, NEW K \in 0..Box!Kept(o),
         Starts(o["stdout"], w["stdout"]), Starts(o["stderr"], w["stderr"]),
         NEW x, x = Box!Shortened(o, K)
  PROVE  /\ x \in Outputs /\ Box!Kept(x) = K
         /\ Starts(x["stdout"], w["stdout"]) /\ Starts(x["stderr"], w["stderr"])
<1>1. /\ o["stdout"] \in Seq(BoxUnits) /\ o["stderr"] \in Seq(BoxUnits)
      /\ w["stdout"] \in Seq(BoxUnits) /\ w["stderr"] \in Seq(BoxUnits)
  BY StreamsTyped
<1>2. PICK a, b : a = Len(o["stdout"]) /\ b = Len(o["stderr"]) OBVIOUS
<1>3. a \in Nat /\ b \in Nat /\ K \in Nat /\ K <= a + b
  <2>1. a \in Nat /\ b \in Nat /\ Box!Kept(o) = a + b BY <1>2, StreamsTyped
  <2>2. QED BY <2>1
<1>4. PICK first : first = Box!Min({Len(o["stdout"]), K}) OBVIOUS
<1>5. first \in Nat /\ first <= a /\ K - first \in Nat /\ K - first <= b
  <2>1. a \in Int /\ K \in Int /\ first = Box!Min({a, K}) BY <1>2, <1>3, <1>4
  <2>2. first \in Int /\ first \in {a, K} /\ first <= a /\ first <= K BY <2>1, BoxLeast
  <2>3. QED BY <1>3, <2>2
<1>6. x = [s \in Box!Streams |-> SubSeq(o[s], 1, IF s = "stdout" THEN first ELSE K - first)]
  BY <1>4 DEF Box!Shortened
<1>7. PICK y, z : y = SubSeq(o["stdout"], 1, first) /\ z = SubSeq(o["stderr"], 1, K - first) OBVIOUS
<1>8. DOMAIN x = Box!Streams /\ x["stdout"] = y /\ x["stderr"] = z
  BY <1>6, <1>7 DEF Box!Streams
<1>9. y \in Seq(BoxUnits) /\ Len(y) = first /\ Starts(y, w["stdout"])
  <2>1. PICK s, t : s = o["stdout"] /\ t = w["stdout"] OBVIOUS
  <2>2. /\ s \in Seq(BoxUnits) /\ t \in Seq(BoxUnits) /\ Starts(s, t) /\ first <= Len(s)
        /\ y = SubSeq(s, 1, first)
    BY <1>1, <1>2, <1>5, <1>7, <2>1
  <2>3. QED BY <1>5, <2>1, <2>2, PartOfStream
<1>10. z \in Seq(BoxUnits) /\ Len(z) = K - first /\ Starts(z, w["stderr"])
  <2>1. PICK s, t, m : s = o["stderr"] /\ t = w["stderr"] /\ m = K - first OBVIOUS
  <2>2. /\ s \in Seq(BoxUnits) /\ t \in Seq(BoxUnits) /\ Starts(s, t) /\ m <= Len(s)
        /\ z = SubSeq(s, 1, m) /\ m \in Nat
    BY <1>1, <1>2, <1>5, <1>7, <2>1
  <2>3. QED BY <2>1, <2>2, PartOfStream
<1>11. x \in Outputs
  <2>1. x = [s \in Box!Streams |-> x[s]] BY <1>6
  <2>2. \A s \in Box!Streams : x[s] \in Seq(BoxUnits) BY <1>8, <1>9, <1>10 DEF Box!Streams
  <2>3. QED BY <2>1, <2>2 DEF Outputs
<1>12. Box!Kept(x) = K BY <1>3, <1>5, <1>8, <1>9, <1>10 DEF Box!Kept
<1>13. QED BY <1>8, <1>9, <1>10, <1>11, <1>12

LEMMA EncodedIsResult ==
  ASSUME NEW r, IsResult(r), NEW e, e = Box!EncodeResponse(r)
  PROVE  /\ IsResult(e) /\ e.status = r.status
         /\ \A w \in Outputs : Whole(r, w) => Whole(e, w)
<1>1. CASE Box!Fits(r.output) BY <1>1 DEF Box!EncodeResponse
<1>2. CASE ~Box!Fits(r.output)
  <2>1. PICK o : o = r.output /\ o \in Outputs BY DEF IsResult
  <2>2. PICK T : T = {0} \cup {k \in 0..Box!Kept(r.output) :
                                  Box!Fits(Box!Shortened(r.output, k))} OBVIOUS
  <2>3. PICK K : K = Box!Max(T) OBVIOUS
  <2>4. PICK n : n = Box!Kept(o) /\ n \in Nat BY <2>1, StreamsTyped
  <2>5. T \subseteq 0..n /\ T # {} BY <2>1, <2>2, <2>4
  <2>6. K \in 0..n BY <2>3, <2>4, <2>5, BoxGreatest
  <2>7. PICK x : x = Box!Shortened(o, K) OBVIOUS
  <2>8. PICK r1 : r1 = [r EXCEPT !.truncated = TRUE] OBVIOUS
  <2>9. e = [r1 EXCEPT !.output = x]
    <3>1. e = [r EXCEPT !.truncated = TRUE,
                 !.output = Box!Shortened(r.output, Box!Max({0} \cup
                     {k \in 0..Box!Kept(r.output) :
                          Box!Fits(Box!Shortened(r.output, k))}))]
      BY <1>2 DEF Box!EncodeResponse
    <3>2. e = [r EXCEPT !.truncated = TRUE, !.output = x] BY <2>1, <2>2, <2>3, <2>7, <3>1
    <3>3. QED BY <2>8, <3>2
  <2>10. r1.status = r.status /\ r1.timedOut = r.timedOut /\ r1.truncated
         /\ DOMAIN r1 = DOMAIN r
    BY <2>8 DEF IsResult
  <2>11. /\ e.status = r.status /\ e.output = x /\ e.truncated
         /\ DOMAIN e = {"status", "output", "timedOut", "truncated"}
    BY <2>9, <2>10 DEF IsResult
  <2>12. Starts(o["stdout"], o["stdout"]) /\ Starts(o["stderr"], o["stderr"])
    BY <2>1, StreamsTyped DEF Starts
  <2>13. x \in Outputs BY <2>1, <2>4, <2>6, <2>7, <2>12, ShortenedStarts
  <2>14. ASSUME NEW w \in Outputs, Whole(r, w) PROVE Whole(e, w)
    <3>1. Starts(o["stdout"], w["stdout"]) /\ Starts(o["stderr"], w["stderr"]) /\ n <= OutputLimit
      BY <2>1, <2>4, <2>14 DEF Whole
    <3>2. Box!Kept(x) = K /\ Starts(x["stdout"], w["stdout"]) /\ Starts(x["stderr"], w["stderr"])
      BY <2>1, <2>4, <2>6, <2>7, <3>1, ShortenedStarts
    <3>3. Box!Kept(x) <= OutputLimit BY <2>4, <2>6, <3>1, <3>2, OutputLimitAssumption
    <3>4. QED BY <2>11, <3>2, <3>3 DEF Whole
  <2>15. QED BY <2>11, <2>13, <2>14 DEF IsResult
<1>3. QED BY <1>1, <1>2

(* A program writes on a stream: its reader will find it, if it is open. *)
LEMMA PipeWritten ==
  ASSUME NEW p \in BoxPipes, PipeFine(p), NEW p1 \in BoxPipes,
         NEW s \in Box!Streams, NEW x \in BoxUnits,
         p1.wrote = [p.wrote EXCEPT ![s] = Append(p.wrote[s], x)],
         p1.unread = [p.unread EXCEPT ![s] = IF s \in p.closed THEN p.unread[s]
                                             ELSE Append(p.unread[s], x)],
         p1.got = p.got, p1.closed = p.closed, p1.truncated = p.truncated
  PROVE  PipeFine(p1)
<1>1. /\ p.wrote \in Outputs /\ p.unread \in Outputs /\ p.got \in Outputs
      /\ p1.got = p.got /\ p1.closed = p.closed /\ p1.truncated = p.truncated
  BY DEF BoxPipes
<1>2. ASSUME NEW t \in Box!Streams, StreamFine(p, t) PROVE StreamFine(p1, t)
  <2>1. PICK w, g, u : w = p.wrote[t] /\ g = p.got[t] /\ u = p.unread[t] OBVIOUS
  <2>2. w \in Seq(BoxUnits) /\ g \in Seq(BoxUnits) /\ u \in Seq(BoxUnits) BY <1>1, <2>1 DEF Outputs
  <2>3. CASE t # s
    <3>1. p1.wrote[t] = w /\ p1.unread[t] = u BY <1>1, <2>1, <2>3 DEF Outputs
    <3>2. QED BY <1>1, <1>2, <2>1, <3>1 DEF StreamFine
  <2>4. CASE t = s
    <3>1. /\ p1.wrote[t] = Append(w, x)
          /\ p1.unread[t] = IF t \in p.closed THEN u ELSE Append(u, x)
      BY <1>1, <2>1, <2>4 DEF Outputs
    <3>2. /\ w = g \o u => Append(w, x) = g \o Append(u, x)
          /\ Starts(g, w) => Starts(g, Append(w, x))
      BY <2>2, WritingGrows
    <3>3. CASE t \in p.closed
      <4>1. p.truncated /\ Starts(g, w) BY <1>2, <2>1, <3>3 DEF StreamFine
      <4>2. QED BY <1>1, <2>1, <3>1, <3>2, <3>3, <4>1 DEF StreamFine
    <3>4. CASE t \notin p.closed
      <4>1. w = g \o u BY <1>2, <2>1, <3>4 DEF StreamFine
      <4>2. QED BY <1>1, <2>1, <3>1, <3>2, <3>4, <4>1 DEF StreamFine
    <3>5. QED BY <3>3, <3>4
  <2>5. QED BY <2>3, <2>4
<1>3. QED BY <1>1, <1>2 DEF PipeFine, Box!Streams

(* A chunk is kept up to what is left of the limit. *)
LEMMA ChunkKept ==
  ASSUME NEW n \in Nat, NEW l \in Nat, l <= OutputLimit, NEW rem, rem = OutputLimit - l,
         NEW m, m = Box!Min({n, Box!Max({rem, 0})})
  PROVE  m \in Nat /\ m <= n /\ l + m <= OutputLimit /\ (m # n => rem <= 0 \/ n >= rem)
<1>1. rem \in Nat /\ rem \in Int /\ 0 \in Int /\ n \in Int /\ rem + l = OutputLimit
  BY OutputLimitAssumption
<1>2. PICK b : b = Box!Max({rem, 0}) OBVIOUS
<1>3. b \in {rem, 0} /\ b >= rem /\ b >= 0 BY <1>1, <1>2, BoxGreatest2
<1>4. b = rem /\ b \in Int BY <1>1, <1>3
<1>5. m \in Int /\ m \in {n, b} /\ m <= n /\ m <= b
  <2>1. m = Box!Min({n, b}) BY <1>2
  <2>2. QED BY <1>1, <1>4, <2>1, BoxLeast
<1>6. QED BY <1>1, <1>4, <1>5, OutputLimitAssumption

LEMMA PipeRead ==
  ASSUME NEW p \in BoxPipes, PipeFine(p), NEW p1 \in BoxPipes,
         NEW s \in Box!Streams, s \notin p.closed, NEW m \in Nat,
         NEW full \in BOOLEAN, m <= Len(p.unread[s]),
         Box!Kept(p.got) + m <= OutputLimit, m # Len(p.unread[s]) => full,
         p1.wrote = p.wrote,
         p1.got = [p.got EXCEPT ![s] = p.got[s] \o SubSeq(p.unread[s], 1, m)],
         p1.unread = [p.unread EXCEPT ![s] = <<>>],
         full => p1.closed = p.closed \cup {s} /\ p1.truncated,
         ~full => p1.closed = p.closed /\ p1.truncated = p.truncated
  PROVE  PipeFine(p1) /\ (p.truncated => p1.truncated)
<1>0. PICK w, g, u : w = p.wrote[s] /\ g = p.got[s] /\ u = p.unread[s] OBVIOUS
<1>1. /\ p.wrote \in Outputs /\ p.unread \in Outputs /\ p.got \in Outputs
      /\ p1.got \in Outputs
  BY DEF BoxPipes
<1>2. w \in Seq(BoxUnits) /\ g \in Seq(BoxUnits) /\ u \in Seq(BoxUnits) BY <1>0, <1>1 DEF Outputs
<1>3. StreamFine(p, s) /\ w = g \o u BY <1>0 DEF PipeFine, StreamFine, Box!Streams
<1>4. PICK k : k = SubSeq(u, 1, m) OBVIOUS
<1>5. m <= Len(u) /\ (m # Len(u) => full) BY <1>0
<1>6. /\ g \o k \in Seq(BoxUnits) /\ Len(g \o k) = Len(g) + m /\ Starts(g \o k, w)
      /\ m = Len(u) => g \o k = w
  <2>1. Joined(w, g, u) BY <1>3 DEF Joined
  <2>2. Read(w, g, u, m) BY <1>2, <1>5, <2>1, ReadStarts
  <2>3. QED BY <1>4, <2>2 DEF Read
<1>7. p1.got = [p.got EXCEPT ![s] = g \o k] BY <1>0, <1>4
<1>8. /\ p1.got[s] = g \o k /\ p1.unread[s] = <<>>
      /\ \A t \in Box!Streams : t # s => p1.got[t] = p.got[t] /\ p1.unread[t] = p.unread[t]
  BY <1>1, <1>7 DEF Outputs
<1>9. Box!Kept(p1.got) <= OutputLimit
  <2>1. PICK a, b : a = Len(p.got["stdout"]) /\ b = Len(p.got["stderr"]) OBVIOUS
  <2>2. a \in Nat /\ b \in Nat /\ Box!Kept(p.got) = a + b BY <1>1, <2>1, StreamsTyped
  <2>3. Len(p1.got[s]) = Len(p.got[s]) + m BY <1>0, <1>6, <1>8
  <2>4. CASE s = "stdout"
    <3>1. Len(p1.got["stdout"]) = a + m /\ Len(p1.got["stderr"]) = b
      BY <1>8, <2>1, <2>3, <2>4 DEF Box!Streams
    <3>2. Box!Kept(p1.got) = a + m + (b) BY <3>1 DEF Box!Kept
    <3>3. QED BY <2>2, <3>2, OutputLimitAssumption
  <2>5. CASE s = "stderr"
    <3>1. Len(p1.got["stdout"]) = a /\ Len(p1.got["stderr"]) = b + m
      BY <1>8, <2>1, <2>3, <2>5 DEF Box!Streams
    <3>2. Box!Kept(p1.got) = a + (b + m) BY <3>1 DEF Box!Kept
    <3>3. QED BY <2>2, <3>2, OutputLimitAssumption
  <2>6. QED BY <2>4, <2>5 DEF Box!Streams
<1>10. p.truncated => p1.truncated OBVIOUS
<1>11. StreamFine(p1, s)
  <2>1. CASE full BY <1>0, <1>6, <1>8, <2>1 DEF StreamFine
  <2>2. CASE ~full
    <3>1. g \o k = w /\ p1.closed = p.closed /\ p1.wrote[s] = w BY <1>0, <1>5, <1>6, <2>2
    <3>2. w = w \o <<>> BY <1>2
    <3>3. QED BY <1>8, <3>1, <3>2 DEF StreamFine
  <2>3. QED BY <2>1, <2>2
<1>12. ASSUME NEW t \in Box!Streams, t # s, StreamFine(p, t) PROVE StreamFine(p1, t)
  <2>1. t \in p1.closed <=> t \in p.closed BY <1>12
  <2>2. p1.got[t] = p.got[t] /\ p1.unread[t] = p.unread[t] /\ p1.wrote[t] = p.wrote[t]
    BY <1>8, <1>12
  <2>3. QED BY <1>10, <1>12, <2>1, <2>2 DEF StreamFine
<1>13. QED BY <1>9, <1>10, <1>11, <1>12 DEF PipeFine, Box!Streams

(* The answer that is put together when the readers are done, or cut off. *)
LEMMA PipeAnswered ==
  ASSUME NEW p \in BoxPipes, PipeFine(p), NothingLeft(p), NEW r, r.output = p.got,
         r.timedOut = p.timedOut, r.truncated = p.truncated
  PROVE  Whole(r, p.wrote)
<1>1. p.wrote \in Outputs /\ p.unread \in Outputs /\ p.got \in Outputs BY DEF BoxPipes
<1>2. ASSUME NEW s \in Box!Streams
      PROVE  /\ Starts(p.got[s], p.wrote[s])
             /\ ~p.truncated /\ p.unread[s] = <<>> => p.got[s] = p.wrote[s]
  <2>1. PICK w, g, u : w = p.wrote[s] /\ g = p.got[s] /\ u = p.unread[s] OBVIOUS
  <2>2. w \in Seq(BoxUnits) /\ g \in Seq(BoxUnits) /\ u \in Seq(BoxUnits) BY <1>1, <2>1 DEF Outputs
  <2>3. StreamFine(p, s) BY DEF PipeFine, Box!Streams
  <2>4. CASE s \in p.closed BY <2>3, <2>4 DEF StreamFine
  <2>5. CASE s \notin p.closed
    <3>1. w = g \o u BY <2>1, <2>3, <2>5 DEF StreamFine
    <3>2. Starts(g, w) BY <2>2, <3>1 DEF Starts
    <3>3. u = <<>> => g = w BY <2>2, <3>1
    <3>4. QED BY <2>1, <3>2, <3>3
  <2>6. QED BY <2>4, <2>5
<1>3. p.truncated \/ p.timedOut \/ p.got = p.wrote
  <2>1. SUFFICES ASSUME ~p.truncated, ~p.timedOut PROVE p.got = p.wrote OBVIOUS
  <2>2. \A s \in Box!Streams : p.got[s] = p.wrote[s]
    BY <1>2, <2>1 DEF NothingLeft, Box!Streams
  <2>3. QED BY <1>1, <2>2 DEF Outputs
<1>4. QED BY <1>2, <1>3 DEF Whole, PipeFine, Box!Streams

(* A request from its connection to its answer: c is the client's side, h *)
(* the daemon's, p the pipes. *)
BoxBefore == {"none", "health", "execute", "invalid", "cut", "rejecting", "spawning"}

BoxShape(c, h, p) ==
    DOMAIN c = {"stage", "result"} /\ DOMAIN h = {"stage", "response"} /\ p \in BoxPipes

BoxFine(q, c, h, p) ==
    /\ BoxShape(c, h, p)
    /\ c.stage = "idle" => h.stage = "none"
    /\ h.stage = "health" => q = HealthCheck
    /\ h.stage \in BoxBefore => p = Box!FreshPipes
    /\ h.stage \in {"running", "stopping"} => PipeFine(p)
    /\ h.stage = "stopping" => NothingLeft(p)
    /\ h.stage \in {"finishing", "closed"} =>
           /\ IsResult(h.response)
           /\ q # HealthCheck /\ h.response.status = "ok" /\ c.stage \in {"waiting", "left"}
                  => Whole(h.response, p.wrote)
    /\ c.stage = "accepted" =>
           h.stage = "closed" /\ (q # HealthCheck => IsResult(c.result) /\ Whole(c.result, p.wrote))

BoxInv ==
    /\ DOMAIN boxCaller = Box!BoxRequests /\ DOMAIN boxHandler = Box!BoxRequests
    /\ DOMAIN pipes = Box!BoxRequests
    /\ \A q \in Box!BoxRequests : BoxFine(q, boxCaller[q], boxHandler[q], pipes[q])

LEMMA BoxStart == ASSUME Box!SandboxInit PROVE BoxInv
<1>1. ASSUME NEW q \in Box!BoxRequests
      PROVE  BoxFine(q, boxCaller[q], boxHandler[q], pipes[q])
  <2>1. /\ DOMAIN boxCaller[q] = {"stage", "result"} /\ boxCaller[q].stage = "idle"
        /\ DOMAIN boxHandler[q] = {"stage", "response"} /\ boxHandler[q].stage = "none"
        /\ pipes[q] = Box!FreshPipes
    BY DEF Box!SandboxInit
  <2>2. QED BY <2>1, FreshFine DEF BoxFine, BoxShape
<1>2. QED BY <1>1 DEF BoxInv, Box!SandboxInit

BoxRests(q) ==
    /\ DOMAIN boxCaller' = Box!BoxRequests /\ DOMAIN boxHandler' = Box!BoxRequests
    /\ DOMAIN pipes' = Box!BoxRequests
    /\ \A p \in Box!BoxRequests : p # q =>
           boxCaller'[p] = boxCaller[p] /\ boxHandler'[p] = boxHandler[p] /\ pipes'[p] = pipes[p]

LEMMA BoxMoves ==
  ASSUME BoxInv, NEW q \in Box!BoxRequests, BoxRests(q),
         BoxFine(q, boxCaller'[q], boxHandler'[q], pipes'[q])
  PROVE  BoxInv'
<1>1. ASSUME NEW p \in Box!BoxRequests
      PROVE  BoxFine(p, boxCaller'[p], boxHandler'[p], pipes'[p])
  <2>1. CASE p = q BY <2>1
  <2>2. CASE p # q
    <3>1. boxCaller'[p] = boxCaller[p] /\ boxHandler'[p] = boxHandler[p] /\ pipes'[p] = pipes[p]
      BY <2>2 DEF BoxRests
    <3>2. BoxFine(p, boxCaller[p], boxHandler[p], pipes[p]) BY DEF BoxInv
    <3>3. QED BY <3>1, <3>2
  <2>3. QED BY <2>1, <2>2
<1>2. QED BY <1>1 DEF BoxInv, BoxRests

LEMMA BoxStays ==
  ASSUME BoxInv, UNCHANGED boxCaller, UNCHANGED boxHandler, UNCHANGED pipes
  PROVE  BoxInv'
  BY DEF BoxInv

(* Each side changes for one request at a time. *)
LEMMA HandlerTurns ==
  ASSUME BoxInv, NEW q \in Box!BoxRequests, NEW stage1,
         boxHandler' = [boxHandler EXCEPT ![q].stage = stage1]
  PROVE  /\ DOMAIN boxHandler' = Box!BoxRequests
         /\ \A p \in Box!BoxRequests : p # q => boxHandler'[p] = boxHandler[p]
         /\ DOMAIN boxHandler'[q] = {"stage", "response"} /\ boxHandler'[q].stage = stage1
         /\ boxHandler'[q].response = boxHandler[q].response
  BY DEF BoxInv, BoxFine, BoxShape

LEMMA HandlerAnswers ==
  ASSUME BoxInv, NEW q \in Box!BoxRequests, NEW stage1, NEW r,
         boxHandler' = [boxHandler EXCEPT ![q] = [stage |-> stage1, response |-> r]]
  PROVE  /\ DOMAIN boxHandler' = Box!BoxRequests
         /\ \A p \in Box!BoxRequests : p # q => boxHandler'[p] = boxHandler[p]
         /\ DOMAIN boxHandler'[q] = {"stage", "response"} /\ boxHandler'[q].stage = stage1
         /\ boxHandler'[q].response = r
  BY DEF BoxInv

LEMMA CallerTurns ==
  ASSUME BoxInv, NEW q \in Box!BoxRequests, NEW stage1,
         boxCaller' = [boxCaller EXCEPT ![q].stage = stage1]
  PROVE  /\ DOMAIN boxCaller' = Box!BoxRequests
         /\ \A p \in Box!BoxRequests : p # q => boxCaller'[p] = boxCaller[p]
         /\ DOMAIN boxCaller'[q] = {"stage", "result"} /\ boxCaller'[q].stage = stage1
  BY DEF BoxInv, BoxFine, BoxShape

LEMMA PipesTurn ==
  ASSUME BoxInv, NEW q \in Box!BoxRequests, NEW p,
         pipes' = [pipes EXCEPT ![q] = p]
  PROVE  /\ DOMAIN pipes' = Box!BoxRequests /\ pipes'[q] = p
         /\ \A o \in Box!BoxRequests : o # q => pipes'[o] = pipes[o]
  BY DEF BoxInv

LEMMA BoxOfTheClient ==
  ASSUME BoxInv, NEW q \in Box!BoxRequests,
         Box!Connect(q) \/ Box!LeaveRunner(q) \/ Box!ReceiveAnswer(q)
  PROVE  BoxInv'
<1>1. BoxFine(q, boxCaller[q], boxHandler[q], pipes[q]) BY DEF BoxInv
<1>2. ASSUME Box!Connect(q) PROVE BoxInv'
  <2>1. PICK op : /\ boxHandler' = [boxHandler EXCEPT ![q].stage = op]
                  /\ op \in {"health", "execute", "invalid", "cut"}
                  /\ op = "health" => q = HealthCheck
    BY <1>2 DEF Box!Connect
  <2>2. /\ boxCaller[q].stage = "idle" /\ UNCHANGED pipes
        /\ boxCaller' = [boxCaller EXCEPT ![q].stage = "waiting"]
    BY <1>2 DEF Box!Connect
  <2>3. /\ DOMAIN boxHandler' = Box!BoxRequests
        /\ \A p \in Box!BoxRequests : p # q => boxHandler'[p] = boxHandler[p]
        /\ DOMAIN boxHandler'[q] = {"stage", "response"} /\ boxHandler'[q].stage = op
    BY <2>1, HandlerTurns
  <2>4. /\ DOMAIN boxCaller' = Box!BoxRequests
        /\ \A p \in Box!BoxRequests : p # q => boxCaller'[p] = boxCaller[p]
        /\ DOMAIN boxCaller'[q] = {"stage", "result"} /\ boxCaller'[q].stage = "waiting"
    BY <2>2, CallerTurns
  <2>5. pipes'[q] = Box!FreshPipes /\ pipes'[q] \in BoxPipes
    BY <1>1, <2>2 DEF BoxFine, BoxShape, BoxBefore
  <2>6. BoxFine(q, boxCaller'[q], boxHandler'[q], pipes'[q])
    BY <2>1, <2>3, <2>4, <2>5 DEF BoxFine, BoxShape
  <2>7. BoxRests(q) BY <2>2, <2>3, <2>4 DEF BoxRests, BoxInv
  <2>8. QED BY <2>6, <2>7, BoxMoves
<1>3. ASSUME Box!LeaveRunner(q) PROVE BoxInv'
  <2>1. /\ boxCaller[q].stage = "waiting" /\ UNCHANGED pipes /\ UNCHANGED boxHandler
        /\ boxCaller' = [boxCaller EXCEPT ![q].stage = "left"]
    BY <1>3 DEF Box!LeaveRunner
  <2>2. /\ DOMAIN boxCaller' = Box!BoxRequests
        /\ \A p \in Box!BoxRequests : p # q => boxCaller'[p] = boxCaller[p]
        /\ DOMAIN boxCaller'[q] = {"stage", "result"} /\ boxCaller'[q].stage = "left"
    BY <2>1, CallerTurns
  <2>3. BoxFine(q, boxCaller'[q], boxHandler[q], pipes[q]) BY <1>1, <2>1, <2>2 DEF BoxFine, BoxShape
  <2>4. BoxRests(q) BY <2>1, <2>2 DEF BoxRests, BoxInv
  <2>5. QED BY <2>1, <2>3, <2>4, BoxMoves
<1>4. ASSUME Box!ReceiveAnswer(q) PROVE BoxInv'
  <2>1. PICK r : r = boxHandler[q].response OBVIOUS
  <2>2. PICK c1 : c1 = [stage |-> IF Box!ValidResponse(r) THEN "accepted" ELSE "refused",
                        result |-> IF Box!ValidResponse(r) THEN r ELSE Box!Unanswered]
    OBVIOUS
  <2>3. /\ boxCaller[q].stage = "waiting" /\ boxHandler[q].stage = "closed"
        /\ UNCHANGED boxHandler /\ boxCaller' = [boxCaller EXCEPT ![q] = c1]
        /\ pipes' = IF Box!ValidResponse(r) THEN pipes
                    ELSE [pipes EXCEPT ![q] = Box!FreshPipes]
    BY <1>4, <2>1, <2>2 DEF Box!ReceiveAnswer
  <2>4. /\ DOMAIN boxCaller' = Box!BoxRequests /\ boxCaller'[q] = c1
        /\ \A p \in Box!BoxRequests : p # q => boxCaller'[p] = boxCaller[p]
    BY <2>3 DEF BoxInv
  <2>5. /\ DOMAIN c1 = {"stage", "result"} /\ c1.stage # "idle" /\ c1.stage # "waiting"
        /\ c1.stage # "left"
        /\ Box!ValidResponse(r) => c1.result = r
        /\ ~Box!ValidResponse(r) => c1.stage # "accepted"
    BY <2>2
  <2>6. IsResult(r) /\ DOMAIN boxHandler[q] = {"stage", "response"} /\ pipes[q] \in BoxPipes
    BY <1>1, <2>1, <2>3 DEF BoxFine, BoxShape
  <2>7. /\ DOMAIN pipes' = Box!BoxRequests
        /\ \A p \in Box!BoxRequests : p # q => pipes'[p] = pipes[p]
        /\ pipes'[q] = IF Box!ValidResponse(r) THEN pipes[q] ELSE Box!FreshPipes
    BY <2>3 DEF BoxInv
  <2>8. pipes'[q] \in BoxPipes BY <2>6, <2>7, FreshFine
  <2>9. BoxFine(q, c1, boxHandler[q], pipes'[q])
    <3>1. CASE Box!ValidResponse(r)
      <4>1. r.status = "ok" /\ pipes'[q] = pipes[q] /\ c1.result = r
        BY <2>5, <2>7, <3>1 DEF Box!ValidResponse
      <4>2. q # HealthCheck => Whole(r, pipes[q].wrote) BY <1>1, <2>1, <2>3, <4>1 DEF BoxFine
      <4>3. QED BY <2>1, <2>3, <2>5, <2>6, <2>8, <4>1, <4>2 DEF BoxFine, BoxShape, BoxBefore
    <3>2. CASE ~Box!ValidResponse(r)
      BY <2>1, <2>3, <2>5, <2>6, <2>8, <3>2 DEF BoxFine, BoxShape, BoxBefore
    <3>3. QED BY <3>1, <3>2
  <2>10. BoxRests(q) BY <2>3, <2>4, <2>7 DEF BoxRests, BoxInv
  <2>11. QED BY <2>3, <2>4, <2>9, <2>10, BoxMoves
<1>5. QED BY <1>2, <1>3, <1>4

(* The daemon moves a request on and leaves its pipes. *)
LEMMA BoxHandled ==
  ASSUME BoxInv, NEW q \in Box!BoxRequests, UNCHANGED boxCaller, UNCHANGED pipes,
         boxHandler[q].stage # "none",
         DOMAIN boxHandler' = Box!BoxRequests,
         \A p \in Box!BoxRequests : p # q => boxHandler'[p] = boxHandler[p],
         BoxFine(q, boxCaller[q], boxHandler'[q], pipes[q])
  PROVE  BoxInv'
<1>1. BoxRests(q) BY DEF BoxRests, BoxInv
<1>2. QED BY <1>1, BoxMoves

(* An answer is sent, or kept to be sent, that says nothing wrong of the *)
(* output. *)
LEMMA BoxAnswered ==
  ASSUME BoxInv, NEW q \in Box!BoxRequests, UNCHANGED boxCaller, UNCHANGED pipes,
         boxHandler[q].stage # "none", boxHandler[q].stage # "closed",
         NEW stage1 \in {"finishing", "closed"}, NEW r, IsResult(r),
         boxHandler' = [boxHandler EXCEPT ![q] = [stage |-> stage1, response |-> r]],
         q # HealthCheck /\ r.status = "ok" => Whole(r, pipes[q].wrote)
  PROVE  BoxInv'
<1>1. BoxFine(q, boxCaller[q], boxHandler[q], pipes[q]) BY DEF BoxInv
<1>2. /\ DOMAIN boxHandler' = Box!BoxRequests
      /\ \A p \in Box!BoxRequests : p # q => boxHandler'[p] = boxHandler[p]
      /\ DOMAIN boxHandler'[q] = {"stage", "response"} /\ boxHandler'[q].stage = stage1
      /\ boxHandler'[q].response = r
  BY HandlerAnswers
<1>3. boxCaller[q].stage # "idle" /\ boxCaller[q].stage # "accepted" BY <1>1 DEF BoxFine
<1>4. BoxFine(q, boxCaller[q], boxHandler'[q], pipes[q])
  <2>1. BoxShape(boxCaller[q], boxHandler'[q], pipes[q]) BY <1>1, <1>2 DEF BoxFine, BoxShape
  <2>2. QED BY <1>2, <1>3, <2>1 DEF BoxFine, BoxBefore
<1>5. QED BY <1>2, <1>4, BoxHandled

LEMMA ErrorIsResult ==
  ASSUME NEW code PROVE IsResult(Box!BoxError(code)) /\ Box!BoxError(code).status = code
  BY FreshFine DEF IsResult, Box!BoxError

LEMMA BoxOfTheDaemon ==
  ASSUME BoxInv, NEW q \in Box!BoxRequests,
         Box!Handle(q) \/ Box!BeginExecution(q) \/ Box!HandlerEnds(q)
  PROVE  BoxInv'
<1>1. BoxFine(q, boxCaller[q], boxHandler[q], pipes[q]) BY DEF BoxInv
<1>2. ASSUME Box!Handle(q) PROVE BoxInv'
  <2>1. PICK r : /\ Box!Answer(q, r) /\ IsResult(r)
                 /\ q # HealthCheck => r.status # "ok"
    <3>1. ASSUME boxHandler[q].stage = "health",
                 Box!Answer(q, [Box!Unanswered EXCEPT !.status = "ok"])
          PROVE  \E r : /\ Box!Answer(q, r) /\ IsResult(r)
                        /\ q # HealthCheck => r.status # "ok"
      <4>1. q = HealthCheck BY <1>1, <3>1 DEF BoxFine
      <4>2. PICK x : x = [Box!Unanswered EXCEPT !.status = "ok"] OBVIOUS
      <4>3. IsResult(Box!Unanswered) BY ErrorIsResult DEF Box!Unanswered
      <4>4. IsResult(x) BY <4>2, <4>3 DEF IsResult
      <4>5. QED BY <3>1, <4>1, <4>2, <4>4
    <3>2. ASSUME NEW code, code # "ok", Box!Answer(q, Box!BoxError(code))
          PROVE  \E r : /\ Box!Answer(q, r) /\ IsResult(r)
                        /\ q # HealthCheck => r.status # "ok"
      BY <3>2, ErrorIsResult
    <3>3. "invalid_frame" # "ok" /\ "runner_busy" # "ok" OBVIOUS
    <3>4. QED BY <1>2, <3>1, <3>2, <3>3 DEF Box!Handle
  <2>2. /\ boxHandler[q].stage # "none" /\ boxHandler[q].stage # "closed"
        /\ UNCHANGED boxCaller /\ UNCHANGED pipes
    BY <1>2 DEF Box!Handle
  <2>3. PICK e : e = Box!EncodeResponse(r) OBVIOUS
  <2>4. IsResult(e) /\ e.status = r.status BY <2>1, <2>3, EncodedIsResult
  <2>5. boxHandler' = [boxHandler EXCEPT ![q] = [stage |-> "closed", response |-> e]]
    BY <2>1, <2>3 DEF Box!Answer
  <2>6. QED BY <2>1, <2>2, <2>4, <2>5, BoxAnswered
<1>3. ASSUME Box!HandlerEnds(q) PROVE BoxInv'
  <2>1. /\ boxHandler[q].stage = "finishing" /\ UNCHANGED boxCaller /\ UNCHANGED pipes
        /\ Box!Answer(q, boxHandler[q].response)
    BY <1>3 DEF Box!HandlerEnds
  <2>2. PICK r, e : r = boxHandler[q].response /\ e = Box!EncodeResponse(r) OBVIOUS
  <2>3. IsResult(r) BY <1>1, <2>1, <2>2 DEF BoxFine
  <2>4. /\ IsResult(e) /\ e.status = r.status
        /\ \A w \in Outputs : Whole(r, w) => Whole(e, w)
    BY <2>2, <2>3, EncodedIsResult
  <2>5. pipes[q].wrote \in Outputs BY <1>1 DEF BoxFine, BoxShape, BoxPipes
  <2>6. boxHandler' = [boxHandler EXCEPT ![q] = [stage |-> "closed", response |-> e]]
    BY <2>1, <2>2 DEF Box!Answer
  <2>7. DOMAIN boxHandler' = Box!BoxRequests
        /\ (\A p \in Box!BoxRequests : p # q => boxHandler'[p] = boxHandler[p])
        /\ DOMAIN boxHandler'[q] = {"stage", "response"} /\ boxHandler'[q].stage = "closed"
        /\ boxHandler'[q].response = e
    BY <2>6, HandlerAnswers
  <2>8. boxCaller[q].stage # "idle" /\ boxCaller[q].stage # "accepted" BY <1>1, <2>1 DEF BoxFine
  <2>9. q # HealthCheck /\ e.status = "ok" /\ boxCaller[q].stage \in {"waiting", "left"}
          => Whole(e, pipes[q].wrote)
    BY <1>1, <2>1, <2>2, <2>4, <2>5 DEF BoxFine
  <2>10. BoxFine(q, boxCaller[q], boxHandler'[q], pipes[q])
    <3>1. BoxShape(boxCaller[q], boxHandler'[q], pipes[q]) BY <1>1, <2>7 DEF BoxFine, BoxShape
    <3>2. QED BY <2>4, <2>7, <2>8, <2>9, <3>1 DEF BoxFine, BoxBefore
  <2>11. boxHandler[q].stage # "none" BY <2>1
  <2>12. QED BY <2>1, <2>7, <2>10, <2>11, BoxHandled
<1>4. ASSUME Box!BeginExecution(q) PROVE BoxInv'
  <2>1. PICK stage1 :
          stage1 = IF boxHandler[q].stage = "invalid" THEN "rejecting" ELSE "spawning" OBVIOUS
  <2>2. /\ boxHandler[q].stage \in {"execute", "invalid"}
        /\ boxHandler' = [boxHandler EXCEPT ![q].stage = stage1]
        /\ UNCHANGED boxCaller /\ UNCHANGED pipes
    BY <1>4, <2>1 DEF Box!BeginExecution
  <2>3. /\ DOMAIN boxHandler' = Box!BoxRequests
        /\ \A p \in Box!BoxRequests : p # q => boxHandler'[p] = boxHandler[p]
        /\ DOMAIN boxHandler'[q] = {"stage", "response"} /\ boxHandler'[q].stage = stage1
    BY <2>2, HandlerTurns
  <2>4. stage1 \in {"rejecting", "spawning"} /\ boxHandler[q].stage # "none" BY <2>1, <2>2
  <2>5. /\ pipes[q] = Box!FreshPipes
        /\ boxCaller[q].stage # "idle" /\ boxCaller[q].stage # "accepted"
    BY <1>1, <2>2 DEF BoxFine, BoxBefore
  <2>6. BoxFine(q, boxCaller[q], boxHandler'[q], pipes[q])
    <3>1. BoxShape(boxCaller[q], boxHandler'[q], pipes[q]) BY <1>1, <2>3 DEF BoxFine, BoxShape
    <3>2. QED BY <2>3, <2>4, <2>5, <3>1 DEF BoxFine
  <2>7. QED BY <2>2, <2>3, <2>4, <2>6, BoxHandled
<1>5. QED BY <1>2, <1>3, <1>4

(* The execution of a request: its task starts, fails to or is refused. *)
LEMMA BoxOfTheSpawn ==
  ASSUME BoxInv, NEW q \in Box!BoxRequests,
         Box!Spawned(q) \/ Box!SpawnFails(q) \/ Box!RejectRequest(q)
  PROVE  BoxInv'
<1>1. BoxFine(q, boxCaller[q], boxHandler[q], pipes[q]) BY DEF BoxInv
<1>2. ASSUME Box!Spawned(q) PROVE BoxInv'
  <2>1. /\ boxHandler[q].stage = "spawning" /\ UNCHANGED boxCaller /\ UNCHANGED pipes
        /\ boxHandler' = [boxHandler EXCEPT ![q].stage = "running"]
    BY <1>2 DEF Box!Spawned
  <2>2. /\ DOMAIN boxHandler' = Box!BoxRequests
        /\ \A p \in Box!BoxRequests : p # q => boxHandler'[p] = boxHandler[p]
        /\ DOMAIN boxHandler'[q] = {"stage", "response"} /\ boxHandler'[q].stage = "running"
    BY <2>1, HandlerTurns
  <2>3. /\ PipeFine(pipes[q]) /\ boxHandler[q].stage # "none"
        /\ boxCaller[q].stage # "idle" /\ boxCaller[q].stage # "accepted"
    BY <1>1, <2>1, FreshFine DEF BoxFine, BoxBefore
  <2>4. BoxFine(q, boxCaller[q], boxHandler'[q], pipes[q])
    <3>1. BoxShape(boxCaller[q], boxHandler'[q], pipes[q]) BY <1>1, <2>2 DEF BoxFine, BoxShape
    <3>2. QED BY <2>2, <2>3, <3>1 DEF BoxFine, BoxBefore
  <2>5. QED BY <2>1, <2>2, <2>3, <2>4, BoxHandled
<1>3. ASSUME NEW code, code # "ok", UNCHANGED boxCaller, UNCHANGED pipes,
             boxHandler[q].stage \in {"spawning", "rejecting"},
             boxHandler' = [boxHandler EXCEPT ![q] =
                 [stage |-> "finishing", response |-> Box!BoxError(code)]]
      PROVE  BoxInv'
  <2>1. PICK r : r = Box!BoxError(code) OBVIOUS
  <2>2. IsResult(r) /\ r.status = code BY <2>1, ErrorIsResult
  <2>3. boxHandler[q].stage # "none" /\ boxHandler[q].stage # "closed" BY <1>3
  <2>4. QED BY <1>3, <2>1, <2>2, <2>3, BoxAnswered
<1>4. ASSUME Box!SpawnFails(q) PROVE BoxInv'
  <2>1. "execution_failed" # "ok" OBVIOUS
  <2>2. QED BY <1>3, <1>4, <2>1 DEF Box!SpawnFails
<1>5. ASSUME Box!RejectRequest(q) PROVE BoxInv'
  <2>1. "invalid_request" # "ok" OBVIOUS
  <2>2. QED BY <1>3, <1>5, <2>1 DEF Box!RejectRequest
<1>6. QED BY <1>2, <1>4, <1>5

(* Only the pipes of a running execution change. *)
LEMMA BoxPiped ==
  ASSUME BoxInv, NEW q \in Box!BoxRequests, UNCHANGED boxCaller, UNCHANGED boxHandler,
         boxHandler[q].stage \in {"running", "stopping"},
         DOMAIN pipes' = Box!BoxRequests,
         \A p \in Box!BoxRequests : p # q => pipes'[p] = pipes[p],
         pipes'[q] \in BoxPipes, PipeFine(pipes'[q]),
         boxHandler[q].stage = "stopping" => NothingLeft(pipes'[q])
  PROVE  BoxInv'
<1>1. BoxFine(q, boxCaller[q], boxHandler[q], pipes[q]) BY DEF BoxInv
<1>2. boxCaller[q].stage # "idle" /\ boxCaller[q].stage # "accepted" BY <1>1 DEF BoxFine
<1>3. BoxFine(q, boxCaller[q], boxHandler[q], pipes'[q])
  <2>1. BoxShape(boxCaller[q], boxHandler[q], pipes'[q]) BY <1>1 DEF BoxFine, BoxShape
  <2>2. QED BY <1>2, <2>1 DEF BoxFine, BoxBefore
<1>4. BoxRests(q) BY DEF BoxRests, BoxInv
<1>5. QED BY <1>3, <1>4, BoxMoves

LEMMA BoxWritten ==
  ASSUME BoxInv, NEW q \in Box!BoxRequests, boxHandler[q].stage = "running",
         UNCHANGED boxCaller, UNCHANGED boxHandler,
         NEW s \in Box!Streams, NEW x \in BoxUnits,
         pipes' = [pipes EXCEPT ![q].wrote[s] = Append(@, x),
                                ![q].unread[s] = IF s \in pipes[q].closed THEN @ ELSE Append(@, x)]
  PROVE  BoxInv'
<1>1. BoxFine(q, boxCaller[q], boxHandler[q], pipes[q]) BY DEF BoxInv
<1>2. PICK p : p = pipes[q] /\ p \in BoxPipes /\ PipeFine(p) BY <1>1 DEF BoxFine, BoxShape
<1>3. PICK w, u : /\ w = [p.wrote EXCEPT ![s] = Append(p.wrote[s], x)]
                  /\ u = [p.unread EXCEPT ![s] = IF s \in p.closed THEN p.unread[s]
                                                 ELSE Append(p.unread[s], x)] OBVIOUS
<1>4. PICK p0 : p0 = [p EXCEPT !.wrote = w] OBVIOUS
<1>5. PICK p1 : p1 = [p0 EXCEPT !.unread = u] OBVIOUS
<1>6. p.wrote \in Outputs /\ p.unread \in Outputs /\ p.got \in Outputs BY <1>2 DEF BoxPipes
<1>7. w \in Outputs /\ u \in Outputs
  <2>1. p.wrote[s] \in Seq(BoxUnits) /\ p.unread[s] \in Seq(BoxUnits) BY <1>6 DEF Outputs
  <2>2. Append(p.wrote[s], x) \in Seq(BoxUnits) /\ Append(p.unread[s], x) \in Seq(BoxUnits) BY <2>1
  <2>3. QED BY <1>3, <1>6, <2>1, <2>2 DEF Outputs
<1>8. /\ p0 \in BoxPipes /\ p0.wrote = w /\ p0.unread = p.unread /\ p0.got = p.got
      /\ p0.closed = p.closed /\ p0.truncated = p.truncated
  BY <1>2, <1>4, <1>7 DEF BoxPipes
<1>9. /\ p1 \in BoxPipes /\ p1.wrote = w /\ p1.unread = u /\ p1.got = p.got
      /\ p1.closed = p.closed /\ p1.truncated = p.truncated
  BY <1>5, <1>7, <1>8 DEF BoxPipes
<1>10. PipeFine(p1)
  <2>1. p1.wrote = [p.wrote EXCEPT ![s] = Append(p.wrote[s], x)] BY <1>3, <1>9
  <2>2. p1.unread = [p.unread EXCEPT ![s] = IF s \in p.closed THEN p.unread[s]
                                            ELSE Append(p.unread[s], x)]
    BY <1>3, <1>9
  <2>3. p1 \in BoxPipes /\ p1.got = p.got /\ p1.closed = p.closed /\ p1.truncated = p.truncated
    BY <1>9
  <2>4. QED BY <1>2, <2>1, <2>2, <2>3, PipeWritten
<1>11. pipes' = [pipes EXCEPT ![q] = p1]
  <2>1. PICK f0 : f0 = [pipes EXCEPT ![q] = p0] OBVIOUS
  <2>2. DOMAIN f0 = Box!BoxRequests /\ f0[q] = p0 BY <2>1 DEF BoxInv
  <2>3. pipes' = [f0 EXCEPT ![q].unread[s] = IF s \in pipes[q].closed THEN @ ELSE Append(@, x)]
    BY <1>2, <1>3, <1>4, <2>1
  <2>4. pipes' = [f0 EXCEPT ![q] = p1] BY <1>2, <1>3, <1>5, <1>8, <2>2, <2>3
  <2>5. QED BY <2>1, <2>4
<1>12. /\ DOMAIN pipes' = Box!BoxRequests /\ pipes'[q] = p1
       /\ \A o \in Box!BoxRequests : o # q => pipes'[o] = pipes[o]
  BY <1>11, PipesTurn
<1>13. QED BY <1>9, <1>10, <1>12, BoxPiped

LEMMA BoxReadStep ==
  ASSUME BoxInv, NEW q \in Box!BoxRequests, NEW s \in Box!Streams,
         Box!ReadChunk(q, s)
  PROVE  BoxInv'
<1>1. BoxFine(q, boxCaller[q], boxHandler[q], pipes[q]) BY DEF BoxInv
<1>2. /\ boxHandler[q].stage \in {"running", "stopping"}
      /\ s \notin pipes[q].closed /\ pipes[q].unread[s] # <<>>
      /\ UNCHANGED boxCaller /\ UNCHANGED boxHandler
  BY DEF Box!ReadChunk
<1>3. PICK p : p = pipes[q] /\ p \in BoxPipes /\ PipeFine(p)
               /\ (boxHandler[q].stage = "stopping" => NothingLeft(p))
  BY <1>1, <1>2 DEF BoxFine, BoxShape
<1>4. PICK chunk, remaining :
         chunk = pipes[q].unread[s] /\ remaining = OutputLimit - Box!Kept(pipes[q].got) OBVIOUS
<1>5. PICK m : m = Box!Min({Len(chunk), Box!Max({remaining, 0})}) OBVIOUS
<1>6. PICK full \in BOOLEAN : full = Box!Full(chunk, remaining) BY DEF Box!Full
<1>7. PICK kept : kept = SubSeq(chunk, 1, m) OBVIOUS
<1>8. pipes' = [pipes EXCEPT ![q].got[s] = @ \o kept,
                             ![q].unread[s] = <<>>,
                             ![q].truncated = @ \/ full,
                             ![q].closed = IF full THEN @ \cup {s} ELSE @]
  BY <1>4, <1>5, <1>6, <1>7 DEF Box!ReadChunk
<1>9. PICK g, u, c : /\ g = [p.got EXCEPT ![s] = p.got[s] \o kept]
                     /\ u = [p.unread EXCEPT ![s] = <<>>]
                     /\ c = IF full THEN p.closed \cup {s} ELSE p.closed OBVIOUS
<1>10. PICK t \in BOOLEAN : t = (p.truncated \/ full) OBVIOUS
<1>11. PICK p0 : p0 = [p EXCEPT !.got = g] OBVIOUS
<1>12. PICK p2 : p2 = [p0 EXCEPT !.unread = u] OBVIOUS
<1>13. PICK p3 : p3 = [p2 EXCEPT !.truncated = t] OBVIOUS
<1>14. PICK p1 : p1 = [p3 EXCEPT !.closed = c] OBVIOUS
<1>15. /\ p.wrote \in Outputs /\ p.unread \in Outputs /\ p.got \in Outputs
       /\ p.closed \in SUBSET Box!Streams
  BY <1>3 DEF BoxPipes
<1>16. chunk = p.unread[s] /\ chunk \in Seq(BoxUnits) /\ Len(chunk) \in Nat
  <2>1. chunk = p.unread[s] BY <1>3, <1>4
  <2>2. chunk \in Seq(BoxUnits) BY <1>15, <2>1 DEF Outputs
  <2>3. QED BY <2>1, <2>2
<1>17. /\ m \in Nat /\ m <= Len(chunk) /\ Box!Kept(p.got) + m <= OutputLimit
       /\ m # Len(chunk) => full
  <2>1. PICK l, n : l = Box!Kept(p.got) /\ n = Len(chunk) OBVIOUS
  <2>2. l \in Nat /\ n \in Nat /\ l <= OutputLimit /\ remaining = OutputLimit - l
    BY <1>3, <1>4, <1>15, <1>16, <2>1, StreamsTyped DEF PipeFine
  <2>3. m = Box!Min({n, Box!Max({remaining, 0})}) BY <1>5, <2>1
  <2>4. m \in Nat /\ m <= n /\ l + m <= OutputLimit /\ (m # n => remaining <= 0 \/ n >= remaining)
    BY <2>2, <2>3, ChunkKept
  <2>5. QED BY <1>6, <2>1, <2>4 DEF Box!Full
<1>18. g \in Outputs /\ u \in Outputs /\ c \in SUBSET Box!Streams
  <2>1. p.got[s] \in Seq(BoxUnits) BY <1>15 DEF Outputs
  <2>2. kept \in Seq(BoxUnits) BY <1>7, <1>16, <1>17
  <2>3. p.got[s] \o kept \in Seq(BoxUnits) BY <2>1, <2>2
  <2>4. <<>> \in Seq(BoxUnits) OBVIOUS
  <2>5. QED BY <1>9, <1>15, <2>3, <2>4 DEF Outputs
<1>19. /\ p0 \in BoxPipes /\ p0.wrote = p.wrote /\ p0.unread = p.unread /\ p0.got = g
       /\ p0.closed = p.closed /\ p0.truncated = p.truncated /\ p0.timedOut = p.timedOut
  BY <1>3, <1>11, <1>18 DEF BoxPipes
<1>20. /\ p2 \in BoxPipes /\ p2.wrote = p.wrote /\ p2.unread = u /\ p2.got = g
       /\ p2.closed = p.closed /\ p2.truncated = p.truncated /\ p2.timedOut = p.timedOut
  BY <1>12, <1>18, <1>19 DEF BoxPipes
<1>21. /\ p3 \in BoxPipes /\ p3.wrote = p.wrote /\ p3.unread = u /\ p3.got = g
       /\ p3.closed = p.closed /\ p3.truncated = t /\ p3.timedOut = p.timedOut
  BY <1>13, <1>20 DEF BoxPipes
<1>22. /\ p1 \in BoxPipes /\ p1.wrote = p.wrote /\ p1.unread = u /\ p1.got = g
       /\ p1.closed = c /\ p1.truncated = t /\ p1.timedOut = p.timedOut
  BY <1>14, <1>18, <1>21 DEF BoxPipes
<1>23. pipes' = [pipes EXCEPT ![q] = p1]
  <2>1. PICK f0 : f0 = [pipes EXCEPT ![q] = p0] OBVIOUS
  <2>2. DOMAIN f0 = Box!BoxRequests /\ f0[q] = p0 BY <2>1 DEF BoxInv
  <2>3. pipes' = [f0 EXCEPT ![q].unread[s] = <<>>,
                            ![q].truncated = @ \/ full,
                            ![q].closed = IF full THEN @ \cup {s} ELSE @]
    BY <1>3, <1>8, <1>9, <1>11, <2>1
  <2>4. PICK f1 : f1 = [f0 EXCEPT ![q] = p2] OBVIOUS
  <2>5. DOMAIN f1 = Box!BoxRequests /\ f1[q] = p2 BY <2>2, <2>4
  <2>6. pipes' = [f1 EXCEPT ![q].truncated = @ \/ full,
                            ![q].closed = IF full THEN @ \cup {s} ELSE @]
    BY <1>9, <1>12, <1>19, <2>2, <2>3, <2>4
  <2>7. PICK f2 : f2 = [f1 EXCEPT ![q] = p3] OBVIOUS
  <2>8. DOMAIN f2 = Box!BoxRequests /\ f2[q] = p3 BY <2>5, <2>7
  <2>9. pipes' = [f2 EXCEPT ![q].closed = IF full THEN @ \cup {s} ELSE @]
    BY <1>10, <1>13, <1>20, <2>5, <2>6, <2>7
  <2>10. pipes' = [f2 EXCEPT ![q] = p1] BY <1>9, <1>14, <1>21, <2>8, <2>9
  <2>11. QED BY <2>1, <2>4, <2>7, <2>10
<1>24. /\ DOMAIN pipes' = Box!BoxRequests /\ pipes'[q] = p1
       /\ \A o \in Box!BoxRequests : o # q => pipes'[o] = pipes[o]
  BY <1>23, PipesTurn
<1>25. PipeFine(p1) /\ (p.truncated => p1.truncated)
  <2>1. m <= Len(p.unread[s]) /\ (m # Len(p.unread[s]) => full) /\ s \notin p.closed
    BY <1>2, <1>3, <1>16, <1>17
  <2>2. p1.got = [p.got EXCEPT ![s] = p.got[s] \o SubSeq(p.unread[s], 1, m)]
    BY <1>7, <1>9, <1>16, <1>22
  <2>3. p1.unread = [p.unread EXCEPT ![s] = <<>>] BY <1>9, <1>22
  <2>4. /\ full => p1.closed = p.closed \cup {s} /\ p1.truncated
        /\ ~full => p1.closed = p.closed
    BY <1>9, <1>10, <1>22
  <2>5. ~full => p1.truncated = p.truncated
    <3>1. p.truncated \in BOOLEAN BY <1>3 DEF BoxPipes
    <3>2. QED BY <1>10, <1>22, <3>1
  <2>6. QED BY <1>3, <1>17, <1>22, <2>1, <2>2, <2>3, <2>4, <2>5, PipeRead
<1>26. boxHandler[q].stage = "stopping" => NothingLeft(p1)
  <2>1. ASSUME NothingLeft(p) PROVE NothingLeft(p1)
    <3>1. CASE p.truncated \/ p.timedOut BY <1>22, <1>25, <3>1 DEF NothingLeft
    <3>2. CASE ~(p.truncated \/ p.timedOut)
      BY <1>2, <1>3, <2>1, <3>2 DEF NothingLeft, Box!Streams
    <3>3. QED BY <3>1, <3>2
  <2>2. QED BY <1>3, <2>1
<1>27. QED BY <1>2, <1>22, <1>24, <1>25, <1>26, BoxPiped

LEMMA BoxProgramStep ==
  ASSUME BoxInv, NEW q \in Box!BoxRequests, Box!ProgramSteps(q)
  PROVE  BoxInv'
<1>1. UNCHANGED boxCaller /\ UNCHANGED boxHandler /\ boxHandler[q].stage = "running"
  BY DEF Box!ProgramSteps
<1>2. \/ UNCHANGED pipes
      \/ \E s \in Box!Streams, x \in (IF q = ProbeCall THEN {"plain"} ELSE Units) :
             pipes' = [pipes EXCEPT ![q].wrote[s] = Append(@, x),
                          ![q].unread[s] = IF s \in pipes[q].closed THEN @ ELSE Append(@, x)]
  BY DEF Box!ProgramSteps
<1>3. CASE UNCHANGED pipes BY <1>1, <1>3, BoxStays
<1>4. ASSUME NEW s \in Box!Streams, NEW x \in (IF q = ProbeCall THEN {"plain"} ELSE Units),
             pipes' = [pipes EXCEPT ![q].wrote[s] = Append(@, x),
                          ![q].unread[s] = IF s \in pipes[q].closed THEN @ ELSE Append(@, x)]
      PROVE  BoxInv'
  <2>1. x \in BoxUnits BY DEF BoxUnits
  <2>2. QED BY <1>1, <1>4, <2>1, BoxWritten
<1>5. QED BY <1>2, <1>3, <1>4

LEMMA BoxOfTheEnd ==
  ASSUME BoxInv, NEW q \in Box!BoxRequests,
         Box!ExecutionEnds(q) \/ Box!ExecutionTimesOut(q)
  PROVE  BoxInv'
<1>1. BoxFine(q, boxCaller[q], boxHandler[q], pipes[q]) BY DEF BoxInv
<1>2. /\ boxHandler[q].stage = "running" /\ UNCHANGED boxCaller
      /\ boxHandler' = [boxHandler EXCEPT ![q].stage = "stopping"]
  BY DEF Box!ExecutionEnds, Box!ExecutionTimesOut
<1>3. /\ DOMAIN boxHandler' = Box!BoxRequests
      /\ \A p \in Box!BoxRequests : p # q => boxHandler'[p] = boxHandler[p]
      /\ DOMAIN boxHandler'[q] = {"stage", "response"} /\ boxHandler'[q].stage = "stopping"
  BY <1>2, HandlerTurns
<1>4. PICK p : p = pipes[q] /\ p \in BoxPipes /\ PipeFine(p) BY <1>1, <1>2 DEF BoxFine, BoxShape
<1>5. boxCaller[q].stage # "idle" /\ boxCaller[q].stage # "accepted" BY <1>1, <1>2 DEF BoxFine
<1>6. PICK p1 : /\ p1 \in BoxPipes /\ PipeFine(p1) /\ NothingLeft(p1)
                /\ DOMAIN pipes' = Box!BoxRequests /\ pipes'[q] = p1
                /\ \A o \in Box!BoxRequests : o # q => pipes'[o] = pipes[o]
  <2>1. ASSUME Box!ExecutionEnds(q)
        PROVE  \E p1 : /\ p1 \in BoxPipes /\ PipeFine(p1) /\ NothingLeft(p1)
                       /\ DOMAIN pipes' = Box!BoxRequests /\ pipes'[q] = p1
                       /\ \A o \in Box!BoxRequests : o # q => pipes'[o] = pipes[o]
    <3>1. UNCHANGED pipes /\ \A s \in Box!Streams : s \in p.closed \/ p.unread[s] = <<>>
      BY <1>4, <2>1 DEF Box!ExecutionEnds, Box!ReaderDone
    <3>2. NothingLeft(p) BY <1>4, <3>1 DEF NothingLeft, PipeFine, StreamFine, Box!Streams
    <3>3. QED BY <1>4, <3>1, <3>2 DEF BoxInv
  <2>2. ASSUME Box!ExecutionTimesOut(q)
        PROVE  \E p1 : /\ p1 \in BoxPipes /\ PipeFine(p1) /\ NothingLeft(p1)
                       /\ DOMAIN pipes' = Box!BoxRequests /\ pipes'[q] = p1
                       /\ \A o \in Box!BoxRequests : o # q => pipes'[o] = pipes[o]
    <3>1. PICK t \in BOOLEAN : t = TRUE OBVIOUS
    <3>2. PICK p1 : p1 = [p EXCEPT !.timedOut = t] OBVIOUS
    <3>3. /\ p1 \in BoxPipes /\ p1.wrote = p.wrote /\ p1.unread = p.unread /\ p1.got = p.got
          /\ p1.closed = p.closed /\ p1.truncated = p.truncated /\ p1.timedOut = t
      BY <1>4, <3>2 DEF BoxPipes
    <3>4. PipeFine(p1) /\ NothingLeft(p1) BY <1>4, <3>1, <3>3 DEF PipeFine, StreamFine, NothingLeft
    <3>5. pipes' = [pipes EXCEPT ![q] = p1] BY <1>4, <2>2, <3>1, <3>2 DEF Box!ExecutionTimesOut
    <3>6. QED BY <3>3, <3>4, <3>5, PipesTurn
  <2>3. QED BY <2>1, <2>2
<1>7. BoxFine(q, boxCaller[q], boxHandler'[q], p1)
  <2>1. BoxShape(boxCaller[q], boxHandler'[q], p1) BY <1>1, <1>3, <1>6 DEF BoxFine, BoxShape
  <2>2. QED BY <1>3, <1>5, <1>6, <2>1 DEF BoxFine, BoxBefore
<1>8. BoxRests(q) BY <1>2, <1>3, <1>6 DEF BoxRests, BoxInv
<1>9. QED BY <1>2, <1>6, <1>7, <1>8, BoxMoves

(* The task of an execution is over; its answer is whole, or an error. *)
LEMMA BoxOfTheCleanup ==
  ASSUME BoxInv, NEW q \in Box!BoxRequests,
         Box!ExecutionCleanup(q) \/ Box!PeerReadReturns(q)
  PROVE  BoxInv'
<1>1. BoxFine(q, boxCaller[q], boxHandler[q], pipes[q]) BY DEF BoxInv
<1>2. /\ boxHandler[q].stage \in {"spawning", "running", "stopping", "rejecting"}
      /\ UNCHANGED boxCaller
  BY DEF Box!ExecutionCleanup, Box!PeerReadReturns
<1>3. boxCaller[q].stage # "idle" /\ boxCaller[q].stage # "accepted" BY <1>1, <1>2 DEF BoxFine
<1>4. PICK r, p1 :
          /\ boxHandler' = [boxHandler EXCEPT ![q] = [stage |-> "finishing", response |-> r]]
          /\ pipes' = [pipes EXCEPT ![q] = p1]
          /\ IsResult(r) /\ p1 \in BoxPipes /\ (r.status = "ok" => Whole(r, p1.wrote))
  <2>1. ASSUME Box!ExecutionCleanup(q) PROVE \E r, p1 :
          /\ boxHandler' = [boxHandler EXCEPT ![q] = [stage |-> "finishing", response |-> r]]
          /\ pipes' = [pipes EXCEPT ![q] = p1]
          /\ IsResult(r) /\ p1 \in BoxPipes /\ (r.status = "ok" => Whole(r, p1.wrote))
    <3>1. PICK p : p = pipes[q] OBVIOUS
    <3>2. p \in BoxPipes /\ PipeFine(p) /\ NothingLeft(p)
      BY <1>1, <2>1, <3>1 DEF BoxFine, BoxShape, Box!ExecutionCleanup
    <3>3. PICK r : r = [status |-> "ok", output |-> p.got, timedOut |-> p.timedOut,
                        truncated |-> p.truncated] OBVIOUS
    <3>4. PICK p1 : p1 = [Box!FreshPipes EXCEPT !.wrote = p.wrote] OBVIOUS
    <3>5. p.wrote \in Outputs /\ p.got \in Outputs BY <3>2 DEF BoxPipes
    <3>6. p1 \in BoxPipes /\ p1.wrote = p.wrote BY <3>4, <3>5, FreshFine DEF BoxPipes
    <3>7. r.output = p.got /\ r.timedOut = p.timedOut /\ r.truncated = p.truncated BY <3>3
    <3>8. IsResult(r) BY <3>3, <3>5 DEF IsResult
    <3>9. Whole(r, p.wrote) BY <3>2, <3>7, PipeAnswered
    <3>10. /\ boxHandler' = [boxHandler EXCEPT ![q] = [stage |-> "finishing", response |-> r]]
           /\ pipes' = [pipes EXCEPT ![q] = p1]
      BY <2>1, <3>1, <3>3, <3>4 DEF Box!ExecutionCleanup
    <3>11. QED BY <3>6, <3>8, <3>9, <3>10
  <2>2. ASSUME Box!PeerReadReturns(q) PROVE \E r, p1 :
          /\ boxHandler' = [boxHandler EXCEPT ![q] = [stage |-> "finishing", response |-> r]]
          /\ pipes' = [pipes EXCEPT ![q] = p1]
          /\ IsResult(r) /\ p1 \in BoxPipes /\ (r.status = "ok" => Whole(r, p1.wrote))
    <3>1. PICK r, p1 : r = Box!BoxError("client_disconnected") /\ p1 = Box!FreshPipes
      OBVIOUS
    <3>2. IsResult(r) /\ r.status = "client_disconnected" BY <3>1, ErrorIsResult
    <3>3. p1 \in BoxPipes BY <3>1, FreshFine
    <3>4. /\ boxHandler' = [boxHandler EXCEPT ![q] = [stage |-> "finishing", response |-> r]]
          /\ pipes' = [pipes EXCEPT ![q] = p1]
      BY <2>2, <3>1 DEF Box!PeerReadReturns
    <3>5. QED BY <3>2, <3>3, <3>4
  <2>3. QED BY <2>1, <2>2
<1>5. /\ DOMAIN boxHandler' = Box!BoxRequests
      /\ \A p \in Box!BoxRequests : p # q => boxHandler'[p] = boxHandler[p]
      /\ DOMAIN boxHandler'[q] = {"stage", "response"} /\ boxHandler'[q].stage = "finishing"
      /\ boxHandler'[q].response = r
  BY <1>4, HandlerAnswers
<1>6. /\ DOMAIN pipes' = Box!BoxRequests /\ pipes'[q] = p1
      /\ \A o \in Box!BoxRequests : o # q => pipes'[o] = pipes[o]
  BY <1>4, PipesTurn
<1>7. BoxFine(q, boxCaller[q], boxHandler'[q], p1)
  <2>1. BoxShape(boxCaller[q], boxHandler'[q], p1) BY <1>1, <1>4, <1>5 DEF BoxFine, BoxShape
  <2>2. QED BY <1>3, <1>4, <1>5, <2>1 DEF BoxFine, BoxBefore
<1>8. BoxRests(q) BY <1>2, <1>5, <1>6 DEF BoxRests, BoxInv
<1>9. QED BY <1>2, <1>6, <1>7, <1>8, BoxMoves

LEMMA BoxNextStep == ASSUME BoxInv, Box!SandboxNext PROVE BoxInv'
<1>1. PICK q \in Box!BoxRequests :
          \/ Box!Connect(q) \/ Box!LeaveRunner(q) \/ Box!ReceiveAnswer(q)
          \/ Box!Handle(q) \/ Box!BeginExecution(q) \/ Box!Spawned(q)
          \/ Box!SpawnFails(q) \/ Box!RejectRequest(q)
          \/ Box!ProgramSteps(q) \/ Box!CapReached(q)
          \/ Box!ExecutionEnds(q) \/ Box!ExecutionTimesOut(q)
          \/ Box!ExecutionCleanup(q) \/ Box!PeerReadReturns(q) \/ Box!HandlerEnds(q)
          \/ \E s \in Box!Streams : Box!ReadChunk(q, s)
  BY DEF Box!SandboxNext
<1>2. ASSUME Box!CapReached(q) PROVE BoxInv' BY <1>2, BoxStays DEF Box!CapReached
<1>3. QED BY <1>1, <1>2, BoxOfTheClient, BoxOfTheDaemon, BoxOfTheSpawn, BoxProgramStep, BoxReadStep,
     BoxOfTheEnd, BoxOfTheCleanup

(* A result that the client accepts is whole or flagged. *)
LEMMA BoxPromise == ASSUME BoxInv PROVE Box!ResultsAreWholeOrFlagged
<1>1. SUFFICES ASSUME NEW q \in Box!BoxRequests \ {HealthCheck},
                      boxCaller[q].stage = "accepted"
               PROVE  LET r == boxCaller[q].result IN
                      /\ Box!Kept(r.output) <= OutputLimit
                      /\ \A s \in Box!Streams : Box!IsPrefixOf(r.output[s], pipes[q].wrote[s])
                      /\ r.truncated \/ r.timedOut \/ r.output = pipes[q].wrote
  BY DEF Box!ResultsAreWholeOrFlagged
<1>2. PICK r, w : r = boxCaller[q].result /\ w = pipes[q].wrote OBVIOUS
<1>3. BoxFine(q, boxCaller[q], boxHandler[q], pipes[q]) BY DEF BoxInv
<1>4. IsResult(r) /\ Whole(r, w) /\ r.output \in Outputs /\ w \in Outputs
  BY <1>1, <1>2, <1>3 DEF BoxFine, BoxShape, BoxPipes, IsResult
<1>5. ASSUME NEW s \in Box!Streams PROVE Box!IsPrefixOf(r.output[s], w[s])
  <2>1. PICK x, y : x = r.output[s] /\ y = w[s] OBVIOUS
  <2>2. x \in Seq(BoxUnits) /\ y \in Seq(BoxUnits) BY <1>4, <2>1 DEF Outputs
  <2>3. Starts(x, y) BY <1>4, <2>1 DEF Whole, Box!Streams
  <2>4. QED BY <2>1, <2>2, <2>3, StartsIsPrefix
<1>6. QED BY <1>2, <1>4, <1>5 DEF Whole

------------------------------------------------------------
(* Answers are earned. *)

EarnedInv ==
    /\ TrustInv /\ TeamInv /\ AnswerInv /\ ReflectionInv /\ ChainInv /\ BoxInv /\ BenefitInv
    /\ PricingInv /\ AdapterInv

LEMMA BoxAtRest == ASSUME BoxInv, UNCHANGED sandboxPart PROVE BoxInv'
<1>1. UNCHANGED boxCaller /\ UNCHANGED boxHandler /\ UNCHANGED pipes BY DEF sandboxPart
<1>2. QED BY <1>1, BoxStays

LEMMA ReflectionAtRest == ASSUME ReflectionInv, UNCHANGED reflectionPart PROVE ReflectionInv'
<1>1. UNCHANGED reflection BY DEF reflectionPart
<1>2. QED BY <1>1, ReflectionRests

LEMMA EarnedStep == ASSUME EarnedInv, Next PROVE EarnedInv'
<1>1. TrustInv' BY EachPart, TrustNextStep, TrustRests DEF EarnedInv
<1>2. TeamInv' BY EachPart, TeamNextStep, TeamRests DEF EarnedInv
<1>3. AnswerInv' BY EachPart, AnswerNextStep, AnswerRests DEF EarnedInv
<1>4. ReflectionInv' BY EachPart, ReflectionNextStep, ReflectionAtRest DEF EarnedInv
<1>5. ChainInv' BY EachPart, ChainNextStep, ChainRests DEF EarnedInv
<1>6. BoxInv' BY EachPart, BoxNextStep, BoxAtRest DEF EarnedInv
<1>7. BenefitInv' BY EachPart, BenefitNextStep, BenefitRests DEF EarnedInv
<1>8. PricingInv' BY EachPart, PricingNextStep, PricingRests DEF EarnedInv
<1>9. AdapterInv' BY EachPart, AdapterNextStep, AdaptersRest DEF EarnedInv
<1>10. QED BY <1>1, <1>2, <1>3, <1>4, <1>5, <1>6, <1>7, <1>8, <1>9 DEF EarnedInv

LEMMA EarnedRests == ASSUME EarnedInv, UNCHANGED vars PROVE EarnedInv'
<1>1. /\ UNCHANGED verifierPart /\ UNCHANGED teamPart /\ UNCHANGED groundedPart
      /\ UNCHANGED reflectionPart /\ UNCHANGED fallbackPart /\ UNCHANGED sandboxPart
      /\ UNCHANGED benefitPart /\ UNCHANGED pricingPart /\ UNCHANGED adaptersPart
  BY DEF vars
<1>2. TrustInv' /\ TeamInv' /\ AnswerInv' /\ ReflectionInv'
  BY <1>1, TrustRests, TeamRests, AnswerRests, ReflectionAtRest DEF EarnedInv
<1>3. ChainInv' /\ BoxInv' /\ BenefitInv' /\ PricingInv' /\ AdapterInv'
  BY <1>1, ChainRests, BoxAtRest, BenefitRests, PricingRests, AdaptersRest DEF EarnedInv
<1>4. QED BY <1>2, <1>3 DEF EarnedInv

(* Whichever part acts: a verdict was parsed whole from the child's answer *)
(* or is a refusal; a team's findings agree with what became of its *)
(* children; a grounded answer is made of claims that passed every stage so *)
(* far; a reflection remembers why it may replace the draft; a chain tried *)
(* the fitting providers one after the other; nothing a program wrote is *)
(* lost between it and its readers unless the limit or the clock cut it *)
(* off; and measurements, prices and usage agree with what they measure *)
(* (delegation/, grounded_rag.py, reflection/service.py, fallback_chain.py, *)
(* sandbox_runner/server.py, measurement.py, cost_tracker.py, the adapters).*)
THEOREM EarnedInvariant == Spec => []EarnedInv
<1>1. Init => EarnedInv
  BY TrustStart, TeamStart, AnswerStart, ReflectionStart, ChainStart, BoxStart, BenefitStart,
     PricingStart, AdapterStart DEF Init, EarnedInv
<1>2. EarnedInv /\ [Next]_vars => EarnedInv' BY EarnedStep, EarnedRests
<1>3. QED BY <1>1, <1>2, PTL DEF Spec

(* A claim reaches the answer only on evidence, a failed child is no *)
(* finding, a draft is replaced only by a revision that was due, a typed *)
(* answer comes from the first provider that fits, a sandbox result is a *)
(* prefix of what the program wrote and all of it unless it says otherwise, *)
(* a report of the verifier's value is right, and usage and cost are what *)
(* was used (delegation/service.py, grounded_rag.py, reflection/service.py, *)
(* fallback_chain.py, sandbox_client.py, measurement.py, cost_tracker.py, *)
(* runtime/anthropic.py). *)
THEOREM EarnedAnswers == Spec => []AnswersAreEarned
<1>1. ASSUME EarnedInv PROVE AnswersAreEarned
  <2>1. Judge!VerdictsAreGrounded BY <1>1, TrustPromise DEF EarnedInv
  <2>2. Team!FailedChildIsNoFinding BY <1>1, TeamPromise DEF EarnedInv
  <2>3. Rag!AnswersAreGrounded BY <1>1, AnswerPromise DEF EarnedInv
  <2>4. Loop!DraftUnlessRevised BY <1>1, ReflectionPromise DEF EarnedInv
  <2>5. Model!AnsweredByTheFirstFit BY <1>1, ChainPromise DEF EarnedInv
  <2>6. Box!ResultsAreWholeOrFlagged BY <1>1, BoxPromise DEF EarnedInv
  <2>7. Judge!ClaimedValueIsReal BY <1>1, BenefitPromise DEF EarnedInv
  <2>8. Pricing!TrackerAgrees BY <1>1, ShownAgrees DEF EarnedInv, PricingInv
  <2>9. Model!UsageIsTheWholePrompt BY <1>1, AdapterPromise DEF EarnedInv
  <2>10. QED BY <2>1, <2>2, <2>3, <2>4, <2>5, <2>6, <2>7, <2>8, <2>9 DEF AnswersAreEarned
<1>2. EarnedInv => AnswersAreEarned BY <1>1
<1>3. QED BY <1>2, EarnedInvariant, PTL
=============================================================================
