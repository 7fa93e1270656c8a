------------------------------- MODULE AgentRun ------------------------------
(***************************************************************************)
(* One run of the agent (runtime/engine.py): the loop of model calls and   *)
(* tool calls under its budgets, and the three parties that may end it:    *)
(* the loop itself, the deadline and the client's cancellation.  The loop  *)
(* is a task, run() waits for it, and the terminal event is written by a   *)
(* third task that is shielded from both.  How a batch of tool calls is    *)
(* authorised is the module Approvals; here it is Prepare or Deny.         *)
(***************************************************************************)
EXTENDS Integers, Sequences, FiniteSets, Functions

CONSTANTS
    Keys,           \* tool calls, identified by name and arguments
    MaxIterations, MaxToolCalls, MaxTokens, MaxStructuredRetries,   \* RuntimeBudget
    MaxBatch        \* bound: tool calls in one response

VARIABLES
    policyMode,     \* a policy engine is configured
    contract,       \* the caller passed a response_contract
    pc,             \* where the task of _run() is
    iterations, calls, usage, retries,
    seen,           \* seen_calls
    batch,          \* tool calls of the response that are still to be handled
    unanswered,     \* tool calls of the history without a tool message
    executed,       \* history: tool calls that were dispatched, in order
    wanted,         \* the reason _finalize() was called with
    expired,        \* the deadline has passed
    caller,         \* where run() is
    terminal,       \* the terminal part of _RuntimeDeadlineState and its task
    recorded,       \* the result_recorder stored the answer
    stopEvents,     \* reasons of the RUN_STOPPED events that were emitted
    outcome         \* what run() returned

setup == <<policyMode, contract>>
loop == <<pc, iterations, calls, usage, retries, seen, batch, unanswered, executed, wanted>>
ends == <<caller, terminal, recorded, stopEvents, outcome>>
runVars == <<setup, loop, expired, ends>>

Batches == UNION {[1 .. n -> Keys] : n \in 0 .. MaxBatch}
Working == {"begin", "loop", "calling", "answered", "preparing", "tools", "final"}
NoTerminal ==
    [started |-> FALSE, reason |-> "none", error |-> FALSE, records |-> FALSE, task |-> "none"]

RunInit ==
    /\ policyMode \in BOOLEAN /\ contract \in BOOLEAN
    /\ pc = "begin" /\ iterations = 0 /\ calls = 0 /\ usage = 0 /\ retries = 0
    /\ seen = {} /\ batch = <<>> /\ unanswered = 0 /\ executed = <<>> /\ wanted = "none"
    /\ expired = FALSE /\ caller = "waiting" /\ terminal = NoTerminal
    /\ recorded = FALSE /\ stopEvents = <<>>
    /\ outcome = [reason |-> "none", error |-> "none"]

-----------------------------------------------------------------------------
(* Mutant: a later decision replaces the first and writes its own event. *)
DecideAgain(reason, error, records) ==
    terminal' = [started |-> TRUE, reason |-> reason, error |-> error, records |-> records,
                 task |-> IF records THEN "record" ELSE "emit"]

(* _stop(): the first decision is kept, with the error it carries or none; *)
(* whoever comes later adopts it.                                          *)
Decide(reason, error, records) ==
    terminal' = IF terminal.started THEN terminal
                ELSE [started |-> TRUE, reason |-> reason, error |-> error,
                      records |-> records, task |-> IF records THEN "record" ELSE "emit"]

(* The local variables of _run() that nobody reads once its end is decided. *)
LocalsDie ==
    /\ calls' = 0 /\ usage' = 0 /\ retries' = 0 /\ seen' = {} /\ batch' = <<>>
    /\ unanswered' = 0 /\ wanted' = "none"
    /\ UNCHANGED <<iterations, executed>>

StopRun(reason, error) ==
    /\ Decide(reason, error, TRUE)
    /\ pc' = "stopping" /\ LocalsDie
    /\ UNCHANGED <<setup, expired, caller, recorded, stopEvents, outcome>>

Kept == UNCHANGED <<calls, usage, retries, seen, batch, unanswered, executed, wanted>>

(* _run() enters _finalize(): one more model call, without tools. *)
Finalize(reason) ==
    /\ pc' = "final" /\ wanted' = reason
    /\ UNCHANGED <<setup, iterations, expired, ends>>

(* RUN_STARTED is emitted before the try: its failure leaves _run() with no *)
(* decision.                                                                *)
StartFails ==
    /\ pc = "begin" /\ pc' = "crashed"
    /\ Kept /\ UNCHANGED <<setup, iterations, expired, ends>>

Begin == pc = "begin" /\ pc' = "loop" /\ Kept /\ UNCHANGED <<setup, iterations, expired, ends>>

(* The head of the loop: time, capabilities, then the next iteration. *)
LoopExpired == pc = "loop" /\ expired /\ StopRun("time_budget_exhausted", FALSE)

RejectCapabilities ==
    /\ pc = "calling" \/ (pc = "loop" /\ iterations < MaxIterations /\ ~expired)
    /\ StopRun("provider_capability_unsupported", TRUE)

Iterate ==
    /\ pc = "loop" /\ iterations < MaxIterations /\ ~expired
    /\ pc' = "calling" /\ iterations' = iterations + 1
    /\ Kept /\ UNCHANGED <<setup, expired, ends>>

IterationsExhausted ==
    /\ pc = "loop" /\ iterations >= MaxIterations
    /\ Finalize("iteration_budget_exhausted")
    /\ UNCHANGED <<calls, usage, retries, seen, batch, unanswered, executed>>

(* The context allowance, a provider failure or a refused reservation.     *)
CallFails ==
    /\ pc = "calling"
    /\ \/ StopRun("context_budget_exhausted", FALSE)
       \/ StopRun("provider_error", TRUE)
       \/ StopRun("monetary_budget_exhausted", TRUE)

(* The response arrives: usage is added, the calls are copied.             *)
Respond(response, tokens) ==
    /\ pc = "calling" /\ ~expired
    /\ pc' = "answered" /\ batch' = response /\ usage' = usage + tokens
    /\ UNCHANGED <<setup, iterations, calls, retries, seen, unanswered, executed, wanted,
                   expired, ends>>

(* A malformed tool call, or a stop reason of the provider's that is not   *)
(* the end of a turn.                                                      *)
RespondBadly ==
    /\ pc = "calling" /\ ~expired
    /\ StopRun("policy_denied", FALSE) \/ StopRun("provider_length_limit", TRUE)

(* The answer does not satisfy the contract: asked for again, or the end.  *)
CanRetry ==
    retries < MaxStructuredRetries /\ iterations < MaxIterations /\ usage < MaxTokens /\ ~expired

RetryStructured ==
    /\ pc = "answered" /\ contract /\ batch = <<>> /\ CanRetry
    /\ pc' = "loop" /\ retries' = retries + 1
    /\ UNCHANGED <<setup, iterations, calls, usage, seen, batch, unanswered, executed, wanted,
                   expired, ends>>

StructuredInvalid ==
    pc = "answered" /\ contract /\ batch = <<>> /\ ~CanRetry
    /\ StopRun("structured_output_invalid", TRUE)

TokensExhausted ==
    /\ pc = "answered" /\ usage > MaxTokens
    /\ Finalize("token_budget_exhausted")
    /\ UNCHANGED <<calls, usage, retries, seen, batch, unanswered, executed>>

Complete ==
    pc = "answered" /\ batch = <<>> /\ usage <= MaxTokens /\ StopRun("completed", FALSE)

(* The assistant message with its tool calls enters the history.  In policy *)
(* mode the novel calls of the whole batch are reserved at once.            *)
Novel == Range(batch) \ seen

AcceptBatch ==
    /\ pc = "answered" /\ batch # <<>> /\ usage <= MaxTokens
    /\ policyMode => calls + Cardinality(Novel) <= MaxToolCalls
    /\ pc' = IF policyMode THEN "preparing" ELSE "tools"
    /\ unanswered' = unanswered + Len(batch)
    /\ UNCHANGED <<setup, iterations, calls, usage, retries, seen, batch, executed, wanted,
                   expired, ends>>

(* Mutant: the tool-use blocks of a refused batch stay open. *)
BatchOverBudgetOpen ==
    /\ pc = "answered" /\ batch # <<>> /\ usage <= MaxTokens
    /\ policyMode /\ calls + Cardinality(Novel) > MaxToolCalls
    /\ Finalize("tool_budget_exhausted") /\ unanswered' = unanswered + Len(batch)
    /\ UNCHANGED <<calls, usage, retries, seen, batch, executed>>

BatchOverBudget ==
    /\ pc = "answered" /\ batch # <<>> /\ usage <= MaxTokens
    /\ policyMode /\ calls + Cardinality(Novel) > MaxToolCalls
    /\ Finalize("tool_budget_exhausted")
    /\ UNCHANGED <<calls, usage, retries, seen, batch, unanswered, executed>>

(* The members of s at the positions of S, in their order. *)
Picked(s, S) ==
    LET taken[i \in 0 .. Len(s)] ==
            IF i = 0 THEN <<>> ELSE taken[i - 1] \o (IF i \in S THEN <<s[i]>> ELSE <<>>)
    IN  taken[Len(s)]

(* _prepare_policy_batch(): duplicates are answered, the rest is authorised *)
(* as a whole, or the run is denied before any call of the batch ran.       *)
Distinct ==
    Picked(batch, {i \in DOMAIN batch :
                      batch[i] \notin seen /\ \A j \in 1 .. i - 1 : batch[j] # batch[i]})

Prepare ==
    /\ pc = "preparing"
    /\ pc' = "tools" /\ batch' = Distinct /\ seen' = seen \cup Range(batch)
    /\ unanswered' = Len(batch')
    /\ UNCHANGED <<setup, iterations, calls, usage, retries, executed, wanted, expired, ends>>

Deny ==
    pc = "preparing" /\ StopRun("policy_denied", FALSE)

(* Without a policy engine each call meets the budget, the duplicates and  *)
(* the deprecated approval hook in its turn.                               *)
ToolsExhausted ==
    /\ pc = "tools" /\ ~policyMode /\ batch # <<>> /\ calls >= MaxToolCalls
    /\ Finalize("tool_budget_exhausted") /\ unanswered' = unanswered - Len(batch)
    /\ UNCHANGED <<calls, usage, retries, seen, batch, executed>>

Answered == batch' = Tail(batch) /\ unanswered' = unanswered - 1

BlockDuplicate ==
    /\ pc = "tools" /\ ~policyMode /\ batch # <<>> /\ calls < MaxToolCalls /\ Head(batch) \in seen
    /\ Answered
    /\ UNCHANGED <<setup, pc, iterations, calls, usage, retries, seen, executed, wanted, expired,
                   ends>>

Permitted == policyMode \/ (calls < MaxToolCalls /\ Head(batch) \notin seen)

HookDenies ==
    /\ pc = "tools" /\ ~policyMode /\ batch # <<>> /\ Permitted
    /\ Answered /\ seen' = seen \cup {Head(batch)} /\ calls' = calls + 1
    /\ UNCHANGED <<setup, pc, iterations, usage, retries, executed, wanted, expired, ends>>

(* The tool runs; its result or its error is recorded and answers the call. *)
RunTool ==
    /\ pc = "tools" /\ batch # <<>> /\ Permitted /\ ~expired
    /\ Answered /\ seen' = seen \cup {Head(batch)} /\ calls' = calls + 1
    /\ executed' = Append(executed, Head(batch))
    /\ UNCHANGED <<setup, pc, iterations, usage, retries, wanted, expired, ends>>

NextIteration ==
    /\ pc = "tools" /\ batch = <<>>
    /\ pc' = "loop" /\ Kept /\ UNCHANGED <<setup, iterations, expired, ends>>

(* _finalize(): the answer, an answer that is no answer, or a failure.     *)
FinalCall ==
    /\ pc = "final"
    /\ \/ \E failed \in BOOLEAN : StopRun(wanted, failed)
       \/ ~expired /\ StopRun("provider_capability_unsupported", TRUE)
       \/ ~expired /\ StopRun("provider_error", TRUE)
       \/ ~expired /\ StopRun("monetary_budget_exhausted", TRUE)
       \/ contract /\ ~expired /\ StopRun("structured_output_invalid", TRUE)

(* Every await of the loop may end in the deadline's error or another one. *)
DeadlineInside == pc \in Working \ {"begin"} /\ expired /\ StopRun("time_budget_exhausted", FALSE)
InternalError == pc \in Working \ {"begin", "final"} /\ StopRun("error", TRUE)

-----------------------------------------------------------------------------
(* The terminal task: the answer is stored before the event that completes *)
(* the run.                                                                *)
RecordAnswer ==
    /\ terminal.task = "record"
    /\ recorded' = TRUE /\ terminal' = [terminal EXCEPT !.task = "emit"]
    /\ UNCHANGED <<setup, loop, expired, caller, stopEvents, outcome>>

EmitStopped ==
    /\ terminal.task = "emit"
    /\ stopEvents' = Append(stopEvents, terminal.reason)
    /\ terminal' = [terminal EXCEPT !.task = "done"]
    /\ UNCHANGED <<setup, loop, expired, caller, recorded, outcome>>

TerminalFails ==
    /\ terminal.task \in {"record", "emit"}
    /\ terminal' = [terminal EXCEPT !.task = "failed"]
    /\ UNCHANGED <<setup, loop, expired, caller, recorded, stopEvents, outcome>>

(* _stop() returns in the loop's task, or raises what the terminal task raised. *)
LoopEnds ==
    /\ pc = "stopping" /\ terminal.task \in {"done", "failed", "cancelled"}
    /\ pc' = IF terminal.task = "done" THEN "ended" ELSE "crashed"
    /\ UNCHANGED <<setup, iterations, calls, usage, retries, seen, batch, unanswered, executed,
                   wanted, expired, ends>>

-----------------------------------------------------------------------------
(* run(): the loop's result, the client's cancellation, the deadline.      *)
StopError == IF terminal.error THEN "stop" ELSE "none"

Return(error) == outcome' = [reason |-> terminal.reason, error |-> error] /\ caller' = "returned"

RunReturns ==
    /\ caller = "waiting" /\ pc = "ended" /\ ~expired
    /\ Return(StopError)
    /\ UNCHANGED <<setup, loop, expired, terminal, recorded, stopEvents>>

RunRaises ==
    /\ caller = "waiting" /\ pc = "crashed" /\ ~expired
    /\ caller' = "raised"
    /\ UNCHANGED <<setup, loop, expired, terminal, recorded, stopEvents, outcome>>

(* Mutant: the task of the loop is left running. *)
LoopLeftRunning == UNCHANGED loop

LoopCancelled == pc' = (IF pc \in {"ended", "crashed"} THEN pc ELSE "cancelled") /\ LocalsDie

(* The client cancels: the terminal event is waited for, with no answer of *)
(* its own to record, and the cancellation goes on.                        *)
Cancel ==
    /\ caller = "waiting"
    /\ caller' = "cancelling" /\ LoopCancelled /\ Decide("cancelled", TRUE, FALSE)
    /\ UNCHANGED <<setup, expired, recorded, stopEvents, outcome>>

CancelEnds ==
    /\ caller = "cancelling" /\ terminal.task \in {"done", "failed", "cancelled"}
    /\ caller' = "raised"
    /\ UNCHANGED <<setup, loop, expired, terminal, recorded, stopEvents, outcome>>

(* A second cancellation leaves the shielded task behind. *)
CancelAgain ==
    /\ caller = "cancelling" /\ caller' = "raised"
    /\ UNCHANGED <<setup, loop, expired, terminal, recorded, stopEvents, outcome>>

(* _deadline_result(): an event that is being written is waited for; else  *)
(* the deadline is the decision.                                           *)
DeadlineFires ==
    /\ caller = "waiting" /\ expired
    /\ LoopCancelled
    /\ caller' = IF terminal.started THEN "awaiting" ELSE "stopping"
    /\ Decide("time_budget_exhausted", TRUE, TRUE)
    /\ UNCHANGED <<setup, expired, recorded, stopEvents, outcome>>

(* The short budget is over (or the client cancels): the task is cancelled *)
(* and given a second one.                                                 *)
CleanupExpires ==
    /\ caller = "awaiting" /\ terminal.task \in {"record", "emit"}
    /\ caller' = "abandoning"
    /\ UNCHANGED <<setup, loop, expired, terminal, recorded, stopEvents, outcome>>

TerminalCancelled ==
    /\ caller = "abandoning" /\ terminal.task \in {"record", "emit"}
    /\ terminal' = [terminal EXCEPT !.task = "cancelled"]
    /\ UNCHANGED <<setup, loop, expired, caller, recorded, stopEvents, outcome>>

(* The result keeps the error of the stop; only one without is marked when  *)
(* the event was not written.                                               *)
AwaitedReturns ==
    /\ \/ caller = "awaiting" /\ terminal.task \notin {"record", "emit"}
       \/ caller = "abandoning"
    /\ Return(IF terminal.task = "done" \/ terminal.error THEN StopError ELSE "indeterminate")
    /\ UNCHANGED <<setup, loop, expired, terminal, recorded, stopEvents>>

(* Mutant: the deadline's own _stop() is waited for without a budget. *)
StoppingReturnsWhenDone ==
    /\ caller = "stopping" /\ terminal.task \notin {"record", "emit"}
    /\ Return(IF terminal.task = "done" THEN StopError ELSE "indeterminate")
    /\ UNCHANGED <<setup, loop, expired, terminal, recorded, stopEvents>>

(* The deadline's own _stop() ends, fails, or is left behind by its budget. *)
StoppingReturns ==
    /\ caller = "stopping"
    /\ \/ terminal.task = "done" /\ Return(StopError)
       \/ Return("indeterminate")
    /\ UNCHANGED <<setup, loop, expired, terminal, recorded, stopEvents>>

Expire == ~expired /\ expired' = TRUE /\ UNCHANGED <<setup, loop, ends>>

LoopNext ==
    \/ Begin \/ StartFails \/ LoopExpired \/ RejectCapabilities \/ Iterate \/ IterationsExhausted \/ CallFails
    \/ \E response \in Batches, tokens \in 1 .. 2 : Respond(response, tokens)
    \/ RespondBadly \/ RetryStructured \/ StructuredInvalid \/ TokensExhausted \/ Complete
    \/ AcceptBatch \/ BatchOverBudget \/ Prepare \/ Deny \/ ToolsExhausted \/ BlockDuplicate
    \/ HookDenies \/ RunTool \/ NextIteration \/ FinalCall \/ DeadlineInside \/ InternalError
    \/ LoopEnds

CallerNext ==
    \/ RunReturns \/ RunRaises \/ Cancel \/ CancelEnds \/ CancelAgain \/ DeadlineFires
    \/ CleanupExpires \/ AwaitedReturns \/ StoppingReturns

RunNext ==
    \/ LoopNext \/ CallerNext \/ Expire
    \/ RecordAnswer \/ EmitStopped \/ TerminalFails \/ TerminalCancelled

-----------------------------------------------------------------------------
(* The loop, the deadline and the client all reach _stop(), and one of them *)
(* decides: at most one terminal event is emitted, and the result that      *)
(* run() returns carries the reason of that event (engine.py:1939-1956).    *)
OneTerminalDecision ==
    /\ Len(stopEvents) <= 1
    /\ \A i \in DOMAIN stopEvents :
           outcome.reason # "none" => stopEvents[i] = outcome.reason

(* A result without an error is one whose terminal event was emitted, with  *)
(* the answer stored before it, even when the deadline fired while the      *)
(* event was being written.  A result with the error of its own stop says   *)
(* nothing about the event: `error or "terminal_persistence_indeterminate"` *)
(* keeps that error (engine.py:1819-1887).                                  *)
QuietResultIsPersisted ==
    caller = "returned" /\ outcome.error = "none" =>
        Len(stopEvents) = 1 /\ (terminal.records => recorded)

(* The model is never asked to continue a history with an open tool call:   *)
(* duplicates, denials, errors and refused batches are all answered before  *)
(* the next call (engine.py:566-858, 1640-1658).                            *)
HistoryIsPaired == pc \in {"loop", "calling", "final"} => unanswered = 0

(* No tool call is dispatched twice, and never more than the budget allows, *)
(* over all the responses of a run (engine.py:577-661).                     *)
CallsRunOnceWithinBudget == IsInjective(executed) /\ Len(executed) <= MaxToolCalls

(* Once the end is decided by anyone, no tool runs and no iteration starts. *)
NothingStartsAfterTheEnd ==
    [][terminal.started => executed' = executed /\ iterations' = iterations]_runVars

(* The caller gets its answer by the deadline plus two short budgets, even  *)
(* if the provider, a tool or the database never answers (deadline.py,      *)
(* engine.py:250-285, 1819-1887).                                           *)
CallerIsAnswered ==
    (caller \notin {"cancelling", "returned", "raised"})
        ~> (caller \in {"cancelling", "returned", "raised"})
==============================================================================
