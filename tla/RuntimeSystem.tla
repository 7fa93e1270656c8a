------------------------------- MODULE RuntimeSystem -------------------------------
(*****************************************************************************)
(* The parts of the server that work for a caller and must come to an end:   *)
(* the agent's runtime with its policy, hooks and spans, delegation and      *)
(* orchestration, the provider adapters and their prices, reflection,        *)
(* grounded answers, the sandbox runner and the server itself.  They share   *)
(* no stored state, so one behaviour of this specification exercises one of  *)
(* them, the scenario, and leaves the others as they start; every scenario   *)
(* is an initial state.                                                      *)
(*****************************************************************************)
EXTENDS Integers, Sequences, FiniteSets

CONSTANTS
    \* AgentRun
    Keys, MaxIterations, MaxToolCalls, MaxTokens, MaxStructuredRetries,
    MaxBatch,
    \* ToolPolicy
    ToolNames, Definitions, RuleBook, Calls, MaxRules,
    \* RunObservers
    HookPool, Emits, EventData, MaxHooks, CallIds, MaxSpanTurns, MaxToolSpans,
    \* EvidenceVerifier
    Claims, Delegated, Answers, Estimate, InputTokens, OutputTokens,
    Retries, Fixture, MaxObserved,
    \* Delegation
    Nonces, ChildRuns, KeyVersions, ActiveKey, MaxAge, FutureSkew, MaxWall,
    Profiles, ParentTools, AllowedTools, TaskSeconds, ChildSeconds,
    TotalSeconds, CleanupSeconds,
    \* ProviderAdapters
    Providers, Declared, ServerIds, Reasons, MaxTurns, MaxCalls, MaxCount,
    Chain, ChainRequests, MaxFailures,
    \* WorkerPatterns
    Workers, Tasks, MaxPeers, BatchCalls, Classes, MaxRetries, TokenLife,
    MaxHour,
    \* GroundedAnswers
    SearchResults, ModelAnswers,
    \* ModelPricing
    Models, PriceTable, ProviderNames, FamilyOf, PerNano, PerMicro, MaxTokensIn,
    MaxTokensOut, PriceLimit, MaxRecorded,
    \* ReflectionLoop
    ReflectionVerdicts, DraftLines, RequestLines, CritiqueSize,
    RevisionSize, CritiqueCap, MaxReflectionIn, MaxReflectionOut,
    MaxReflectionTotal, InputPrice, OutputPrice, MaxReflectionCost,
    ReflectionTime, MaxRevisions, ReportedExtra,
    \* SandboxRunner
    ToolCalls, HealthCheck, ProbeCall, Units, OutputLimit, FrameLimit,
    MaxWritten,
    \* ServerLifecycle
    Features

\* RuntimeBudget refuses a negative number of tool calls (engine.py:108).
ASSUME ToolBudgetAssumption == MaxToolCalls \in Nat
ASSUME HookPriorityAssumption == \A h \in HookPool : h.priority \in Int
\* A rule holds a tuple of resources of three kinds (security/policy.py:191).
ASSUME RuleBookAssumption ==
    \A r \in RuleBook :
        /\ IsFiniteSet(r.resources)
        /\ \A p \in r.resources : p.kind \in {"tool", "path", "host"} /\ Len(p.labels) \in Nat
\* The claims of a request and the verdicts of an answer are lists.
ASSUME VerifierAssumption ==
    IsFiniteSet(Claims) /\ \A a \in Answers : DOMAIN a = 1 .. Len(a)
\* The bounds the envelope service refuses to start without (envelope.py:136).
ASSUME EnvelopeAssumption == MaxAge \in Nat /\ FutureSkew \in Nat
\* Names are the keys of the parent's registry.
ASSUME ParentToolsAssumption ==
    \A t, u \in ParentTools : t.name = u.name => t = u
ASSUME TeamAssumption ==
    /\ TaskSeconds \in Nat /\ TotalSeconds \in Nat /\ CleanupSeconds \in Nat
    /\ DOMAIN Profiles = 1 .. Len(Profiles) /\ Len(Profiles) \in Nat /\ Len(Profiles) >= 2
    /\ \A i \in DOMAIN Profiles : Profiles[i] # "none"
\* An answer is a list of claim objects, told apart by id() (grounded_rag.py:734).
ASSUME ClaimsAssumption ==
    \A a \in ModelAnswers :
        /\ Len(a) \in Nat /\ a = [i \in 1 .. Len(a) |-> a[i]]
        /\ \A i, j \in DOMAIN a : a[i] = a[j] => i = j
        /\ \A i \in DOMAIN a : IsFiniteSet(a[i].words)
\* The providers of a chain are a list.
ASSUME ChainAssumption == Len(Chain) \in Nat /\ DOMAIN Chain = 1 .. Len(Chain)
ASSUME BatchAssumption == DOMAIN BatchCalls \subseteq Nat
\* MODEL_PRICING holds no negative rate; -1 is a cache rate it lacks.
ASSUME PriceAssumption ==
    /\ PerNano \in Nat \ {0} /\ PerMicro \in Nat /\ PriceLimit \in Nat
    /\ MaxTokensIn \in Nat /\ MaxTokensOut \in Nat
    /\ \A m \in DOMAIN PriceTable :
           /\ PriceTable[m].input \in Nat /\ PriceTable[m].output \in Nat
           /\ PriceTable[m].cacheRead \in Nat \cup {-1}
           /\ PriceTable[m].cacheWrite \in Nat \cup {-1}
\* ReflectionPolicy refuses limits and prices below zero (reflection/models.py:60).
ASSUME ReflectionAssumption ==
    /\ CritiqueSize \in Nat /\ RevisionSize \in Nat /\ CritiqueCap \in Nat
    /\ MaxReflectionIn \in Nat /\ MaxReflectionOut \in Nat
    /\ MaxReflectionTotal \in Nat /\ MaxReflectionCost \in Nat
    /\ InputPrice \in Nat /\ OutputPrice \in Nat
    /\ DraftLines \in Nat /\ RequestLines \in Nat
\* Line 0 stands for a verdict without a reference.
ASSUME VerdictAssumption ==
    /\ ReflectionVerdicts \subseteq
           [decision : {"keep", "revise"}, shape : BOOLEAN, issues : Nat,
            source : {"none", "draft", "request"}, line : Nat]
    /\ \A v \in ReflectionVerdicts : v.source = "none" => v.line = 0
\* The client and the runner refuse an output_bytes that is not a positive integer
\* (sandbox_client.py:38, sandbox_runner/server.py:133).
ASSUME OutputLimitAssumption == OutputLimit \in Nat
ASSUME SpanTurnsAssumption == MaxSpanTurns \in Nat
ASSUME TokenLifeAssumption == TokenLife \in Nat

VARIABLES
    scenario,   \* the part this behaviour exercises
    \* AgentRun
    policyMode, contract, pc, iterations, calls, usage, retries, seen,
    batch, unanswered, executed, wanted, expired, caller, terminal,
    recorded, stopEvents, outcome,
    \* ToolPolicy
    rules, tools, disabled, denied, admitted, ran, banned,
    \* RunObservers
    hooks, emit, delivered, turn, expects, runSpan, modelSpan, toolSpans,
    toolsStarted, spansOpened, spansClosed, unstored,
    \* EvidenceVerifier
    inner, outer, inCancelled, cancelTask, vTerminal, task, childRow,
    childEvents, used, prompt, attempts, vExpired, returned, observations,
    \* Delegation
    wall, sent, receipts, accepted, query, route, todo, child, findings,
    teamEvents, elapsed, teamOutcome,
    \* ProviderAdapters
    dialogue, wants, asking, turns, repeated, counted, chainCall, failures,
    \* WorkerPatterns
    delegated, peers, taskQueue, claimed, posted, forked, wave, resilient,
    secret, stage, tries, consulting, steps, hour, spent, crashed,
    \* GroundedAnswers
    gConfig, gRun, gCall, gCancelled, gExpired, gEvidence, gTried, gKept,
    gRejected, gChild, gTerminal, gWrite, gEvents, gReturned,
    \* ModelPricing
    quoted, priced, tally,
    \* ReflectionLoop
    reflection, reflectionClock, reflectionEvents,
    \* SandboxRunner
    executionActive, boxCaller, boxHandler, groups, pipes, available,
    \* ServerLifecycle
    enabled, exporter, phase, opened, keysActive, workerLoop, workerError, jobTask, detached,
    dependencies, readiness

Run == INSTANCE AgentRun
Policy == INSTANCE ToolPolicy
Watch == INSTANCE RunObservers
Judge == INSTANCE EvidenceVerifier
Team == INSTANCE Delegation
Model == INSTANCE ProviderAdapters
Work == INSTANCE WorkerPatterns
Rag == INSTANCE GroundedAnswers
Pricing == INSTANCE ModelPricing
Loop == INSTANCE ReflectionLoop
Box == INSTANCE SandboxRunner
Server == INSTANCE ServerLifecycle

(* The variables of each part. *)
runPart == <<policyMode, contract, pc, iterations, calls, usage, retries,
    seen, batch, unanswered, executed, wanted, expired, caller, terminal,
    recorded, stopEvents, outcome>>
policyPart == <<rules, tools, disabled, denied, admitted, ran, banned>>
hooksPart == <<hooks, emit, delivered>>
spansPart == <<turn, expects, runSpan, modelSpan, toolSpans, toolsStarted, spansOpened,
    spansClosed, unstored>>
verifierPart == <<inner, outer, inCancelled, cancelTask, vTerminal, task,
    childRow, childEvents, used, prompt, attempts, vExpired, returned>>
envelopesPart == <<wall, sent, receipts, accepted>>
teamPart == <<query, route, todo, child, findings, teamEvents, elapsed,
    teamOutcome>>
fallbackPart == <<chainCall, failures>>
pipelinePart == <<resilient, secret, stage, tries, consulting, steps, hour, spent,
    crashed>>
workersPart == <<delegated, peers, taskQueue, claimed, posted, forked,
    wave>>
benefitPart == <<observations>>
groundedPart == <<gConfig, gRun, gCall, gCancelled, gExpired, gEvidence,
    gTried, gKept, gRejected, gChild, gTerminal, gWrite, gEvents,
    gReturned>>
pricingPart == <<quoted, priced, tally>>
reflectionPart == <<reflection, reflectionClock, reflectionEvents>>
sandboxPart == <<executionActive, boxCaller, boxHandler, groups, pipes,
    available>>
adaptersPart == <<dialogue, wants, asking, turns, repeated, counted>>
serverPart == <<enabled, exporter, phase, opened, keysActive, workerLoop, workerError,
    jobTask, detached, dependencies, readiness>>

vars ==
    <<scenario,
      runPart, policyPart, hooksPart, spansPart, verifierPart,
      envelopesPart, teamPart, fallbackPart, pipelinePart, workersPart,
      benefitPart, groundedPart, pricingPart, reflectionPart, sandboxPart,
      adaptersPart, serverPart>>

(* The scenarios of each part. *)
Scenarios ==
    {"run", "policy", "hooks", "spans", "verifier", "envelopes", "team",
     "fallback", "pipeline", "coordinator", "swarm", "batch", "benefit",
     "grounded", "pricing", "reflection", "sandbox", "adapters",
     "server"}

(* A part that is not exercised starts in one of its initial states. *)
Init ==
    /\ scenario \in Scenarios
    /\ IF scenario = "run" THEN TRUE ELSE policyMode = TRUE /\ contract = FALSE
    /\ IF scenario = "policy" THEN TRUE ELSE rules = <<>>
    /\ IF scenario = "team" THEN TRUE ELSE query = CHOOSE q \in Team!Queries : TRUE
    /\ IF scenario = "pipeline" THEN TRUE ELSE resilient = TRUE /\ secret = FALSE
    /\ IF scenario = "grounded" THEN TRUE ELSE gConfig = [verifier |-> TRUE, mock |-> FALSE]
    /\ IF scenario = "adapters" THEN TRUE ELSE wants = {}
    /\ IF scenario = "server" THEN TRUE ELSE enabled = {} /\ exporter = "none"
    /\ Run!RunInit /\ Policy!PolicyInit /\ Watch!HookInit
    /\ Watch!SpanInit /\ Judge!VerifierInit
    /\ Team!EnvelopeInit /\ Team!TeamInit
    /\ Model!ChainInit /\ Work!PipelineInit /\ Work!WorkersInit
    /\ Judge!BenefitInit /\ Rag!GroundedInit
    /\ Pricing!PricingInit /\ Loop!ReflectionInit
    /\ Box!SandboxInit /\ Model!AdapterInit /\ Server!ServerInit
    /\ IF scenario = "coordinator" THEN TRUE ELSE delegated.parallel

(* Every part but the one with these variables stays as it is. *)
Rest(part) ==
    /\ UNCHANGED scenario
    /\ IF part = "run" THEN TRUE ELSE UNCHANGED runPart
    /\ IF part = "policy" THEN TRUE ELSE UNCHANGED policyPart
    /\ IF part = "hooks" THEN TRUE ELSE UNCHANGED hooksPart
    /\ IF part = "spans" THEN TRUE ELSE UNCHANGED spansPart
    /\ IF part = "verifier" THEN TRUE ELSE UNCHANGED verifierPart
    /\ IF part = "envelopes" THEN TRUE ELSE UNCHANGED envelopesPart
    /\ IF part = "team" THEN TRUE ELSE UNCHANGED teamPart
    /\ IF part = "fallback" THEN TRUE ELSE UNCHANGED fallbackPart
    /\ IF part = "pipeline" THEN TRUE ELSE UNCHANGED pipelinePart
    /\ IF part = "workers" THEN TRUE ELSE UNCHANGED workersPart
    /\ IF part = "benefit" THEN TRUE ELSE UNCHANGED benefitPart
    /\ IF part = "grounded" THEN TRUE ELSE UNCHANGED groundedPart
    /\ IF part = "pricing" THEN TRUE ELSE UNCHANGED pricingPart
    /\ IF part = "reflection" THEN TRUE ELSE UNCHANGED reflectionPart
    /\ IF part = "sandbox" THEN TRUE ELSE UNCHANGED sandboxPart
    /\ IF part = "adapters" THEN TRUE ELSE UNCHANGED adaptersPart
    /\ IF part = "server" THEN TRUE ELSE UNCHANGED serverPart

RunStep == scenario = "run" /\ Run!RunNext /\ Rest("run")
PolicyStep == scenario = "policy" /\ Policy!PolicyNext /\ Rest("policy")
HooksStep == scenario = "hooks" /\ Watch!HookNext /\ Rest("hooks")
SpansStep == scenario = "spans" /\ Watch!SpanNext /\ Rest("spans")
VerifierStep == scenario = "verifier" /\ Judge!VerifierNext /\ Rest("verifier")
EnvelopesStep == scenario = "envelopes" /\ Team!EnvelopeNext /\ Rest("envelopes")
TeamStep == scenario = "team" /\ Team!TeamNext /\ Rest("team")
FallbackStep == scenario = "fallback" /\ Model!ChainNext /\ Rest("fallback")
PipelineStep == scenario = "pipeline" /\ Work!PipelineNext /\ Rest("pipeline")
CoordinatorStep == scenario = "coordinator" /\ Work!CoordinatorNext /\ Rest("workers")
SwarmStep == scenario = "swarm" /\ Work!SwarmNext /\ Rest("workers")
BatchStep == scenario = "batch" /\ Work!BatchNext /\ Rest("workers")
BenefitStep == scenario = "benefit" /\ Judge!BenefitNext /\ Rest("benefit")
GroundedStep == scenario = "grounded" /\ Rag!GroundedNext /\ Rest("grounded")
PricingStep == scenario = "pricing" /\ Pricing!PricingNext /\ Rest("pricing")
ReflectionStep == scenario = "reflection" /\ Loop!ReflectionNext /\ Rest("reflection")
SandboxStep == scenario = "sandbox" /\ Box!SandboxNext /\ Rest("sandbox")
AdaptersStep == scenario = "adapters" /\ Model!AdapterNext /\ Rest("adapters")
ServerStep == scenario = "server" /\ Server!ServerNext /\ Rest("server")

Next ==
    \/ RunStep \/ PolicyStep \/ HooksStep \/ SpansStep \/ VerifierStep
    \/ EnvelopesStep \/ TeamStep \/ FallbackStep \/ PipelineStep
    \/ CoordinatorStep \/ SwarmStep \/ BatchStep \/ BenefitStep
    \/ GroundedStep \/ PricingStep \/ ReflectionStep \/ SandboxStep
    \/ AdaptersStep \/ ServerStep

(* The deadline of a run and the two cleanup budgets are timers of the     *)
(* event loop; nothing else of a run is assumed to answer.                 *)
RunFairness ==
    /\ WF_runPart(scenario = "run" /\ Run!Expire)
    /\ WF_runPart(scenario = "run" /\ Run!DeadlineFires)
    /\ WF_runPart(scenario = "run" /\ Run!CleanupExpires)
    /\ WF_runPart(scenario = "run" /\ Run!AwaitedReturns)
    /\ WF_runPart(scenario = "run" /\ Run!StoppingReturns)

(* The verifier's deadline is a timer, and its caller's own steps are the  *)
(* event loop's.                                                           *)
VerifierFairness ==
    /\ WF_verifierPart(scenario = "verifier" /\ Judge!VerifierExpires)
    /\ WF_verifierPart(scenario = "verifier" /\ Judge!VerifierOuter)

(* timeout_seconds bounds every attempt of the resilient coordinator.      *)
PipelineFairness ==
    /\ WF_pipelinePart(scenario = "pipeline" /\ resilient /\ Work!PipelineStep)

(* The deadline of a query, and the steps of run() once it has passed.     *)
GroundedFairness ==
    /\ WF_groundedPart(scenario = "grounded" /\ Rag!Expire)
    /\ WF_groundedPart(scenario = "grounded" /\ Rag!CallStep)

(* Reflection's calls are bounded by its timer.                            *)
ReflectionFairness ==
    /\ WF_reflectionPart(scenario = "reflection" /\ Loop!StartReflection)
    /\ WF_reflectionPart(scenario = "reflection" /\ Loop!CallProvider)
    /\ WF_reflectionPart(scenario = "reflection" /\ Loop!CallTimesOut)
    /\ WF_reflectionPart(scenario = "reflection" /\ Loop!ReflectionTick)

(* The worker loop, the shutdown and an answer of readyz() are steps of    *)
(* the event loop.                                                         *)
ServerFairness ==
    /\ WF_serverPart(scenario = "server" /\ Server!IterationEnds)
    /\ WF_serverPart(scenario = "server" /\ Server!WakeWorker)
    /\ WF_serverPart(scenario = "server" /\ Server!WorkerEnds)
    /\ WF_serverPart(scenario = "server" /\ Server!CloseStores)
    /\ WF_serverPart(scenario = "server" /\ Server!CheckDatabase)
    /\ WF_serverPart(scenario = "server" /\ Server!CheckLimiter)
    /\ WF_serverPart(scenario = "server" /\ Server!EndReadiness)

(* A client of the sandbox runner may go; the runner's own steps, its kill *)
(* timer among them, are the event loop's.                                 *)
SandboxFairness ==
    \A q \in Box!BoxRequests :
        /\ WF_sandboxPart(scenario = "sandbox" /\ Box!Spawned(q))
        /\ WF_sandboxPart(scenario = "sandbox" /\ Box!RejectRequest(q))
        /\ WF_sandboxPart(scenario = "sandbox" /\ Box!ExecutionTimesOut(q))
        /\ WF_sandboxPart(scenario = "sandbox" /\ Box!ExecutionCleanup(q))
        /\ WF_sandboxPart(scenario = "sandbox" /\ Box!HandlerEnds(q))

Spec == Init /\ [][Next]_vars

FairSpec ==
    /\ Spec
    /\ RunFairness /\ VerifierFairness /\ PipelineFairness
    /\ GroundedFairness /\ ReflectionFairness /\ ServerFairness
    /\ SandboxFairness

-----------------------------------------------------------------------------
(* A deadline, a cancellation and the work itself race to end a run, a     *)
(* verifier's child or a grounded query: one decision wins, it is recorded *)
(* once with nothing after it, and what the caller is told agrees with it: *)
(* a result without an error is one whose end was written; no span stays   *)
(* open, unless its call id was used again, and no worker meets a closed   *)
(* store (_stop() of                                                       *)
(* engine.py, _finish() of delegation/service.py, run() of                 *)
(* grounded_rag.py, emit() of runtime_events.py, the shutdown of main.py). *)
RunsEndTruthfully ==
    /\ scenario = "run" =>
        /\ Run!OneTerminalDecision
        /\ Run!QuietResultIsPersisted
    /\ scenario = "spans" => Watch!EverySpanIsClosedOnce
    /\ scenario = "verifier" => Judge!AnswerIsTheDecision
    /\ scenario = "grounded" => Rag!OneTruthfulEnd
    /\ scenario = "server" => Server!WorkerMeetsOpenStores

(* What acts was permitted, once, and within its means: tool calls run     *)
(* once within the budget and only under a rule that covers all their      *)
(* risks, never once disabled; an envelope starts the child it was signed  *)
(* for, once; children only read; a task is claimed once, an unsafe call   *)
(* runs alone, a sandboxed program alone; no call is made that its quote   *)
(* or its cap could not pay (engine.py, policy.py, registry.py,            *)
(* envelope.py, orchestration/tools.py, patterns.py, concurrency.py,       *)
(* sandbox_runner/server.py, cost_tracker.py, reflection/service.py).      *)
OnlyPermittedWorkIsDone ==
    /\ scenario = "run" => Run!CallsRunOnceWithinBudget
    /\ scenario = "policy" =>
        /\ Policy!EffectsArePermitted
        /\ Policy!DefaultPolicyIsConservative
        /\ Policy!DisabledNeverRuns
    /\ scenario = "envelopes" =>
        /\ Team!ConsumedOnce
        /\ Team!SignedForThisChild
    /\ scenario = "team" =>
        /\ Team!ChildrenOnlyRead
        /\ Team!TeamStaysInTime
    /\ scenario \in {"coordinator", "swarm", "batch"} =>
        /\ Work!ClaimedOnceInOrder
        /\ Work!UnsafeCallsRunAlone
    /\ scenario = "sandbox" => Box!GroupsDoNotOutliveTheirTurn
    /\ scenario = "pricing" => Pricing!QuotesCoverTheCall
    /\ scenario = "reflection" => Loop!CapsArePayable

(* Nothing is presented as more than it is: a claim reaches the answer     *)
(* only on evidence, a failed child is no finding, a draft is replaced     *)
(* only by a revision that was due, a typed answer comes from the first    *)
(* provider that fits, a sandbox result is whole or flagged, a report of   *)
(* the verifier's value is right, and usage and cost are what was used     *)
(* (delegation/service.py, orchestration/service.py, grounded_rag.py,      *)
(* reflection/service.py, fallback_chain.py, measurement.py,               *)
(* sandbox_client.py, cost_tracker.py, runtime/anthropic.py).              *)
AnswersAreEarned ==
    /\ scenario = "verifier" => Judge!VerdictsAreGrounded
    /\ scenario = "team" => Team!FailedChildIsNoFinding
    /\ scenario = "grounded" => Rag!AnswersAreGrounded
    /\ scenario = "reflection" => Loop!DraftUnlessRevised
    /\ scenario = "fallback" => Model!AnsweredByTheFirstFit
    /\ scenario = "sandbox" => Box!ResultsAreWholeOrFlagged
    /\ scenario = "benefit" => Judge!ClaimedValueIsReal
    /\ scenario = "pricing" => Pricing!TrackerAgrees
    /\ scenario = "adapters" => Model!UsageIsTheWholePrompt

(* What is handed on keeps the form its receiver needs: every tool call of *)
(* a history is answered before the model is asked again, whatever ended   *)
(* it; a dialogue built by one adapter can be sent by any other; a         *)
(* contract's answer reaches the validator as JSON; an event reaches the   *)
(* sink unless a hook blocked it, in the order of the hooks' priorities    *)
(* and sanitized (engine.py:566-858, the adapters, runtime/hooks.py).      *)
HistoryStaysWellFormed ==
    /\ scenario = "run" => Run!HistoryIsPaired
    /\ scenario = "adapters" =>
        /\ Model!HistoryStaysSendable
        /\ Model!ContractsAreAnsweredInJson
    /\ scenario = "hooks" =>
        /\ Watch!LostOnlyWhenBlocked
        /\ Watch!DeliveredIsSanitized
        /\ Watch!PriorityOrder

(* Once the end of a run is decided by anyone, no tool runs and no         *)
(* iteration starts; a specialist whose token has expired turns to the     *)
(* model no more, and what it contributes after the call that was under    *)
(* way is a refusal, never signed as an answer (engine.py:1939-1956,       *)
(* execute() of multi_agent.py).                                           *)
NoWorkAfterTheEnd ==
    /\ Run!NothingStartsAfterTheEnd
    /\ Work!ExpiredTokensDoNoWork

(* Whatever hangs (a provider, a tool, a store, a program, a client that   *)
(* went), the caller of a run, of the verifier, of the pipeline, of a      *)
(* grounded query and of a reflection is answered, the sandbox runner      *)
(* becomes free, a server is ready again once its backends are, and a      *)
(* shutdown ends (deadline.py, service.py, resilient_coordinator.py,       *)
(* grounded_rag.py, reflection/service.py, sandbox_runner/server.py,       *)
(* main.py).                                                               *)
EveryoneIsAnswered ==
    /\ scenario = "run" => Run!CallerIsAnswered
    /\ scenario = "verifier" => Judge!VerifierAnswers
    /\ scenario = "pipeline" => Work!PipelineEnds
    /\ scenario = "grounded" => Rag!QueryIsAnswered
    /\ scenario = "reflection" => Loop!ReflectionEnds
    /\ scenario = "sandbox" => Box!RunnerBecomesFree
    /\ scenario = "server" =>
        /\ Server!ReadyAgain
        /\ Server!ShutdownEnds

=============================================================================
