# Verification of Cogentrex

Cogentrex is an agent control plane: a FastAPI backend that runs language-model
agents, decides by policy which tool calls they may make, pauses sensitive calls
for a human decision, executes tools at most once, keeps every model call inside
a monetary budget, and writes the evidence of each run to a relational database
shared by all backend processes and workers. This directory holds TLA+
specifications of its core, TLC configurations that check them on small
instances, and TLAPS proofs of the results that matter most.

Paths below are relative to `src/backend/app/` unless they start with `src/`.

## 1. Inventory

### Components, their state and their operations

| Component | Source | State | Operations | Status |
|---|---|---|---|---|
| Durable job queue | `services/task_queue.py`, `routes/tasks.py` | rows of `background_jobs`: status, attempts, lease, lease generation, result | create, claim, heartbeat, recover_expired, succeed, fail, cancel, retry | modelled |
| Job worker | `workers/jobs.py` | one claim and one handler task per process | poll, run handler with heartbeats and deadline, report | modelled |
| Effect ledger | `services/effect_ledger.py`, `runtime/effect_ledger.py` | rows of `tool_effects`: reserved / committed / failed / indeterminate, review | reserve, commit, fail, mark_indeterminate, recover_stale_reservations, review | modelled |
| Effect executor | `runtime/effect_executor.py` | one call in flight | reserve, dispatch, commit, cleanup after errors and cancellation | modelled |
| Approvals | `security/approval_repository.py`, `security/live_approvals.py`, `security/approvals.py` | rows of `approval_requests`, one polling task per waiting call | reserve, decide (three ways), look up, expire, cancel, cancel_run, wait | modelled (SSE route: partly) |
| Monetary budget | `services/monetary_budget.py`, `runtime/monetary_budget.py` | accounts per project and run (limit, reserved, spent), charges | reserve_call, mark_dispatched, reconcile, release, mark_indeterminate, recover_stale | modelled |
| Agent runtime | `runtime/engine.py`, `runtime/deadline.py`, `runtime/models.py` | iterations, tool calls, seen calls, token usage, history, terminal task | model call, policy batch, authorisation, tool execution, finalisation, deadline and cancellation | modelled: `AgentRun` |
| Policy engine, tool registry | `security/policy.py`, `security/default_policy.py`, `tools/registry.py` | rules, registered tools, disabled capabilities | evaluate, register, remove, apply_capability_policy, execute | modelled: `ToolPolicy` |
| Hooks and spans | `runtime/hooks.py`, `runtime/builtin_hooks.py`, `observability/runtime_events.py` | registrations, dispatches, open spans | register, remove, emit | modelled (spans: partly): `RunObservers` |
| Circuit breaker | `security/circuit_breaker.py` | state, failure count and time, probe token, epoch, generation | call (admission and five ends), state, reset | modelled: `CircuitBreaker` |
| Delegation | `delegation/`, `orchestration/` | envelopes and receipts, child runs, findings, shares of time | issue, verify_and_consume, verify, prepare, synthesise | modelled: `Delegation`, `EvidenceVerifier` |
| Several agents | `delegation/patterns.py`, `tools/concurrency.py`, `agents/multi_agent.py`, `agents/resilient_coordinator.py`, `agents/agent_auth.py` | queue of tasks, peers, tokens, attempts | claim_task, post_result, execute_tool_batch, orchestrate | modelled: `WorkerPatterns` |
| Model providers | `agents/*_adapter.py`, `runtime/anthropic.py`, `agents/fallback_chain.py`, `observability/cost_tracker.py` | dialogue, failure counts, recorded usage | complete, chat, quote, price, record | modelled: `ProviderAdapters`, `ModelPricing` |
| Reflection | `reflection/service.py`, `reflection/models.py` | draft, verdict, remaining tokens, cost and time | critique, revise | modelled: `ReflectionLoop` |
| Grounded answers | `services/grounded_rag.py` | evidence, claims, terminal write | retrieve, answer, verify, finish | modelled: `GroundedAnswers` |
| Sandbox runner and its client | `src/sandbox_runner/server.py`, `tools/sandbox_client.py`, `routes/sandbox.py` | one execution, process groups, pipes | accept, spawn, read, kill, answer | modelled (not the isolation): `SandboxRunner` |
| Server | `main.py`, `workers/jobs.py`, health routes | opened stores, worker loop, readiness | start, iterate, readyz, shut down | modelled: `ServerLifecycle` |
| Run ledger and its readers | `services/run_ledger.py`, `routes/runs.py`, `services/run_exports.py` | runs, ordered events, forks, drafts, exports, grants | ensure, append, fork, prune, page, export, grant, redeem, revoke | modelled: `RunLedger`, `RunQueries` |
| Chat requests | `routes/chat.py`, `routes/stream.py`, `runtime/images.py`, `services/artifacts.py` | request, stream, task, artifacts | admit, stream, drain, leave, clean up | modelled: `ChatRequests` |
| MCP | `mcp/`, `routes/mcp.py` | profiles, inventories, consent, bindings, sessions | configure, discover, select, bind, call, probe | modelled: `McpServers` |
| Skills | `skills/`, `routes/skills.py` | revisions, reviews, bindings, selections of runs | install, approve, revoke, bind, select, load | modelled: `SkillStore` |
| Instructions and context | `instructions/`, `capabilities/`, `services/request_context.py`, `services/auto_compact.py`, `services/context_snapshots.py` | snapshots, endorsed revision, selection, recorded context | scan, append, approve, revoke, select, compact, record | modelled: `RequestContext` |
| Conversations and sessions | `services/db_store.py`, `services/session_tree.py`, `services/chat_commands.py`, `services/multi_layer_compact.py` | conversations, messages, tree of lists | post, list, delete, branch, resume, clear, compact | partly: `Conversations` |
| Scoped memory | `memory/scoped.py`, `memory/keys.py` | facts under key versions, key state | add, replace, remove, activate, rotate, retire | modelled: `ScopedMemory` |
| Evaluation | `eval/` | evaluations, results, drift reports, candidates, receipts | evaluate, compare, propose, approve, promote, roll back | modelled: `Evaluations` |
| Documents | `services/documents.py`, `services/chunker.py`, `services/sql_json_vector_store.py` | documents, chunks, locks | upload, split, embed, search | modelled: `DocumentIndex` |
| Accounts and limits | `security/auth.py`, `security/rate_limiter.py`, `routes/auth.py` | accounts, tokens, windows, shared bucket | register, log in, call, check | partly: `RequestAccess` |
| Legacy agent, research workflow, graduated permissions, audit and compliance, built-in tools, context filters, skill catalog, configuration, scripts, frontend | see `PROJECT.json` | | | not modelled (section 6) |

### How the components interact

A request reaches a route, which builds an agent runtime around three wrappers:
the provider behind the circuit breaker and the monetary budget, the tool
executor behind the effect ledger, and the approval broker. The runtime asks the
provider for an answer, evaluates the policy on every tool call of the answer,
waits for the approvals that the policy demands, and only then dispatches the
calls, one after the other. What must survive the process is a row of the
database; several processes, the owner's HTTP requests and background workers
meet in those rows, in transactions that compare a stored state, version or
lease with the one they expect. Inside a process, coroutines interleave at every
`await`, may be cancelled there, and share the breaker.

### What is hard here

* **Cancellation at any await.** A coroutine may be cancelled after its
  transaction committed and before it learns of it; the cleanups that follow are
  shielded, may fail and may race with recoveries.
* **Crashes.** A process may die between any two transactions. Only leases (jobs)
  and recoveries of stale rows (effects, charges) can tell.
* **Late actors.** A worker whose lease expired, a decision that arrives as the
  wait times out, a provider answer that arrives after the breaker opened.
* **Clocks.** Deadlines are compared with a clock that was read before the
  transaction began, on some host.
* **Repetition.** Providers repeat tool calls under new identifiers or reuse an
  identifier for other arguments; callers repeat `create` with an idempotency
  key; two budget wrappers of one run number their calls alike.

For each component the properties that make it correct are listed with its runs
in section 4; the hazards they answer, with their lines, are in `PROJECT.json`.

## 2. Plan

The order follows what the system promises its users first.

1. Durable jobs: `JobQueue`, `JobLifecycle`. Checked and proved, the refinement
   too; liveness is checked.
2. At-most-once effects: `EffectLedger`, `EffectOnce`. Checked and proved, the
   refinement too; liveness is checked.
3. Money: `MonetaryBudget`, `BudgetPurse`. Checked and proved, the sums over
   charges and the refinement too; liveness is checked.
4. Human consent: `Approvals` (repository, broker, ASK protocol and the route
   that owns the run). Checked and proved; liveness is checked.
5. Overlapping provider calls: `CircuitBreaker`. Checked and proved; liveness is
   checked.
6. The run of the agent and the ledger it writes: `AgentRun`, `RunLedger`.
   Checked and proved; liveness is checked.
7. The other parts that work for a caller, composed in `RuntimeSystem`: policy,
   hooks and spans, delegation, several agents, providers and their prices,
   reflection, grounded answers, the sandbox runner, the server. Checked; all five
   safety properties of the composition are proved, liveness is checked.
8. The other parts whose state outlives a request, composed in `StoredSystem`:
   readers and exports of runs, chat requests, MCP, skills, instructions and
   context, evaluations, documents, memory, accounts, conversations. Checked;
   `NothingWithoutConsent`, `LoadedSkillsAreVouchedFor` and `LimitsAndScopesHold` are
   proved, and of `RecordsAreWhole` the parts that section 5 names.

What stays model-checked is listed with its reason at the end of section 5.
Modelling to come: `AgentRun` writing into `RunLedger` in one behaviour.

## 3. Modules

| Module | Models | Abstract specification | Instances | Proofs |
|---|---|---|---|---|
| `JobQueue` | job rows, task API, worker loops | `JobLifecycle` | `MCJobQueue` | `JobQueueProofs` |
| `EffectLedger` | effect tombstones, effect executor | `EffectOnce` | `MCEffectLedger` | `EffectLedgerProofs` |
| `MonetaryBudget` | accounts, charges, budgeted provider | `BudgetPurse` | `MCMonetaryBudget` | `MonetaryBudgetProofs` |
| `Approvals` | approval rows, broker, ASK protocol, SSE route | | `MCApprovals` | `ApprovalsProofs` |
| `CircuitBreaker` | circuit breaker and its calls | | its own module | its own module |
| `AgentRun` | the loop of a run, its deadline, cancellation and terminal write | | `RuntimeSystem` | `RuntimeSystemProofs` |
| `ToolPolicy` | rules, registry, capability policy, validation | | `RuntimeSystem` | `RuntimeSystemProofs` |
| `RunObservers` | event hooks; the spans of a run | | `RuntimeSystem` | `RuntimeSystemProofs` |
| `Delegation` | signed envelopes with receipts; team mode with two children | | `RuntimeSystem` | `RuntimeSystemProofs` |
| `EvidenceVerifier` | the verifier child; the measurement of its value | | `RuntimeSystem` | `RuntimeSystemProofs` |
| `WorkerPatterns` | coordinator, swarm, fork, tool batches; the pipeline of specialists | | `RuntimeSystem` | `RuntimeSystemProofs` |
| `ProviderAdapters` | four adapters and the dialogue; the fallback chain | | `RuntimeSystem` | `RuntimeSystemProofs` |
| `ModelPricing` | exact prices, quotes, the tracker | | `RuntimeSystem` | `RuntimeSystemProofs` |
| `ReflectionLoop` | critique and revision under limits | | `RuntimeSystem` | `RuntimeSystemProofs` |
| `GroundedAnswers` | a grounded query, its claims and its end | | `RuntimeSystem` | `RuntimeSystemProofs` |
| `SandboxRunner` | runner, programs, client | | `RuntimeSystem` | `RuntimeSystemProofs` |
| `ServerLifecycle` | start, worker loop, readiness, shutdown | | `RuntimeSystem` | `RuntimeSystemProofs` |
| `RunLedger` | runs, events, forks, pruning | | `StoredSystem` | `StoredSystemProofs` |
| `RunQueries` | pages and views of runs; exports and grants | | `StoredSystem` | `StoredSystemProofs` (exports) |
| `ChatRequests` | chat and stream routes, images, artifacts | | `StoredSystem` | `StoredSystemProofs` |
| `McpServers` | inventory, consent, calls; the client | | `StoredSystem` | `StoredSystemProofs`, `LimitProofs` (client) |
| `SkillStore` | revisions, reviews, bindings, loads | | `StoredSystem` | `StoredSystemProofs` |
| `RequestContext` | project instructions; the context of a call | | `StoredSystem` | `StoredSystemProofs` (instructions), `LimitProofs` (selection) |
| `Evaluations` | evaluations and drift; optimization candidates | | `StoredSystem` | `StoredSystemProofs` (candidates) |
| `DocumentIndex` | uploads, chunks, search | | `StoredSystem` | `LimitProofs` |
| `ScopedMemory` | facts under rotating keys | | `StoredSystem` | `LimitProofs` |
| `RequestAccess` | accounts, tokens, rate limits | | `StoredSystem` | `StoredSystemProofs` (accounts), `LimitProofs` (limits) |
| `Conversations` | conversations and messages; session trees | | `StoredSystem` | |

`RuntimeSystem` and `StoredSystem` instantiate these parts, `MCRuntimeSystem` and
`MCStoredSystem` give them their constants. Each part holds the
rows it works on together with everyone who writes them (the queries and the
exports of runs have their own appends and deletions of events), so that parts of
one composition need no common variables. A behaviour exercises one part, the
`scenario`, while the others stay in an initial state; every scenario is an
initial state of the composition, and TLC explores each in full. Where actors
meet in the same rows (a run and its approvals, workers and jobs, calls and
effects, posts and deletions of a conversation) they are in one part and
interleave freely. Effects that cross parts, such as a run of `AgentRun` appending
to the rows of `RunLedger`, are not composed yet (section 2).

An action is one database transaction, or one stretch of a coroutine between two
awaits. Names follow the code; `PROJECT.json` maps the definitions to their lines,
and leaves a helper whose lines lie within those of another definition to that
one.
A definition whose comment begins with *Mutant* is not part of the specification:
it is a plausible bug of the definition below it, and shows that the property
named in `PROJECT.json` would notice.

### JobQueue

`row` is the table `background_jobs`; `call` are the `create` calls, which look up
the idempotency key in one transaction and insert in another; `worker` is the
loop of each worker process: `RecoverExpired`, `Claim` or `ClaimNothing`,
handling with `Heartbeat`, then `Succeed` or `Fail`, with `Abandon` for a crash,
a cancellation or a lost lease. Deadlines are stored relative to the present, so
the state space is finite without a bound on time; every transaction compares
them with a reading of the clock that is off by up to `MaxSkew`. Worker ids need
not be distinct, as nothing in the code makes them so: the lease generation
alone fences.

### EffectLedger

`row` is the table of tombstones, keyed by the run and the operation and not by
`tool_call_id`. A call of `DurableEffectToolExecutor.execute()` goes through
`start`, `insert` (or `read`, when the key exists), `dispatch`, `handler`,
`commit`; `release` and `reject` are its exits before the dispatch, and
`CleanupLook`/`CleanupMark` are the two transactions of the cleanup. Each
transaction has an outcome in which it commits and the caller sees an error.

### MonetaryBudget

`project` and `run` are accounts, `charge` the table of charges, keyed by run and
ordinal. `Complete` is the life of one `complete()` call: open the accounts,
reserve, mark dispatched, call the provider, reconcile; and the recoveries after
a failure at each place. `Faults` says whether the database may lose an answer.
Sums of money are integers, as in the code (nano-dollars). A cost above the
quote is not spent: the code marks the charge indeterminate and keeps the quote
reserved, which is why the limits hold whatever the provider reports.

### Approvals

`row` is the table `approval_requests`, keyed by run and `tool_call_id`. `run` is
the coroutine of a run as far as the ASK protocol concerns it: it evaluates a
batch call by call, reserves a request, announces it, waits with a timer, cleans
up, and dispatches the batch only when every call passed. `task` is the
`authorization_task` that polls; it may outlive the wait. `route` is the
`event_stream()` that owns the run and calls `cancel_run` in the end. Owners
decide through three operations of the repository, each with a clock reading up
to `MaxDelay` old; lookups and `expire_due` persist expiries.

### CircuitBreaker

The blocks under the breaker's lock contain no `await`, so each is one action:
three ways to be admitted or rejected, five ways to end. `probe` stands for
`_probe_token` and `_probe_in_flight`, which the code always changes together.
`overlapped`, `resets` and `resetEpoch` are history variables.

### AgentRun

`pc` is where `_run()` stands; `terminal` is the shielded task that writes the
terminal event, `caller` the coroutine of `run()` that waits with a deadline. The
model, the tools and the store may answer, fail or hang at each await; `Expire`,
the client's cancellation and the loop race in `Decide`. A batch is prepared call
by call: a duplicate, a denial, an error and an exhausted budget each answer the
calls they refuse, so that `unanswered` is empty before the model is asked again.
`RUN_STARTED` is emitted before the `try`, so its failure (`StartFails`) reaches the
caller as it is. `terminal.error` is the error the stop carries: a stop that carries
one keeps it when its event could not be written, so that only a result *without*
an error vouches for the event (`QuietResultIsPersisted`).

### RunLedger

Rows of runs, events, forks, drafts and messages. An append reads the last
sequence number in its own transaction and inserts in a step of its own: the
unique constraint and the terminal check decide between two writers. A fork
stores the messages as they were at its event, its copied events are dated by
the fork; pruning deletes runs with what refers to them.

### ChatRequests

The terminal write of a run may fail or be given up, and so may `cancel_run` in the
`finally` of the stream: `lostWrites` remembers which (history). What a closed
request leaves behind is stated with these exceptions. Without a durable budget the
sync route answers no cost; the stream's total is replaced by the budget's figure
when there is one.

### SkillStore and RequestContext

An attempt to install or to append conflicts by the unique constraint or by any
`OperationalError`, and raises after its last attempt; nothing is claimed of who is
turned away. Loading a skill is two awaited reads, the revision's row and then its
binding: a revocation between them does not stop the text, so the property speaks of
the moment the row was read (`vetted`, a history of what was approved then). A
manifest declares the cost of a skill by which the selection counts; its enrichment
counts the length of the text, beside the instructions, after awaits in which the
skill may be revoked.

### ToolPolicy, WorkerPatterns, ModelPricing

`execute()` looks a tool up, may be refused by the compliance profile (a step that
changes nothing), awaits the permissions, which may be denied, and then runs it,
whatever was disabled meanwhile; a tool is disabled by capability id or by name. A
specialist checks its token, asks the model and signs in separate steps, so that a
token may expire while the model answers. The tracker adds up what calls cost and
shows the sum rounded to six places (`ShownTotals`: either way at a tie, as the sum is a
float), while the budget charges each call rounded up to a nano-dollar.

### Conversations

The database is PostgreSQL at READ COMMITTED: a post loads the row, flushes its
changes and commits; a deletion loads, deletes the messages it can see, deletes
the row and commits, and a statement waits for the transaction that holds the
row it writes. In the session tree lists are references into a heap, as Python
lists are, so that a branch that shares its parent's list would be seen.

### The other parts

Each module begins with a comment that says what it stands for and what it
abstracts. In short: text is a model value, a class or a sequence of words; a
signature or checksum is what it is computed from; a token, a byte or a second
is a unit; a provider, an MCP server, a sandboxed program and a client are
nondeterministic and may answer anything their format allows, twice, late or
never.

## 4. Runs

| Run | Instance and bounds | Shows |
|---|---|---|
| `queue_fence` | one job, two processes with one worker id, clocks off by a tick, one or two attempts, one manual retry; fair | results are fenced, leases exclusive, CHECK constraints hold, executions are bounded, every job settles |
| `queue_lifecycle` | two jobs, two kinds, one worker without a handler, two `create` calls with one key; exact clocks | the key yields one job; the queue implements `JobLifecycle` |
| `effects_ledger` | one effect named by two calls with different ids; fair | at most one dispatch, truthful answers, implements `EffectOnce`, every call ends |
| `effects_permission` | one call | **violated**: a started handler whose effect is recorded as failed |
| `effects_lost` | one call; fair | **violated**: an effect stays reserved after a crash |
| `budget_money` | two runs, three calls, quotes 1 and 2, costs 1 and 3, limits 3 and 4 | limits hold; counters equal the sums over charges |
| `budget_paid` | two wrappers of one run, three calls, one ordinal each; fair | paid at most once and only on money set aside; ended calls are settled; implements `BudgetPurse`; every call ends |
| `budget_cancel` | one call, a database without faults | **violated**: money stays frozen after a cancellation before the dispatch |
| `approvals_consent` | one run, two answers of two calls; approvals live two ticks, the run three; fair | tools run only on consent; acknowledged decisions stand; nothing stays pending; receipts are final; every run ends |
| `breaker_overlap` | four calls, threshold two, recovery one tick, one reset; fair | the count decides; one trial call; late results neither postpone recovery nor erase failures; the probe comes back |

| `runtime_system` | a run of two iterations, two tool calls, three call keys, batches of two and one structured retry; two children, two workers, three hooks, two envelopes on clocks that disagree; two units of output against a limit of one; four adapters over two turns; fair | `RunsEndTruthfully`, `OnlyPermittedWorkIsDone`, `AnswersAreEarned`, `HistoryStaysWellFormed`, `NoWorkAfterTheEnd`, `EveryoneIsAnswered` |
| `stored_system` | two runs with forks and two writers, up to `MaxEvents` stored events, two concurrent exports, two MCP profiles, two installers, five file trees, three sets of skills whose declared cost is not their length, two receipts, two evaluations of four runs with two minimum sample sizes, two uploads, two key versions in two processes, three processes on one rate limit, two posts and two deletions of a conversation, a tree of two nodes | `RecordsAreWhole`, `NothingWithoutConsent`, `LimitsAndScopesHold`, `NothingSaidIsLost`, `LoadedSkillsAreVouchedFor` |

The properties of the last two runs are conjunctions: each part states what
makes it correct under a name and a comment of its own (`OneTerminalDecision` in
`AgentRun`, `ConsumedOnce` in `Delegation`, ...), and the composition groups what
answers the same question of several parts. A part that is not the scenario
stands in an initial state and satisfies its conjuncts vacuously; its own
scenario is what checks them.

Why the bounds are enough: every hazard in the list needs at most two actors of
a kind on one row (two workers on a job, two calls on an effect, two decisions
on a request), or three where a third must profit from the confusion of two
(money, the breaker's trial call after a reset, which needs a fourth to open it;
the rate limiter's shared bucket). In the composed runs limits are one or two
above zero and inputs reach one above the limit, so that a limit is met, passed
and, where a cap is shared, met by two who each saw it free; chains of includes,
pages and retries are one longer than what the code follows.
Clock bounds let a lease, an approval or a recovery time pass while an actor is
between two of its steps. `MaxOrdinal` is small so that a wrapper runs out of
ordinals. `MaxClock` of `Approvals` ends time after every timer of a run has fired; those
of the other modules only date rows and failures, and no liveness property waits
for them.
Symmetry is used only in `queue_lifecycle`, which has no liveness property.

Runs without deadlock checking are those where every call may have ended and
nothing remains to be done.

### Disagreements with the documentation

* `effects_permission`: `PermissionError` of a handler is recorded as *failed*,
  while the documentation says that ambiguous failures after the dispatch become
  *indeterminate* (`src/docs/course/concepts/idempotency.md:120`).
* `effects_lost`: nothing in the application runs `recover_stale_reservations()`,
  so an effect whose process died stays reserved, while the documentation says
  that it becomes *indeterminate* (`src/docs/course/concepts/idempotency.md:64`).
* `budget_cancel`: a call cancelled while `mark_dispatched()` commits keeps its
  money, while the documentation says that a cancellation before the dispatch
  releases it (`src/docs/course/concepts/cost-usage-budgets.md:89`).

### Fairness

* `JobQueue`: `run_forever()` catches every exception and polls again, so a worker
  polls, and claims or recovers what it can, again and again. Strong fairness is
  needed for these two because a crash may interrupt any single round; weak
  fairness for the rest (reports, handler deadlines, time).
* `EffectLedger`, `MonetaryBudget`: the event loop resumes a coroutine, and the
  database, the provider and handlers return or raise (handlers and runs have
  deadlines). Nothing is assumed of reviewers, of crashes, nor of the recoveries,
  which no part of the application schedules for effects.
* `Approvals`: time passes, timers fire and coroutines run on. Nobody has to
  decide, and no client has to stay.
* `CircuitBreaker`: a call that was admitted ends, by its result or by the
  deadline of its run. Time need not pass: the probe is returned by the call.
* `RuntimeSystem`: only timers and steps of the event loop. Of a run: its deadline
  and the two cleanup budgets (`deadline.py`), not the provider, a tool or the
  store. Of the verifier: its deadline and its caller's own steps. Of a grounded
  query: its deadline and the steps of `run()` after it. Of a reflection: its
  timer. Of the pipeline: its coroutine, each of whose calls has a timeout. Of the
  server: the worker loop, the shutdown, and an answer of `readyz()`. Of the
  sandbox: the runner's own steps and its kill timer, never the client or the
  program.
* `StoredSystem` has no liveness property and no fairness.

## 5. Proofs

All theorems hold for every value of the constants that satisfies the named
assumptions of the modules, each as the code has it:

* types of the constants, positive durations and thresholds, and distinguished
  values outside of their sets; runs, uploads, posts and facts are finitely many
  wherever something is summed or counted;
* `RuntimeSystem`: answers, chains, profiles and batches are lists; the names of a
  registry are its keys; claims are told apart by `id()`; no price and no limit is
  negative (the constructors refuse it);
* `StoredSystem`: the files of a workspace include files (`FilesAssumption`); limit and
  window of the rate limiter are positive (`RateAssumption`); a listing may have a page (`ClientAssumption`); key versions are
  positive and contents finite (`MemoryAssumption`); an id names one skill, whose
  declared cost and length are not negative (`SkillsAssumption`).

TLC evaluates them on the instances of the runs. Each theorem is proved from an
inductive invariant, one step per action.

* `JobQueueProofs`: `FenceInv` adds to the types and to `ResultIsFenced` that a
  worker holds a claim exactly while it handles or reports a job, that no two
  workers hold the same fence on a job, and that a job without a row has granted
  no lease. The property alone is not inductive: it says nothing of the claims
  that late reporters still hold. From it: `TypeCorrect`, `FencingCorrect`,
  `LeaseExclusive`. The second half classifies every step by its effect on the
  table (insert, grant, release, settle, requeue, deadline only); `TableInv`, row by
  row, then gives `ConstraintsHold` and `ExecutionsBounded`, `CreateInv` (keys are
  unique, and what a call was answered is tied to the row that answers it) gives
  `CreateIsIdempotent`, and `LifecycleImplemented` maps each effect to a step or a
  stutter of `JobLifecycle`.
* `EffectLedgerProofs`: `OnceInv` adds who owns a reservation, that there is one
  owner per effect, which states its row may be in meanwhile, and who may have
  started a handler. A recovery may settle the row under a slow owner, so the
  owner's row is not simply reserved. From it: `EffectTypes`,
  `EffectsAtMostOnce`, `ResultsTruthful`. With `RowInv` (a committed row was run, an
  absent one has no review) `OnceImplemented` shows that it implements `EffectOnce`.
* `MonetaryBudgetProofs`: `BudgetInv` adds that accounts never opened are empty
  and that charges are made on open accounts only, since opening sets the limit.
  From it: `BudgetTypes`, `NeverOverspent`. `PaidInv` says of every place where a
  call may stand whether it owns its charge, in which states the charge may be
  and whether its provider was called; `recover_stale()` and a second wrapper of the
  run move charges under it. From it: `InvocationsPaid`, `CallsSettled`. `BooksKept`
  is the step behind `AccountsBalance`: a transaction writes one charge at most, and
  adds to the counters of its accounts what that charge then ties up or has
  spent more than before. Sums over a finite set are characterised by their
  totals on subsets; that a change of one charge changes the sum by as much is
  shown without an induction, by a smallest set on which it fails. `BooksAgree`
  says that every counter is the sum over the charges of its scope; it is inductive
  beside `BudgetInv` (`BalanceInvariant`) and gives `AccountsAlwaysBalance`
  (`AccountsBalance`). `PurseImplemented` maps each
  effect on a charge to a step or a stutter of `BudgetPurse` (`ImplementsPurse`).
* `ApprovalsProofs`, in three layers. `TypedInv`: where the coroutine of a run, its
  authorization task and its route may stand together; with a classification of
  the steps by their effect on a row (reserved, settled, decided) it gives
  `TypeCorrect` and `ReceiptsFinal`. `ConsentInv`: a receipt with a verdict was decided
  in time and acknowledged, what a run has passed in its batch is authorised, and
  an approval that the task or the coroutine carries stands in the table; it
  gives `AcknowledgedStand` and `ConsentBeforeExecution`. `CleanInv`: once a route has
  closed with its cleanups done, at most one request is pending, the one whose
  `reserve()` committed although `prepare()` raised, and it is about to be cancelled;
  it gives `NothingPendingAfterEnd`.
* `CircuitBreaker`: `BreakerInv` adds that the probe is a running trial
  call of the current epoch, that a half-open breaker has one, that a running
  call of the current epoch other than the probe was admitted by a breaker still
  closed, and that a failure counted during a call's flight began a generation
  after the call's admission. From it: `BreakerTypes`, `ThresholdCorrect`,
  `TrialExclusive`, and the action properties `RecoveryOnTime` and
  `FailuresAreKept`.
* `RuntimeSystemProofs`: an invariant for each part and property. A step of the
  composition is a step of one part, which leaves the variables of the others
  alone (`OnePartActs`, `RestOf`), so the parts' invariants combine.
  * `EndInv`, of the parts that end. Of a run, the verifier's child and a grounded
    query: which coroutine may have taken the decision, where the others stand once
    it is taken, whether the terminal task has written, and what the caller was
    told. Of spans: what is open was opened and is not closed, for the run that
    goes on and for the one that stopped, and what is neither open nor closed was
    replaced by a later span of its tool-call id. Of the server: what is open in each
    phase. Of the pipeline: what each specialist has contributed, and whether one is
    waiting for the model. From it: `RunsEnd`
    (`RunsEndTruthfully`) and `NoWork` (`NoWorkAfterTheEnd`).
  * `HistoryInv`: a batch of calls and the answers it still owes; the dispatch of an
    event, whose taken hooks are a start of the registry's order and whose data is
    what their verdicts made of it; and the messages of a dialogue, each with the
    identifiers that its adapter may make up and no other. From it:
    `HistoryWellFormed` (`HistoryStaysWellFormed`).
  * `PermittedInv`: how the policy's winner arises among rules of one
    specificity; receipts of envelopes are kept as long as the envelope could be
    accepted again, by either clock; a child's time is what is left; tasks are
    claimed in their order; the groups of the sandbox are of the request whose turn
    it is; a quote is at the dearest class of every candidate; the caps of a
    reflection are what is left. From it: `PermittedWork` (`OnlyPermittedWorkIsDone`).
  * `EarnedInv`: verdicts have cited evidence of their own claim; claims that are
    kept were verified, on words, polarity and numbers; a draft is replaced only
    after a verdict to revise; the chain has tried the compatible providers in
    order; what the readers of the sandbox got is a start of what was written, and
    is all of it unless it is flagged; the tracker's counters are sums of priced
    usage, each charge is at most a nano-dollar above its price, and a shown total is
    within half a micro-dollar of the sum. From it: `EarnedAnswers` (`AnswersAreEarned`).
* `StoredSystemProofs`:
  * `SkillInv`: revisions of a package are numbered by their count; a run's selected
    keys are one revision per skill, what it has loaded or is about to load is
    selected, and was vetted at its read because a trusted revision has an
    administrator's word. `InstructionInv`: the
    same for snapshots and their appends, the current snapshot is endorsed and
    approved, and `ScanInv` of the loader: a file is read once; the stack holds files
    that were read, each once; what a file on the stack includes is left to follow,
    done, or the frame above; what is met lies in every closed set that holds the
    directories' files; and what is done is closed under includes and does not
    reach itself. When stack and directories are empty, that is
    `LoadedIsTheReachableTree`. `Reached` is therefore defined as the least closed
    set: no induction over paths is needed. From them: `LoadedSkills`
    (`LoadedSkillsAreVouchedFor`).
  * `McpInv` (an id names one stored tool, ids are not given out again, a tool keeps
    the profile it was listed with and is enabled only with consent to its schema,
    and what a task or a binding has read was such a tool), `AccessInv`, `ExportInv`,
    `ChatInv`, and `CandidateInv` (what a session carries from its reads to its
    conditional write still describes the rows if the versions match; a pending
    receipt is of the proposal's present version). From all of these: `Consent`
    (`NothingWithoutConsent`).
  * `LedgerInv`: the events of a run fill the numbers below its next one and a run
    that ended ends with its last event, parents and drafts have the owner of what
    they lead to, the run of a draft has used up the drafts of its conversation.
    `CloseInv`: the task of a run lives only while its request runs or closes, and what
    is left open is in `lostWrites`. From
    them: `RunRecords`, the parts `DenseSequences`, `TerminalEventIsLast`,
    `LineageResolves`, `ForksShowThePast` and `ClosedRequestsLeaveNothing` of
    `RecordsAreWhole`.
* `LimitProofs`:
  * `LimitsInv`: every admission of the local window that still counts has an entry
    with its time, and the shared bucket holds what was admitted; a scope's rows
    were counted under its lock, and whoever loads a process's model is alone; each page
    was asked for by a cursor of its own and
    each wait doubles the one before; a scope's counter is the sum of its facts'
    characters; the greedy selection is traced position by position, for which the
    ranks of the skills are shown to be 0 .. n - 1. From it: `Limits`
    (`LimitsAndScopesHold`).

Type correctness of `JobQueue`, `MonetaryBudget` and `CircuitBreaker` is left to these
proofs; the runs of `EffectLedger` and `Approvals` check it too. The composed
modules have no separate type invariant: the parts' invariants contain what
types their proofs need.

Only model-checked:

* every liveness property: fairness and `ENABLED` are out of the prover's reach;
* of `RecordsAreWhole`: that pages and views of a run's events miss nothing, that
  the `done` event tells the truth and that drift reports stay true. They speak of
  what `SelectSeq` and sorting return, which the prover can neither expand nor
  prove by induction over the sequence. That evaluations and export bundles are
  whole is not proved either, though nothing but the work stands against it;
* `NothingSaidIsLost`. The three listings of a conversation are sorted lists, what
  compaction accounts for and keeps is `SelectSeq` in rounds, and the chunks of a
  document are a recursion over its text: the prover can take none of them apart.
  The other parts (conversations are one user's and stay deleted, branches share
  only their past, a run has one context whose lineage is a partition, a process
  with the current key reads every fact) are not proved either, though nothing but
  the work stands against it.

## 6. What is not modelled

The wording of errors and events, hashing and signatures (identities are
compared, never computed), JSON limits, metrics and logs are left out of the
modelled components because no property depends on them. Of the modelled parts
these are left out:

* sandbox: the isolation by the operating system, and `DockerSandboxExecutor`,
  which nothing constructs;
* documents: the similarity of vectors, of which only the order matters, and
  the vendor index;
* conversations: titles, and the listing and search of conversations;
* instructions: `resolver.py`. The preview route passes it no budget and no skills, so
  that only tests reach what it may leave out;
* skills: `SkillDiscoveryService.load_selected`, which only tests call (a run loads
  through `skills/context.py`);
* accounts: the CSRF middleware and password hashing;
* hooks: event kinds other than one; a run's sink is not attached to the
  registry in `main.py:200`.

Not modelled at all, each with its reason in `PROJECT.json`: the legacy agent and
the research workflow (superseded by the runtime, no state of their own),
graduated permissions, audit and compliance reports (pure functions of what is
recorded), built-in tools, context filters and extensions, the skill catalog,
configuration, redaction and guardrails (string processing), scripts, learning
media and the frontend.

## 7. Observations

What the models show and no property forbids; a reader of the code should know
of it.

* Chat requests: a request that fails between `ensure_run` and the start of its
  task leaves its run `running`. Evaluations: so does a crash during an
  evaluation, for ever.
* MCP: a discovery that ends after its server was disabled marks the disabled row
  `healthy`; calls are still refused.
* Runs: when the terminal event cannot be written and the stop carries an error of
  its own, the caller is not told so. A provider that uses a tool-call id again
  leaves the first span of that id open.
* Agents: a token that expires while the model answers is still accepted and the
  answer signed.
* Pricing: four input tokens may be shown as a thousand nano-dollars and charged as
  six hundred; the difference does not grow with the number of calls by more than a
  nano-dollar each.
* Skills: a revocation between the two reads of a load still lets the text in.
* Skills: the installer leaves a revision untrusted and an approval changes the
  review only, so a skill installed from outside is not served by `list_bound`.
* Context: the selection is greedy in two stages and may leave out a skill that
  would fit. The current message can fall out of the window of history when
  other posts arrive meanwhile.
* Grounded answers: a cancellation during the short waits of the cleanup is
  swallowed; a terminal write that fails reaches the caller as an error.
* Memory: `activate_key_version()` commits before `validate_key_versions()` looks;
  `assert_key_retirable()` also lets a version pass that is newer than the active one.
* Exports: the run's row is read before its events, so a bundle may say `running`
  of a run whose events end with `run_stopped`.
* Reflection: tokens of a call that timed out are not counted.
* Sandbox: output that exactly reaches the limit is flagged as truncated; a
  status probe of a busy runner is answered `unavailable`.
* Run queries: a run pruned between two pages can hide another; a view shows at
  most 200 events.
* Server: a start that fails after `repository.initialize` leaves stores open; a
  close that raises leaves the rest open; a job handler's task is not waited for.
* Conversations: no foreign key ties a message to its conversation, so a post
  that races a deletion can leave a message that reappears when the identifier is
  used again, and the check of the owner is stale between load and flush once a
  conversation was deleted and created anew. `ConversationsAreOneUsers` therefore
  speaks of conversations that were never deleted.
* Sessions: `keep=0` keeps everything and adds an empty summary, a negative number
  counts from the front; a second compaction shortens what the first kept and
  replaces its recovery pointer. The session tree and the chat commands are not
  wired into the server: only their tests call them.
* Delegation: `ResilientCoordinator` never asks `can_spend`, and its fallback for
  the validator approves; `filter_tools_for_worker` ignores the filter when the
  worker is read-only; a swarm keeps the latest result of each worker only.
