---------------------------- MODULE ServerLifecycle ----------------------------
(***************************************************************************)
(* Startup, serving and shutdown of the application (lifespan() and        *)
(* readyz() of main.py) with its background worker (run_forever() of       *)
(* workers/jobs.py).  Startup is a sequence of phases, each of which may   *)
(* raise; only what follows the worker's start is under the finally.       *)
(***************************************************************************)
EXTENDS Integers, FiniteSets

CONSTANTS
    Features        \* optional parts: subset of {"memory", "execution", "redis"}

VARIABLES
    enabled,        \* features the settings turn on
    exporter,       \* app.state.otel_exporter: "none", "active" or "inactive"
    phase,          \* where lifespan() is
    opened,         \* resources that are open
    keysActive,     \* the memory's key version was committed
    workerLoop,     \* job_worker_task
    workerError,    \* last_error_code is set
    jobTask,        \* the handler's task of the job being executed
    detached,       \* a cancelled handler's task that nobody waits for is alive
    dependencies,   \* what is up: the database and the shared limiter
    readiness       \* a readyz() request under way

serverVars == <<enabled, exporter, phase, opened, keysActive, workerLoop, workerError, jobTask,
                detached, dependencies, readiness>>

NotAsked == [stage |-> "idle", ready |-> FALSE]

ServerInit ==
    /\ enabled \in SUBSET Features /\ exporter \in {"none", "active", "inactive"}
    /\ phase = "embedding"
    /\ opened = {} /\ keysActive = FALSE
    /\ workerLoop = "none" /\ workerError = FALSE /\ jobTask = "none" /\ detached = FALSE
    /\ dependencies = {"database", "redis"}
    /\ readiness = NotAsked

\* -------------------------------------------------------------------- startup

(* A phase that succeeds, or one whose exception leaves lifespan(). *)
Passes(here, next) == phase = here /\ phase' = next
Refuses(here) == phase = here /\ phase' = "refused"
Unworked == UNCHANGED <<enabled, exporter, workerLoop, workerError, jobTask, detached, dependencies, readiness>>

(* EmbeddingService() and validate_configuration(), before any resource. *)
ValidateEmbedding ==
    /\ \/ Passes("embedding", "keyring") \/ Refuses("embedding")
    /\ UNCHANGED <<opened, keysActive>> /\ Unworked

LoadKeyring ==
    /\ \/ Passes("keyring", "sandbox") \/ ("memory" \in enabled /\ Refuses("keyring"))
    /\ UNCHANGED <<opened, keysActive>> /\ Unworked

(* preflight() of the sandbox executor. *)
PreflightSandbox ==
    /\ \/ Passes("sandbox", "repository") \/ ("execution" \in enabled /\ Refuses("sandbox"))
    /\ UNCHANGED <<opened, keysActive>> /\ Unworked

(* ConversationRepository.initialize(): the schema is created or verified. *)
OpenRepository ==
    /\ \/ Passes("repository", "skills") \/ Refuses("repository")
    /\ opened' = opened \cup {"repository"}
    /\ UNCHANGED keysActive /\ Unworked

InstallBundledSkills ==
    /\ \/ Passes("skills", "services") \/ Refuses("skills")
    /\ UNCHANGED <<opened, keysActive>> /\ Unworked

(* The services over the repository are constructed and published; a bad   *)
(* catalogue or registry configuration raises.                             *)
BuildServices ==
    /\ \/ Passes("services", "authstore") \/ Refuses("services")
    /\ UNCHANGED <<opened, keysActive>> /\ Unworked

OpenAuthStore ==
    /\ \/ Passes("authstore", "activate") \/ Refuses("authstore")
    /\ opened' = opened \cup {"authstore"}
    /\ UNCHANGED keysActive /\ Unworked

(* activate_key_version() commits; without encrypted memory nothing is done. *)
ActivateKeys ==
    /\ \/ Passes("activate", "validate") \/ ("memory" \in enabled /\ Refuses("activate"))
    /\ keysActive' = ("memory" \in enabled /\ phase' = "validate")
    /\ UNCHANGED opened /\ Unworked

(* validate_key_versions() may still refuse. *)
ValidateKeys ==
    /\ \/ Passes("validate", "limiter") \/ ("memory" \in enabled /\ Refuses("validate"))
    /\ UNCHANGED <<opened, keysActive>> /\ Unworked

(* The shared limiter is pinged; on failure its connection is closed again. *)
ConnectLimiter ==
    /\ \/ Passes("limiter", "worker") \/ ("redis" \in enabled /\ Refuses("limiter"))
    /\ opened' = IF "redis" \in enabled /\ phase' = "worker" THEN opened \cup {"redis"} ELSE opened
    /\ UNCHANGED keysActive /\ Unworked

(* The provider is built, the worker's task created, the server yields. *)
StartWorker ==
    /\ Passes("worker", "serving")
    /\ workerLoop' = "iterating"
    /\ UNCHANGED <<enabled, exporter, opened, keysActive, workerError, jobTask, detached, dependencies, readiness>>

\* --------------------------------------------------------------------- worker

(* run_forever(): last_error_code after an iteration. *)
ErrorAfter(ok) == ~ok

(* run_once() claims a job: its handler runs in a task of its own. *)
ClaimJob ==
    /\ workerLoop = "iterating" /\ jobTask = "none"
    /\ jobTask' = "running"
    /\ UNCHANGED <<enabled, exporter, phase, opened, keysActive, workerLoop, workerError, detached,
                   dependencies, readiness>>

(* An iteration ends, with or without an exception, and the loop sleeps; a *)
(* handler over its deadline, or whose lease is lost, is cancelled and left. *)
IterationEnds ==
    /\ workerLoop = "iterating" /\ jobTask' = "none"
    /\ \/ UNCHANGED detached
       \/ jobTask = "running" /\ detached' = TRUE
    /\ \E ok \in IF "database" \in dependencies THEN {TRUE} ELSE {FALSE} : workerError' = ErrorAfter(ok)
    /\ workerLoop' = "sleeping"
    /\ UNCHANGED <<enabled, exporter, phase, opened, keysActive, dependencies, readiness>>

WakeWorker ==
    /\ workerLoop = "sleeping" /\ workerLoop' = "iterating"
    /\ UNCHANGED <<enabled, exporter, phase, opened, keysActive, workerError, jobTask, detached, dependencies, readiness>>

(* The handler's task sees its cancellation; nobody waits for it. *)
DetachedHandlerEnds ==
    /\ detached /\ detached' = FALSE
    /\ UNCHANGED <<enabled, exporter, phase, opened, keysActive, workerLoop, workerError, jobTask,
                   dependencies, readiness>>

\* ------------------------------------------------------------------- shutdown

(* The finally: the worker is cancelled. *)
CancelWorker ==
    /\ Passes("serving", "draining")
    /\ workerLoop' = "cancelling"
    /\ UNCHANGED <<enabled, exporter, opened, keysActive, workerError, jobTask, detached, dependencies, readiness>>

(* The cancellation reaches the loop; a handler's task is cancelled too    *)
(* and detached.                                                           *)
WorkerEnds ==
    /\ workerLoop = "cancelling" /\ workerLoop' = "done"
    /\ jobTask' = "none" /\ detached' = (detached \/ jobTask = "running")
    /\ UNCHANGED <<enabled, exporter, phase, opened, keysActive, workerError, dependencies, readiness>>

(* await job_worker_task *)
WorkerAwaited == workerLoop = "done"

(* The stores are closed one after the other; an exception of a close      *)
(* leaves the rest.                                                        *)
CloseStores ==
    /\ phase \in {"draining", "closing"} /\ WorkerAwaited
    /\ \/ /\ opened = {} /\ phase' = "down" /\ UNCHANGED opened
       \/ /\ opened # {}
          /\ LET next == CASE "repository" \in opened -> "repository"
                           [] "authstore" \in opened  -> "authstore"
                           [] OTHER                   -> "redis"
             IN opened' = opened \ {next}
          /\ phase' = "closing"
       \/ opened # {} /\ phase' = "abandoned" /\ UNCHANGED opened
    /\ UNCHANGED <<enabled, exporter, keysActive, workerLoop, workerError, jobTask, detached, dependencies, readiness>>

\* ------------------------------------------------------------------ readiness

(* Databases and caches come and go while the server is up. *)
DependencyChanges(d) ==
    /\ phase = "serving"
    /\ dependencies' = IF d \in dependencies THEN dependencies \ {d} ELSE dependencies \cup {d}
    /\ UNCHANGED <<enabled, exporter, phase, opened, keysActive, workerLoop, workerError, jobTask, detached, readiness>>

(* worker_ready: the task is not done and its last iteration succeeded. *)
WorkerReady == workerLoop \in {"iterating", "sleeping"} /\ ~workerError

(* readyz(): the worker and the exporter are judged at once... *)
BeginReadiness ==
    /\ phase = "serving" /\ readiness.stage = "idle"
    /\ readiness' = [stage |-> "database", ready |-> WorkerReady /\ exporter # "inactive"]
    /\ UNCHANGED <<enabled, exporter, phase, opened, keysActive, workerLoop, workerError, jobTask, detached, dependencies>>

(* ... then the database is asked ... *)
CheckDatabase ==
    /\ readiness.stage = "database"
    /\ readiness' = [readiness EXCEPT !.stage = "limiter",
                         !.ready = @ /\ "database" \in dependencies /\ "repository" \in opened]
    /\ UNCHANGED <<enabled, exporter, phase, opened, keysActive, workerLoop, workerError, jobTask, detached, dependencies>>

(* ... and the limiter's backend, when it has one. *)
CheckLimiter ==
    /\ readiness.stage = "limiter"
    /\ LET up == "redis" \in enabled => "redis" \in dependencies IN
       readiness' = [readiness EXCEPT !.stage = "answered", !.ready = @ /\ up]
    /\ UNCHANGED <<enabled, exporter, phase, opened, keysActive, workerLoop, workerError, jobTask, detached, dependencies>>

EndReadiness ==
    /\ readiness.stage = "answered" /\ readiness' = NotAsked
    /\ UNCHANGED <<enabled, exporter, phase, opened, keysActive, workerLoop, workerError, jobTask, detached, dependencies>>

ServerNext ==
    \/ ValidateEmbedding \/ LoadKeyring \/ PreflightSandbox \/ OpenRepository \/ InstallBundledSkills
    \/ BuildServices \/ OpenAuthStore \/ ActivateKeys \/ ValidateKeys \/ ConnectLimiter \/ StartWorker
    \/ ClaimJob \/ IterationEnds \/ WakeWorker \/ DetachedHandlerEnds
    \/ CancelWorker \/ WorkerEnds \/ CloseStores
    \/ BeginReadiness \/ CheckDatabase \/ CheckLimiter \/ EndReadiness
    \/ \E d \in {"database", "redis"} : DependencyChanges(d)

(* The event loop runs what is ready; the worker's loop never blocks for   *)
(* ever on a job because its handler has a deadline.                       *)
ServerFairness ==
    /\ WF_serverVars(IterationEnds) /\ WF_serverVars(WakeWorker)
    /\ WF_serverVars(WorkerEnds) /\ WF_serverVars(CloseStores)
    /\ WF_serverVars(CheckDatabase) /\ WF_serverVars(CheckLimiter) /\ WF_serverVars(EndReadiness)

\* ------------------------------------------------------------------ properties

(* The background worker is gone before the first store is closed, and no  *)
(* iteration of it ever meets a store that is not open: shutdown waits for *)
(* the cancelled loop.  (The task of a job's handler is not waited for.)   *)
WorkerMeetsOpenStores ==
    workerLoop \in {"iterating", "sleeping", "cancelling"} => {"repository", "authstore"} \subseteq opened

(* A server that was not ready becomes ready again: once the backends are  *)
(* up for good an iteration of the worker succeeds, its error is forgotten *)
(* and from some moment on every answer of readyz() is "ready", unless an  *)
(* exporter is configured that did not start: then none is.                *)
ReadyAgain ==
    <>[](phase = "serving" /\ dependencies = {"database", "redis"}) =>
        <>[](readiness.stage = "answered" => (readiness.ready <=> exporter # "inactive"))

(* A shutdown that begins ends, with the stores closed or one close failed. *)
ShutdownEnds == phase = "draining" ~> phase \in {"down", "abandoned"}

=============================================================================
