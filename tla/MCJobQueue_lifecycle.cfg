\* Two jobs, two distinct workers of which one lacks a handler, two create
\* calls racing on one idempotency key, exact clocks.
CONSTANTS
    w1 = w1  w2 = w2  id1 = id1  echo = echo  export = export
    Jobs = {j1, j2}  Calls = {c1, c2}  Keys = {k1}  NoKey = NoKey
    Kinds = {echo, export}  Limits = {1}
    Workers = {w1, w2}  WorkerIds = {w1, w2}
    WorkerId <- OwnId  Handlers <- PartialHandlers
    NoJob = NoJob  NoWorker = NoWorker
    LeaseTicks = 1  BaseBackoff = 1  HandlerTicks = 1  MaxSkew = 0  MaxRetries = 1
SPECIFICATION Spec
INVARIANTS IdempotentCreate
PROPERTIES ImplementsLifecycle
SYMMETRY JobSymmetry
