\* One job, two worker processes that share a worker_id, one manual retry.
CONSTANTS
    w1 = w1  w2 = w2  id1 = id1  echo = echo  export = export
    Jobs = {j1}  Calls = {c1}  Keys = {k1}  NoKey = NoKey
    Kinds = {echo}  Limits = {1, 2}
    Workers = {w1, w2}  WorkerIds = {id1}
    WorkerId <- SharedId  Handlers <- EveryKind
    NoJob = NoJob  NoWorker = NoWorker
    LeaseTicks = 2  BaseBackoff = 1  HandlerTicks = 2  MaxSkew = 1  MaxRetries = 1
SPECIFICATION FairSpec
INVARIANTS RowConstraints ResultIsFenced ExclusiveLease BoundedExecutions
PROPERTIES EveryJobSettles
