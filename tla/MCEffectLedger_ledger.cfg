\* A retried call; the clock passes a stale reservation; fair executors.
CONSTANTS
    c1 = c1  c2 = c2  r1 = r1  o1 = o1  i1 = i1  i2 = i2
    Runs = {r1}  Ops = {o1}  Calls = {c1, c2}  CallIds = {i1, i2}
    Request <- Retried  MaxClock = 2
SPECIFICATION FairSpec
INVARIANTS TypeOK AtMostOnce TruthfulResults
PROPERTIES ImplementsOnce EveryCallEnds
