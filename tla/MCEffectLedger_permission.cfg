\* One call whose handler may raise PermissionError.
CONSTANTS
    c1 = c1  c2 = c2  r1 = r1  o1 = o1  i1 = i1  i2 = i2
    Runs = {r1}  Ops = {o1}  Calls = {c1}  CallIds = {i1, i2}
    Request <- Retried  MaxClock = 1
SPECIFICATION Spec
INVARIANTS FailedNeverRan
