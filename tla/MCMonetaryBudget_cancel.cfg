\* One call and a database that never fails.
CONSTANTS
    p1 = p1  r1 = r1  r2 = r2  w1 = w1  w2 = w2  c1 = c1  c2 = c2  c3 = c3
    Projects = {p1}  Runs = {r1}  ProjectOf <- AllOfP1
    Wrappers = {w1, w2}  RunOf <- TwinRun
    ProjectLimit <- FourPerProject  RunLimit <- ThreePerRun
    Calls = {c1}  WrapperOf <- CallsOfW1AndW2  Quote <- QuoteOneOrTwo
    Costs = {1, 3}  MaxOrdinal = 0
    Faults = {FALSE}
SPECIFICATION Spec
INVARIANT CancelledBeforeDispatchReleases
CHECK_DEADLOCK FALSE
