\* Two wrappers of one run, whose first calls share a charge; the first has one
\* ordinal for two calls.
CONSTANTS
    p1 = p1  r1 = r1  r2 = r2  w1 = w1  w2 = w2  c1 = c1  c2 = c2  c3 = c3
    Projects = {p1}  Runs = {r1}  ProjectOf <- AllOfP1
    Wrappers = {w1, w2}  RunOf <- TwinRun
    ProjectLimit <- FourPerProject  RunLimit <- ThreePerRun
    Calls = {c1, c2, c3}  WrapperOf <- CallsOfW1AndW2  Quote <- QuoteOneOrTwo
    Costs = {1, 3}  MaxOrdinal = 0
    Faults = {TRUE, FALSE}
SPECIFICATION FairSpec
INVARIANTS EveryInvocationIsPaid EndedCallsAreSettled
PROPERTIES ImplementsPurse EveryCallEnds
CHECK_DEADLOCK FALSE
