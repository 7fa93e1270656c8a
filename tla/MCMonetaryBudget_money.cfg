\* Two runs compete for the money of a project.
CONSTANTS
    p1 = p1  r1 = r1  r2 = r2  w1 = w1  w2 = w2  c1 = c1  c2 = c2  c3 = c3
    Projects = {p1}  Runs = {r1, r2}  ProjectOf <- AllOfP1
    Wrappers = {w1, w2}  RunOf <- RivalRun
    ProjectLimit <- FourPerProject  RunLimit <- ThreePerRun
    Calls = {c1, c2, c3}  WrapperOf <- CallsOfW1AndW2  Quote <- QuoteOneOrTwo
    Costs = {1, 3}  MaxOrdinal = 1
    Faults = {TRUE, FALSE}
SPECIFICATION Spec
INVARIANTS WithinLimits AccountsBalance
CHECK_DEADLOCK FALSE
