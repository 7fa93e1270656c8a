\* Four overlapping calls, two failures open the breaker, one reset.
CONSTANTS
    Calls = {c1, c2, c3, c4}  NoCall = NoCall
    FailureThreshold = 2  RecoveryTimeout = 1  MaxResets = 1  MaxClock = 2
SPECIFICATION FairSpec
INVARIANTS ThresholdDecides OneTrialCall
PROPERTIES LateFailuresDoNotPostpone OverlappedSuccessKeepsCount ProbeReturns
CHECK_DEADLOCK FALSE
