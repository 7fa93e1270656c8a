\* A run with two provider answers whose requests are reserved, decided, looked
\* up, expired and cancelled by everyone at once.
CONSTANTS
    u1 = u1  r1 = r1  ca = ca  cb = cb  cc = cc  cd = cd
    i1 = i1  i2 = i2  s1 = s1  s2 = s2  s3 = s3
    Users = {u1}  Runs = {r1}  Calls = {ca, cb, cc, cd}  Ids = {i1, i2}
    Signatures = {s1, s2, s3}
    Owner <- OwnRuns  Batches <- TwoAnswers  Id <- ReusedId
    Signature <- RepeatedCall  Policy <- FirstAllowed
    ApprovalTicks = 2  RunTicks = 3  MaxDelay = 1  MaxClock = 5
SPECIFICATION FairSpec
INVARIANTS TypeOK ExecutedOnlyWithConsent AcknowledgedDecisionsStand EndedRunsLeaveNothingPending
PROPERTIES ReceiptsAreFinal EveryRunEnds
