----------------------------- MODULE MCApprovals -----------------------------
(***************************************************************************)
(* Instances of Approvals for TLC.                                         *)
(***************************************************************************)
EXTENDS Approvals, TLC

CONSTANTS u1, r1, ca, cb, cc, cd, i1, i2, s1, s2, s3

OwnRuns == [r \in Runs |-> u1]

(* An allowed call and a call to approve; then a second answer of the      *)
(* provider that repeats the approved call under another tool_call_id and  *)
(* reuses its tool_call_id with other arguments.                           *)
TwoAnswers == [r \in Runs |-> <<<<ca, cb>>, <<cc, cd>>>>]
ReusedId == [c \in Calls |-> IF c \in {cb, cd} THEN i1 ELSE i2]
RepeatedCall == [c \in Calls |-> IF c = ca THEN s1 ELSE IF c = cd THEN s3 ELSE s2]
FirstAllowed == [c \in Calls |-> IF c = ca THEN "allow" ELSE "ask"]
==============================================================================
