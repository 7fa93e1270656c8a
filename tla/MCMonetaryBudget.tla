-------------------------- MODULE MCMonetaryBudget --------------------------
(***************************************************************************)
(* Instances of MonetaryBudget for TLC: one project, money for one or two  *)
(* calls, and a provider that may cost more than the quote.                *)
(***************************************************************************)
EXTENDS MonetaryBudget, TLC

CONSTANTS p1, r1, r2, w1, w2, c1, c2, c3

(* Two wrappers of one run number their calls alike. *)
TwinRun == [w \in Wrappers |-> r1]

(* Two runs compete for the project's money. *)
RivalRun == [w \in Wrappers |-> IF w = w1 THEN r1 ELSE r2]

AllOfP1 == [r \in Runs |-> p1]
CallsOfW1AndW2 == [c \in Calls |-> IF c = c3 THEN w2 ELSE w1]
QuoteOneOrTwo == [c \in Calls |-> IF c = c3 THEN 1 ELSE 2]
FourPerProject == [w \in Wrappers |-> 4]
ThreePerRun == [w \in Wrappers |-> 3]
=============================================================================
