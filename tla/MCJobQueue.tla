----------------------------- MODULE MCJobQueue -----------------------------
(***************************************************************************)
(* Instances of JobQueue for TLC.                                          *)
(***************************************************************************)
EXTENDS JobQueue, TLC

CONSTANTS w1, w2, id1, echo, export

OwnId == [w \in Workers |-> w]
JobSymmetry == Permutations(Jobs)
SharedId == [w \in Workers |-> id1]
EveryKind == [w \in Workers |-> Kinds]
(* w2 was started without a run_export handler *)
PartialHandlers == [w \in Workers |-> IF w = w2 THEN {echo} ELSE Kinds]
=============================================================================
