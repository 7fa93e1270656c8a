--------------------------- MODULE MCEffectLedger ---------------------------
(***************************************************************************)
(* Instances of EffectLedger for TLC.                                      *)
(***************************************************************************)
EXTENDS EffectLedger, TLC

CONSTANTS c1, c2, r1, o1, i1, i2

(* A provider retry: the same operation under two tool_call_ids. *)
Retried == [c \in Calls |-> [run |-> r1, op |-> o1, id |-> IF c = c1 THEN i1 ELSE i2]]
=============================================================================
