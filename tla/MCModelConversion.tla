------------------------- MODULE MCModelConversion -------------------------
(***************************************************************************)
(* Instances of ModelConversion for TLC.                                   *)
(***************************************************************************)
EXTENDS ModelConversion, TLC

\* Two faults, of different kinds.
TwoFaults == [k \in Faults |-> IF k = "any" THEN 2 ELSE 1]
=============================================================================
