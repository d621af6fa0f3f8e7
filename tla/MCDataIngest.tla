---------------------------- MODULE MCDataIngest ----------------------------
(***************************************************************************)
(* Instances of DataIngest for TLC.                                        *)
(***************************************************************************)
EXTENDS DataIngest, TLC

CONSTANTS c1, c2, c3, x, y

Reading(ch, t, v) == [channel |-> ch, time |-> t, value |-> v]

\* A batch over two channels, a later one, and one that repeats a key of the first
\* with a newer reading beside it.
Batches ==
  c1 :> <<Reading(x, 1, 1), Reading(y, 1, 1)>> @@
  c2 :> <<Reading(x, 2, 1)>> @@
  c3 :> <<Reading(x, 1, 2), Reading(x, 3, 1)>>

OneOfEach == [k \in Faults |-> 1]
=============================================================================
