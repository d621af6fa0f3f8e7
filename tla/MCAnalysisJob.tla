--------------------------- MODULE MCAnalysisJob ---------------------------
(***************************************************************************)
(* Instances of AnalysisJob for TLC.  A budget bounds each kind of fault.  *)
(***************************************************************************)
EXTENDS AnalysisJob, TLC

Only(spending) == [k \in Faults |-> IF k \in DOMAIN spending THEN spending[k] ELSE 0]

NoFaults == Only(<<>>)
AllButDuplicates ==
  Only([error |-> 1, broker |-> 1, crash |-> 1, kill |-> 1])
ErrorAndDuplicate == Only([error |-> 1, duplicate |-> 1])

\* Slots and handlers are interchangeable; the jobs are not, one may be ranged.
SlotSymmetry == Permutations(Slots) \cup Permutations(Handlers)
=============================================================================
