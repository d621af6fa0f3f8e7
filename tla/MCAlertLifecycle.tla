-------------------------- MODULE MCAlertLifecycle --------------------------
(***************************************************************************)
(* Instances of AlertLifecycle for TLC: small batches of readings over two *)
(* or three timestamps and one or two levels.                              *)
(***************************************************************************)
EXTENDS AlertLifecycle

CONSTANTS warning, danger

At(t, levels) == [ts |-> t, fires |-> levels]

TwoInstants == 0..1
ThreeInstants == 0..2
OneSecond == [l \in Levels |-> 1]
WarningOnly == [l \in Levels |-> IF l = warning THEN 1 ELSE 0]

\* One level fires, recovers and fires again, within a batch and across two.
OneLevelBatches ==
  { <<At(0, {warning}), At(1, {warning})>>,
    <<At(1, {})>>,
    <<At(0, {warning}), At(1, {}), At(2, {warning})>> }

\* Two levels: one fires, then the other fires and it recovers; and both recover.
\* The batches may come in any order and again, so that their readings are late.
TwoLevelBatches ==
  { <<At(0, {warning}), At(1, {danger})>>,
    <<At(1, {})>> }
=============================================================================
