---------------------------- MODULE MCUserAdmin ----------------------------
(***************************************************************************)
(* Instances of UserAdmin for TLC: three row ids, two of them with one     *)
(* username where names may clash.                                         *)
(***************************************************************************)
EXTENDS UserAdmin, TLC

CONSTANTS u1, u2, u3

\* One field at a time: promote, demote, enable, disable, or a new email.
OneField ==
  {p \in AllPayloads : p.role = "keep" \/ p.active = "keep"}

FirstTwoClash == [u \in Ids |-> IF u = u2 THEN u1 ELSE u]

\* Handlers are interchangeable.
HandlerSymmetry == Permutations(Requests)
=============================================================================
