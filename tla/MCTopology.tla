----------------------------- MODULE MCTopology -----------------------------
(***************************************************************************)
(* Instances of Topology for TLC.                                          *)
(***************************************************************************)
EXTENDS Topology, TLC

CONSTANTS p1, p2, p3, d1, d2, d3, s1, s2, s3, x1, x2, boss, member, q1, q2

\* d2 and d3, s2 and s3, x1 and x2 have one code.
Codes ==
  p1 :> "" @@ p2 :> "" @@ p3 :> "" @@ d1 :> "a" @@ d2 :> "b" @@ d3 :> "b"
  @@ s1 :> "a" @@ s2 :> "b" @@ s3 :> "b" @@ x1 :> "a" @@ x2 :> "a"

\* p1 has the device d1 with the sensor s1 and its channel x1, and p2 is empty.  The other
\* rows may be added: two devices or two sensors at once, and a channel whose code is taken
\* in s1 only.
Places ==
  p1 :> boss @@ p2 :> boss @@ d1 :> p1 @@ s1 :> d1 @@ x1 :> s1
  @@ [r \in {p3, d2, d3, s2, s3, x2} |-> Nothing]

Permissions ==
  boss :> [p \in Projects |-> "none"]
  @@ member :> [p \in Projects |-> IF p = p1 THEN "write" ELSE IF p = p2 THEN "read" ELSE "none"]

FirstRoles == boss :> "admin" @@ member :> "user"

\* The rows of each pair do not exist at first and have one code.
Interchangeable ==
  Permutations({q1, q2}) \cup Permutations({d2, d3}) \cup Permutations({s2, s3})
=============================================================================
