---------------------------- MODULE TopologyProofs ----------------------------
(***************************************************************************)
(* Proofs about Topology, for any tables, users, requests and bounds.      *)
(***************************************************************************)
EXTENDS Topology, FiniteSetTheorems, TLAPS

-----------------------------------------------------------------------------
(* Calls.                                                                   *)

\* What the routes have in common.
LEMMA CallFacts ==
  ASSUME NEW call \in Calls
  PROVE  /\ call.row \in Ids /\ call.need \in Needs
         /\ call.op = "add" => call.under \in PlacesOf(call.row)
         /\ call.op = "add" /\ call.row \notin Projects => call.need # "platform"
         /\ call.need = "login" => call \in AlertRoutes
         /\ call.op = "assign" => /\ call.row \in Projects /\ call.under \in Users
                                  /\ call.level \in Levels
<1> USE TablesAreDisjoint DEF Route, Needs, Levels, Ids, PlacesOf
<1>1. CASE call \in ProjectRoutes BY <1>1 DEF ProjectRoutes
<1>2. CASE call \in DeviceRoutes BY <1>2 DEF DeviceRoutes
<1>3. CASE call \in SensorRoutes BY <1>3 DEF SensorRoutes
<1>4. CASE call \in ChannelRoutes BY <1>4 DEF ChannelRoutes
<1>5. CASE call \in DataRoutes BY <1>5 DEF DataRoutes
<1>6. CASE call \in AlertRoutes BY <1>6 DEF AlertRoutes
<1> QED BY <1>1, <1>2, <1>3, <1>4, <1>5, <1>6 DEF Calls

LEMMA RequestFacts ==
  ASSUME TypeOK, NEW q \in Requests, request[q] # Idle
  PROVE  /\ request[q] \in Running
         /\ request[q].stage \in {"begun", "permitted", "tested", "done"}
         /\ request[q].user \in Users /\ request[q].platform \in BOOLEAN
         /\ request[q].call \in Calls
         /\ request[q].seen \subseteq Ids \cup Levels
BY DEF TypeOK, Running

-----------------------------------------------------------------------------
(* The tree.                                                                *)

\* ProjectOf of a row, for any assignment of places to the rows.
Up(f, r) == IF r \in Projects THEN r
            ELSE IF r \in Devices THEN f[r]
            ELSE IF r \in Sensors THEN f[f[r]] ELSE f[f[f[r]]]

\* A row that was created has a place that was created; ids are not used twice.
PlacedIn(f) ==
  \A r \in Ids : f[r] # Nothing =>
    /\ f[r] \in PlacesOf(r)
    /\ r \notin Projects => f[f[r]] # Nothing

Placed == PlacedIn(parent)

\* Rows are where rows are.
Rooted ==
  \A r \in rows : /\ parent[r] # Nothing
                  /\ r \notin Projects => parent[r] \in rows

\* The unique constraints of the three tables.
CodesUnique ==
  /\ \A d, e \in rows \cap Devices : CodeOf[d] = CodeOf[e] => d = e
  /\ \A x, y \in rows \ (Projects \cup Devices) :
       parent[x] = parent[y] /\ CodeOf[x] = CodeOf[y] => x = y

\* What becomes of a new row is its place, and nobody else adds it.
Adding(q) == request[q] # Idle /\ request[q].call.op = "add"
AddsAreNew ==
  \A q \in Requests :
    /\ request[q] # Idle /\ ~Adding(q) => parent[request[q].call.row] # Nothing
    /\ Adding(q) =>
         /\ \A o \in Requests \ {q} : Adding(o) => request[o].call.row # request[q].call.row
         /\ parent[request[q].call.row] =
              IF request[q].stage = "done" THEN request[q].call.under ELSE Nothing

TreeInv == Placed /\ Rooted /\ CodesUnique /\ AddsAreNew

LEMMA UpFacts ==
  ASSUME NEW f, PlacedIn(f), NEW r \in Ids, r \in Projects \/ f[r] # Nothing
  PROVE  /\ Up(f, r) \in Projects
         /\ r \notin Projects => Up(f, r) = Up(f, f[r])
<1> USE TablesAreDisjoint, SeedAssumption DEF Up, PlacedIn, PlacesOf, Ids
<1>1. CASE r \in Projects BY <1>1
<1>2. CASE r \in Devices BY <1>2
<1>3. CASE r \in Sensors BY <1>3
<1>4. CASE r \in Channels
  <2>1. f[r] \in Sensors /\ f[f[r]] # Nothing BY <1>4
  <2>2. f[f[r]] \in Devices /\ f[f[f[r]]] # Nothing BY <2>1
  <2>3. f[f[f[r]]] \in Projects BY <2>2
  <2> QED BY <1>4, <2>1, <2>2, <2>3
<1> QED BY <1>1, <1>2, <1>3, <1>4

\* Where a row is does not change when others are created.
LEMMA UpStays ==
  ASSUME NEW f, NEW g, PlacedIn(f), \A x \in Ids : f[x] # Nothing => g[x] = f[x],
         NEW r \in Ids, r \in Projects \/ f[r] # Nothing
  PROVE  Up(g, r) = Up(f, r)
<1> USE TablesAreDisjoint DEF Up, PlacedIn, PlacesOf, Ids
<1>1. CASE r \in Projects BY <1>1
<1>2. CASE r \in Devices BY <1>2
<1>3. CASE r \in Sensors BY <1>3
<1>4. CASE r \in Channels
  <2>1. f[r] \in Sensors /\ f[f[r]] # Nothing /\ g[r] = f[r] BY <1>4
  <2>2. f[f[r]] \in Devices /\ f[f[f[r]]] # Nothing /\ g[f[r]] = f[f[r]] BY <2>1
  <2>3. g[f[f[r]]] = f[f[f[r]]] BY <2>2
  <2> QED BY <1>4, <2>1, <2>2, <2>3
<1> QED BY <1>1, <1>2, <1>3, <1>4

LEMMA ProjectOfIsUp ==
  ASSUME NEW r, Placed, r \in Projects \/ (r \in Ids /\ parent[r] # Nothing)
  PROVE  ProjectOf(r) = Up(parent, r)
<1> USE TablesAreDisjoint DEF ProjectOf, Up, Placed, PlacedIn, PlacesOf, Ids
<1>1. CASE r \in Projects BY <1>1
<1>2. CASE r \in Devices BY <1>2
<1>3. CASE r \in Sensors BY <1>3
<1>4. CASE r \in Channels
  <2>1. parent[r] \in Sensors /\ parent[parent[r]] # Nothing BY <1>4
  <2>2. parent[parent[r]] \in Devices /\ parent[parent[parent[r]]] # Nothing BY <2>1
  <2>3. parent[parent[parent[r]]] \in Projects BY <2>2
  <2> QED BY <1>4, <2>1, <2>2, <2>3
<1> QED BY <1>1, <1>2, <1>3, <1>4

-----------------------------------------------------------------------------
(* Steps of requests.                                                       *)

\* q goes on with what it was asked.
GoesOn(q) ==
  /\ request[q] # Idle /\ request'[q] # Idle
  /\ request'[q].user = request[q].user
  /\ request'[q].platform = request[q].platform
  /\ request'[q].call = request[q].call

Others(q) ==
  /\ request' \in [Requests -> {Idle} \cup Running]
  /\ \A o \in Requests \ {q} : request'[o] = request[o]

LEMMA Advances ==
  ASSUME TypeOK, NEW q \in Requests, request[q] # Idle,
         NEW stage \in {"permitted", "tested", "done"},
         NEW seen \in SUBSET (Ids \cup Levels),
         Advance(q, stage, seen)
  PROVE  Others(q) /\ GoesOn(q) /\ request'[q].stage = stage
<1> DEFINE r == [request[q] EXCEPT !.stage = stage, !.seen = seen]
<1>1. request[q] \in Running /\ request \in [Requests -> {Idle} \cup Running]
  BY RequestFacts DEF TypeOK
<1>2. r \in Running /\ r.stage = stage /\ r.user = request[q].user
      /\ r.platform = request[q].platform /\ r.call = request[q].call
  BY <1>1 DEF Running
<1>3. r # Idle
  BY <1>2 DEF Idle
<1>4. request' = [request EXCEPT ![q] = r]
  BY DEF Advance
<1> HIDE DEF r
<1> QED BY <1>1, <1>2, <1>3, <1>4 DEF Others, GoesOn

LEMMA Drops ==
  ASSUME TypeOK, NEW q \in Requests, Drop(q)
  PROVE  Others(q) /\ request'[q] = Idle
BY DEF TypeOK, Drop, Others

\* What a step of a request does besides going on or being dropped.
LEMMA RequestSteps ==
  ASSUME TypeOK, NEW q \in Requests, RequestStep(q)
  PROVE  /\ request[q] # Idle /\ Others(q)
         /\ \/ request'[q] = Idle /\ UNCHANGED unchangedRows
            \/ /\ GoesOn(q) /\ UNCHANGED counters
               /\ \/ /\ UNCHANGED unchangedRows
                     /\ request'[q].stage = "permitted" => MayPass(q) /\ request[q].stage = "begun"
                     /\ request'[q].stage # "permitted" => request[q].stage \in {"permitted", "tested"}
                     /\ request'[q].stage # "begun"
                     /\ Adding(q) => request'[q].stage # "done"
                  \/ request'[q].stage = "done" /\ request[q].stage = "tested"
                     /\ (CommitNew(q) \/ CommitDelete(q) \/ CommitAssign(q))
<1> USE DEF At, unchangedRows, counters
<1>a. \A o \in Requests : request[o] # Idle => request[o].call.row \in Ids
  BY RequestFacts, CallFacts
<1>b. \A r : Children(r) \subseteq Ids
  BY DEF Children, TypeOK
<1>1. CASE Check(q)
  BY <1>1, Advances DEF Check
<1>2. ASSUME NEW table, New(q, table) PROVE
        /\ request[q] # Idle /\ Others(q) /\ GoesOn(q) /\ UNCHANGED unchangedRows
        /\ request'[q].stage = "tested" /\ request[q].stage = "permitted"
  BY <1>2, Advances DEF New
<1>3. CASE CreateProject(q)
  BY <1>3, <1>2 DEF CreateProject
<1>4. CASE CreateDevice(q)
  BY <1>4, <1>2 DEF CreateDevice
<1>5. CASE CreateSensor(q)
  BY <1>5, <1>2 DEF CreateSensor
<1>6. CASE CreateChannel(q)
  BY <1>6, <1>2 DEF CreateChannel
<1>7. ASSUME NEW table, LoadForDelete(q, table) \/ LoadForUpdate(q, table) PROVE
        /\ request[q] # Idle /\ Others(q) /\ GoesOn(q) /\ UNCHANGED unchangedRows
        /\ request'[q].stage = "tested" /\ request[q].stage = "permitted"
  BY <1>7, <1>b, Advances DEF LoadForDelete, LoadForUpdate
<1>15. CASE UpdateProject(q) \/ UpdateDevice(q) \/ UpdateSensor(q) \/ UpdateChannel(q)
  BY <1>15, <1>7 DEF UpdateProject, UpdateDevice, UpdateSensor, UpdateChannel
<1>16. CASE DeleteProject(q) \/ DeleteDevice(q) \/ DeleteSensor(q) \/ DeleteChannel(q)
  BY <1>16, <1>7 DEF DeleteProject, DeleteDevice, DeleteSensor, DeleteChannel
<1>8. CASE LoadForAssign(q)
  <2>1. request[q] # Idle /\ request[q].call \in Calls /\ request[q].call.op = "assign"
    BY <1>8, RequestFacts DEF LoadForAssign
  <2>2. level[request[q].call.under][request[q].call.row] \in Levels \cup {"none"}
    BY <2>1, CallFacts DEF TypeOK
  <2> QED BY <1>8, <2>2, Advances DEF LoadForAssign, Adding
<1>9. CASE CommitNew(q)
  BY <1>9, Advances DEF CommitNew
<1>10. CASE CommitDelete(q)
  BY <1>10, Advances DEF CommitDelete
<1>11. CASE CommitAssign(q)
  BY <1>11, Advances DEF CommitAssign
<1>12. CASE Use(q)
  BY <1>12, Advances DEF Use, Adding
<1>13. CASE Refuse(q)
  BY <1>13, Drops DEF Refuse
<1>14. CASE Reply(q)
  BY <1>14, Drops DEF Reply
<1> QED
  BY <1>1, <1>3, <1>4, <1>5, <1>6, <1>8, <1>9, <1>10, <1>11, <1>12, <1>13, <1>14,
     <1>15, <1>16
  DEF RequestStep

LEMMA Begins ==
  ASSUME TypeOK, NEW q \in Requests, NEW u \in Users, NEW call \in Calls, Begin(q, u, call)
  PROVE  /\ request[q] = Idle /\ Others(q) /\ request'[q] # Idle
         /\ request'[q].stage = "begun" /\ request'[q].user = u /\ request'[q].call = call
         /\ request'[q].platform = (role[u] = "admin")
         /\ started' \in 0..MaxRequests
         /\ UNCHANGED <<treeVars, accessVars, data, changed>>
<1> DEFINE r == [stage |-> "begun", user |-> u, platform |-> role[u] = "admin",
                 call |-> call, seen |-> {}]
<1>1. r \in Running
  BY DEF Running
<1>2. r # Idle
  BY DEF Idle
<1>3. request' = [request EXCEPT ![q] = r] /\ request[q] = Idle
      /\ started < MaxRequests /\ started' = started + 1
      /\ UNCHANGED <<treeVars, accessVars, data, changed>>
  BY DEF Begin
<1>4. r.stage = "begun" /\ r.user = u /\ r.call = call /\ r.platform = (role[u] = "admin")
  OBVIOUS
<1> HIDE DEF r
<1>5. started' \in 0..MaxRequests
  BY <1>3, BoundAssumption DEF TypeOK
<1> QED BY <1>1, <1>2, <1>3, <1>4, <1>5 DEF Others, TypeOK

-----------------------------------------------------------------------------
(* Types.                                                                   *)

LEMMA InitTypes == Init => TypeOK
<1> SUFFICES ASSUME Init PROVE TypeOK
  OBVIOUS
<1> USE SeedAssumption, SeedTreeAssumption, BoundAssumption DEF Init
<1>1. rows \subseteq Ids /\ \A r \in rows : parent[r] \in PlacesOf(r)
  OBVIOUS
<1>2. parent \in [Ids -> Ids \cup Users \cup {Nothing}] /\ role \in [Users -> Roles]
      /\ level \in [Users -> [Projects -> Levels \cup {"none"}]]
  OBVIOUS
<1>3. request \in [Requests -> {Idle} \cup Running] /\ data = {}
      /\ held \in [Requests -> SUBSET (Projects \X Needs)]
  OBVIOUS
<1>4. started \in 0..MaxRequests /\ changed \in 0..MaxRoleChanges
  OBVIOUS
<1> QED BY <1>1, <1>2, <1>3, <1>4 DEF TypeOK

\* The history is made of rights.
LEMMA RememberTypes ==
  ASSUME TypeOK, Remember
  PROVE  held' \in [Requests -> SUBSET (Projects \X Needs)]
<1>1. \A q \in Requests : held[q] \subseteq Projects \X Needs
  BY DEF TypeOK
<1>2. \A r, links : RightsOf(r, links) \subseteq Projects \X Needs
  BY DEF RightsOf
<1> QED BY <1>1, <1>2 DEF Remember

\* The tables keep their types.
TablesOK ==
  /\ rows \subseteq Ids
  /\ parent \in [Ids -> Ids \cup Users \cup {Nothing}]
  /\ \A r \in rows : parent[r] \in PlacesOf(r)
  /\ level \in [Users -> [Projects -> Levels \cup {"none"}]]
  /\ role \in [Users -> Roles]
  /\ data \subseteq rows \cap (Channels \cup Projects)

LEMMA CommitTypes ==
  ASSUME TypeOK, NEW q \in Requests, CommitNew(q) \/ CommitDelete(q) \/ CommitAssign(q)
  PROVE  TablesOK' /\ UNCHANGED counters
<1>1. request[q] # Idle /\ request[q].call \in Calls
  BY RequestFacts DEF CommitNew, CommitDelete, CommitAssign, At
<1>2. CASE CommitNew(q)
  <2> DEFINE x == request[q].call.row
             place == request[q].call.under
  <2>1. x \in Ids /\ place \in PlacesOf(x)
    BY <1>1, <1>2, CallFacts DEF CommitNew
  <2>2. rows' = rows \cup {x} /\ parent' = [parent EXCEPT ![x] = place]
        /\ UNCHANGED <<accessVars, data, counters>>
    BY <1>2 DEF CommitNew
  <2>3. place \in Ids \cup Users
    BY <2>1 DEF PlacesOf, Ids
  <2> HIDE DEF x, place
  <2> QED BY <2>1, <2>2, <2>3 DEF TypeOK, TablesOK, accessVars, counters
<1>3. CASE CommitDelete(q)
  <2> DEFINE x == request[q].call.row
  <2>1. x \in Ids /\ rows' = rows \ ({x} \cup Children(x)) /\ level' = LinksWithout(x)
        /\ UNCHANGED <<parent, role, data, counters>>
    BY <1>1, <1>3, CallFacts DEF CommitDelete
  <2>2. x \notin data /\ data \cap Children(x) = {}
    BY <1>3, <1>1 DEF CommitDelete, MayDelete
  <2>3. level' \in [Users -> [Projects -> Levels \cup {"none"}]]
    BY <2>1 DEF LinksWithout, TypeOK
  <2> HIDE DEF x
  <2> QED BY <2>1, <2>2, <2>3 DEF TypeOK, TablesOK, counters
<1>4. CASE CommitAssign(q)
  <2>1. level' \in [Users -> [Projects -> Levels \cup {"none"}]]
    <3>1. request[q].call.under \in Users /\ request[q].call.row \in Projects
          /\ request[q].call.level \in Levels
      BY <1>1, <1>4, CallFacts DEF CommitAssign
    <3> QED BY <3>1, <1>4 DEF CommitAssign, TypeOK
  <2> QED BY <2>1, <1>4 DEF CommitAssign, TypeOK, TablesOK, treeVars, counters
<1> QED BY <1>2, <1>3, <1>4

LEMMA TypesKept == TypeOK /\ [Next]_vars => TypeOK'
<1> SUFFICES ASSUME TypeOK, [Next]_vars PROVE TypeOK'
  OBVIOUS
<1>0. TablesOK /\ request \in [Requests -> {Idle} \cup Running]
      /\ started \in 0..MaxRequests /\ changed \in 0..MaxRoleChanges
  BY DEF TypeOK, TablesOK
<1>1. CASE UNCHANGED vars
  BY <1>1 DEF TypeOK, vars, treeVars, accessVars, counters
<1>2. CASE Next
  <2>1. held' \in [Requests -> SUBSET (Projects \X Needs)]
    BY <1>2, RememberTypes DEF Next
  <2>2. SUFFICES TablesOK' /\ request' \in [Requests -> {Idle} \cup Running]
                 /\ started' \in 0..MaxRequests /\ changed' \in 0..MaxRoleChanges
    BY <2>1 DEF TypeOK, TablesOK
  <2>3. CASE \E q \in Requests, u \in Users, call \in Calls : Begin(q, u, call)
    <3>1. PICK q \in Requests, u \in Users, call \in Calls : Begin(q, u, call)
      BY <2>3
    <3> QED BY <3>1, <1>0, Begins DEF Others, TablesOK, treeVars, accessVars
  <2>4. CASE \E q \in Requests : RequestStep(q)
    <3>1. PICK q \in Requests : RequestStep(q)
      BY <2>4
    <3>2. request' \in [Requests -> {Idle} \cup Running] /\ UNCHANGED counters
      BY <3>1, RequestSteps DEF Others, unchangedRows
    <3>3. CASE UNCHANGED unchangedRows
      BY <3>2, <3>3, <1>0 DEF unchangedRows, TablesOK, treeVars, accessVars, counters
    <3>4. CASE CommitNew(q) \/ CommitDelete(q) \/ CommitAssign(q)
      BY <3>2, <3>4, <1>0, CommitTypes DEF counters
    <3> QED BY <3>1, <3>3, <3>4, RequestSteps
  <2>5. CASE \E u \in Users, r \in Roles : ChangeRole(u, r)
    <3>1. PICK u \in Users, r \in Roles : ChangeRole(u, r)
      BY <2>5
    <3>2. role' \in [Users -> Roles] /\ level' \in [Users -> [Projects -> Levels \cup {"none"}]]
      BY <3>1, <1>0 DEF ChangeRole, TablesOK
    <3>3. changed' \in 0..MaxRoleChanges
      BY <3>1, <1>0, BoundAssumption DEF ChangeRole
    <3> QED BY <3>1, <3>2, <3>3, <1>0 DEF ChangeRole, TablesOK, treeVars
  <2>6. CASE \E r \in Channels \cup Projects : Refer(r)
    BY <2>6, <1>0 DEF Refer, TablesOK, treeVars, accessVars, counters
  <2> QED BY <1>2, <2>3, <2>4, <2>5, <2>6 DEF Next
<1> QED BY <1>1, <1>2

\* The tables, the requests and the history keep their types, for any tree, users and
\* number of concurrent requests: references lead to rows of the right table and readings
\* and models are never left without their row (topology services and dependencies.py).
THEOREM TopologyTypeCorrect == Spec => []TypeOK
BY InitTypes, TypesKept, PTL DEF Spec

-----------------------------------------------------------------------------
(* The tree is kept.                                                        *)

LEMMA InitTree == Init => TreeInv
<1> SUFFICES ASSUME Init PROVE TreeInv
  OBVIOUS
<1> USE DEF Init
<1>1. \A r \in Ids : parent[r] # Nothing =>
        parent[r] \in PlacesOf(r) /\ (r \notin Projects => parent[r] \in rows)
  BY SeedTreeAssumption, TablesAreDisjoint DEF PlacesOf, Ids
<1>2. Placed /\ Rooted
  BY <1>1 DEF Placed, PlacedIn, Rooted
<1>3. CodesUnique
  <2>1. \A A \in {Devices, Sensors, Channels} : \A x, y \in A \cap rows :
          CodeOf[x] = CodeOf[y] /\ (x \in Devices \/ parent[x] = parent[y]) => x = y
    BY SeedTreeAssumption
  <2>2. \A x, y \in rows \ (Projects \cup Devices) :
          parent[x] = parent[y] => {x, y} \subseteq Sensors \/ {x, y} \subseteq Channels
    BY <1>1, TablesAreDisjoint, SeedAssumption DEF PlacesOf, Ids
  <2> QED BY <2>1, <2>2 DEF CodesUnique
<1>4. AddsAreNew
  BY DEF AddsAreNew, Adding
<1> QED BY <1>2, <1>3, <1>4 DEF TreeInv

\* A new row.
LEMMA NewKeepsTree ==
  ASSUME TypeOK, TreeInv, NEW q \in Requests, CommitNew(q)
  PROVE  Placed' /\ Rooted' /\ CodesUnique'
         /\ parent' = [parent EXCEPT ![request[q].call.row] = request[q].call.under]
         /\ parent[request[q].call.row] = Nothing
<1> DEFINE x == request[q].call.row
           place == request[q].call.under
<1>1. request[q] # Idle /\ request[q].call \in Calls /\ request[q].call.op = "add"
      /\ request[q].stage = "tested"
  BY RequestFacts DEF CommitNew, At
<1>2. x \in Ids /\ place \in PlacesOf(x)
  BY <1>1, CallFacts
<1>3. rows' = rows \cup {x} /\ parent' = [parent EXCEPT ![x] = place]
  BY DEF CommitNew
<1>4. parent[x] = Nothing /\ x \notin rows
  BY <1>1 DEF TreeInv, AddsAreNew, Adding, Rooted
<1>5. x \notin Projects => place \in rows
  BY DEF CommitNew
<1>6. /\ x \in Devices => DeviceCodeFree(x)
      /\ x \in Sensors \cup Channels => CodeFreeAt(x, place)
  BY DEF CommitNew, CodeFree
<1>7. Placed /\ Rooted /\ CodesUnique
  BY DEF TreeInv
<1>8. place # Nothing
  BY <1>2, TablesAreDisjoint DEF PlacesOf, Ids
<1> HIDE DEF x, place
<1>9. parent'[x] = place /\ \A r \in Ids \ {x} : parent'[r] = parent[r]
  BY <1>2, <1>3 DEF TypeOK
<1>10. \A r \in Ids : parent[r] # Nothing => parent'[r] = parent[r]
  BY <1>4, <1>9
<1>11. place \in rows => place # x /\ parent'[place] # Nothing
  BY <1>4, <1>7, <1>10 DEF Rooted, TypeOK
<1>12. \A r \in rows : r # x /\ parent'[r] = parent[r]
  BY <1>4, <1>9 DEF TypeOK
<1>13. Placed'
  <2>1. ASSUME NEW r \in Ids, parent'[r] # Nothing, r # x
        PROVE  parent'[r] \in PlacesOf(r) /\ (r \notin Projects => parent'[parent'[r]] # Nothing)
    <3>1. parent[r] # Nothing /\ parent'[r] = parent[r] /\ parent[r] \in PlacesOf(r)
      BY <2>1, <1>7, <1>9 DEF Placed, PlacedIn
    <3>2. r \notin Projects => parent[r] \in Ids /\ parent[parent[r]] # Nothing
      BY <2>1, <3>1, <1>7 DEF Placed, PlacedIn, PlacesOf, Ids
    <3> QED BY <3>1, <3>2, <1>10
  <2>2. parent'[x] \in PlacesOf(x) /\ (x \notin Projects => parent'[parent'[x]] # Nothing)
    BY <1>2, <1>5, <1>9, <1>11
  <2> QED BY <2>1, <2>2 DEF Placed, PlacedIn
<1>14. Rooted'
  BY <1>3, <1>5, <1>7, <1>8, <1>9, <1>12 DEF Rooted
<1>15. CodesUnique'
  <2>1. \A d \in rows \cap Devices : x \in Devices => CodeOf[d] # CodeOf[x]
    BY <1>6 DEF DeviceCodeFree
  <2>2. \A y \in rows : parent[y] = place /\ x \in Sensors \cup Channels => CodeOf[y] # CodeOf[x]
    BY <1>6 DEF CodeFreeAt, Children
  <2>3. x \notin Projects \cup Devices => x \in Sensors \cup Channels
    BY <1>2 DEF Ids
  <2> QED BY <2>1, <2>2, <2>3, <1>3, <1>7, <1>9, <1>12 DEF CodesUnique
<1> QED BY <1>3, <1>4, <1>13, <1>14, <1>15 DEF x, place

\* Rows that go have left nothing behind: the children of a sensor are channels, of which
\* nothing is a child, and other rows that go have none.
LEMMA DeleteKeepsTree ==
  ASSUME TypeOK, TreeInv, NEW q \in Requests, CommitDelete(q)
  PROVE  Placed' /\ Rooted' /\ CodesUnique' /\ parent' = parent
<1> DEFINE x == request[q].call.row
<1>1. rows' = rows \ ({x} \cup Children(x)) /\ parent' = parent
  BY DEF CommitDelete
<1>2. x \in Sensors \/ Children(x) = {}
  BY DEF CommitDelete, MayDelete
<1> HIDE DEF x
<1>3. Placed /\ Rooted /\ CodesUnique
  BY DEF TreeInv
<1>4. \A y \in Children(x) : y \in Channels
  BY <1>2, TablesAreDisjoint DEF Children, TypeOK, PlacesOf, Ids
<1>5. \A r \in rows \ Projects : parent[r] \notin Channels
  BY TablesAreDisjoint DEF TypeOK, PlacesOf, Ids
<1>6. Rooted'
  BY <1>1, <1>3, <1>4, <1>5 DEF Rooted, Children
<1> QED BY <1>1, <1>3, <1>6 DEF Placed, CodesUnique

LEMMA TreeKept ==
  ASSUME TypeOK, TreeInv, [Next]_vars
  PROVE  TreeInv' /\ \A r \in Ids : parent[r] # Nothing => parent'[r] = parent[r]
<1>0. Placed /\ Rooted /\ CodesUnique /\ AddsAreNew
  BY DEF TreeInv
<1>a. ASSUME UNCHANGED treeVars PROVE Placed' /\ Rooted' /\ CodesUnique' /\ parent' = parent
  BY <1>0, <1>a DEF treeVars, Placed, Rooted, CodesUnique
<1>1. CASE UNCHANGED <<treeVars, request>>
  BY <1>0, <1>1, <1>a DEF TreeInv, AddsAreNew, Adding, treeVars
<1>2. ASSUME NEW q \in Requests, NEW u \in Users, NEW call \in Calls, Begin(q, u, call)
      PROVE  TreeInv' /\ parent' = parent
  <2>1. request[q] = Idle /\ Others(q) /\ request'[q] # Idle /\ request'[q].stage = "begun"
        /\ request'[q].call = call /\ UNCHANGED treeVars
    BY <1>2, Begins
  <2>2. call.op # "add" => parent[call.row] # Nothing
    BY <1>2 DEF Begin
  <2>3. call.op = "add" =>
          /\ parent[call.row] = Nothing
          /\ \A o \in Requests : Adding(o) => request[o].call.row # call.row
    BY <1>2 DEF Begin, Adding
  <2>4. AddsAreNew'
    BY <2>1, <2>2, <2>3, <1>0, <1>a DEF AddsAreNew, Adding, Others
  <2> QED BY <2>1, <2>4, <1>a DEF TreeInv
<1>3. ASSUME NEW q \in Requests, RequestStep(q)
      PROVE  TreeInv' /\ \A r \in Ids : parent[r] # Nothing => parent'[r] = parent[r]
  <2>0. request[q] # Idle /\ Others(q)
    BY <1>3, RequestSteps
  <2>1. CASE request'[q] = Idle /\ UNCHANGED unchangedRows
    <3>1. AddsAreNew'
      BY <2>0, <2>1, <1>0, <1>a DEF AddsAreNew, Adding, Others, unchangedRows
    <3> QED BY <2>1, <3>1, <1>a DEF TreeInv, unchangedRows
  <2>2. CASE /\ GoesOn(q) /\ UNCHANGED unchangedRows
             /\ Adding(q) => request'[q].stage # "done" /\ request[q].stage # "done"
    <3>1. AddsAreNew'
      BY <2>0, <2>2, <1>0, <1>a DEF AddsAreNew, Adding, Others, GoesOn, unchangedRows
    <3> QED BY <2>2, <3>1, <1>a DEF TreeInv, unchangedRows
  <2>3. CASE GoesOn(q) /\ request'[q].stage = "done" /\ CommitNew(q)
    <3> DEFINE x == request[q].call.row
               place == request[q].call.under
    <3>1. Adding(q) /\ request[q].stage = "tested" /\ x \in Ids
      BY <2>3, <2>0, RequestFacts, CallFacts DEF CommitNew, At, Adding
    <3>2. Placed' /\ Rooted' /\ CodesUnique' /\ parent' = [parent EXCEPT ![x] = place]
          /\ parent[x] = Nothing
      BY <2>3, NewKeepsTree
    <3>3. parent'[x] = place /\ \A r \in Ids \ {x} : parent'[r] = parent[r]
      BY <3>1, <3>2 DEF TypeOK
    <3>4. \A o \in Requests \ {q} : request[o] # Idle =>
            request[o].call.row \in Ids /\ request[o].call.row # x
      <4>1. \A o \in Requests : request[o] # Idle => request[o].call.row \in Ids
        BY RequestFacts, CallFacts
      <4> QED BY <4>1, <3>1, <3>2, <1>0 DEF AddsAreNew, Adding
    <3>5. AddsAreNew'
      BY <2>0, <2>3, <3>1, <3>3, <3>4, <1>0 DEF AddsAreNew, Adding, Others, GoesOn
    <3> QED BY <3>2, <3>3, <3>5 DEF TreeInv
  <2>4. CASE GoesOn(q) /\ (CommitDelete(q) \/ CommitAssign(q))
    <3>1. Placed' /\ Rooted' /\ CodesUnique' /\ parent' = parent /\ ~Adding(q)
      BY <2>4, <1>a, DeleteKeepsTree DEF CommitDelete, CommitAssign, Adding
    <3>2. AddsAreNew'
      BY <2>0, <2>4, <3>1, <1>0 DEF AddsAreNew, Adding, Others, GoesOn
    <3> QED BY <3>1, <3>2 DEF TreeInv
  <2> QED BY <1>3, <2>1, <2>2, <2>3, <2>4, RequestSteps DEF Adding
<1> QED BY <1>1, <1>2, <1>3 DEF Next, ChangeRole, Refer, vars

-----------------------------------------------------------------------------
(* Rights.                                                                  *)

\* The row by whose project the permission is checked.
Subject(call) == IF call.op = "add" /\ call.row \notin Projects THEN call.under ELSE call.row

Located(call) == Subject(call) \in Projects \/ (Subject(call) \in Ids /\ parent[Subject(call)] # Nothing)

\* A request that has passed its check: the right it was checked for is remembered.
Passed(q) ==
  /\ Located(request[q].call)
  /\ <<Up(parent, Subject(request[q].call)), request[q].call.need>> \in held[q]

\* One route lets pass everybody who is logged in.
ByRight(q) == request[q].call.need = "login" \/ Passed(q)

RightsInv ==
  \A q \in Requests : request[q] # Idle =>
    /\ RightsOf(role[request[q].user], level[request[q].user]) \subseteq held[q]
    /\ request[q].platform => Projects \X Needs \subseteq held[q]
    /\ request[q].call.need = "platform" => request[q].platform
    /\ request[q].stage # "begun" => ByRight(q)

LEMMA AdministratorMay ==
  ASSUME NEW links PROVE RightsOf("admin", links) = Projects \X Needs
BY DEF RightsOf

\* Whom MayPass lets pass has the right, or had it when the request began.
LEMMA PassesByRight ==
  ASSUME TypeOK, TreeInv, RightsInv, NEW q \in Requests, request[q] # Idle, MayPass(q)
  PROVE  ByRight(q)
<1> SUFFICES ASSUME request[q].call.need # "login" PROVE Passed(q)
  BY DEF ByRight
<1> DEFINE call == request[q].call
           p == Up(parent, Subject(call))
<1>1. call \in Calls /\ request[q].user \in Users
  BY RequestFacts
<1>2. Placed /\ Rooted /\ AddsAreNew
  BY DEF TreeInv
<1>3. Located(call)
  <2>1. CASE call.op # "add" \/ call.row \in Projects
    BY <2>1, <1>1, <1>2, CallFacts DEF Located, Subject, AddsAreNew, Adding
  <2>2. CASE call.op = "add" /\ call.row \notin Projects
    <3>1. call.under \in PlacesOf(call.row) /\ call.need # "platform" /\ call.row \in Ids
      BY <2>2, <1>1, CallFacts
    <3>2. call.under \in rows \cup Projects
      BY <2>2, <3>1, TablesAreDisjoint DEF MayPass, IsLoaded, PlacesOf, Ids
    <3> QED BY <2>2, <3>2, <1>2 DEF Located, Subject, Rooted, TypeOK
  <2> QED BY <2>1, <2>2
<1>4. p \in Projects /\ Concerns(call) = p
  <2>1. Subject(call) \in Ids
    BY <1>3 DEF Located, Ids
  <2>2. p \in Projects
    BY <2>1, <1>2, <1>3, UpFacts DEF Located, Placed
  <2>3. ProjectOf(Subject(call)) = p
    BY <2>1, <1>2, <1>3, ProjectOfIsUp DEF Located
  <2> QED BY <2>2, <2>3 DEF Concerns, Subject
<1>5. call.need \in Needs
  BY <1>1, CallFacts
<1>6. CASE request[q].platform
  BY <1>3, <1>4, <1>5, <1>6 DEF RightsInv, Passed
<1>7. CASE ~request[q].platform
  <2>1. call.need # "platform"
    BY <1>7 DEF RightsInv
  <2>2. Grants(level[request[q].user][p], call.need)
    BY <1>4, <1>5, <1>7, <2>1
    DEF MayPass, MayRead, MayWrite, MayAdminister, Permission, Grants, Needs, Levels
  <2>3. <<p, call.need>> \in RightsOf(role[request[q].user], level[request[q].user])
    BY <1>4, <1>5, <2>2 DEF RightsOf
  <2> QED BY <1>3, <2>3 DEF RightsInv, Passed
<1> QED BY <1>6, <1>7

\* Once passed, a request stays so: rows keep their places.
LEMMA PassedStays ==
  ASSUME TypeOK, TreeInv, [Next]_vars, NEW q \in Requests, request[q] # Idle,
         Passed(q), request'[q].call = request[q].call, held[q] \subseteq held'[q]
  PROVE  Passed(q)'
<1>1. \A r \in Ids : parent[r] # Nothing => parent'[r] = parent[r]
  BY TreeKept
<1>2. Placed /\ Subject(request[q].call) \in Ids
  BY DEF TreeInv, Passed, Located, Ids
<1>3. Up(parent', Subject(request[q].call)) = Up(parent, Subject(request[q].call))
  BY <1>1, <1>2, UpStays DEF Passed, Located, Placed
<1> QED BY <1>1, <1>3 DEF Passed, Located

LEMMA InitRights == Init => RightsInv
BY DEF Init, RightsInv

LEMMA RightsKept ==
  ASSUME TypeOK, TreeInv, RightsInv, Next
  PROVE  RightsInv'
<1>1. Remember
  BY DEF Next
<1>2. ASSUME NEW q \in Requests, request'[q] # Idle
      PROVE  /\ RightsOf(role'[request'[q].user], level'[request'[q].user]) \subseteq held'[q]
             /\ held[q] \subseteq held'[q]
  BY <1>1, <1>2 DEF Remember, TypeOK
<1>3. ASSUME NEW q \in Requests, request'[q] # Idle, request[q] # Idle, GoesOn(q),
             request'[q].stage # "begun" => ByRight(q)
      PROVE  /\ RightsOf(role'[request'[q].user], level'[request'[q].user]) \subseteq held'[q]
             /\ request'[q].platform => Projects \X Needs \subseteq held'[q]
             /\ request'[q].call.need = "platform" => request'[q].platform
             /\ request'[q].stage # "begun" => ByRight(q)'
  BY <1>2, <1>3, PassedStays DEF RightsInv, GoesOn, ByRight
<1>4. ASSUME NEW q \in Requests, request'[q] = request[q], request[q] # Idle
      PROVE  GoesOn(q) /\ (request'[q].stage # "begun" => ByRight(q))
  BY <1>4 DEF RightsInv, GoesOn
<1>5. CASE UNCHANGED request
  BY <1>3, <1>4, <1>5 DEF RightsInv
<1>6. ASSUME NEW b \in Requests, NEW u \in Users, NEW call \in Calls, Begin(b, u, call)
      PROVE  RightsInv'
  <2>1. Others(b) /\ request'[b] # Idle /\ request'[b].stage = "begun"
        /\ request'[b].user = u /\ request'[b].call = call
        /\ request'[b].platform = (role[u] = "admin") /\ UNCHANGED accessVars
    BY <1>6, Begins
  <2>2. request'[b].platform => Projects \X Needs \subseteq held'[b]
    BY <2>1, <1>2, AdministratorMay DEF accessVars
  <2>3. call.need = "platform" => request'[b].platform
    BY <1>6, <2>1 DEF Begin
  <2>4. \A q \in Requests \ {b} : request'[q] = request[q]
    BY <2>1 DEF Others
  <2> QED BY <2>1, <2>2, <2>3, <2>4, <1>2, <1>3, <1>4 DEF RightsInv
<1>7. ASSUME NEW b \in Requests, RequestStep(b)
      PROVE  RightsInv'
  <2>1. request[b] # Idle /\ \A q \in Requests \ {b} : request'[q] = request[q]
    BY <1>7, RequestSteps DEF Others
  <2>2. request'[b] # Idle => GoesOn(b) /\ (request'[b].stage # "begun" => ByRight(b))
    <3>1. request'[b] # Idle => GoesOn(b) /\ (MayPass(b) \/ request[b].stage \in {"permitted", "tested"})
      BY <1>7, RequestSteps
    <3> QED BY <2>1, <3>1, PassesByRight DEF RightsInv
  <2> QED BY <2>1, <2>2, <1>3, <1>4 DEF RightsInv
<1> QED BY <1>5, <1>6, <1>7 DEF Next, ChangeRole, Refer

\* The inductive invariant: ids are not used twice, rows are where rows are, codes are
\* unique in their tables, and the history has each right a request was let pass by.
TopologyInv == TypeOK /\ TreeInv /\ RightsInv

LEMMA RightsStutter == RightsInv /\ UNCHANGED vars => RightsInv'
BY DEF RightsInv, ByRight, Passed, Located, vars, treeVars, accessVars

THEOREM TopologySafe == Spec => []TopologyInv
<1>1. Init => TopologyInv
  BY InitTypes, InitTree, InitRights DEF TopologyInv
<1>2. TopologyInv /\ [Next]_vars => TopologyInv'
  BY TypesKept, TreeKept, RightsKept, RightsStutter DEF TopologyInv
<1> QED BY <1>1, <1>2, PTL DEF Spec

\* Between the check of a permission and the commit roles, links and rows change: what a
\* request was served or changed is still in a project in which its operator had the right
\* since the request began (require_project_read, _write and _admin of dependencies.py).
\* GET /alerts without project_id and channel_id requires none, and is excepted by name.
THEOREM NothingIsDoneWithoutRight == Spec => []NothingWithoutRight
<1>1. TopologyInv => NothingWithoutRight
  <2>a. ASSUME TopologyInv, NEW q \in Requests, At(q, "done"), request[q].call.need = "login"
        PROVE  request[q].call \in AlertRoutes
    BY <2>a, RequestFacts, CallFacts DEF TopologyInv, At
  <2> SUFFICES ASSUME TopologyInv, NEW q \in Requests, At(q, "done"), request[q].call.need # "login"
               PROVE  <<ProjectOf(request[q].call.row), request[q].call.need>> \in held[q]
    BY <2>a DEF NothingWithoutRight
  <2> DEFINE call == request[q].call
  <2>1. TypeOK /\ Placed /\ AddsAreNew /\ Passed(q) /\ call \in Calls /\ request[q] # Idle
    BY RequestFacts DEF TopologyInv, TreeInv, RightsInv, ByRight, At
  <2>2. call.row \in Ids /\ (call.op = "add" => call.under \in PlacesOf(call.row))
    BY <2>1, CallFacts
  <2>3. CASE call.op = "add" /\ call.row \notin Projects
    <3>1. parent[call.row] = call.under /\ Subject(call) = call.under
      BY <2>1, <2>3 DEF AddsAreNew, Adding, At, Subject
    <3>2. call.under # Nothing
      BY <2>2, <2>3, TablesAreDisjoint DEF PlacesOf, Ids
    <3>3. ProjectOf(call.row) = Up(parent, call.row) /\ Up(parent, call.row) = Up(parent, call.under)
      BY <2>1, <2>2, <2>3, <3>1, <3>2, ProjectOfIsUp, UpFacts DEF Placed
    <3> QED BY <2>1, <3>1, <3>3 DEF Passed
  <2>4. CASE call.op # "add" \/ call.row \in Projects
    <3>1. Subject(call) = call.row
      BY <2>4 DEF Subject
    <3>2. ProjectOf(call.row) = Up(parent, call.row)
      BY <2>1, <3>1, ProjectOfIsUp DEF Passed, Located
    <3> QED BY <2>1, <3>1, <3>2 DEF Passed
  <2> QED BY <2>3, <2>4
<1> QED BY <1>1, TopologySafe, PTL

\* Device codes are unique, sensor codes in their device, and a device and a channel code
\* lead to one device and to one channel of each sensor, for any number of requests that
\* test a code and insert it later (the unique constraints of app/models and the tests of
\* the create services).
THEOREM CodesAlwaysLocate == Spec => []CodesLocate
<1>1. TopologyInv => CodesLocate
  <2> SUFFICES ASSUME TopologyInv PROVE CodesLocate
    OBVIOUS
  <2>1. TypeOK /\ Rooted /\ CodesUnique
    BY DEF TopologyInv, TreeInv
  <2>2. ASSUME NEW x \in rows \cap Channels
        PROVE  parent[parent[x]] \in rows \cap Devices
    <3>1. parent[x] \in rows \cap Sensors
      BY <2>1, TablesAreDisjoint DEF TypeOK, Rooted, PlacesOf
    <3> QED BY <2>1, <3>1, TablesAreDisjoint DEF TypeOK, Rooted, PlacesOf
  <2>3. ASSUME NEW c \in rows \cap Channels, NEW d \in rows \cap Channels,
               c # d, CodeOf[c] = CodeOf[d],
               CodeOf[parent[parent[c]]] = CodeOf[parent[parent[d]]]
        PROVE  parent[parent[c]] = parent[parent[d]] /\ parent[c] # parent[d]
    <3>1. c \notin Projects \cup Devices /\ d \notin Projects \cup Devices
      BY TablesAreDisjoint
    <3> QED BY <2>1, <2>2, <2>3, <3>1 DEF CodesUnique
  <2>4. \A s \in rows \cap Sensors : s \notin Projects \cup Devices
    BY TablesAreDisjoint
  <2> QED BY <2>1, <2>3, <2>4 DEF CodesLocate, CodesUnique
<1> QED BY <1>1, TopologySafe, PTL

\* Rows go only as meant, and never leave a row behind whose place they were, although
\* rows are added while the deletion is under way (the delete services and the foreign keys).
THEOREM RowsAreRemovedAsMeant == Spec => RemovalsAreMeant
<1> DEFINE Meant == /\ \A r \in rows \ rows' :
                         /\ r \notin data
                         /\ \E q \in Requests :
                              /\ At(q, "tested") /\ request[q].call.op = "delete"
                              /\ request[q].call.row \in {r} \cup (Sensors \cap {parent[r]})
                    /\ \A r \in rows' \ Projects : parent'[r] \in rows'
<1>1. TopologyInv /\ TopologyInv' /\ [Next]_vars => [Meant]_vars
  <2> SUFFICES ASSUME TopologyInv, TopologyInv', [Next]_vars PROVE Meant
    OBVIOUS
  <2>1. \A r \in rows' \ Projects : parent'[r] \in rows'
    BY DEF TopologyInv, TreeInv, Rooted
  <2>2. ASSUME NEW r \in rows \ rows'
        PROVE  \E q \in Requests : CommitDelete(q)
    <3>1. PICK q \in Requests : RequestStep(q)
      BY <2>2, Begins DEF Next, TopologyInv, ChangeRole, Refer, vars, treeVars
    <3>2. CommitNew(q) \/ CommitDelete(q) \/ CommitAssign(q)
      BY <2>2, <3>1, RequestSteps DEF TopologyInv, unchangedRows, treeVars
    <3> QED BY <2>2, <3>2 DEF CommitNew, CommitAssign, treeVars
  <2>3. ASSUME NEW q \in Requests, CommitDelete(q), NEW r \in rows \ rows'
        PROVE  /\ r \notin data
               /\ At(q, "tested") /\ request[q].call.op = "delete"
               /\ request[q].call.row \in {r} \cup (Sensors \cap {parent[r]})
    BY <2>3 DEF CommitDelete, MayDelete, Children
  <2> QED BY <2>1, <2>2, <2>3
<1>2. TopologyInv /\ [Next]_vars => TopologyInv'
  BY TypesKept, TreeKept, RightsKept, RightsStutter DEF TopologyInv
<1> QED BY <1>1, <1>2, TopologySafe, PTL DEF Spec, RemovalsAreMeant
=============================================================================
