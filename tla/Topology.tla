------------------------------ MODULE Topology ------------------------------
(***************************************************************************)
(* Projects, devices, sensors and channels, who may use them, and the      *)
(* requests that read and change them (app/services/project_service.py,    *)
(* device_service.py, sensor_service.py, channel_service.py with their     *)
(* routers and app/dependencies.py).                                       *)
(*                                                                         *)
(* A request is one READ COMMITTED transaction: it authenticates, checks   *)
(* a permission, reads what its service tests, and commits when get_db     *)
(* ends.  An INSERT that violates a constraint, an UPDATE of a row that is *)
(* gone and a DELETE of a row that is referred to are refused with the     *)
(* whole request.  A row keeps its id, its code and its place: no schema   *)
(* of an update has them.                                                  *)
(***************************************************************************)
EXTENDS Naturals, FiniteSets

CONSTANTS
  Projects, Devices, Sensors, Channels,  \* ids of the rows; an id is never used twice
  Users,
  CodeOf,       \* device_code, sensor_code or channel_code the row is created with
  Requests,     \* requests that may run at the same time
  MaxRequests, MaxRoleChanges, MaxReferred,  \* bounds of the histories
  SeedParent,   \* where the rows are that exist at first: project, device or sensor id
  SeedLevel,    \* the permissions of the users at first
  SeedRole,
  Nothing

Ids == Projects \cup Devices \cup Sensors \cup Channels
Levels == {"read", "write", "admin"}
\* What a route requires: a permission in the project, the role of an administrator of the
\* platform, or only that somebody is logged in.
Needs == Levels \cup {"platform", "login"}
\* off: not active; gone: the row of the user is deleted
Roles == {"admin", "user", "off", "gone"}

ASSUME TablesAreDisjoint ==
  /\ Projects \cap (Devices \cup Sensors \cup Channels \cup Users) = {}
  /\ Devices \cap (Sensors \cup Channels \cup Users) = {}
  /\ Sensors \cap (Channels \cup Users) = {}
  /\ Channels \cap Users = {}
  /\ Nothing \notin Ids \cup Users
\* Where rows of the table of r are: projects belong to the user that created them.
PlacesOf(r) == IF r \in Projects THEN Users
               ELSE IF r \in Devices THEN Projects
               ELSE IF r \in Sensors THEN Devices ELSE Sensors

ASSUME SeedAssumption ==
  /\ SeedParent \in [Ids -> Ids \cup Users \cup {Nothing}]
  /\ SeedLevel \in [Users -> [Projects -> Levels \cup {"none"}]]
  /\ SeedRole \in [Users -> Roles]
\* The rows that exist at first keep the foreign keys and the unique constraints.
ASSUME SeedTreeAssumption ==
  LET seeded == {r \in Ids : SeedParent[r] # Nothing}
      siblings(x, y) == x \in Devices \/ SeedParent[x] = SeedParent[y]
  IN /\ \A r \in seeded : /\ SeedParent[r] \in PlacesOf(r)
                           /\ SeedParent[r] \in seeded \cup Users
     /\ \A A \in {Devices, Sensors, Channels} : \A x, y \in A \cap seeded :
          CodeOf[x] = CodeOf[y] /\ siblings(x, y) => x = y
ASSUME BoundAssumption == {MaxRequests, MaxRoleChanges, MaxReferred} \subseteq Nat

VARIABLES
  rows,     \* the ids that exist
  parent,   \* the foreign key of each row ever created; created_by of a project
  level,    \* user_projects.permission, or none
  role,     \* role and activity of the users
  data,     \* channels with readings, alerts or analysis jobs, projects with 3D models
  request,  \* what each request does and how far it is
  held,     \* history: the rights its operator has had since it began
  started, changed  \* requests begun and roles changed, for the bounds

treeVars == <<rows, parent>>
accessVars == <<level, role>>
counters == <<started, changed>>
vars == <<treeVars, accessVars, data, request, held, counters>>

-----------------------------------------------------------------------------
(* Calls, by router.  `under` is the parent of a new row, or the user a     *)
(* permission is assigned to; `need` is what the route requires.            *)

Route(op, targets, unders, needs) ==
  [op : {op}, row : targets, under : unders, need : needs, level : {"none"}]

ProjectRoutes ==
  Route("use", Projects, {Nothing}, {"read", "platform"})
  \cup Route("update", Projects, {Nothing}, {"platform"})
  \cup Route("add", Projects, Users, {"platform"})
  \cup Route("delete", Projects, {Nothing}, {"platform"})
  \cup [op : {"assign"}, row : Projects, under : Users, need : {"platform"}, level : Levels]

DeviceRoutes ==
  Route("use", Projects, {Nothing}, {"read"})
  \cup Route("use", Devices, {Nothing}, {"read"})
  \cup Route("update", Devices, {Nothing}, {"write"})
  \cup Route("add", Devices, Projects, {"write"})
  \cup Route("delete", Devices, {Nothing}, {"platform"})

SensorRoutes ==
  Route("use", Devices, {Nothing}, {"read"})
  \cup Route("use", Sensors, {Nothing}, {"read"})
  \cup Route("update", Sensors, {Nothing}, {"write"})
  \cup Route("add", Sensors, Devices, {"write"})
  \cup Route("delete", Sensors, {Nothing}, {"platform"})

ChannelRoutes ==
  Route("use", Sensors, {Nothing}, {"read"})
  \cup Route("use", Channels, {Nothing}, {"read"})
  \cup Route("update", Channels, {Nothing}, {"write"})
  \cup Route("add", Channels, Sensors, {"write"})
  \cup Route("delete", Channels, {Nothing}, {"platform"})

DataRoutes == Route("use", Channels, {Nothing}, {"read"})
\* GET /alerts checks the project or the channel that is asked for; without either it
\* checks nothing and serves the alerts of all channels.
AlertRoutes == Route("use", Projects, {Nothing}, {"read"})
               \cup Route("use", Channels, {Nothing}, {"read", "admin", "login"})

Calls == ProjectRoutes \cup DeviceRoutes \cup SensorRoutes \cup ChannelRoutes
           \cup DataRoutes \cup AlertRoutes

Idle == [stage |-> "idle"]
\* platform: the role of the operator as loaded; seen: what the service has read
Running == [stage : {"begun", "permitted", "tested", "done"}, user : Users,
            platform : BOOLEAN, call : Calls, seen : SUBSET (Ids \cup Levels)]

Children(r) == {x \in rows : parent[x] = r}

\* The chain channel, sensor, device, project by which routes find the project.
ProjectOf(r) ==
  LET up(x) == IF x \in Projects THEN x ELSE parent[x] IN up(up(up(r)))

\* The row of the project the call is about; for a new row that of its place.
Concerns(call) == IF call.op = "add" /\ call.row \notin Projects
                  THEN ProjectOf(call.under) ELSE ProjectOf(call.row)

\* What the permissions of a member are meant to allow.
Grants(l, need) ==
  CASE need = "read" -> l # "none"
    [] need = "write" -> l \in {"write", "admin"}
    [] need = "admin" -> l = "admin"
    [] OTHER -> FALSE

\* A user's activity is only tested when the request begins.
RightsOf(r, links) ==
  {x \in Projects \X Needs : r = "admin" \/ Grants(links[x[1]], x[2])}

TypeOK ==
  /\ rows \subseteq Ids
  /\ parent \in [Ids -> Ids \cup Users \cup {Nothing}]
  /\ \A r \in rows : parent[r] \in PlacesOf(r)
  /\ level \in [Users -> [Projects -> Levels \cup {"none"}]]
  /\ role \in [Users -> Roles]
  /\ data \subseteq rows \cap (Channels \cup Projects)
  /\ request \in [Requests -> {Idle} \cup Running]
  /\ held \in [Requests -> SUBSET (Projects \X Needs)]
  /\ started \in 0..MaxRequests /\ changed \in 0..MaxRoleChanges

Init ==
  /\ parent = SeedParent
  /\ rows = {r \in Ids : SeedParent[r] # Nothing}
  /\ level = SeedLevel
  /\ role = SeedRole
  /\ data = {}
  /\ request = [q \in Requests |-> Idle]
  /\ held = [q \in Requests |-> {}]
  /\ started = 0 /\ changed = 0

\* Every step keeps the history: a request remembers each right its operator has had.
Remember ==
  held' = [q \in Requests |-> IF request'[q] = Idle THEN {}
                              ELSE LET u == request'[q].user
                                   IN held[q] \cup RightsOf(role'[u], level'[u])]

At(q, stage) == request[q] # Idle /\ request[q].stage = stage
Advance(q, stage, seen) ==
  request' = [request EXCEPT ![q] = [@ EXCEPT !.stage = stage, !.seen = seen]]
Drop(q) == request' = [request EXCEPT ![q] = Idle]
unchangedRows == <<treeVars, accessVars, data, counters>>

-----------------------------------------------------------------------------
(* The way of a request.                                                    *)

\* get_current_user; routes for administrators test the role that was just loaded.
Begin(q, u, call) ==
  /\ request[q] = Idle /\ started < MaxRequests
  /\ role[u] \in {"admin", "user"}
  /\ call.need = "platform" => role[u] = "admin"
  /\ call.op = "add" =>
       /\ parent[call.row] = Nothing
       /\ call.row \in Projects => call.under = u
       /\ \A o \in Requests : request[o] # Idle => request[o].call.op # "add" \/ request[o].call.row # call.row
  /\ call.op # "add" => parent[call.row] # Nothing
  /\ request' = [request EXCEPT ![q] = [stage |-> "begun", user |-> u,
                   platform |-> role[u] = "admin", call |-> call, seen |-> {}]]
  /\ started' = started + 1
  /\ UNCHANGED <<treeVars, accessVars, data, changed>>

\* The three checks: an administrator passes by the role loaded first, the permission of
\* others is queried now.
Permission(q) == level[request[q].user][Concerns(request[q].call)]
MayRead(q) == request[q].platform \/ Permission(q) # "none"

\* Mutant of MayWrite: every member may.
MayWriteIfMember(q) == MayRead(q)

MayWrite(q) == request[q].platform \/ Permission(q) \in {"write", "admin"}
MayAdminister(q) == request[q].platform \/ Permission(q) = "admin"

\* The route loads the row, or the row the new one is put under; a project is found by id.
IsLoaded(q) ==
  LET call == request[q].call
      r == IF call.op = "add" THEN call.under ELSE call.row
  IN r \in rows \cup Projects \cup Users

MayPass(q) ==
  LET need == request[q].call.need
  IN \/ need \in {"platform", "login"}
     \/ /\ IsLoaded(q)
        /\ need = "read" => MayRead(q)
        /\ need = "write" => MayWrite(q)
        /\ need = "admin" => MayAdminister(q)

Check(q) ==
  /\ At(q, "begun") /\ MayPass(q)
  /\ Advance(q, "permitted", {})
  /\ UNCHANGED unchangedRows

\* What the services test for a new row: its place exists and its code is free among all
\* devices, the sensors of the device, the channels of the sensor.
DeviceCodeFree(r) == \A d \in rows \cap Devices : CodeOf[d] # CodeOf[r]
CodeFreeAt(r, place) == \A x \in Children(place) : CodeOf[x] # CodeOf[r]
CodeFree(call) ==
  /\ call.row \in Devices => DeviceCodeFree(call.row)
  /\ call.row \in Sensors \cup Channels => CodeFreeAt(call.row, call.under)

New(q, table) ==
  /\ At(q, "permitted") /\ request[q].call.op = "add" /\ request[q].call.row \in table
  /\ Advance(q, "tested", {})
  /\ UNCHANGED unchangedRows

CreateProject(q) == New(q, Projects)
CreateDevice(q) ==
  /\ New(q, Devices)
  /\ request[q].call.under \in rows /\ DeviceCodeFree(request[q].call.row)
CreateSensor(q) ==
  /\ New(q, Sensors)
  /\ request[q].call.under \in rows /\ CodeFreeAt(request[q].call.row, request[q].call.under)
CreateChannel(q) ==
  /\ New(q, Channels)
  /\ request[q].call.under \in rows /\ CodeFreeAt(request[q].call.row, request[q].call.under)

\* db.delete loads the row and the rows that refer to it.
LoadForDelete(q, table) ==
  LET r == request[q].call.row
  IN /\ At(q, "permitted") /\ request[q].call.op = "delete" /\ r \in rows \cap table
     /\ Advance(q, "tested", Children(r))
     /\ UNCHANGED unchangedRows

DeleteProject(q) == LoadForDelete(q, Projects)
DeleteDevice(q) == LoadForDelete(q, Devices)
DeleteSensor(q) == LoadForDelete(q, Sensors)
DeleteChannel(q) == LoadForDelete(q, Channels)

\* The row is loaded; what is written into it, if anything differs, nothing here reads.
LoadForUpdate(q, table) ==
  /\ At(q, "permitted") /\ request[q].call.op = "update"
  /\ request[q].call.row \in rows \cap table
  /\ Advance(q, "tested", {})
  /\ UNCHANGED unchangedRows

UpdateProject(q) == LoadForUpdate(q, Projects)
UpdateDevice(q) == LoadForUpdate(q, Devices)
UpdateSensor(q) == LoadForUpdate(q, Sensors)
UpdateChannel(q) == LoadForUpdate(q, Channels)

\* assign_user finds the project, the user and their link.
LoadForAssign(q) ==
  LET call == request[q].call
  IN /\ At(q, "permitted") /\ call.op = "assign"
     /\ call.row \in rows /\ role[call.under] # "gone"
     /\ Advance(q, "tested", {level[call.under][call.row]} \ {"none"})
     /\ UNCHANGED unchangedRows

-----------------------------------------------------------------------------
(* The commit: foreign keys and unique constraints decide again.            *)

\* Mutant of CommitNew: the tables have no unique constraints.
CommitNewUnconstrained(q) ==
  LET call == request[q].call
  IN /\ At(q, "tested") /\ call.op = "add"
     /\ call.under \in rows \/ (call.row \in Projects /\ role[call.under] # "gone")
     /\ rows' = rows \cup {call.row}
     /\ parent' = [parent EXCEPT ![call.row] = call.under]
     /\ Advance(q, "done", {})
     /\ UNCHANGED <<accessVars, data, counters>>

CommitNew(q) ==
  LET call == request[q].call
  IN /\ At(q, "tested") /\ call.op = "add"
     /\ call.under \in rows \/ (call.row \in Projects /\ role[call.under] # "gone")
     /\ CodeFree(call)
     /\ rows' = rows \cup {call.row}
     /\ parent' = [parent EXCEPT ![call.row] = call.under]
     /\ Advance(q, "done", {})
     /\ UNCHANGED <<accessVars, data, counters>>

\* Mutant of MayDelete: readings do not keep the channels of a sensor.
MayDeleteReferred(q) ==
  LET r == request[q].call.row
  IN /\ r \in Sensors => Children(r) \subseteq request[q].seen
     /\ r \notin Sensors => Children(r) = {} /\ r \notin data

\* Projects and devices give up what was loaded with them by setting a NOT NULL column to
\* null; a sensor takes the channels loaded with it along, unless something refers to them.
MayDelete(q) ==
  LET r == request[q].call.row
      seen == request[q].seen
  IN /\ r \in Sensors => Children(r) \subseteq seen /\ data \cap Children(r) = {}
     /\ r \notin Sensors => seen = {} /\ Children(r) = {}
     /\ r \notin data

\* user_links of a project are deleted with it, those added since by the foreign key.
LinksWithout(p) ==
  [u \in Users |-> [o \in Projects |-> IF o = p THEN "none" ELSE level[u][o]]]

\* Mutant of CommitDelete: every relationship cascades.
CommitDeleteCascading(q) ==
  LET r == request[q].call.row
  IN /\ At(q, "tested") /\ request[q].call.op = "delete"
     /\ Children(r) \cap data = {} /\ r \notin data
     /\ rows' = rows \ ({r} \cup Children(r))
     /\ level' = LinksWithout(r)
     /\ Advance(q, "done", {})
     /\ UNCHANGED <<parent, role, data, counters>>

CommitDelete(q) ==
  LET r == request[q].call.row
  IN /\ At(q, "tested") /\ request[q].call.op = "delete"
     /\ MayDelete(q)
     /\ rows' = rows \ ({r} \cup Children(r))
     /\ level' = LinksWithout(r)
     /\ Advance(q, "done", {})
     /\ UNCHANGED <<parent, role, data, counters>>

\* INSERT of the link when none was found, UPDATE when its permission differs, else nothing.
CommitAssign(q) ==
  LET call == request[q].call
      seen == request[q].seen
      now == level[call.under][call.row]
  IN /\ At(q, "tested") /\ call.op = "assign"
     /\ seen = {} => now = "none" /\ call.row \in rows /\ role[call.under] # "gone"
     /\ seen \notin {{}, {call.level}} => now # "none"
     /\ level' = IF seen = {call.level} THEN level
                 ELSE [level EXCEPT ![call.under][call.row] = call.level]
     /\ Advance(q, "done", {})
     /\ UNCHANGED <<treeVars, role, data, counters>>

\* A row is served, or was written and is answered.
Use(q) ==
  /\ \/ At(q, "permitted") /\ request[q].call.op = "use"
     \/ At(q, "tested") /\ request[q].call.op = "update"
  /\ Advance(q, "done", {})
  /\ UNCHANGED unchangedRows

\* A test fails, a constraint is violated, the row has gone, or the connection breaks.
Refuse(q) ==
  /\ request[q] # Idle /\ request[q].stage # "done"
  /\ Drop(q)
  /\ UNCHANGED unchangedRows

Reply(q) ==
  /\ At(q, "done")
  /\ Drop(q)
  /\ UNCHANGED unchangedRows

-----------------------------------------------------------------------------
(* The rest of the platform.                                                *)

\* UserService changes role and activity; a deleted user takes its links along, and one
\* that created a project cannot be deleted.
ChangeRole(u, r) ==
  /\ changed < MaxRoleChanges
  /\ role[u] \notin {"gone", r}
  /\ r = "gone" => \A p \in rows \cap Projects : parent[p] # u
  /\ role' = [role EXCEPT ![u] = r]
  /\ level' = IF r = "gone" THEN [level EXCEPT ![u] = [p \in Projects |-> "none"]] ELSE level
  /\ changed' = changed + 1
  /\ UNCHANGED <<treeVars, data, request, started>>

\* A reading is stored for the channel its codes were resolved to, a job is submitted for
\* it, or a 3D model is uploaded for a project.
Refer(r) ==
  /\ r \in rows \ data /\ Cardinality(data) < MaxReferred
  /\ data' = data \cup {r}
  /\ UNCHANGED <<treeVars, accessVars, request, counters>>

RequestStep(q) ==
  \/ Check(q)
  \/ CreateProject(q) \/ CreateDevice(q) \/ CreateSensor(q) \/ CreateChannel(q)
  \/ UpdateProject(q) \/ UpdateDevice(q) \/ UpdateSensor(q) \/ UpdateChannel(q)
  \/ DeleteProject(q) \/ DeleteDevice(q) \/ DeleteSensor(q) \/ DeleteChannel(q)
  \/ LoadForAssign(q)
  \/ CommitNew(q) \/ CommitDelete(q) \/ CommitAssign(q) \/ Use(q)
  \/ Refuse(q) \/ Reply(q)

Next ==
  /\ \/ \E q \in Requests, u \in Users, call \in Calls : Begin(q, u, call)
     \/ \E q \in Requests : RequestStep(q)
     \/ \E u \in Users, r \in Roles : ChangeRole(u, r)
     \/ \E r \in Channels \cup Projects : Refer(r)
  /\ Remember

Spec == Init /\ [][Next]_vars

-----------------------------------------------------------------------------
(* Properties.                                                              *)

\* Whatever a request was served or changed lies in a project in which its operator had
\* the right the route needs, at some moment since the request began: rights and rows
\* change between the check and the commit, but never the project a row belongs to.  The
\* one exception is the code's: GET /alerts without project_id and channel_id serves the
\* alerts of all projects to every user (routers/alerts.py:37-43), whatever docs/api/alerts.md
\* says in lines 38 and 45.
NothingWithoutRight ==
  \A q \in Requests : At(q, "done") =>
    \/ request[q].call \in AlertRoutes /\ request[q].call.need = "login"
    \/ <<ProjectOf(request[q].call.row), request[q].call.need>> \in held[q]

\* A row goes away only because an administrator deletes it or, if it is a channel, its
\* sensor; never while readings, alerts, jobs or 3D models refer to it; and it leaves no row
\* behind whose place it was, although rows are added while the deletion is under way.  The
\* deletions cascade less than docs/api promises (projects.md:156, devices.md:142,
\* sensors.md:89, channels.md:137): devices, sensors and readings are never taken along.
RemovalsAreMeant ==
  [][/\ \A r \in rows \ rows' :
          /\ r \notin data
          /\ \E q \in Requests :
               /\ At(q, "tested") /\ request[q].call.op = "delete"
               /\ request[q].call.row \in {r} \cup (Sensors \cap {parent[r]})
     /\ \A r \in rows' \ Projects : parent'[r] \in rows']_vars

\* A device code names one device and a sensor code one sensor of its device; the codes
\* of a reading (device_code, channel_code) lead to one device, and to one channel unless
\* two sensors of the device have a channel of that code: also when requests that found a
\* code free commit one after the other.
CodesLocate ==
  /\ \A d, e \in rows \cap Devices : CodeOf[d] = CodeOf[e] => d = e
  /\ \A s, t \in rows \cap Sensors : parent[s] = parent[t] /\ CodeOf[s] = CodeOf[t] => s = t
  /\ \A c, d \in rows \cap Channels :
       /\ c # d
       /\ CodeOf[c] = CodeOf[d]
       /\ CodeOf[parent[parent[c]]] = CodeOf[parent[parent[d]]]
       => parent[parent[c]] = parent[parent[d]] /\ parent[c] # parent[d]
=============================================================================
