----------------------------- MODULE UserAdmin -----------------------------
(***************************************************************************)
(* The users table and the handlers that change who administers the        *)
(* platform: the first-deployment setup (app/services/setup_service.py)    *)
(* and the administration of users (app/services/user_service.py), each    *)
(* handler in one READ COMMITTED transaction that reads, awaits, decides   *)
(* and commits.                                                            *)
(*                                                                         *)
(* A user is one row id with the username it was created with; email and   *)
(* password are columns that only the refusal of a taken email reads.  An  *)
(* UPDATE writes the columns whose new value differs from the row the      *)
(* session loaded, by primary key, and fails when the row is gone.         *)
(***************************************************************************)
CONSTANTS
  Ids,       \* row ids; an id is never used twice
  NameOf,    \* the username of the row
  Requests,  \* handlers that may run at the same time
  Payloads,  \* bodies of PUT /users/{id}
  Nobody     \* no row, or no operator because the route needs none

Rows == [admin : BOOLEAN, active : BOOLEAN]
\* UserAdminUpdate: each field of the payload may be left out; without both, and without
\* an email too, nothing is written.
AllPayloads == [role : {"keep", "admin", "user"}, active : {"keep", "on", "off"}]
NoChange == [role |-> "keep", active |-> "keep"]

ASSUME PayloadsAssumption == Payloads \subseteq AllPayloads
ASSUME NobodyAssumption == Nobody \notin Ids /\ Nobody \notin Rows

VARIABLES
  users,    \* the row of each id, or Nobody
  born,     \* ids that were ever inserted
  request,  \* what each handler does and how far it is
  fresh     \* handlers that counted the other admins, and since then no other
            \* handler committed a change

vars == <<users, born, request, fresh>>

Idle == [stage |-> "idle"]
\* init: counted once, counted twice; others: the operator is
\* authenticated, the target loaded, the guards passed or a password being hashed.
Inits == [stage : {"init counted", "init recounted"}, target : Ids]
Creations == [stage : {"create"}, operator : Ids, target : Ids, admin : BOOLEAN]
Operations == [stage : {"authenticated", "loaded", "guarded", "hashing"}, operator : Ids, target : Ids,
               kind : {"update", "delete", "password"}, payload : Payloads \cup {NoChange}, old : Rows \cup {Nobody}]

Present == {u \in Ids : users[u] # Nobody}
ActiveAdmins == {u \in Present : users[u].admin /\ users[u].active}

TypeOK ==
  /\ users \in [Ids -> Rows \cup {Nobody}]
  /\ born \subseteq Ids
  /\ request \in [Requests -> {Idle} \cup Inits \cup Creations \cup Operations]
  /\ fresh \subseteq Requests

Init ==
  /\ users = [u \in Ids |-> Nobody]
  /\ born = {}
  /\ request = [q \in Requests |-> Idle]
  /\ fresh = {}

-----------------------------------------------------------------------------
Goto(q, state) == request' = [request EXCEPT ![q] = state]

\* The handler commits what it changed and answers.
CommitRow(q, u, row) ==
  /\ users' = [users EXCEPT ![u] = row]
  /\ fresh' = IF row = users[u] THEN fresh \ {q} ELSE {}
  /\ Goto(q, Idle)

\* The handler answers with an error, or has nothing to write.
EndUnchanged(q) ==
  /\ fresh' = fresh \ {q}
  /\ Goto(q, Idle)
  /\ UNCHANGED <<users, born>>

\* The id and the username of a new row are unique among the rows there are.
Insertable(u) ==
  /\ u \notin born
  /\ \A v \in Present : NameOf[v] # NameOf[u]

InsertRow(q, u, admin) ==
  /\ Insertable(u)
  /\ born' = born \cup {u}
  /\ CommitRow(q, u, [admin |-> admin, active |-> TRUE])

-----------------------------------------------------------------------------
(* POST /setup/init-admin: counted, counted again, and then the password is *)
(* hashed in a thread before the row is inserted.                           *)

InitCount(q, u) ==
  /\ request[q] = Idle
  /\ u \notin born
  /\ Present = {}
  /\ Goto(q, [stage |-> "init counted", target |-> u])
  /\ UNCHANGED <<users, born, fresh>>

InitRecount(q) ==
  /\ request[q].stage = "init counted"
  /\ Present = {}
  /\ Goto(q, [request[q] EXCEPT !.stage = "init recounted"])
  /\ UNCHANGED <<users, born, fresh>>

InitCommit(q) ==
  /\ request[q].stage = "init recounted"
  /\ InsertRow(q, request[q].target, TRUE)

-----------------------------------------------------------------------------
(* Administration.  get_current_user and require_admin read the operator's  *)
(* row; the role in the token is not used.                                  *)

Authenticated(u) == u \in ActiveAdmins

CreateUser(q, u, v, admin) ==
  /\ request[q] = Idle
  /\ Authenticated(u)
  /\ Insertable(v)
  /\ Goto(q, [stage |-> "create", operator |-> u, target |-> v, admin |-> admin])
  /\ UNCHANGED <<users, born, fresh>>

CreateCommit(q) ==
  /\ request[q].stage = "create"
  /\ InsertRow(q, request[q].target, request[q].admin)

Operate(q, u, v, kind, payload) ==
  /\ request[q] = Idle
  /\ Authenticated(u)
  /\ Goto(q, [stage |-> "authenticated", operator |-> u, target |-> v, kind |-> kind,
              payload |-> payload, old |-> Nobody])
  /\ UNCHANGED <<users, born, fresh>>

LosesAdmin(r) ==
  r.kind = "delete" \/ r.payload.role = "user" \/ r.payload.active = "off"

OthersThan(u) == ActiveAdmins \ {u}

\* The target is loaded; the operator may not demote, disable or delete itself.
Load(q) ==
  LET r == request[q]
  IN /\ r.stage = "authenticated" /\ r.kind # "password"
     /\ r.target # r.operator
     /\ users[r.target] # Nobody
     /\ Goto(q, [r EXCEPT !.stage = "loaded", !.old = users[r.target]])
     /\ UNCHANGED <<users, born, fresh>>

\* Mutant of CountOthers: the target itself is counted.
CountAll(q) ==
  LET r == request[q]
      counts == LosesAdmin(r) /\ r.old.admin
  IN /\ r.stage = "loaded"
     /\ counts => ActiveAdmins # {}
     /\ Goto(q, [r EXCEPT !.stage = "guarded"])
     /\ fresh' = IF counts THEN fresh \cup {q} ELSE fresh
     /\ UNCHANGED <<users, born>>

\* Whoever was loaded as an admin loses that only if another active admin is
\* counted.
CountOthers(q) ==
  LET r == request[q]
      counts == LosesAdmin(r) /\ r.old.admin
  IN /\ r.stage = "loaded"
     /\ counts => OthersThan(r.target) # {}
     /\ Goto(q, [r EXCEPT !.stage = "guarded"])
     /\ fresh' = IF counts THEN fresh \cup {q} ELSE fresh
     /\ UNCHANGED <<users, born>>

\* Mutant of Updated: a role that was left out is written as NULL.
UpdatedUntested(row, old, payload) ==
  [row EXCEPT
    !.admin = IF payload.role = "keep" THEN Nobody ELSE payload.role = "admin",
    !.active = IF payload.active = "keep" \/ (payload.active = "on") = old.active
               THEN row.active ELSE payload.active = "on"]

Updated(row, old, payload) ==
  [row EXCEPT
    !.admin = IF payload.role = "keep" \/ (payload.role = "admin") = old.admin
              THEN row.admin ELSE payload.role = "admin",
    !.active = IF payload.active = "keep" \/ (payload.active = "on") = old.active
               THEN row.active ELSE payload.active = "on"]

UpdateCommit(q) ==
  LET r == request[q]
  IN /\ r.stage = "guarded"
     /\ r.kind = "update"
     /\ users[r.target] # Nobody
     /\ CommitRow(q, r.target, Updated(users[r.target], r.old, r.payload))
     /\ UNCHANGED born

DeleteCommit(q) ==
  /\ request[q].stage = "guarded"
  /\ request[q].kind = "delete"
  /\ CommitRow(q, request[q].target, Nobody)
  /\ UNCHANGED born

\* An operator that stays an active admin is its own target: the row loaded with the
\* token is compared, so at most its email is written.
UpdateSelf(q) ==
  LET r == request[q]
  IN /\ r.stage = "authenticated" /\ r.kind = "update"
     /\ r.target = r.operator /\ ~ LosesAdmin(r)
     /\ users[r.target] # Nobody
     /\ EndUnchanged(q)

\* admin_reset_password loads any user, hashes in a thread and writes one column by
\* primary key.
HashPassword(q) ==
  LET r == request[q]
  IN /\ r.stage = "authenticated" /\ r.kind = "password"
     /\ users[r.target] # Nobody
     /\ Goto(q, [r EXCEPT !.stage = "hashing"])
     /\ UNCHANGED <<users, born, fresh>>

ResetPassword(q) ==
  /\ request[q].stage = "hashing"
  /\ users[request[q].target] # Nobody
  /\ EndUnchanged(q)

\* A guard refused, a constraint or the database raised, the row to update is
\* gone: the transaction is rolled back.
Refuse(q) ==
  /\ request[q] # Idle
  /\ EndUnchanged(q)

-----------------------------------------------------------------------------
Next ==
  \E q \in Requests :
    \/ \E u \in Ids : InitCount(q, u)
    \/ InitRecount(q) \/ InitCommit(q)
    \/ \E u, v \in Ids, admin \in BOOLEAN : CreateUser(q, u, v, admin)
    \/ CreateCommit(q)
    \/ \E u, v \in Ids :
         \/ \E payload \in Payloads : Operate(q, u, v, "update", payload)
         \/ \E kind \in {"delete", "password"} : Operate(q, u, v, kind, NoChange)
    \/ Load(q) \/ CountOthers(q) \/ UpdateCommit(q) \/ DeleteCommit(q)
    \/ UpdateSelf(q) \/ HashPassword(q) \/ ResetPassword(q)
    \/ Refuse(q)

Spec == Init /\ [][Next]_vars

-----------------------------------------------------------------------------
(* Properties.                                                             *)

\* docs/api/users.md:110, no operation costs an initialized platform its last
\* active admin.  It holds while handlers run one after the other: setup creates an
\* admin and an operator outlives its own request.  It does not hold for two
\* handlers, because user_service counts before it commits.
AdminRemains == born # {} => ActiveAdmins # {}

\* A handler that counted and was not overtaken by a commit leaves an active
\* admin, even if its operator was demoted or deleted before it counted.
CountedCommitKeepsAdmin ==
  [][\A q \in fresh : request[q].stage = "guarded" /\ request'[q] = Idle
       => ActiveAdmins' # {}]_vars

-----------------------------------------------------------------------------
(* Strengthenings: with one handler its operator stays another active admin *)
(* than its target; a fresh count still holds.                              *)

OperatorAdministers ==
  \A q \in Requests :
    /\ request[q].stage \in {"create", "authenticated", "loaded", "guarded"} =>
         request[q].operator \in ActiveAdmins
    /\ request[q].stage \in {"loaded", "guarded"} =>
         request[q].operator # request[q].target

RowsAreBorn == Present \subseteq born
SerialInvariant == RowsAreBorn /\ OperatorAdministers /\ AdminRemains

CountHolds ==
  \A q \in fresh :
    /\ request[q].stage = "guarded"
    /\ OthersThan(request[q].target) # {}
=============================================================================
