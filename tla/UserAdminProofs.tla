-------------------------- MODULE UserAdminProofs --------------------------
(***************************************************************************)
(* Proofs about UserAdmin: type correctness, the last active admin under   *)
(* one handler at a time, and what the count guarantees under any number   *)
(* of handlers.                                                            *)
(***************************************************************************)
EXTENDS UserAdmin, TLAPS

\* The stage of a request tells which kind of record it is.
LEMMA StageTypes ==
  ASSUME TypeOK, NEW q \in Requests
  PROVE  /\ request[q].stage \in {"init counted", "init recounted"} => request[q] \in Inits
         /\ request[q].stage = "create" => request[q] \in Creations
         /\ request[q].stage \in {"authenticated", "loaded", "guarded", "hashing"}
              => request[q] \in Operations
<1>1. request[q] \in {Idle} \cup Inits \cup Creations \cup Operations
  BY DEF TypeOK
<1>2. request[q] = Idle => request[q].stage = "idle"
  BY DEF Idle
<1>3. request[q] \in Inits => request[q].stage \in {"init counted", "init recounted"}
  BY DEF Inits
<1>4. request[q] \in Creations => request[q].stage = "create"
  BY DEF Creations
<1>5. request[q] \in Operations =>
        request[q].stage \in {"authenticated", "loaded", "guarded", "hashing"}
  BY DEF Operations
<1> QED BY <1>1, <1>2, <1>3, <1>4, <1>5

LEMMA CommitTypes ==
  ASSUME TypeOK, NEW q \in Requests, NEW u \in Ids, NEW row \in Rows \cup {Nobody},
         CommitRow(q, u, row), born' \subseteq Ids
  PROVE  TypeOK'
BY DEF TypeOK, CommitRow, Goto

LEMMA InsertTypes ==
  ASSUME TypeOK, NEW q \in Requests, NEW u \in Ids, NEW admin \in BOOLEAN,
         InsertRow(q, u, admin)
  PROVE  TypeOK'
<1>1. [admin |-> admin, active |-> TRUE] \in Rows \cup {Nobody}
  BY DEF Rows
<1>2. born' \subseteq Ids /\ CommitRow(q, u, [admin |-> admin, active |-> TRUE])
  BY DEF InsertRow, TypeOK
<1> QED BY <1>1, <1>2, CommitTypes

\* A request that goes on with a record of its type.
LEMMA GotoTypes ==
  ASSUME TypeOK, NEW q \in Requests, UNCHANGED <<users, born>>, fresh' \subseteq Requests,
         NEW state \in {Idle} \cup Inits \cup Creations \cup Operations, Goto(q, state)
  PROVE  TypeOK'
BY DEF TypeOK, Goto

LEMMA UpdatedTypes ==
  ASSUME NEW row \in Rows, NEW old, NEW payload
  PROVE  Updated(row, old, payload) \in Rows
<1>1. row.admin \in BOOLEAN /\ row.active \in BOOLEAN
  BY DEF Rows
<1> QED BY <1>1 DEF Rows, Updated

\* Whoever asks, races or is refused, the table and the requests keep their types.
LEMMA NextTypes == TypeOK /\ [Next]_vars => TypeOK'
<1> SUFFICES ASSUME TypeOK, [Next]_vars
             PROVE  TypeOK'
  OBVIOUS
<1>1. ASSUME NEW q \in Requests, NEW u \in Ids, InitCount(q, u)
      PROVE  TypeOK'
  <2>1. [stage |-> "init counted", target |-> u] \in Inits
    BY DEF Inits
  <2> QED BY <1>1, <2>1, GotoTypes DEF InitCount, TypeOK
<1>2. ASSUME NEW q \in Requests, InitRecount(q)
      PROVE  TypeOK'
  <2>1. request[q] \in Inits
    BY <1>2, StageTypes DEF InitRecount
  <2>2. [request[q] EXCEPT !.stage = "init recounted"] \in Inits
    BY <2>1 DEF Inits
  <2> QED BY <1>2, <2>2, GotoTypes DEF InitRecount, TypeOK
<1>3. ASSUME NEW q \in Requests, InitCommit(q)
      PROVE  TypeOK'
  <2>1. request[q].target \in Ids
    BY <1>3, StageTypes DEF InitCommit, Inits
  <2> QED BY <1>3, <2>1, InsertTypes DEF InitCommit
<1>4. ASSUME NEW q \in Requests, NEW u \in Ids, NEW v \in Ids, NEW admin \in BOOLEAN,
             CreateUser(q, u, v, admin)
      PROVE  TypeOK'
  <2>1. [stage |-> "create", operator |-> u, target |-> v, admin |-> admin] \in Creations
    BY DEF Creations
  <2> QED BY <1>4, <2>1, GotoTypes DEF CreateUser, TypeOK
<1>5. ASSUME NEW q \in Requests, CreateCommit(q)
      PROVE  TypeOK'
  <2>1. request[q].target \in Ids /\ request[q].admin \in BOOLEAN
    BY <1>5, StageTypes DEF CreateCommit, Creations
  <2> QED BY <1>5, <2>1, InsertTypes DEF CreateCommit
<1>6. ASSUME NEW q \in Requests, NEW u \in Ids, NEW v \in Ids,
             NEW kind \in {"update", "delete", "password"}, NEW payload \in Payloads \cup {NoChange},
             Operate(q, u, v, kind, payload)
      PROVE  TypeOK'
  <2>1. [stage |-> "authenticated", operator |-> u, target |-> v, kind |-> kind,
         payload |-> payload, old |-> Nobody] \in Operations
    BY DEF Operations
  <2> QED BY <1>6, <2>1, GotoTypes DEF Operate, TypeOK
<1>7. ASSUME NEW q \in Requests, Load(q)
      PROVE  TypeOK'
  <2>1. request[q] \in Operations
    BY <1>7, StageTypes DEF Load
  <2>2. users[request[q].target] \in Rows
    BY <1>7, <2>1 DEF Load, Operations, TypeOK
  <2>3. [request[q] EXCEPT !.stage = "loaded", !.old = users[request[q].target]]
          \in Operations
    BY <2>1, <2>2 DEF Operations
  <2> QED BY <1>7, <2>3, GotoTypes DEF Load, TypeOK
<1>8. ASSUME NEW q \in Requests, CountOthers(q)
      PROVE  TypeOK'
  <2>1. request[q] \in Operations
    BY <1>8, StageTypes DEF CountOthers
  <2>2. [request[q] EXCEPT !.stage = "guarded"] \in Operations
    BY <2>1 DEF Operations
  <2>3. fresh' \subseteq Requests
    BY <1>8 DEF CountOthers, TypeOK
  <2> QED BY <1>8, <2>2, <2>3, GotoTypes DEF CountOthers
<1>9. ASSUME NEW q \in Requests, UpdateCommit(q)
      PROVE  TypeOK'
  <2>1. request[q] \in Operations
    BY <1>9, StageTypes DEF UpdateCommit
  <2>2. request[q].target \in Ids /\ users[request[q].target] \in Rows
    BY <1>9, <2>1 DEF UpdateCommit, Operations, TypeOK
  <2>3. Updated(users[request[q].target], request[q].old, request[q].payload) \in Rows
    BY <2>2, UpdatedTypes
  <2> QED BY <1>9, <2>2, <2>3, CommitTypes DEF UpdateCommit, TypeOK
<1>10. ASSUME NEW q \in Requests, DeleteCommit(q)
       PROVE  TypeOK'
  <2>1. request[q].target \in Ids
    BY <1>10, StageTypes DEF DeleteCommit, Operations
  <2> QED BY <1>10, <2>1, CommitTypes DEF DeleteCommit, TypeOK
<1>11. ASSUME NEW q \in Requests, Refuse(q)
       PROVE  TypeOK'
  BY <1>11 DEF Refuse, EndUnchanged, Goto, TypeOK
<1>12. CASE UNCHANGED vars
  BY <1>12 DEF vars, TypeOK
<1>13. ASSUME NEW q \in Requests, UpdateSelf(q) \/ ResetPassword(q)
       PROVE  TypeOK'
  BY <1>13 DEF UpdateSelf, ResetPassword, EndUnchanged, Goto, TypeOK
<1>14. ASSUME NEW q \in Requests, HashPassword(q)
       PROVE  TypeOK'
  <2>1. request[q] \in Operations
    BY <1>14, StageTypes DEF HashPassword
  <2>2. [request[q] EXCEPT !.stage = "hashing"] \in Operations
    BY <2>1 DEF Operations
  <2> QED BY <1>14, <2>2, GotoTypes DEF HashPassword, TypeOK
<1> QED BY <1>1, <1>2, <1>3, <1>4, <1>5, <1>6, <1>7, <1>8, <1>9, <1>10, <1>11,
           <1>12, <1>13, <1>14 DEF Next

\* The table and the requests keep their types.
THEOREM UsersTypeCorrect == Spec => []TypeOK
<1>1. Init => TypeOK
  BY DEF Init, TypeOK
<1> QED BY <1>1, NextTypes, PTL DEF Spec

-----------------------------------------------------------------------------
(* What a count guarantees, under any number of handlers.                   *)

\* A commit changes at most the row of its target.
LEMMA CommitKeepsOthers ==
  ASSUME TypeOK, NEW q \in Requests, NEW u \in Ids, NEW row, CommitRow(q, u, row)
  PROVE  OthersThan(u)' = OthersThan(u)
<1>1. \A v \in Ids : v # u => users'[v] = users[v]
  BY DEF CommitRow, TypeOK
<1> QED BY <1>1 DEF OthersThan, ActiveAdmins, Present

\* It leaves the other handlers fresh only if it changed nothing.
LEMMA CommitKeepsCount ==
  ASSUME TypeOK, CountHolds, NEW q \in Requests, NEW u \in Ids, NEW row,
         CommitRow(q, u, row)
  PROVE  CountHolds'
<1>1. CASE row = users[u]
  <2>1. users' = users /\ fresh' = fresh \ {q}
    BY <1>1 DEF CommitRow, TypeOK
  <2>2. \A p \in fresh' : request'[p] = request[p]
    BY <2>1 DEF CommitRow, Goto, TypeOK
  <2> QED BY <2>1, <2>2 DEF CountHolds, OthersThan, ActiveAdmins, Present
<1>2. CASE row # users[u]
  BY <1>2 DEF CommitRow, CountHolds
<1> QED BY <1>1, <1>2

\* A handler that is not guarded goes on: it was not fresh and is not.
LEMMA GotoKeepsCount ==
  ASSUME TypeOK, CountHolds, NEW q \in Requests, NEW state, Goto(q, state),
         UNCHANGED <<users, fresh>>, request[q].stage # "guarded"
  PROVE  CountHolds'
<1>1. q \notin fresh
  BY DEF CountHolds
<1>2. \A p \in fresh' : request'[p] = request[p]
  BY <1>1 DEF Goto, TypeOK
<1> QED BY <1>2 DEF CountHolds, OthersThan, ActiveAdmins, Present

LEMMA NextKeepsCount == TypeOK /\ CountHolds /\ [Next]_vars => CountHolds'
<1> SUFFICES ASSUME TypeOK, CountHolds, [Next]_vars
             PROVE  CountHolds'
  OBVIOUS
<1>1. ASSUME NEW q \in Requests, InitRecount(q) \/ Load(q) \/ HashPassword(q)
      PROVE  CountHolds'
    BY <1>1, GotoKeepsCount DEF InitRecount, Load, HashPassword
<1>2. ASSUME NEW q \in Requests, NEW u \in Ids, NEW v \in Ids, NEW admin, NEW kind, NEW payload,
             InitCount(q, u) \/ CreateUser(q, u, v, admin) \/ Operate(q, u, v, kind, payload)
      PROVE  CountHolds'
  <2>1. request[q] = Idle /\ Idle.stage # "guarded"
    BY <1>2 DEF InitCount, CreateUser, Operate, Idle
  <2> QED BY <1>2, <2>1, GotoKeepsCount DEF InitCount, CreateUser, Operate
<1>3. ASSUME NEW q \in Requests, InitCommit(q) \/ CreateCommit(q)
      PROVE  CountHolds'
  <2>1. request[q].target \in Ids
    BY <1>3, StageTypes DEF InitCommit, CreateCommit, Inits, Creations
  <2> QED BY <1>3, <2>1, CommitKeepsCount DEF InitCommit, CreateCommit, InsertRow
<1>4. ASSUME NEW q \in Requests, UpdateCommit(q) \/ DeleteCommit(q)
      PROVE  CountHolds'
  <2>1. request[q].target \in Ids
    BY <1>4, StageTypes DEF UpdateCommit, DeleteCommit, Operations
  <2> QED BY <1>4, <2>1, CommitKeepsCount DEF UpdateCommit, DeleteCommit
<1>5. ASSUME NEW q \in Requests, CountOthers(q)
      PROVE  CountHolds'
  <2> DEFINE r == request[q]
  <2>1. r.stage = "loaded" /\ q \notin fresh /\ r \in Operations
    BY <1>5, StageTypes DEF CountOthers, CountHolds
  <2>2. request' = [request EXCEPT ![q] = [r EXCEPT !.stage = "guarded"]]
    BY <1>5 DEF CountOthers, Goto
  <2>3. request'[q].stage = "guarded" /\ request'[q].target = r.target
    BY <2>1, <2>2 DEF TypeOK, Operations
  <2>4. \A p \in fresh : request'[p] = request[p]
    BY <2>1, <2>2 DEF TypeOK
  <2>5. OthersThan(r.target) # {} \/ fresh' = fresh
    BY <1>5 DEF CountOthers
  <2>6. fresh' \subseteq fresh \cup {q} /\ users' = users
    BY <1>5 DEF CountOthers
  <2> QED BY <2>3, <2>4, <2>5, <2>6, <2>1 DEF CountHolds, OthersThan, ActiveAdmins, Present
<1>6. ASSUME NEW q \in Requests, Refuse(q) \/ UpdateSelf(q) \/ ResetPassword(q)
      PROVE  CountHolds'
  <2>1. EndUnchanged(q)
    BY <1>6 DEF Refuse, UpdateSelf, ResetPassword
  <2>2. \A p \in fresh' : p \in fresh /\ request'[p] = request[p]
    BY <2>1 DEF EndUnchanged, Goto, TypeOK
  <2> QED BY <2>1, <2>2 DEF EndUnchanged, CountHolds, OthersThan, ActiveAdmins, Present
<1>7. CASE UNCHANGED vars
  BY <1>7 DEF vars, CountHolds, OthersThan, ActiveAdmins, Present
<1> QED BY <1>1, <1>2, <1>3, <1>4, <1>5, <1>6, <1>7 DEF Next

\* However many handlers run, one that counted another active admin and is not
\* overtaken by a commit leaves an active admin.
THEOREM CountsProtectLastAdmin == Spec => CountedCommitKeepsAdmin
<1>1. Init => CountHolds
  BY DEF Init, CountHolds
<1>2. TypeOK /\ CountHolds /\ [Next]_vars =>
        [\A q \in fresh : request[q].stage = "guarded" /\ request'[q] = Idle
           => ActiveAdmins' # {}]_vars
  <2> SUFFICES ASSUME TypeOK, CountHolds, Next, NEW q \in fresh,
                      request[q].stage = "guarded", request'[q] = Idle
               PROVE  ActiveAdmins' # {}
    OBVIOUS
  <2>1. q \in Requests /\ request[q] \in Operations /\ request[q].target \in Ids
    BY StageTypes DEF TypeOK, Operations
  <2>2. OthersThan(request[q].target) # {}
    BY DEF CountHolds
  <2>3. UpdateCommit(q) \/ DeleteCommit(q) \/ users' = users
    <3>1. PICK p \in Requests :
            \/ \E u \in Ids : InitCount(p, u)
            \/ InitRecount(p) \/ InitCommit(p)
            \/ \E u, v \in Ids, admin \in BOOLEAN : CreateUser(p, u, v, admin)
            \/ CreateCommit(p)
            \/ \E u, v \in Ids :
                 \/ \E payload \in Payloads : Operate(p, u, v, "update", payload)
                 \/ \E kind \in {"delete", "password"} : Operate(p, u, v, kind, NoChange)
            \/ Load(p) \/ CountOthers(p) \/ UpdateCommit(p) \/ DeleteCommit(p)
            \/ UpdateSelf(p) \/ HashPassword(p) \/ ResetPassword(p)
            \/ Refuse(p)
      BY DEF Next
    <3>2. request[q] # Idle
      BY DEF Idle
    <3>3. CASE p = q
      BY <2>1, <3>1, <3>3 DEF InitCount, InitRecount, InitCommit, CreateUser, CreateCommit,
                              Operate, Load, CountOthers, Refuse, EndUnchanged,
                              UpdateSelf, HashPassword, ResetPassword
    <3>4. CASE p # q
      <4>1. \E state : request' = [request EXCEPT ![p] = state]
        BY <3>1 DEF InitCount, InitRecount, InitCommit, CreateUser, CreateCommit, Operate,
                    Load, CountOthers, UpdateCommit, DeleteCommit, Refuse, EndUnchanged,
                    UpdateSelf, HashPassword, ResetPassword,
                    InsertRow, CommitRow, Goto
      <4>2. request'[q] = request[q]
        BY <2>1, <3>4, <4>1 DEF TypeOK
      <4> QED BY <3>2, <4>2
    <3> QED BY <3>3, <3>4
  <2>4. CASE UpdateCommit(q) \/ DeleteCommit(q)
    <3>1. PICK row : CommitRow(q, request[q].target, row)
      BY <2>4 DEF UpdateCommit, DeleteCommit
    <3>2. \A v \in Ids : v # request[q].target => users'[v] = users[v]
      BY <2>1, <3>1 DEF CommitRow, TypeOK
    <3> QED BY <2>2, <3>2 DEF OthersThan, ActiveAdmins, Present
  <2>5. CASE users' = users
    BY <2>2, <2>5 DEF OthersThan, ActiveAdmins, Present
  <2> QED BY <2>3, <2>4, <2>5
<1> QED BY <1>1, <1>2, UsersTypeCorrect, NextKeepsCount, PTL DEF Spec, CountedCommitKeepsAdmin

-----------------------------------------------------------------------------
(* The last active admin under one handler at a time.                       *)

OneHandler == \A p, q \in Requests : p = q

\* A request that writes nothing and whose operator, if it has one, administers.
LEMMA GotoKeepsSerial ==
  ASSUME TypeOK, OneHandler, SerialInvariant, NEW q \in Requests, NEW state, Goto(q, state),
         UNCHANGED <<users, born>>,
         state.stage \in {"create", "authenticated", "loaded", "guarded"} =>
           state.operator \in ActiveAdmins,
         state.stage \in {"loaded", "guarded"} => state.operator # state.target
  PROVE  SerialInvariant'
<1>1. \A p \in Requests : p = q /\ request'[p] = state
  BY DEF OneHandler, Goto, TypeOK
<1>2. ActiveAdmins' = ActiveAdmins /\ Present' = Present
  BY DEF ActiveAdmins, Present
<1> QED BY <1>1, <1>2 DEF SerialInvariant, RowsAreBorn, OperatorAdministers, AdminRemains

\* A commit that leaves an active admin; the handler is idle afterwards.
LEMMA CommitKeepsSerial ==
  ASSUME TypeOK, OneHandler, SerialInvariant, NEW q \in Requests, NEW u \in Ids, NEW row,
         CommitRow(q, u, row),
         born \subseteq born', row # Nobody => u \in born',
         ActiveAdmins' # {}
  PROVE  SerialInvariant'
<1>1. \A p \in Requests : request'[p].stage = "idle"
  BY DEF OneHandler, CommitRow, Goto, TypeOK, Idle
<1>2. \A v \in Ids : users'[v] = IF v = u THEN row ELSE users[v]
  BY DEF CommitRow, TypeOK
<1>3. RowsAreBorn'
  BY <1>2 DEF SerialInvariant, RowsAreBorn, Present
<1> QED BY <1>1, <1>3 DEF SerialInvariant, OperatorAdministers, AdminRemains

\* A row other than the operator's is written: the operator is still an active
\* admin.
LEMMA OperatorOutlivesCommit ==
  ASSUME TypeOK, NEW q \in Requests, NEW u \in Ids, NEW row, CommitRow(q, u, row),
         NEW operator \in ActiveAdmins, operator # u
  PROVE  ActiveAdmins' # {}
<1>1. operator \in OthersThan(u)
  BY DEF OthersThan
<1>2. operator \in OthersThan(u)'
  BY <1>1, CommitKeepsOthers
<1> QED BY <1>2 DEF OthersThan

LEMMA NextKeepsSerial == OneHandler /\ TypeOK /\ SerialInvariant /\ [Next]_vars => SerialInvariant'
<1> SUFFICES ASSUME OneHandler, TypeOK, SerialInvariant, [Next]_vars
             PROVE  SerialInvariant'
  OBVIOUS
<1>1. ASSUME NEW q \in Requests, NEW u \in Ids, InitCount(q, u)
      PROVE  SerialInvariant'
  BY <1>1, GotoKeepsSerial DEF InitCount
<1>2. ASSUME NEW q \in Requests, InitRecount(q)
      PROVE  SerialInvariant'
  <2>1. request[q] \in Inits
    BY <1>2, StageTypes DEF InitRecount
  <2>2. [request[q] EXCEPT !.stage = "init recounted"].stage = "init recounted"
    BY <2>1 DEF Inits
  <2> QED BY <1>2, <2>2, GotoKeepsSerial DEF InitRecount
<1>3. ASSUME NEW q \in Requests, InitCommit(q)
      PROVE  SerialInvariant'
  <2> DEFINE u == request[q].target
             row == [admin |-> TRUE, active |-> TRUE]
  <2>1. u \in Ids /\ CommitRow(q, u, row) /\ born' = born \cup {u}
    BY <1>3, StageTypes DEF InitCommit, InsertRow, Inits
  <2>2. users'[u] = row
    BY <2>1 DEF CommitRow, TypeOK
  <2>3. row \in Rows /\ row # Nobody
    <3>1. row \in Rows
      BY DEF Rows
    <3> QED BY <3>1, NobodyAssumption
  <2>4. u \in ActiveAdmins'
    BY <2>1, <2>2, <2>3 DEF ActiveAdmins, Present
  <2> QED BY <2>1, <2>4, CommitKeepsSerial
<1>4. ASSUME NEW q \in Requests, NEW u \in Ids, NEW v \in Ids, NEW admin \in BOOLEAN,
             CreateUser(q, u, v, admin)
      PROVE  SerialInvariant'
  BY <1>4, GotoKeepsSerial DEF CreateUser, Authenticated
<1>5. ASSUME NEW q \in Requests, CreateCommit(q)
      PROVE  SerialInvariant'
  <2> DEFINE u == request[q].target
             row == [admin |-> request[q].admin, active |-> TRUE]
  <2>1. u \in Ids /\ u \notin born /\ CommitRow(q, u, row) /\ born' = born \cup {u}
    BY <1>5, StageTypes DEF CreateCommit, InsertRow, Insertable, Creations
  <2>2. request[q].operator \in ActiveAdmins
    BY <1>5 DEF CreateCommit, SerialInvariant, OperatorAdministers
  <2>3. request[q].operator # u
    BY <2>1, <2>2 DEF SerialInvariant, RowsAreBorn, ActiveAdmins
  <2>4. ActiveAdmins' # {}
    BY <2>1, <2>2, <2>3, OperatorOutlivesCommit
  <2> QED BY <2>1, <2>4, CommitKeepsSerial
<1>6. ASSUME NEW q \in Requests, NEW u \in Ids, NEW v \in Ids, NEW kind, NEW payload,
             Operate(q, u, v, kind, payload)
      PROVE  SerialInvariant'
  BY <1>6, GotoKeepsSerial DEF Operate, Authenticated
<1>7. ASSUME NEW q \in Requests, Load(q)
      PROVE  SerialInvariant'
  <2> DEFINE r == request[q]
             s == [r EXCEPT !.stage = "loaded", !.old = users[r.target]]
  <2>1. r \in Operations /\ r.operator \in ActiveAdmins /\ r.target # r.operator
    BY <1>7, StageTypes DEF Load, SerialInvariant, OperatorAdministers
  <2>2. s.operator = r.operator /\ s.target = r.target
    BY <2>1 DEF Operations
  <2>3. Goto(q, s) /\ UNCHANGED <<users, born>>
    BY <1>7 DEF Load
  <2> QED BY <2>1, <2>2, <2>3, GotoKeepsSerial
<1>8. ASSUME NEW q \in Requests, CountOthers(q)
      PROVE  SerialInvariant'
  <2> DEFINE r == request[q]
             s == [r EXCEPT !.stage = "guarded"]
  <2>1. r \in Operations /\ r.operator \in ActiveAdmins /\ r.target # r.operator
    BY <1>8, StageTypes DEF CountOthers, SerialInvariant, OperatorAdministers
  <2>2. s.operator = r.operator /\ s.target = r.target
    BY <2>1 DEF Operations
  <2>3. Goto(q, s) /\ UNCHANGED <<users, born>>
    BY <1>8 DEF CountOthers
  <2> QED BY <2>1, <2>2, <2>3, GotoKeepsSerial
<1>9. ASSUME NEW q \in Requests, UpdateCommit(q) \/ DeleteCommit(q)
      PROVE  SerialInvariant'
  <2> DEFINE r == request[q]
  <2>1. r.stage = "guarded" /\ r.target \in Ids
    BY <1>9, StageTypes DEF UpdateCommit, DeleteCommit, Operations
  <2>2. r.operator \in ActiveAdmins /\ r.operator # r.target
    BY <2>1 DEF SerialInvariant, OperatorAdministers
  <2>3. PICK row : /\ CommitRow(q, r.target, row)
                   /\ row # Nobody => users[r.target] # Nobody
    BY <1>9 DEF UpdateCommit, DeleteCommit
  <2>4. born' = born /\ (row # Nobody => r.target \in born')
    BY <1>9, <2>1, <2>3 DEF UpdateCommit, DeleteCommit, SerialInvariant, RowsAreBorn, Present
  <2>5. ActiveAdmins' # {}
    BY <2>1, <2>2, <2>3, OperatorOutlivesCommit
  <2> QED BY <2>1, <2>3, <2>4, <2>5, CommitKeepsSerial
<1>10. ASSUME NEW q \in Requests, Refuse(q) \/ UpdateSelf(q) \/ ResetPassword(q)
       PROVE  SerialInvariant'
  <2>1. EndUnchanged(q)
    BY <1>10 DEF Refuse, UpdateSelf, ResetPassword
  <2> QED BY <2>1, GotoKeepsSerial DEF EndUnchanged, Idle
<1>11. CASE UNCHANGED vars
  BY <1>11 DEF vars, SerialInvariant, RowsAreBorn, OperatorAdministers, AdminRemains,
               ActiveAdmins, Present
<1>12. ASSUME NEW q \in Requests, HashPassword(q)
       PROVE  SerialInvariant'
  <2> DEFINE s == [request[q] EXCEPT !.stage = "hashing"]
  <2>1. request[q] \in Operations
    BY <1>12, StageTypes DEF HashPassword
  <2>2. s.stage = "hashing"
    BY <2>1 DEF Operations
  <2>3. Goto(q, s) /\ UNCHANGED <<users, born>>
    BY <1>12 DEF HashPassword
  <2> QED BY <2>2, <2>3, GotoKeepsSerial
<1> QED BY <1>1, <1>2, <1>3, <1>4, <1>5, <1>6, <1>7, <1>8, <1>9, <1>10, <1>11, <1>12 DEF Next

\* Handlers that run one after the other never leave an initialized platform
\* without an active admin, however many users there are and whatever they change.
THEOREM SerialKeepsAdmin ==
  ASSUME OneHandler
  PROVE  Spec => []AdminRemains
<1>1. Init => SerialInvariant
  BY DEF Init, SerialInvariant, RowsAreBorn, OperatorAdministers, AdminRemains, Present, Idle
<1>2. TypeOK /\ SerialInvariant /\ [Next]_vars => SerialInvariant'
  BY NextKeepsSerial
<1>3. SerialInvariant => AdminRemains
  BY DEF SerialInvariant
<1> QED BY <1>1, <1>2, <1>3, UsersTypeCorrect, PTL DEF Spec
=============================================================================
