-------------------------- MODULE WsBroadcastProofs --------------------------
(***************************************************************************)
(* Proofs about WsBroadcast, for any sockets, projects and messages.       *)
(***************************************************************************)
EXTENDS WsBroadcast, TLAPS

\* A subscription settles the project, and only subscribers are sent anything.
Settled(s) == stage[s] \in {"subscribed", "closed"}

\* Nobody is sent what has not been published, or what is not for its project.
ReceivedIsOwn ==
  \A s \in Sockets : \A i \in 1..Len(received[s]) :
    /\ Settled(s)
    /\ received[s][i] \in 1..heard
    /\ log[received[s][i]] = project[s]

Ascending ==
  \A s \in Sockets : \A i, j \in 1..Len(received[s]) : i < j => received[s][i] < received[s][j]

\* The iterator is past every occurrence of s.
Passed(s) ==
  \A i \in 1..Len(active[Current]) : active[Current][i] = s => i <= index

HasCurrent(s) == \E i \in 1..Len(received[s]) : received[s][i] = heard

\* Who was served in this round, or is being served, is not met again.
TargetIsNew ==
  /\ Looping => \A s \in Sockets : HasCurrent(s) => Passed(s)
  /\ listener = "sending" =>
       /\ Passed(target) /\ ~HasCurrent(target)
       /\ Settled(target) /\ project[target] = Current

OrderInv == ReceivedIsOwn /\ Ascending /\ TargetIsNew

-----------------------------------------------------------------------------
(* Lists.                                                                   *)

Distinct(seq) == \A i, j \in 1..Len(seq) : seq[i] = seq[j] => i = j

\* Removing an item that occurs once: the others move up by at most one place, and the
\* item is gone.
LEMMA WithoutProperties ==
  ASSUME NEW S, NEW seq \in Seq(S), Distinct(seq), NEW s
  PROVE  /\ Without(seq, s) \in Seq(S)
         /\ Distinct(Without(seq, s))
         /\ \A k \in 1..Len(Without(seq, s)) :
              /\ Without(seq, s)[k] # s
              /\ k \in 1..Len(seq)
              /\ \/ seq[k] = Without(seq, s)[k]
                 \/ k + 1 \in 1..Len(seq) /\ seq[k + 1] = Without(seq, s)[k]
<1>1. CASE s \notin Elements(seq)
  BY <1>1 DEF Without, Elements
<1>2. CASE s \in Elements(seq)
  <2>1. PICK i \in 1..Len(seq) : seq[i] = s
    BY <1>2 DEF Elements
  <2>2. \A j \in 1..Len(seq) : seq[j] = s => j = i
    BY <2>1 DEF Distinct
  <2>3. Place(seq, s) = i
    <3>1. i \in 1..Len(seq) /\ seq[i] = s /\ \A j \in 1..(i - 1) : seq[j] # s
      BY <2>1, <2>2
    <3>2. /\ Place(seq, s) \in 1..Len(seq)
          /\ seq[Place(seq, s)] = s
      BY <3>1 DEF Place
    <3> QED BY <3>2, <2>2
  <2> DEFINE rest == [k \in 1..(Len(seq) - 1) |-> IF k < i THEN seq[k] ELSE seq[k + 1]]
  <2>4. Without(seq, s) = rest
    BY <1>2, <2>3 DEF Without
  <2>5. /\ Len(seq) \in Nat /\ Len(seq) - 1 \in Nat
        /\ \A k \in 1..Len(seq) : seq[k] \in S
    BY <2>1
  <2>6. rest \in [1..(Len(seq) - 1) -> S]
    BY <2>5
  <2>7. rest \in Seq(S) /\ Len(rest) = Len(seq) - 1
    BY <2>5, <2>6
  <2>8. \A k \in 1..Len(rest) :
          /\ k \in 1..Len(seq) /\ k + 1 \in 1..Len(seq)
          /\ rest[k] = IF k < i THEN seq[k] ELSE seq[k + 1]
    <3> TAKE k \in 1..Len(rest)
    <3>1. k \in 1..(Len(seq) - 1)
      BY <2>7
    <3>2. rest[k] = IF k < i THEN seq[k] ELSE seq[k + 1]
      BY <3>1
    <3>3. k \in 1..Len(seq) /\ k + 1 \in 1..Len(seq)
      BY <3>1, <2>5
    <3> QED BY <3>2, <3>3
  <2>9. \A k \in 1..Len(rest) : rest[k] # s
    BY <2>1, <2>2, <2>8
  <2>10. Distinct(rest)
    <3> SUFFICES ASSUME NEW j \in 1..Len(rest), NEW k \in 1..Len(rest), rest[j] = rest[k]
                 PROVE  j = k
      BY DEF Distinct
    <3>1. /\ rest[j] = IF j < i THEN seq[j] ELSE seq[j + 1]
          /\ rest[k] = IF k < i THEN seq[k] ELSE seq[k + 1]
          /\ j \in 1..Len(seq) /\ j + 1 \in 1..Len(seq)
          /\ k \in 1..Len(seq) /\ k + 1 \in 1..Len(seq)
      BY <2>8
    <3> HIDE DEF rest
    <3>2. \A m, n \in 1..Len(seq) : seq[m] = seq[n] => m = n
      BY DEF Distinct
    <3>3. CASE j < i /\ k < i
      BY <3>1, <3>2, <3>3
    <3>4. CASE ~(j < i) /\ ~(k < i)
      <4>1. j + 1 = k + 1
        BY <3>1, <3>2, <3>4
      <4> QED BY <4>1, <3>1, <2>5
    <3>5. CASE j < i /\ ~(k < i)
      <4>1. j = k + 1
        BY <3>1, <3>2, <3>5
      <4> QED BY <4>1, <3>5, <3>1, <2>1, <2>5
    <3>6. CASE ~(j < i) /\ k < i
      <4>1. j + 1 = k
        BY <3>1, <3>2, <3>6
      <4> QED BY <4>1, <3>6, <3>1, <2>1, <2>5
    <3> QED BY <3>3, <3>4, <3>5, <3>6
  <2> HIDE DEF rest
  <2> QED BY <2>4, <2>7, <2>8, <2>9, <2>10
<1> QED BY <1>1, <1>2

\* A list grows by somebody who is not in it.
LEMMA AppendKeepsDistinct ==
  ASSUME NEW S, NEW seq \in Seq(S), NEW s \in S, Distinct(seq),
         \A i \in 1..Len(seq) : seq[i] # s
  PROVE  /\ Append(seq, s) \in Seq(S)
         /\ Distinct(Append(seq, s))
         /\ Len(Append(seq, s)) = Len(seq) + 1
         /\ \A i \in 1..(Len(seq) + 1) :
              Append(seq, s)[i] = IF i = Len(seq) + 1 THEN s ELSE seq[i]
<1>1. /\ Append(seq, s) \in Seq(S) /\ Len(seq) \in Nat
      /\ Len(Append(seq, s)) = Len(seq) + 1
      /\ \A i \in 1..Len(seq) : Append(seq, s)[i] = seq[i]
      /\ Append(seq, s)[Len(seq) + 1] = s
  OBVIOUS
<1>2. \A i \in 1..(Len(seq) + 1) :
        Append(seq, s)[i] = IF i = Len(seq) + 1 THEN s ELSE seq[i]
  BY <1>1
<1>3. Distinct(Append(seq, s))
  BY <1>1, <1>2 DEF Distinct
<1> QED BY <1>1, <1>2, <1>3

\* What NoneLeftBehind says of one list.
LEMMA ListsAreDistinct ==
  ASSUME NoneLeftBehind, NEW p \in Projects
  PROVE  /\ Distinct(active[p])
         /\ \A i \in 1..Len(active[p]) :
              stage[active[p][i]] = "subscribed" /\ project[active[p][i]] = p
BY DEF NoneLeftBehind, Distinct

-----------------------------------------------------------------------------
(* Types, and the lists.                                                    *)

ListInv == TypeOK /\ NoneLeftBehind

LEMMA InitLists == Init => ListInv
<1> SUFFICES ASSUME Init PROVE ListInv
  OBVIOUS
<1>1. TypeOK
  <2>1. active \in [Projects -> Seq(Sockets)]
    BY DEF Init
  <2>2. received \in [Sockets -> Seq(1..Len(log))]
    BY DEF Init
  <2>3. log \in Seq(Projects) /\ heard \in 0..Len(log)
    BY DEF Init
  <2>4. failures \in 0..MaxFailures
    BY MaxFailuresAssumption DEF Init
  <2> QED
    BY <2>1, <2>2, <2>3, <2>4 DEF Init, TypeOK, Stage, ListenerStage, Looping, LoopIsFree
<1>2. NoneLeftBehind
  BY DEF Init, NoneLeftBehind
<1> QED BY <1>1, <1>2 DEF ListInv

LEMMA SubscribeKeepsLists ==
  ASSUME ListInv, NEW s \in Sockets, NEW p \in Projects, Subscribe(s, p)
  PROVE  ListInv'
<1>1. TypeOK'
  BY DEF ListInv, TypeOK, Subscribe, Stage, listenerVars, historyVars, Looping, LoopIsFree
<1>2. NoneLeftBehind'
  BY DEF ListInv, TypeOK, NoneLeftBehind, Subscribe
<1> QED BY <1>1, <1>2 DEF ListInv

LEMMA ConnectKeepsLists ==
  ASSUME ListInv, NEW s \in Sockets, Connect(s)
  PROVE  ListInv'
<1> DEFINE q == project[s]
<1>1. /\ q \in Projects /\ stage[s] = "checking" /\ active \in [Projects -> Seq(Sockets)]
      /\ active' = [active EXCEPT ![q] = Append(@, s)]
      /\ stage' = [stage EXCEPT ![s] = "subscribed"] /\ stage \in [Sockets -> Stage]
      /\ UNCHANGED <<project, open, log, listenerVars, received, historyVars, failures>>
  BY DEF ListInv, TypeOK, Connect
<1>2. /\ Distinct(active[q])
      /\ \A i \in 1..Len(active[q]) : active[q][i] # s
  BY <1>1, ListsAreDistinct DEF ListInv
<1> HIDE DEF q
<1>3. /\ active'[q] \in Seq(Sockets)
      /\ Distinct(active'[q])
      /\ Len(active'[q]) = Len(active[q]) + 1
      /\ \A i \in 1..(Len(active[q]) + 1) :
           active'[q][i] = IF i = Len(active[q]) + 1 THEN s ELSE active[q][i]
  <2>1. active[q] \in Seq(Sockets) /\ active'[q] = Append(active[q], s)
    BY <1>1
  <2> QED BY <2>1, <1>2, AppendKeepsDistinct
<1>4. active' \in [Projects -> Seq(Sockets)]
  BY <1>1, <1>3
<1>5. TypeOK'
  BY <1>1, <1>4 DEF ListInv, TypeOK, Stage, listenerVars, historyVars, Looping, LoopIsFree, q
<1>6. NoneLeftBehind'
  <2> SUFFICES ASSUME NEW p \in Projects, NEW i \in 1..Len(active'[p])
               PROVE  /\ stage'[active'[p][i]] = "subscribed" /\ project[active'[p][i]] = p
                      /\ \A j \in 1..Len(active'[p]) : active'[p][j] = active'[p][i] => i = j
    BY <1>1 DEF NoneLeftBehind
  <2>1. CASE p = q
    <3>1. \A j \in 1..Len(active'[p]) : active'[p][j] = active'[p][i] => i = j
      BY <2>1, <1>3 DEF Distinct
    <3>2. CASE i = Len(active[q]) + 1
      BY <3>1, <3>2, <2>1, <1>1, <1>3 DEF q
    <3>3. CASE i # Len(active[q]) + 1
      <4>1. i \in 1..Len(active[q]) /\ active'[p][i] = active[q][i]
        <5>1. Len(active[q]) \in Nat
          BY <1>1
        <5> QED BY <5>1, <3>3, <2>1, <1>3
      <4>2. stage[active[q][i]] = "subscribed" /\ project[active[q][i]] = q
        BY <4>1, <1>1, ListsAreDistinct DEF ListInv
      <4>3. active[q][i] \in Sockets
        BY <4>1, <1>1
      <4> QED BY <4>1, <4>2, <4>3, <3>1, <2>1, <1>1
    <3> QED BY <3>2, <3>3
  <2>2. CASE p # q
    <3>1. active'[p] = active[p]
      BY <2>2, <1>1
    <3>2. /\ Distinct(active[p])
          /\ stage[active[p][i]] = "subscribed" /\ project[active[p][i]] = p
      BY <3>1, ListsAreDistinct DEF ListInv
    <3>3. active[p][i] \in Sockets
      BY <3>1, <1>1
    <3> QED BY <3>1, <3>2, <3>3, <1>1 DEF Distinct
  <2> QED BY <2>1, <2>2
<1> QED BY <1>5, <1>6 DEF ListInv

\* disconnect keeps what NoneLeftBehind says of the other sockets.
LEMMA WithoutKeepsLists ==
  ASSUME ListInv, NEW q \in Projects, NEW s,
         active' = [active EXCEPT ![q] = Without(@, s)], project' = project
  PROVE  /\ active' \in [Projects -> Seq(Sockets)]
         /\ \A p \in Projects :
              /\ Distinct(active'[p])
              /\ \A i \in 1..Len(active'[p]) :
                   /\ stage[active'[p][i]] = "subscribed" /\ project[active'[p][i]] = p
                   /\ p = q => active'[p][i] # s
<1>1. active \in [Projects -> Seq(Sockets)]
  BY DEF ListInv, TypeOK
<1>2. /\ Distinct(active[q])
      /\ \A i \in 1..Len(active[q]) :
           stage[active[q][i]] = "subscribed" /\ project[active[q][i]] = q
  BY ListsAreDistinct DEF ListInv
<1> DEFINE less == Without(active[q], s)
<1>3. /\ less \in Seq(Sockets)
      /\ Distinct(less)
      /\ \A k \in 1..Len(less) :
           /\ less[k] # s /\ k \in 1..Len(active[q])
           /\ \/ active[q][k] = less[k]
              \/ k + 1 \in 1..Len(active[q]) /\ active[q][k + 1] = less[k]
  <2>1. active[q] \in Seq(Sockets)
    BY <1>1
  <2> QED BY <2>1, <1>2, WithoutProperties
<1> HIDE DEF less
<1>4. active' = [active EXCEPT ![q] = less]
  BY DEF less
<1>5. active' \in [Projects -> Seq(Sockets)]
  BY <1>1, <1>3, <1>4
<1>6. ASSUME NEW p \in Projects
      PROVE  /\ Distinct(active'[p])
             /\ \A i \in 1..Len(active'[p]) :
                  /\ stage[active'[p][i]] = "subscribed" /\ project[active'[p][i]] = p
                  /\ p = q => active'[p][i] # s
  <2>1. CASE p = q
    <3>1. active'[p] = less
      BY <2>1, <1>1, <1>4
    <3> QED BY <3>1, <2>1, <1>2, <1>3
  <2>2. CASE p # q
    <3>1. active'[p] = active[p]
      BY <2>2, <1>1, <1>4
    <3> QED BY <3>1, <2>2, ListsAreDistinct DEF ListInv
  <2> QED BY <2>1, <2>2
<1> QED BY <1>5, <1>6

LEMMA FinishKeepsLists ==
  ASSUME ListInv, NEW s \in Sockets, Finish(s)
  PROVE  ListInv'
<1>1. /\ stage' = [stage EXCEPT ![s] = "closed"] /\ stage[s] \in {"accepted", "subscribed"}
      /\ stage \in [Sockets -> Stage]
      /\ UNCHANGED <<project, open, log, listenerVars, received, failures>>
  BY DEF ListInv, TypeOK, Finish
<1>2. CASE project[s] # NoProject /\ s \in Elements(active[project[s]])
  <2>1. /\ active' = [active EXCEPT ![project[s]] = Without(@, s)]
        /\ staying' = staying \ {s}
        /\ disturbed' = (disturbed \/ (Looping /\ project[s] = Current))
    BY <1>2 DEF Finish
  <2>2. project[s] \in Projects
    BY <1>2 DEF ListInv, TypeOK
  <2>3. /\ active' \in [Projects -> Seq(Sockets)]
        /\ \A p \in Projects :
             /\ Distinct(active'[p])
             /\ \A i \in 1..Len(active'[p]) :
                  /\ stage[active'[p][i]] = "subscribed" /\ project[active'[p][i]] = p
                  /\ p = project[s] => active'[p][i] # s
    <3> DEFINE q == project[s]
    <3>1. q \in Projects /\ active' = [active EXCEPT ![q] = Without(@, s)] /\ project' = project
      BY <2>1, <2>2, <1>1
    <3> HIDE DEF q
    <3>2. /\ active' \in [Projects -> Seq(Sockets)]
          /\ \A p \in Projects :
               /\ Distinct(active'[p])
               /\ \A i \in 1..Len(active'[p]) :
                    /\ stage[active'[p][i]] = "subscribed" /\ project[active'[p][i]] = p
                    /\ p = q => active'[p][i] # s
      BY <3>1, WithoutKeepsLists
    <3> QED BY <3>2 DEF q
  <2>4. staying' \subseteq Sockets /\ disturbed' \in BOOLEAN
    BY <2>1 DEF ListInv, TypeOK
  <2>5. TypeOK'
    BY <1>1, <2>3, <2>4 DEF ListInv, TypeOK, Stage, listenerVars, Looping, LoopIsFree
  <2>6. NoneLeftBehind'
    <3> SUFFICES ASSUME NEW p \in Projects, NEW i \in 1..Len(active'[p])
                 PROVE  /\ stage'[active'[p][i]] = "subscribed" /\ project[active'[p][i]] = p
                        /\ \A j \in 1..Len(active'[p]) : active'[p][j] = active'[p][i] => i = j
      BY <1>1 DEF NoneLeftBehind
    <3>1. active'[p][i] # s
      BY <2>3
    <3>2. active'[p][i] \in Sockets
      BY <2>3
    <3> QED BY <3>1, <3>2, <2>3, <1>1 DEF Distinct
  <2> QED BY <2>5, <2>6 DEF ListInv
<1>3. CASE ~(project[s] # NoProject /\ s \in Elements(active[project[s]]))
  <2>1. UNCHANGED <<active, historyVars>>
    BY <1>3 DEF Finish
  <2>2. TypeOK'
    BY <1>1, <2>1 DEF ListInv, TypeOK, Stage, listenerVars, historyVars, Looping, LoopIsFree
  <2>3. NoneLeftBehind'
    <3> SUFFICES ASSUME NEW p \in Projects, NEW i \in 1..Len(active[p])
                 PROVE  /\ stage'[active[p][i]] = "subscribed" /\ project[active[p][i]] = p
                        /\ \A j \in 1..Len(active[p]) : active[p][j] = active[p][i] => i = j
      BY <1>1, <2>1 DEF NoneLeftBehind
    <3>1. /\ Distinct(active[p])
          /\ stage[active[p][i]] = "subscribed" /\ project[active[p][i]] = p
      BY ListsAreDistinct DEF ListInv
    <3>2. active[p][i] # s
      BY <3>1, <1>3, NoProjectAssumption DEF Elements
    <3>3. active[p][i] \in Sockets
      BY DEF ListInv, TypeOK
    <3> QED BY <3>1, <3>2, <3>3, <1>1 DEF Distinct
  <2> QED BY <2>2, <2>3 DEF ListInv
<1> QED BY <1>2, <1>3

LEMMA PruneKeepsLists ==
  ASSUME ListInv, Prune
  PROVE  ListInv'
<1>1. PICK s \in failed :
        /\ active' = [active EXCEPT ![Current] = Without(@, s)]
        /\ failed' = failed \ {s}
        /\ listener' = IF failed = {s} THEN "listening" ELSE "pruning"
  BY DEF Prune
<1>2. listener = "pruning" /\ UNCHANGED <<socketVars, log, heard, index, target, received, historyVars, failures>>
  BY DEF Prune
<1>3. Current \in Projects
  BY <1>2 DEF ListInv, TypeOK, Current, Looping, LoopIsFree
<1>4. /\ active' \in [Projects -> Seq(Sockets)]
      /\ \A p \in Projects :
           /\ Distinct(active'[p])
           /\ \A i \in 1..Len(active'[p]) :
                /\ stage[active'[p][i]] = "subscribed" /\ project[active'[p][i]] = p
                /\ p = Current => active'[p][i] # s
  BY <1>1, <1>2, <1>3, WithoutKeepsLists DEF socketVars
<1>5. TypeOK'
  BY <1>1, <1>2, <1>4
     DEF ListInv, TypeOK, Stage, ListenerStage, socketVars, historyVars, Looping, LoopIsFree
<1>6. NoneLeftBehind'
  BY <1>2, <1>4 DEF NoneLeftBehind, Distinct, socketVars
<1> QED BY <1>5, <1>6 DEF ListInv

\* Steps that leave the lists alone.
LEMMA OthersKeepLists ==
  ASSUME ListInv,
         \/ \E s \in Sockets : ClientLeaves(s)
         \/ \E p \in Projects : Publish(p)
         \/ Listen \/ StartSend \/ EndSend \/ EndLoop \/ ListenerFails
         \/ UNCHANGED vars
  PROVE  ListInv'
<1>1. UNCHANGED <<active, stage, project>>
  BY DEF ClientLeaves, Publish, Listen, StartSend, EndSend, EndLoop, ListenerFails, vars, socketVars
<1>2. NoneLeftBehind'
  BY <1>1 DEF ListInv, NoneLeftBehind
<1>3. Len(log) \in Nat /\ log \in Seq(Projects)
  BY DEF ListInv, TypeOK
<1>4. ASSUME NEW s \in Sockets, ClientLeaves(s) PROVE TypeOK'
  BY <1>4 DEF ListInv, TypeOK, ClientLeaves, listenerVars, historyVars, Looping, LoopIsFree
<1>5. ASSUME NEW p \in Projects, Publish(p) PROVE TypeOK'
  <2>1. log' = Append(log, p) /\ UNCHANGED <<active, socketVars, listenerVars, received, historyVars, failures>>
    BY <1>5 DEF Publish
  <2>2. log' \in Seq(Projects) /\ Len(log') = Len(log) + 1
    BY <2>1, <1>3
  <2>3. Seq(1..Len(log)) \subseteq Seq(1..Len(log'))
    BY <2>2, <1>3
  <2>4. received' \in [Sockets -> Seq(1..Len(log'))]
    BY <2>1, <2>3 DEF ListInv, TypeOK
  <2>5. heard' \in 0..Len(log')
    BY <2>1, <2>2, <1>3 DEF ListInv, TypeOK, listenerVars
  <2> QED BY <2>1, <2>2, <2>4, <2>5
          DEF ListInv, TypeOK, socketVars, listenerVars, historyVars, Looping, LoopIsFree
<1>6. ASSUME Listen PROVE TypeOK'
  <2>1. log[heard + 1] \in Projects
    BY <1>3, <1>6 DEF Listen, ListInv, TypeOK
  <2>2. Elements(active[log[heard + 1]]) \subseteq Sockets
    BY <2>1 DEF Elements, ListInv, TypeOK
  <2>3. heard' \in 0..Len(log) /\ heard' > 0
    BY <1>3, <1>6 DEF Listen, ListInv, TypeOK
  <2>4. staying' \subseteq Sockets
    BY <2>2, <1>6 DEF Listen
  <2> QED BY <2>3, <2>4, <1>6
          DEF Listen, ListInv, TypeOK, ListenerStage, socketVars, Looping, LoopIsFree
<1>7. ASSUME StartSend PROVE TypeOK'
  <2>1. Current \in Projects
    BY <1>3, <1>7 DEF StartSend, Current, ListInv, TypeOK, Looping
  <2>2. active[Current][index + 1] \in Sockets
    BY <2>1, <1>7 DEF StartSend, ListInv, TypeOK
  <2> QED BY <2>2, <1>7
          DEF StartSend, ListInv, TypeOK, ListenerStage, socketVars, historyVars, Looping, LoopIsFree
<1>8. ASSUME EndSend PROVE TypeOK'
  <2>1. target \in Sockets /\ heard \in 1..Len(log)
    BY <1>3, <1>8 DEF EndSend, ListInv, TypeOK, Looping
  <2>2. received' \in [Sockets -> Seq(1..Len(log))]
    <3>1. received \in [Sockets -> Seq(1..Len(log))]
      BY DEF ListInv, TypeOK
    <3>2. Append(received[target], heard) \in Seq(1..Len(log))
      BY <3>1, <2>1
    <3> QED BY <3>1, <3>2, <1>8 DEF EndSend
  <2> QED BY <2>1, <2>2, <1>8
          DEF EndSend, ListInv, TypeOK, ListenerStage, socketVars, historyVars, Looping, LoopIsFree
<1>9. ASSUME EndLoop PROVE TypeOK'
  BY <1>9 DEF EndLoop, ListInv, TypeOK, ListenerStage, socketVars, historyVars, Looping, LoopIsFree
<1>10. ASSUME ListenerFails PROVE TypeOK'
  BY <1>10, MaxFailuresAssumption
     DEF ListenerFails, ListInv, TypeOK, ListenerStage, socketVars, historyVars, Looping, LoopIsFree
<1>11. ASSUME UNCHANGED vars PROVE TypeOK'
  BY <1>11 DEF vars, ListInv, TypeOK, socketVars, listenerVars, historyVars, Looping, LoopIsFree
<1>12. TypeOK'
  BY <1>4, <1>5, <1>6, <1>7, <1>8, <1>9, <1>10, <1>11
<1> QED BY <1>2, <1>12 DEF ListInv

LEMMA StepKeepsLists == ListInv /\ [Next]_vars => ListInv'
BY SubscribeKeepsLists, ConnectKeepsLists, FinishKeepsLists, PruneKeepsLists, OthersKeepLists
   DEF Next, SocketStep, ListenerStep

\* Lists, coroutines and the listener keep their types, whoever comes and goes.
THEOREM BroadcastTypeCorrect == Spec => []TypeOK
<1>1. ListInv => TypeOK
  BY DEF ListInv
<1> QED BY <1>1, InitLists, StepKeepsLists, PTL DEF Spec

\* A socket is in one list at most, once, and in none when its coroutine has ended.
THEOREM ListsAreClean == Spec => []NoneLeftBehind
<1>1. ListInv => NoneLeftBehind
  BY DEF ListInv
<1> QED BY <1>1, InitLists, StepKeepsLists, PTL DEF Spec

-----------------------------------------------------------------------------
(* Order.                                                                   *)

LEMMA InitOrder == Init => OrderInv
BY DEF Init, OrderInv, ReceivedIsOwn, Ascending, TargetIsNew, Looping

LEMMA OrderFacts ==
  ASSUME ListInv
  PROVE  /\ heard \in Nat /\ log \in Seq(Projects) /\ Len(log) \in Nat /\ heard <= Len(log)
         /\ index \in Nat
         /\ \A s \in Sockets : received[s] \in Seq(1..Len(log)) /\ Len(received[s]) \in Nat
         /\ \A p \in Projects : active[p] \in Seq(Sockets) /\ Len(active[p]) \in Nat
         /\ Looping \/ ~LoopIsFree => heard \in 1..Len(log) /\ Current \in Projects
         /\ listener = "sending" => target \in Sockets
<1>1. log \in Seq(Projects) /\ Len(log) \in Nat /\ heard \in 0..Len(log) /\ index \in Nat
  BY DEF ListInv, TypeOK
<1>2. \A s \in Sockets : received[s] \in Seq(1..Len(log)) /\ Len(received[s]) \in Nat
  <2>1. received \in [Sockets -> Seq(1..Len(log))]
    BY DEF ListInv, TypeOK
  <2> QED BY <2>1
<1>3. \A p \in Projects : active[p] \in Seq(Sockets) /\ Len(active[p]) \in Nat
  BY DEF ListInv, TypeOK
<1>4. ASSUME Looping \/ ~LoopIsFree PROVE heard \in 1..Len(log) /\ Current \in Projects
  <2>1. heard \in 1..Len(log)
    BY <1>1, <1>4 DEF ListInv, TypeOK
  <2> QED BY <1>1, <2>1 DEF Current
<1>5. listener = "sending" => target \in Sockets
  BY DEF ListInv, TypeOK
<1> QED BY <1>1, <1>2, <1>3, <1>4, <1>5

\* A step of a client's coroutine keeps the order if it moves nobody from behind the
\* iterator to before it.
LEMMA SocketStepKeepsOrder ==
  ASSUME ListInv, OrderInv,
         UNCHANGED <<log, heard, index, target, listener, received>>,
         \A s \in Sockets : Settled(s) => Settled(s)' /\ project'[s] = project[s],
         Looping => \A s \in Sockets : Settled(s) /\ Passed(s) => Passed(s)'
  PROVE  OrderInv'
<1>1. ReceivedIsOwn'
  BY DEF OrderInv, ReceivedIsOwn
<1>2. Ascending'
  BY DEF OrderInv, Ascending
<1>3. TargetIsNew'
  <2>1. Looping' = Looping /\ Current' = Current
    BY DEF Looping, Current
  <2>2. ASSUME Looping, NEW s \in Sockets, HasCurrent(s)' PROVE Passed(s)'
    <3>1. HasCurrent(s)
      BY <2>2 DEF HasCurrent
    <3>2. Settled(s)
      BY <3>1 DEF HasCurrent, OrderInv, ReceivedIsOwn
    <3>3. Passed(s)
      BY <2>2, <3>1 DEF OrderInv, TargetIsNew
    <3> QED BY <2>2, <3>2, <3>3
  <2>3. ASSUME listener = "sending"
        PROVE  /\ Passed(target)' /\ ~HasCurrent(target)'
               /\ Settled(target)' /\ project'[target] = Current
    <3>1. /\ target \in Sockets /\ Looping
          /\ Passed(target) /\ ~HasCurrent(target)
          /\ Settled(target) /\ project[target] = Current
      BY <2>3 DEF OrderInv, TargetIsNew, ListInv, TypeOK, Looping
    <3>2. Passed(target)' /\ Settled(target)' /\ project'[target] = Current
      BY <3>1 DEF Passed, Settled
    <3>3. ~HasCurrent(target)'
      BY <3>1 DEF HasCurrent
    <3> QED BY <3>2, <3>3
  <2> QED BY <2>1, <2>2, <2>3 DEF TargetIsNew
<1> QED BY <1>1, <1>2, <1>3 DEF OrderInv

LEMMA SubscribeKeepsOrder ==
  ASSUME ListInv, OrderInv, NEW s \in Sockets, NEW p \in Projects, Subscribe(s, p)
  PROVE  OrderInv'
<1>1. /\ stage[s] = "accepted" /\ stage' = [stage EXCEPT ![s] = "checking"]
      /\ project' = [project EXCEPT ![s] = p]
      /\ UNCHANGED <<active, log, heard, index, target, listener, received>>
  BY DEF Subscribe, listenerVars
<1>2. stage \in [Sockets -> Stage] /\ project \in [Sockets -> Projects \cup {NoProject}]
  BY DEF ListInv, TypeOK
<1>3. \A t \in Sockets : Settled(t) => Settled(t)' /\ project'[t] = project[t]
  BY <1>1, <1>2 DEF Settled
<1>4. \A t \in Sockets : Passed(t) => Passed(t)'
  BY <1>1 DEF Passed, Current
<1> QED BY <1>1, <1>3, <1>4, SocketStepKeepsOrder

LEMMA ConnectKeepsOrder ==
  ASSUME ListInv, OrderInv, NEW s \in Sockets, Connect(s)
  PROVE  OrderInv'
<1> DEFINE q == project[s]
<1>1. /\ stage[s] = "checking" /\ stage' = [stage EXCEPT ![s] = "subscribed"]
      /\ active' = [active EXCEPT ![q] = Append(@, s)]
      /\ UNCHANGED <<project, log, heard, index, target, listener, received>>
  BY DEF Connect, listenerVars
<1>2. stage \in [Sockets -> Stage] /\ active \in [Projects -> Seq(Sockets)] /\ q \in Projects
  BY <1>1 DEF ListInv, TypeOK
<1> HIDE DEF q
<1>3. \A t \in Sockets : Settled(t) => t # s /\ Settled(t)' /\ project'[t] = project[t]
  BY <1>1, <1>2 DEF Settled
<1>4. ASSUME Looping, NEW t \in Sockets, t # s, Passed(t) PROVE Passed(t)'
  <2>1. Current \in Projects /\ Current' = Current /\ index' = index
    BY <1>1, <1>4, OrderFacts DEF Current
  <2> DEFINE c == Current
  <2>2. CASE c = q
    <3>1. active'[c] = Append(active[c], s) /\ active[c] \in Seq(Sockets)
      BY <2>1, <2>2, <1>1, <1>2
    <3> HIDE DEF c
    <3>2. \A i \in 1..Len(active'[c]) : active'[c][i] = t =>
            i \in 1..Len(active[c]) /\ active[c][i] = t
      BY <3>1, <1>4
    <3> QED BY <3>2, <1>4, <2>1 DEF Passed, c
  <2>3. CASE c # q
    BY <2>1, <2>3, <1>1, <1>2, <1>4 DEF Passed
  <2> QED BY <2>2, <2>3
<1> QED BY <1>1, <1>3, <1>4, SocketStepKeepsOrder

LEMMA FinishKeepsOrder ==
  ASSUME ListInv, OrderInv, NEW s \in Sockets, Finish(s)
  PROVE  OrderInv'
<1>1. /\ stage' = [stage EXCEPT ![s] = "closed"]
      /\ UNCHANGED <<project, log, heard, index, target, listener, received>>
  BY DEF Finish, listenerVars
<1>2. stage \in [Sockets -> Stage] /\ active \in [Projects -> Seq(Sockets)]
  BY DEF ListInv, TypeOK
<1>3. \A t \in Sockets : Settled(t) => Settled(t)' /\ project'[t] = project[t]
  BY <1>1, <1>2 DEF Settled
<1>4. ASSUME Looping, NEW t \in Sockets, Passed(t) PROVE Passed(t)'
  <2> DEFINE c == Current
             q == project[s]
  <2>1. c \in Projects /\ Current' = c /\ index' = index
    BY <1>1, <1>4, OrderFacts DEF Current
  <2>2. active[c] \in Seq(Sockets) /\ Distinct(active[c])
    BY <2>1, <1>2, ListsAreDistinct DEF ListInv
  <2>3. \A i \in 1..Len(active[c]) : active[c][i] = t => i <= index
    BY <1>4 DEF Passed
  <2>4. \/ active' = active
        \/ q \in Projects /\ active' = [active EXCEPT ![q] = Without(@, s)]
    BY DEF Finish, ListInv, TypeOK
  <2> HIDE DEF c, q
  <2>5. \/ active'[c] = active[c]
        \/ active'[c] = Without(active[c], s)
    BY <2>1, <2>4, <1>2
  <2>6. \A i \in 1..Len(active'[c]) : active'[c][i] = t => i <= index
    <3>1. CASE active'[c] = active[c]
      BY <3>1, <2>3
    <3>2. CASE active'[c] = Without(active[c], s)
      <4> TAKE i \in 1..Len(active'[c])
      <4>1. /\ i \in 1..Len(active[c])
            /\ \/ active[c][i] = active'[c][i]
               \/ i + 1 \in 1..Len(active[c]) /\ active[c][i + 1] = active'[c][i]
        BY <3>2, <2>2, WithoutProperties
      <4>2. index \in Nat
        BY OrderFacts
      <4> QED BY <4>1, <4>2, <2>3
    <3> QED BY <3>1, <3>2, <2>5
  <2> QED BY <2>6, <2>1 DEF Passed
<1> QED BY <1>1, <1>3, <1>4, SocketStepKeepsOrder

LEMMA PublishKeepsOrder ==
  ASSUME ListInv, OrderInv, NEW p \in Projects, Publish(p)
  PROVE  OrderInv'
<1>1. log' = Append(log, p)
      /\ UNCHANGED <<active, stage, project, heard, index, target, listener, received>>
  BY DEF Publish, socketVars, listenerVars
<1>2. \A i \in 1..heard : log'[i] = log[i]
  BY <1>1, OrderFacts
<1>3. ReceivedIsOwn'
  BY <1>1, <1>2 DEF OrderInv, ReceivedIsOwn, Settled
<1>4. Ascending'
  BY <1>1 DEF OrderInv, Ascending
<1>5. TargetIsNew'
  <2>1. CASE Looping
    <3>1. heard \in 1..heard
      BY <2>1, OrderFacts
    <3>2. Current' = Current
      BY <3>1, <1>1, <1>2 DEF Current
    <3> QED BY <3>2, <1>1 DEF OrderInv, TargetIsNew, Passed, HasCurrent, Settled, Looping
  <2>2. CASE ~Looping
    BY <2>2, <1>1 DEF TargetIsNew, Looping
  <2> QED BY <2>1, <2>2
<1> QED BY <1>3, <1>4, <1>5 DEF OrderInv

LEMMA ListenKeepsOrder ==
  ASSUME ListInv, OrderInv, Listen
  PROVE  OrderInv'
<1>1. /\ heard' = heard + 1 /\ listener' = "looping"
      /\ UNCHANGED <<stage, project, log, received>>
  BY DEF Listen, socketVars
<1>2. \A s \in Sockets : \A i \in 1..Len(received[s]) :
        Settled(s) /\ received[s][i] \in 1..heard /\ log[received[s][i]] = project[s]
  BY DEF OrderInv, ReceivedIsOwn
<1>3. ReceivedIsOwn'
  BY <1>1, <1>2, OrderFacts DEF ReceivedIsOwn, Settled
<1>4. Ascending'
  BY <1>1 DEF OrderInv, Ascending
<1>5. \A s \in Sockets : ~HasCurrent(s)'
  BY <1>1, <1>2, OrderFacts DEF HasCurrent
<1>6. TargetIsNew'
  BY <1>1, <1>5 DEF TargetIsNew
<1> QED BY <1>3, <1>4, <1>6 DEF OrderInv

LEMMA StartSendKeepsOrder ==
  ASSUME ListInv, OrderInv, StartSend
  PROVE  OrderInv'
<1> DEFINE c == Current
<1>1. /\ listener = "looping" /\ listener' = "sending"
      /\ index < Len(active[c]) /\ index' = index + 1 /\ target' = active[c][index + 1]
      /\ UNCHANGED <<active, stage, project, log, heard, received>>
  BY DEF StartSend, socketVars
<1>2. ReceivedIsOwn' /\ Ascending'
  BY <1>1 DEF OrderInv, ReceivedIsOwn, Ascending, Settled
<1>3. Looping /\ c \in Projects /\ Current' = c /\ index \in Nat
  BY <1>1, OrderFacts DEF Looping, Current
<1>4. active[c] \in Seq(Sockets) /\ index + 1 \in 1..Len(active[c])
  BY <1>1, <1>3, OrderFacts
<1>5. /\ Distinct(active[c])
      /\ stage[target'] = "subscribed" /\ project[target'] = c
  BY <1>1, <1>3, <1>4, ListsAreDistinct DEF ListInv
<1> HIDE DEF c
<1>6. target' \in Sockets
  BY <1>1, <1>4
<1>7. \A s \in Sockets : Passed(s) => Passed(s)' /\ s # target'
  <2> SUFFICES ASSUME NEW s \in Sockets, Passed(s) PROVE Passed(s)' /\ s # target'
    OBVIOUS
  <2>1. \A i \in 1..Len(active[c]) : active[c][i] = s => i <= index
    BY DEF Passed, c
  <2>2. s # target'
    BY <2>1, <1>1, <1>3, <1>4
  <2>3. \A i \in 1..Len(active'[c]) : active'[c][i] = s => i <= index'
    BY <2>1, <1>1, <1>3
  <2> QED BY <2>2, <2>3, <1>3 DEF Passed
<1>8. \A s \in Sockets : HasCurrent(s)' <=> HasCurrent(s)
  BY <1>1 DEF HasCurrent
<1>9. \A s \in Sockets : HasCurrent(s) => Passed(s)
  BY <1>3 DEF OrderInv, TargetIsNew
<1>10. ~HasCurrent(target)'
  <2>1. HasCurrent(target)' <=> HasCurrent(target')
    BY <1>1 DEF HasCurrent
  <2> QED BY <2>1, <1>6, <1>7, <1>9
<1>11. Passed(target)'
  <2>1. \A i \in 1..Len(active'[c]) : active'[c][i] = target' => i = index'
    BY <1>1, <1>4, <1>5 DEF Distinct
  <2>2. \A i \in 1..Len(active'[c]) : active'[c][i] = target' => i <= index'
    BY <2>1, <1>1, <1>3
  <2> QED BY <2>2, <1>3 DEF Passed
<1>12. Settled(target)' /\ project'[target'] = Current'
  BY <1>1, <1>3, <1>5 DEF Settled
<1>13. TargetIsNew'
  BY <1>7, <1>8, <1>9, <1>10, <1>11, <1>12 DEF TargetIsNew
<1> QED BY <1>2, <1>13 DEF OrderInv

LEMMA EndSendKeepsOrder ==
  ASSUME ListInv, OrderInv, EndSend
  PROVE  OrderInv'
<1>1. /\ listener = "sending" /\ listener' = "looping"
      /\ UNCHANGED <<active, stage, project, log, heard, index>>
      /\ \/ received' = [received EXCEPT ![target] = Append(@, heard)]
         \/ received' = received
  BY DEF EndSend, socketVars
<1>2. /\ Looping /\ target \in Sockets /\ heard \in Nat /\ heard > 0
      /\ received \in [Sockets -> Seq(1..Len(log))]
  BY <1>1, OrderFacts DEF Looping, ListInv, TypeOK
<1>3. /\ Passed(target) /\ ~HasCurrent(target)
      /\ Settled(target) /\ project[target] = Current
  BY <1>1 DEF OrderInv, TargetIsNew
<1>4. \A s \in Sockets : \A i \in 1..Len(received[s]) :
        Settled(s) /\ received[s][i] \in 1..heard /\ log[received[s][i]] = project[s]
  BY DEF OrderInv, ReceivedIsOwn
<1>5. \A s \in Sockets : HasCurrent(s) => Passed(s)
  BY <1>2 DEF OrderInv, TargetIsNew
<1>6. \A s \in Sockets : Passed(s)' <=> Passed(s)
  BY <1>1 DEF Passed, Current
<1>7. \A s \in Sockets : received'[s] \in {received[s], Append(received[s], heard)}
                         /\ (s # target => received'[s] = received[s])
  BY <1>1, <1>2
<1>8. \A s \in Sockets : \A i \in 1..Len(received'[s]) :
        \/ i \in 1..Len(received[s]) /\ received'[s][i] = received[s][i]
        \/ s = target /\ i = Len(received[s]) + 1 /\ received'[s][i] = heard
  <2> SUFFICES ASSUME NEW s \in Sockets, NEW i \in 1..Len(received'[s])
               PROVE  \/ i \in 1..Len(received[s]) /\ received'[s][i] = received[s][i]
                      \/ s = target /\ i = Len(received[s]) + 1 /\ received'[s][i] = heard
    OBVIOUS
  <2>1. received[s] \in Seq(1..Len(log))
    BY <1>2
  <2>2. CASE received'[s] = received[s]
    BY <2>2
  <2>3. CASE s = target /\ received'[s] = Append(received[s], heard)
    BY <2>1, <2>3
  <2> QED BY <2>2, <2>3, <1>7
<1>9. ReceivedIsOwn'
  <2> SUFFICES ASSUME NEW s \in Sockets, NEW i \in 1..Len(received'[s])
               PROVE  /\ Settled(s) /\ received'[s][i] \in 1..heard
                      /\ log[received'[s][i]] = project[s]
    BY <1>1 DEF ReceivedIsOwn, Settled
  <2>1. CASE i \in 1..Len(received[s]) /\ received'[s][i] = received[s][i]
    BY <2>1, <1>4
  <2>2. CASE s = target /\ received'[s][i] = heard
    BY <2>2, <1>2, <1>3 DEF Current
  <2> QED BY <2>1, <2>2, <1>8
<1>10. Ascending'
  <2> SUFFICES ASSUME NEW s \in Sockets, NEW i \in 1..Len(received'[s]),
                      NEW j \in 1..Len(received'[s]), i < j
               PROVE  received'[s][i] < received'[s][j]
    BY DEF Ascending
  <2>0. Len(received[s]) \in Nat
    BY OrderFacts
  <2>1. CASE j \in 1..Len(received[s]) /\ received'[s][j] = received[s][j]
    <3>1. i \in 1..Len(received[s]) /\ received'[s][i] = received[s][i]
      BY <2>0, <2>1, <1>8
    <3> QED BY <2>1, <3>1 DEF OrderInv, Ascending
  <2>2. CASE s = target /\ j = Len(received[s]) + 1 /\ received'[s][j] = heard
    <3>1. i \in 1..Len(received[s]) /\ received'[s][i] = received[s][i]
      BY <2>0, <2>2, <1>8
    <3>2. received[s][i] \in 1..heard /\ received[s][i] # heard
      BY <3>1, <2>2, <1>3, <1>4 DEF HasCurrent
    <3> QED BY <3>1, <3>2, <2>2, <1>2
  <2> QED BY <2>1, <2>2, <1>8
<1>11. TargetIsNew'
  <2>1. \A s \in Sockets : HasCurrent(s)' => HasCurrent(s) \/ s = target
    BY <1>1, <1>8 DEF HasCurrent
  <2> QED BY <2>1, <1>1, <1>3, <1>5, <1>6 DEF TargetIsNew
<1> QED BY <1>9, <1>10, <1>11 DEF OrderInv

\* Outside the loop nobody is being served.
LEMMA IdleKeepsOrder ==
  ASSUME OrderInv, EndLoop \/ Prune \/ ListenerFails
  PROVE  OrderInv'
<1>1. UNCHANGED <<stage, project, log, heard, received>> /\ ~Looping'
  BY DEF EndLoop, Prune, ListenerFails, socketVars, Looping
<1>2. ReceivedIsOwn' /\ Ascending'
  BY <1>1 DEF OrderInv, ReceivedIsOwn, Ascending, Settled
<1>3. TargetIsNew'
  BY <1>1 DEF TargetIsNew, Looping
<1> QED BY <1>2, <1>3 DEF OrderInv

LEMMA StepKeepsOrder == ListInv /\ OrderInv /\ [Next]_vars => OrderInv'
<1> SUFFICES ASSUME ListInv, OrderInv, [Next]_vars PROVE OrderInv'
  OBVIOUS
<1>1. ASSUME NEW s \in Sockets, ClientLeaves(s) PROVE OrderInv'
  BY <1>1, SocketStepKeepsOrder
     DEF ClientLeaves, listenerVars, Settled, Passed, Current
<1>2. ASSUME UNCHANGED vars PROVE OrderInv'
  BY <1>2, SocketStepKeepsOrder
     DEF vars, socketVars, listenerVars, Settled, Passed, Current
<1> QED BY <1>1, <1>2, SubscribeKeepsOrder, ConnectKeepsOrder, FinishKeepsOrder, PublishKeepsOrder,
           ListenKeepsOrder, StartSendKeepsOrder, EndSendKeepsOrder, IdleKeepsOrder
        DEF Next, SocketStep, ListenerStep

\* The inductive invariant: nobody behind the iterator was served in this round.
THEOREM RoundsAreOrdered == Spec => [](ListInv /\ OrderInv)
BY InitLists, StepKeepsLists, InitOrder, StepKeepsOrder, PTL DEF Spec

\* Each client is sent the messages of its project, once and in order, however the
\* lists change under the loop.
THEOREM MessagesInOrder == Spec => []InOrder
<1>1. ListInv /\ OrderInv => InOrder
  BY DEF OrderInv, ReceivedIsOwn, Ascending, InOrder
<1> QED BY <1>1, RoundsAreOrdered, PTL

-----------------------------------------------------------------------------
(* Complete rounds.                                                         *)

Done(s) == s \notin open \/ HasCurrent(s)

\* Who stays is still in the list, and behind the iterator only when it was served.
Awaits(s) ==
  \E i \in 1..Len(active[Current]) :
    /\ active[Current][i] = s
    /\ i <= index => Done(s) \/ (listener = "sending" /\ s = target)

RoundInv ==
  ~disturbed =>
    /\ Looping => \A s \in staying : Awaits(s)
    /\ RoundOver => \A s \in staying : Done(s)

LEMMA InitRound == Init => RoundInv
BY DEF Init, RoundInv, Looping, RoundOver

\* Steps of others that take nobody out of the list of the round.
LEMMA SocketStepKeepsRound ==
  ASSUME ListInv, RoundInv,
         UNCHANGED <<log, heard, index, target, listener, received>>,
         open' \subseteq open, staying' \subseteq staying, disturbed' = disturbed,
         Looping => \A i \in 1..Len(active[Current]) :
           i \in 1..Len(active'[Current]) /\ active'[Current][i] = active[Current][i]
  PROVE  RoundInv'
<1>1. Looping' = Looping /\ RoundOver' = RoundOver /\ Current' = Current
  BY DEF Looping, RoundOver, Current
<1>2. \A s : Done(s) => Done(s)'
  BY DEF Done, HasCurrent
<1>3. ASSUME Looping, NEW s, Awaits(s) PROVE Awaits(s)'
  <2>1. PICK i \in 1..Len(active[Current]) :
          /\ active[Current][i] = s
          /\ i <= index => Done(s) \/ (listener = "sending" /\ s = target)
    BY <1>3 DEF Awaits
  <2>2. i \in 1..Len(active'[Current]) /\ active'[Current][i] = s
    BY <1>3, <2>1
  <2>3. i <= index' => Done(s)' \/ (listener' = "sending" /\ s = target')
    BY <1>2, <2>1
  <2> QED BY <2>2, <2>3, <1>1 DEF Awaits
<1> QED BY <1>1, <1>2, <1>3 DEF RoundInv

LEMMA ConnectKeepsRound ==
  ASSUME ListInv, RoundInv, NEW s \in Sockets, Connect(s)
  PROVE  RoundInv'
<1> DEFINE q == project[s]
           c == Current
<1>1. /\ active' = [active EXCEPT ![q] = Append(@, s)]
      /\ UNCHANGED <<open, log, heard, index, target, listener, received, staying, disturbed>>
  BY DEF Connect, listenerVars, historyVars
<1>2. active \in [Projects -> Seq(Sockets)]
  BY DEF ListInv, TypeOK
<1>3. ASSUME Looping, NEW i \in 1..Len(active[c])
      PROVE  i \in 1..Len(active'[c]) /\ active'[c][i] = active[c][i]
  <2>1. active[c] \in Seq(Sockets)
    BY <1>2, <1>3, OrderFacts
  <2>2. c \in Projects
    BY <1>3, OrderFacts
  <2> HIDE DEF c, q
  <2>3. active'[c] \in {active[c], Append(active[c], s)}
    BY <2>2, <1>1, <1>2
  <2> QED BY <2>1, <2>3, <1>3
<1> HIDE DEF q
<1>4. open' \subseteq open /\ staying' \subseteq staying /\ disturbed' = disturbed
  BY <1>1
<1>5. UNCHANGED <<log, heard, index, target, listener, received>>
  BY <1>1
<1> QED BY <1>3, <1>4, <1>5, SocketStepKeepsRound

LEMMA FinishKeepsRound ==
  ASSUME ListInv, RoundInv, NEW s \in Sockets, Finish(s)
  PROVE  RoundInv'
<1>1. UNCHANGED <<open, log, heard, index, target, listener, received>>
  BY DEF Finish, listenerVars
<1>2. active \in [Projects -> Seq(Sockets)] /\ disturbed \in BOOLEAN
  BY DEF ListInv, TypeOK
<1>3. CASE disturbed'
  BY <1>3 DEF RoundInv
<1>4. CASE ~disturbed'
  <2>1. /\ ~disturbed /\ staying' \subseteq staying
        /\ Looping => active' = active \/ project[s] # Current
        /\ active' = active \/ active' = [active EXCEPT ![project[s]] = Without(@, s)]
    BY <1>4, <1>2 DEF Finish, historyVars
  <2>2. Looping => active'[Current] = active[Current]
    <3> DEFINE q == project[s]
    <3> HIDE DEF q
    <3>1. ASSUME Looping PROVE Current \in Projects
      BY <3>1, OrderFacts
    <3>2. active' = active \/ active' = [active EXCEPT ![q] = Without(@, s)]
      BY <2>1 DEF q
    <3>3. Looping => active' = active \/ q # Current
      BY <2>1 DEF q
    <3> QED BY <3>1, <3>2, <3>3, <1>2
  <2>3. disturbed' = disturbed
    BY <1>4, <2>1, <1>2 DEF Finish, historyVars
  <2>4. Looping => \A i \in 1..Len(active[Current]) :
          i \in 1..Len(active'[Current]) /\ active'[Current][i] = active[Current][i]
    BY <2>2
  <2>5. open' \subseteq open /\ staying' \subseteq staying
    BY <1>1, <2>1
  <2> QED BY <1>1, <2>3, <2>4, <2>5, SocketStepKeepsRound
<1> QED BY <1>3, <1>4

LEMMA OthersKeepRound ==
  ASSUME ListInv, RoundInv,
         \/ \E s \in Sockets : ClientLeaves(s) \/ \E p \in Projects : Subscribe(s, p)
         \/ UNCHANGED vars
  PROVE  RoundInv'
<1>1. /\ UNCHANGED <<active, log, heard, index, target, listener, received, staying, disturbed>>
      /\ open' \subseteq open
  BY DEF ClientLeaves, Subscribe, vars, socketVars, listenerVars, historyVars
<1> QED BY <1>1, SocketStepKeepsRound

LEMMA PublishKeepsRound ==
  ASSUME ListInv, RoundInv, NEW p \in Projects, Publish(p)
  PROVE  RoundInv'
<1>1. log' = Append(log, p)
      /\ UNCHANGED <<active, open, heard, index, target, listener, received, staying, disturbed>>
  BY DEF Publish, socketVars, listenerVars, historyVars
<1>2. Looping => Current' = Current
  BY <1>1, OrderFacts DEF Current
<1>3. \A s : Done(s)' <=> Done(s)
  BY <1>1 DEF Done, HasCurrent
<1>4. Looping => \A s : Awaits(s) => Awaits(s)'
  BY <1>1, <1>2, <1>3 DEF Awaits
<1> QED BY <1>1, <1>3, <1>4 DEF RoundInv, Looping, RoundOver

LEMMA ListenKeepsRound ==
  ASSUME ListInv, Listen
  PROVE  RoundInv'
<1>1. /\ listener' = "looping" /\ heard' = heard + 1 /\ index' = 0
      /\ staying' = Elements(active[log[heard + 1]])
      /\ UNCHANGED <<active, log>>
  BY DEF Listen, ListInv, TypeOK, Looping
<1>2. Current' = log[heard + 1]
  BY <1>1 DEF Current
<1> DEFINE c == log[heard + 1]
<1>3. c \in Projects
  BY OrderFacts DEF Listen
<1> HIDE DEF c
<1>4. \A s \in staying' : Awaits(s)'
  <2> TAKE s \in staying'
  <2>1. PICK i \in 1..Len(active[c]) : active[c][i] = s
    BY <1>1 DEF Elements, c
  <2>2. ~(i <= 0)
    BY <2>1, <1>3, OrderFacts
  <2> QED BY <2>1, <2>2, <1>1, <1>2 DEF Awaits, c
<1>5. ~RoundOver'
  BY <1>1 DEF RoundOver
<1> QED BY <1>4, <1>5 DEF RoundInv

LEMMA StartSendKeepsRound ==
  ASSUME ListInv, RoundInv, StartSend
  PROVE  RoundInv'
<1>1. /\ listener = "looping" /\ listener' = "sending"
      /\ index' = index + 1 /\ target' = active[Current][index + 1]
      /\ UNCHANGED <<active, open, log, heard, received, staying, disturbed>>
  BY DEF StartSend, socketVars, historyVars
<1>2. Looping /\ Current' = Current /\ index \in Nat /\ ~RoundOver'
  BY <1>1, OrderFacts DEF Looping, Current, RoundOver
<1>3. \A s : Done(s)' <=> Done(s)
  BY <1>1 DEF Done, HasCurrent
<1>4. ASSUME NEW s, Awaits(s) PROVE Awaits(s)'
  <2> DEFINE c == Current
  <2>1. PICK i \in 1..Len(active[c]) : active[c][i] = s /\ (i <= index => Done(s))
    BY <1>1, <1>4 DEF Awaits
  <2>2. i \in Nat
    BY <1>2, OrderFacts
  <2>3. i <= index' => Done(s) \/ s = target'
    BY <2>1, <2>2, <1>1, <1>2
  <2> QED BY <2>1, <2>3, <1>1, <1>2, <1>3 DEF Awaits
<1> QED BY <1>1, <1>2, <1>4 DEF RoundInv

LEMMA EndSendKeepsRound ==
  ASSUME ListInv, RoundInv, EndSend
  PROVE  RoundInv'
<1>1. /\ listener = "sending" /\ listener' = "looping"
      /\ UNCHANGED <<active, open, log, heard, index, staying, disturbed>>
      /\ \/ target \in open /\ received' = [received EXCEPT ![target] = Append(@, heard)]
         \/ target \notin open /\ received' = received
  BY DEF EndSend, socketVars, historyVars
<1>2. /\ Looping /\ Current' = Current /\ ~RoundOver'
      /\ target \in Sockets /\ received \in [Sockets -> Seq(1..Len(log))]
      /\ heard \in 1..Len(log)
  BY <1>1, OrderFacts DEF Looping, Current, RoundOver, ListInv, TypeOK
<1>3. ASSUME NEW t \in Sockets, t = target PROVE Done(t)'
  <2>1. CASE t \in open
    <3>1. received'[t] = Append(received[t], heard)
      BY <1>1, <1>2, <1>3, <2>1
    <3>2. received[t] \in Seq(1..Len(log))
      BY <1>2
    <3>3. \E i \in 1..Len(received'[t]) : received'[t][i] = heard
      BY <3>1, <3>2, <1>2
    <3> QED BY <3>3, <1>1 DEF HasCurrent, Done
  <2>2. CASE t \notin open
    BY <2>2, <1>1 DEF Done
  <2> QED BY <2>1, <2>2
<1>4. \A s \in Sockets : Done(s) => Done(s)'
  <2> SUFFICES ASSUME NEW s \in Sockets, HasCurrent(s) PROVE HasCurrent(s)'
    BY <1>1 DEF Done
  <2>1. PICK i \in 1..Len(received[s]) : received[s][i] = heard
    BY DEF HasCurrent
  <2>2. received[s] \in Seq(1..Len(log))
    BY <1>2
  <2>3. received'[s] \in {received[s], Append(received[s], heard)}
    BY <1>1, <1>2
  <2>4. i \in 1..Len(received'[s]) /\ received'[s][i] = heard
    <3>1. CASE received'[s] = received[s]
      BY <3>1, <2>1
    <3>2. CASE received'[s] = Append(received[s], heard)
      BY <3>2, <2>1, <2>2
    <3> QED BY <3>1, <3>2, <2>3
  <2> QED BY <2>4, <1>1 DEF HasCurrent
<1>5. ASSUME NEW s \in Sockets, Awaits(s) PROVE Awaits(s)'
  <2>1. PICK i \in 1..Len(active[Current]) :
          active[Current][i] = s /\ (i <= index => Done(s) \/ s = target)
    BY <1>5 DEF Awaits
  <2>2. i <= index' => Done(s)'
    BY <2>1, <1>1, <1>3, <1>4
  <2> QED BY <2>1, <2>2, <1>1, <1>2 DEF Awaits
<1>6. staying \subseteq Sockets
  BY DEF ListInv, TypeOK
<1> QED BY <1>1, <1>2, <1>5, <1>6 DEF RoundInv

LEMMA EndLoopKeepsRound ==
  ASSUME ListInv, RoundInv, EndLoop
  PROVE  RoundInv'
<1>1. /\ listener = "looping" /\ index >= Len(active[Current]) /\ ~Looping'
      /\ UNCHANGED <<open, heard, received, staying, disturbed>>
  BY DEF EndLoop, socketVars, historyVars, Looping
<1>2. Looping /\ index \in Nat /\ Len(active[Current]) \in Nat
  BY <1>1, OrderFacts DEF Looping
<1>3. ASSUME NEW s, Awaits(s) PROVE Done(s)
  <2>1. PICK i \in 1..Len(active[Current]) : i <= index => Done(s)
    BY <1>1, <1>3 DEF Awaits
  <2>2. i <= index
    BY <2>1, <1>1, <1>2
  <2> QED BY <2>1, <2>2
<1>4. \A s : Done(s)' <=> Done(s)
  BY <1>1 DEF Done, HasCurrent
<1> QED BY <1>1, <1>2, <1>3, <1>4 DEF RoundInv

LEMMA IdleKeepsRound ==
  ASSUME RoundInv, Prune \/ ListenerFails
  PROVE  RoundInv'
<1>1. /\ ~Looping' /\ (RoundOver' => RoundOver)
      /\ UNCHANGED <<open, heard, received, staying, disturbed>>
  BY DEF Prune, ListenerFails, socketVars, historyVars, Looping, RoundOver
<1>2. \A s : Done(s)' <=> Done(s)
  BY <1>1 DEF Done, HasCurrent
<1> QED BY <1>1, <1>2 DEF RoundInv

LEMMA StepKeepsRound == ListInv /\ RoundInv /\ [Next]_vars => RoundInv'
BY ConnectKeepsRound, FinishKeepsRound, OthersKeepRound, PublishKeepsRound, ListenKeepsRound,
   StartSendKeepsRound, EndSendKeepsRound, EndLoopKeepsRound, IdleKeepsRound
   DEF Next, SocketStep, ListenerStep

\* A round that nobody leaves reaches every client that stays, however many join it.
THEOREM UndisturbedRoundsReachAll == Spec => []UndisturbedRoundIsComplete
<1>1. ListInv /\ RoundInv => UndisturbedRoundIsComplete
  BY DEF RoundInv, UndisturbedRoundIsComplete, Served, Done, HasCurrent, Elements
<1> QED BY <1>1, InitLists, StepKeepsLists, InitRound, StepKeepsRound, PTL DEF Spec
=============================================================================
