---------------------------- MODULE IngestProofs ----------------------------
(***************************************************************************)
(* Proofs about the way of a reading into the database: EdgeGateway, for   *)
(* any adapters, registers, queue and faults, and DataIngest, for any      *)
(* calls, batches, channels and faults.                                    *)
(***************************************************************************)
EXTENDS EdgeGateway, DataIngest, SequenceTheorems, WellFoundedInduction, TLAPS

-----------------------------------------------------------------------------
(* Places.                                                                  *)

LEMMA LeastExists ==
  ASSUME NEW S \in SUBSET Nat, S # {}
  PROVE  \E x \in S : \A y \in S : x <= y
<1> DEFINE R == OpToRel(<, Nat)
<1>1. IsWellFoundedOn(R, Nat)
  BY NatLessThanWellFounded
<1>2. \A x, y \in Nat : x < y => <<x, y>> \in R
  BY DEF OpToRel
<1> HIDE DEF R
<1>3. PICK x \in S : \A y \in S : ~(<<y, x>> \in R)
  BY <1>1, WFMin
<1>4. ASSUME NEW y \in S PROVE x <= y
  <2>1. x \in Nat /\ y \in Nat /\ ~(y < x)
    BY <1>2, <1>3
  <2> QED BY <2>1
<1> QED BY <1>4

LEMMA GreatestExists ==
  ASSUME NEW n \in Nat, NEW S \in SUBSET (1..n), S # {}
  PROVE  \E x \in S : \A y \in S : y <= x
<1> DEFINE T == {n - i : i \in S}
<1>0. \A i \in S : n - i \in Nat
  OBVIOUS
<1>1. T \in SUBSET Nat /\ T # {}
  <2>1. T \subseteq Nat
    BY <1>0
  <2>2. PICK i \in S : TRUE
    OBVIOUS
  <2>3. n - i \in T
    OBVIOUS
  <2> QED BY <2>1, <2>3
<1> HIDE DEF T
<1>2. PICK m \in T : \A k \in T : m <= k
  BY <1>1, LeastExists
<1>3. PICK x \in S : m = n - x
  BY DEF T
<1>4. ASSUME NEW y \in S PROVE y <= x
  <2>1. n - y \in T
    BY DEF T
  <2> QED BY <2>1, <1>2, <1>3
<1> QED BY <1>4

LEMMA BatchFacts ==
  ASSUME NEW c \in Calls
  PROVE  /\ Len(BatchOf[c]) \in Nat
         /\ \A i \in Places(c) : BatchOf[c][i] \in Readings /\ i \in Nat
<1>1. BatchOf[c] \in Seq(Readings)
  BY BatchAssumption
<1> QED BY <1>1 DEF Places

LEMMA ReadingFacts ==
  ASSUME NEW r \in Readings
  PROVE  r.channel \in Channels /\ SameKey(r, r)
BY DEF Readings, SameKey

-----------------------------------------------------------------------------
(* Types.                                                                   *)

\* What TypeOK says of places, and that Redis keeps what it is sent: places of the batch.
PlacesOK ==
  \A c \in Calls :
    /\ accepted[c] \subseteq Places(c)
    /\ published[c] \subseteq cached[c] /\ cached[c] \subseteq accepted[c]

LEMMA TypesOfAccepted ==
  ASSUME PlacesOK, NEW c \in Calls
  PROVE  /\ Accepted(c) \subseteq Readings
         /\ ChannelsOf(c) \subseteq Channels
         /\ \A i \in accepted[c] : BatchOf[c][i] \in Accepted(c) /\ i \in Nat
BY BatchFacts, ReadingFacts DEF PlacesOK, Accepted, ReadingsAt, ChannelsOf

LEMMA StoreTypes ==
  ASSUME TypeOK, NEW c \in Calls, Store(c)
  PROVE  /\ table' \subseteq Readings
         /\ newest' \in [Channels -> Readings \cup {Nothing}]
         /\ overlapped' \subseteq Channels
<1>1. PlacesOK
  BY DEF TypeOK, PlacesOK
<1>2. Accepted(c) \subseteq Readings /\ ChannelsOf(c) \subseteq Channels
  BY <1>1, TypesOfAccepted
<1>3. table' \subseteq Readings
  BY <1>2 DEF TypeOK, Store
<1>4. overlapped' \subseteq Channels
  BY <1>2 DEF TypeOK, Store, Overtakes
<1>5. ASSUME NEW ch \in ChannelsOf(c) PROVE LastOf(c, ch) \in Readings
  <2> DEFINE places == {i \in accepted[c] : BatchOf[c][i].channel = ch}
  <2>1. places \in SUBSET (1..Len(BatchOf[c])) /\ places # {}
    BY <1>1 DEF PlacesOK, Places, ChannelsOf, Accepted, ReadingsAt
  <2>2. Len(BatchOf[c]) \in Nat
    BY BatchFacts
  <2> DEFINE last == CHOOSE i \in places : \A j \in places : j <= i
  <2>3. last \in places
    <3> HIDE DEF places
    <3>1. \E i \in places : \A j \in places : j <= i
      BY <2>1, <2>2, GreatestExists
    <3> QED BY <3>1
  <2>4. LastOf(c, ch) = BatchOf[c][last]
    BY DEF LastOf
  <2>5. last \in Places(c)
    BY <2>1, <2>3 DEF Places
  <2> HIDE DEF last
  <2> QED BY <2>4, <2>5, BatchFacts
<1>6. newest' \in [Channels -> Readings \cup {Nothing}]
  BY <1>5 DEF TypeOK, Store
<1> QED BY <1>3, <1>4, <1>6

\* What is left of a batch begins somewhere.
LEMMA FirstIsThere ==
  ASSUME PlacesOK, NEW c \in Calls, ~Through(c), published[c] = cached[c]
  PROVE  First(accepted[c] \ cached[c]) \in accepted[c] \ cached[c]
<1> DEFINE rest == accepted[c] \ cached[c]
<1>1. rest \in SUBSET Nat /\ rest # {}
  BY BatchFacts DEF PlacesOK, Through
<1> HIDE DEF rest
<1>2. \E i \in rest : \A j \in rest : i <= j
  BY <1>1, LeastExists
<1>3. First(rest) \in rest
  BY <1>2 DEF First
<1> QED BY <1>3 DEF rest

\* Redis is sent nothing before COPY.
Untouched == \A c \in Calls : pc[c] \in {"new", "resolved"} => cached[c] = {}

TypeInv == TypeOK /\ Untouched

LEMMA InitTypes == Init => TypeInv
BY DEF Init, TypeOK, Stage, Faults, TypeInv, Untouched

LEMMA FaultTypes ==
  ASSUME TypeOK, NEW k \in Faults, Fault(k)
  PROVE  spent' \in [Faults -> Nat]
BY DEF TypeOK, Fault

LEMMA MoveTypes ==
  ASSUME TypeOK, NEW c \in Calls, NEW s \in Stage, Move(c, s)
  PROVE  /\ pc' \in [Calls -> Stage]
         /\ \A d \in Calls : pc'[d] = IF d = c THEN s ELSE pc[d]
BY DEF TypeOK, Move

\* What TypeInv says of the calls.
CallTypes ==
  /\ pc \in [Calls -> Stage]
  /\ {accepted, cached, published} \subseteq [Calls -> SUBSET Nat]
  /\ PlacesOK /\ Untouched
  /\ \A c \in Calls : pc[c] \in {"resolved", "stored", "pushed"} => accepted[c] # {}

StoreTypeOK ==
  /\ known \subseteq Channels
  /\ table \subseteq Readings
  /\ latest \in [Channels -> Readings \cup {Nothing}]
  /\ feed \in Seq(Readings)
  /\ checks \subseteq Calls
  /\ newest \in [Channels -> Readings \cup {Nothing}]
  /\ overlapped \subseteq Channels
  /\ spent \in [Faults -> Nat]

LEMMA TypeParts == TypeInv <=> CallTypes /\ StoreTypeOK
BY DEF TypeInv, TypeOK, CallTypes, PlacesOK, StoreTypeOK

LEMMA TypePartsNext == CallTypes' /\ StoreTypeOK' => TypeInv'
BY DEF TypeInv, TypeOK, CallTypes, PlacesOK, StoreTypeOK

\* Steps of a call that leave its places alone.
LEMMA MoveKeepsCallTypes ==
  ASSUME TypeInv, NEW c \in Calls, NEW s \in Stage \ {"new", "resolved"}, Move(c, s),
         UNCHANGED callVars,
         s \in {"stored", "pushed"} => pc[c] \in {"resolved", "stored", "pushed"}
  PROVE  CallTypes'
<1>1. pc' \in [Calls -> Stage] /\ \A d \in Calls : pc'[d] = IF d = c THEN s ELSE pc[d]
  BY MoveTypes DEF TypeInv
<1>2. accepted' = accepted /\ cached' = cached /\ published' = published
  BY DEF callVars
<1> QED BY <1>1, <1>2, TypeParts DEF CallTypes, PlacesOK, Untouched

LEMMA ResolveTypes ==
  ASSUME TypeInv, NEW c \in Calls, Resolve(c)
  PROVE  TypeInv'
<1> DEFINE places == {i \in Places(c) : BatchOf[c][i].channel \in known}
           s == IF places = {} THEN "done" ELSE "resolved"
<1>1. /\ pc[c] = "new" /\ Move(c, s) /\ accepted' = [accepted EXCEPT ![c] = places]
      /\ UNCHANGED <<storeVars, cached, published, historyVars, spent>>
  BY DEF Resolve
<1>2. places \subseteq Nat /\ places \subseteq Places(c)
  BY BatchFacts
<1>3. s \in Stage /\ (s = "resolved" => places # {}) /\ s \notin {"stored", "pushed"}
  BY DEF Stage
<1> HIDE DEF places, s
<1>4. accepted' \in [Calls -> SUBSET Nat]
      /\ \A d \in Calls : accepted'[d] = IF d = c THEN places ELSE accepted[d]
  BY <1>1, <1>2 DEF TypeInv, TypeOK
<1>5. pc' \in [Calls -> Stage] /\ \A d \in Calls : pc'[d] = IF d = c THEN s ELSE pc[d]
  BY <1>1, <1>3, MoveTypes DEF TypeInv
<1>6. cached[c] = {} /\ published[c] = {}
  BY <1>1 DEF TypeInv, TypeOK, Untouched
<1>7. CallTypes'
  BY <1>1, <1>2, <1>3, <1>4, <1>5, <1>6, TypeParts DEF CallTypes, PlacesOK, Untouched
<1>8. StoreTypeOK'
  BY <1>1, TypeParts DEF StoreTypeOK, storeVars, historyVars
<1> QED BY <1>7, <1>8, TypePartsNext

LEMMA PushTypes ==
  ASSUME TypeInv, NEW c \in Calls, Push(c)
  PROVE  TypeInv'
<1>1. pc[c] = "stored" /\ UNCHANGED <<known, table, checks, pc, accepted, historyVars, spent>>
  BY DEF Push
<1>2. PlacesOK
  BY TypeParts DEF CallTypes
<1>3. CASE SetLatest(c)
  <2> DEFINE i == First(accepted[c] \ cached[c])
  <2>1. i \in accepted[c] \ cached[c]
    BY <1>2, <1>3, FirstIsThere DEF SetLatest
  <2>2. /\ latest' = [latest EXCEPT ![BatchOf[c][i].channel] = BatchOf[c][i]]
        /\ cached' = [cached EXCEPT ![c] = @ \cup {i}]
        /\ UNCHANGED <<feed, published>>
    BY <1>3 DEF SetLatest
  <2> HIDE DEF i
  <2>3. BatchOf[c][i] \in Readings /\ i \in Nat
    BY <1>2, <2>1, BatchFacts DEF PlacesOK
  <2>4. latest' \in [Channels -> Readings \cup {Nothing}]
    BY <2>2, <2>3 DEF TypeInv, TypeOK
  <2>5. /\ cached' \in [Calls -> SUBSET Nat]
        /\ \A d \in Calls : cached'[d] = IF d = c THEN cached[d] \cup {i} ELSE cached[d]
    BY <2>2, <2>3 DEF TypeInv, TypeOK
  <2>6. CallTypes'
    BY <1>1, <2>1, <2>2, <2>5, TypeParts DEF CallTypes, PlacesOK, Untouched
  <2>7. StoreTypeOK'
    BY <1>1, <2>2, <2>4, TypeParts DEF StoreTypeOK, historyVars
  <2> QED BY <2>6, <2>7, TypePartsNext
<1>4. CASE Publish(c)
  <2>1. PICK i \in cached[c] \ published[c] :
          /\ feed' = Append(feed, BatchOf[c][i])
          /\ published' = [published EXCEPT ![c] = @ \cup {i}]
          /\ UNCHANGED <<latest, cached>>
    BY <1>4 DEF Publish
  <2>2. BatchOf[c][i] \in Readings /\ i \in Nat
    BY <1>2, <2>1, BatchFacts DEF PlacesOK
  <2>3. feed' \in Seq(Readings)
    BY <2>1, <2>2 DEF TypeInv, TypeOK
  <2>4. /\ published' \in [Calls -> SUBSET Nat]
        /\ \A d \in Calls : published'[d] = IF d = c THEN published[d] \cup {i} ELSE published[d]
    BY <2>1, <2>2 DEF TypeInv, TypeOK
  <2>5. CallTypes'
    BY <1>1, <2>1, <2>4, TypeParts DEF CallTypes, PlacesOK, Untouched
  <2>6. StoreTypeOK'
    BY <1>1, <2>1, <2>3, TypeParts DEF StoreTypeOK, historyVars
  <2> QED BY <2>5, <2>6, TypePartsNext
<1> QED BY <1>3, <1>4 DEF Push

\* The other steps of a call move it on and leave its places alone.
LEMMA OtherStepTypes ==
  ASSUME TypeInv, NEW c \in Calls,
         Copy(c) \/ CopyFails(c) \/ EndPush(c) \/ DispatchCheck(c) \/ Dies(c)
  PROVE  TypeInv'
<1>1. PICK s \in Stage \ {"new", "resolved"} :
        /\ Move(c, s) /\ UNCHANGED callVars
        /\ s \in {"stored", "pushed"} => pc[c] \in {"resolved", "stored", "pushed"}
  BY DEF Copy, CopyFails, EndPush, DispatchCheck, Dies, Stage
<1>2. CallTypes'
  BY <1>1, MoveKeepsCallTypes
<1>3. /\ table' \subseteq Readings
      /\ newest' \in [Channels -> Readings \cup {Nothing}]
      /\ overlapped' \subseteq Channels
  <2>1. CASE Store(c)
    BY <2>1, StoreTypes DEF TypeInv
  <2>2. CASE ~Store(c)
    <3>1. UNCHANGED <<table, historyVars>>
      BY <2>2 DEF Copy, CopyFails, EndPush, DispatchCheck, Dies, storeVars
    <3> QED BY <3>1 DEF TypeInv, TypeOK, historyVars
  <2> QED BY <2>1, <2>2
<1>4. spent' \in [Faults -> Nat]
  <2>1. \/ spent' = spent \/ \E k \in Faults : Fault(k)
    BY DEF Copy, CopyFails, EndPush, DispatchCheck, Dies, Faults
  <2> QED BY <2>1, FaultTypes DEF TypeInv, TypeOK
<1>5. /\ UNCHANGED <<known, latest, feed>>
      /\ checks' \subseteq Calls
  BY DEF Copy, CopyFails, EndPush, DispatchCheck, Dies, storeVars, TypeInv, TypeOK
<1>6. StoreTypeOK'
  BY <1>3, <1>4, <1>5, TypeParts DEF StoreTypeOK
<1> QED BY <1>2, <1>6, TypePartsNext

LEMMA TypesKept == TypeInv /\ [Next]_vars => TypeInv'
<1> SUFFICES ASSUME TypeInv, [Next]_vars PROVE TypeInv'
  OBVIOUS
<1>1. ASSUME NEW ch \in Channels, CreateChannel(ch) \/ DeleteChannel(ch) PROVE TypeInv'
  <2>1. known' \subseteq Channels
        /\ UNCHANGED <<table, latest, feed, checks, pc, callVars, historyVars, spent>>
    BY <1>1 DEF CreateChannel, DeleteChannel, TypeInv, TypeOK
  <2>2. CallTypes'
    BY <2>1, TypeParts DEF CallTypes, PlacesOK, Untouched, callVars
  <2>3. StoreTypeOK'
    BY <2>1, TypeParts DEF StoreTypeOK, historyVars
  <2> QED BY <2>2, <2>3, TypePartsNext
<1>2. ASSUME UNCHANGED vars PROVE TypeInv'
  <2>1. CallTypes'
    BY <1>2, TypeParts DEF CallTypes, PlacesOK, Untouched, callVars, vars
  <2>2. StoreTypeOK'
    BY <1>2, TypeParts DEF StoreTypeOK, historyVars, vars, storeVars
  <2> QED BY <2>1, <2>2, TypePartsNext
<1> QED BY <1>1, <1>2, ResolveTypes, PushTypes, OtherStepTypes DEF Next, CallStep

\* A call keeps to the places of its batch, and Redis is sent nothing before COPY.
THEOREM IngestTypeCorrect == Spec => []TypeOK
<1>1. TypeInv => TypeOK
  BY DEF TypeInv
<1> QED BY <1>1, InitTypes, TypesKept, PTL DEF Spec

-----------------------------------------------------------------------------
(* What keeps the contract.                                                 *)

Pub(c) == ReadingsAt(c, published[c])

\* The feed is what the calls have published, and that is stored.
FeedIsStored ==
  /\ {feed[i] : i \in 1..Len(feed)} = UNION {Pub(c) : c \in Calls}
  /\ \A c \in Calls : Pub(c) \subseteq table
  /\ \A c \in Calls : pc[c] = "stored" => Accepted(c) \subseteq table
  /\ \A r \in table : r.channel \in known

\* The readings that are still to be published are not anybody else's.
Exclusive ==
  \A c \in Calls : pc[c] = "stored" =>
    /\ \A i, j \in accepted[c] : i # j => BatchOf[c][i] # BatchOf[c][j]
    /\ \A d \in Calls \ {c} : \A r \in Accepted(c) :
         r \notin Pub(d) /\ (pc[d] = "stored" => r \notin Accepted(d))

PushedIsThrough ==
  \A c \in Calls : pc[c] = "pushed" => Through(c) \/ spent["redis"] > 0

ContractInv == FeedIsStored /\ Exclusive /\ PushedIsThrough

LEMMA InitContract == Init => ContractInv
BY DEF Init, ContractInv, FeedIsStored, Exclusive, PushedIsThrough, Pub, ReadingsAt

\* Steps that publish nothing and let no call be the owner of what it has stored.
LEMMA QuietSteps ==
  ASSUME TypeInv, ContractInv, UNCHANGED <<feed, published>>, table \subseteq table',
         spent["redis"] > 0 => spent'["redis"] > 0,
         \A r \in table' : r.channel \in known',
         \A c \in Calls : /\ pc[c] # "new" => accepted'[c] = accepted[c]
                          /\ pc'[c] = "stored" => pc[c] = "stored"
                          /\ pc'[c] = "pushed" => pc[c] = "pushed"
                               \/ (pc[c] # "new" /\ (Through(c) \/ spent'["redis"] > 0))
  PROVE  ContractInv'
<1>1. \A c \in Calls : Pub(c)' = Pub(c)
  BY DEF Pub, ReadingsAt
<1>2. \A c \in Calls : pc[c] # "new" => Accepted(c)' = Accepted(c) /\ Through(c)' = Through(c)
  BY DEF Accepted, ReadingsAt, Through
<1>3. FeedIsStored'
  BY <1>1, <1>2 DEF ContractInv, FeedIsStored
<1>4. Exclusive'
  <2> SUFFICES ASSUME NEW c \in Calls, pc'[c] = "stored"
               PROVE  /\ \A i, j \in accepted'[c] : i # j => BatchOf[c][i] # BatchOf[c][j]
                      /\ \A d \in Calls \ {c} : \A r \in Accepted(c)' :
                           r \notin Pub(d)' /\ (pc'[d] = "stored" => r \notin Accepted(d)')
    BY DEF Exclusive
  <2>1. pc[c] = "stored" /\ accepted'[c] = accepted[c] /\ Accepted(c)' = Accepted(c)
    BY <1>2
  <2>2. \A d \in Calls : pc'[d] = "stored" => pc[d] = "stored" /\ Accepted(d)' = Accepted(d)
    BY <1>2
  <2> QED BY <2>1, <2>2, <1>1 DEF ContractInv, Exclusive
<1>5. PushedIsThrough'
  BY <1>2 DEF ContractInv, PushedIsThrough
<1> QED BY <1>3, <1>4, <1>5 DEF ContractInv

\* What COPY does not refuse has keys of its own.
LEMMA UnrefusedIsNew ==
  ASSUME TypeInv, ContractInv, NEW c \in Calls, ~Refused(c)
  PROVE  /\ \A i, j \in accepted[c] : i # j => ~SameKey(BatchOf[c][i], BatchOf[c][j])
         /\ \A r \in Accepted(c) : r \notin table /\ r.channel \in known
         /\ \A r \in Accepted(c), q \in table : ~SameKey(r, q)
<1>1. \A r \in Accepted(c), q \in table : ~SameKey(r, q)
  BY DEF Refused
<1>2. \A r \in Accepted(c) : r \in Readings
  BY TypesOfAccepted, TypeParts DEF CallTypes
<1>3. \A r \in Accepted(c) : r \notin table /\ r.channel \in known
  BY <1>1, <1>2, ReadingFacts DEF Refused, ChannelsOf
<1>4. \A i, j \in accepted[c] : i # j => ~SameKey(BatchOf[c][i], BatchOf[c][j])
  BY DEF Refused
<1> QED BY <1>1, <1>3, <1>4

LEMMA CopyKeepsContract ==
  ASSUME TypeInv, ContractInv, NEW c \in Calls, Copy(c)
  PROVE  ContractInv'
<1>1. /\ pc[c] = "resolved" /\ ~Refused(c) /\ table' = table \cup Accepted(c)
      /\ UNCHANGED <<known, feed, accepted, published, spent>>
  BY DEF Copy, Store, callVars
<1>2. \A d \in Calls : pc'[d] = IF d = c THEN "stored" ELSE pc[d]
  BY MoveTypes DEF Copy, TypeInv, Stage
<1>3. \A d \in Calls : Accepted(d)' = Accepted(d) /\ Pub(d)' = Pub(d) /\ Through(d)' = Through(d)
  BY <1>1 DEF Accepted, Pub, ReadingsAt, Through
<1>4. FeedIsStored'
  BY <1>1, <1>2, <1>3, UnrefusedIsNew DEF ContractInv, FeedIsStored
<1>5. Exclusive'
  <2>1. \A i, j \in accepted[c] : i # j => BatchOf[c][i] # BatchOf[c][j]
    <3> SUFFICES ASSUME NEW i \in accepted[c], NEW j \in accepted[c], i # j,
                        BatchOf[c][i] = BatchOf[c][j]
                 PROVE  FALSE
      OBVIOUS
    <3>1. BatchOf[c][i] \in Readings
      BY TypesOfAccepted, TypeParts DEF CallTypes
    <3>2. SameKey(BatchOf[c][i], BatchOf[c][j])
      BY <3>1, ReadingFacts
    <3> QED BY <3>2, <1>1, UnrefusedIsNew
  <2>2. \A d \in Calls \ {c} : \A r \in Accepted(c) :
          r \notin Pub(d) /\ (pc[d] = "stored" => r \notin Accepted(d))
    BY <1>1, UnrefusedIsNew DEF ContractInv, FeedIsStored
  <2>3. Pub(c) \subseteq table
    BY DEF ContractInv, FeedIsStored
  <2> SUFFICES ASSUME NEW d \in Calls, pc'[d] = "stored"
               PROVE  /\ \A i, j \in accepted[d] : i # j => BatchOf[d][i] # BatchOf[d][j]
                      /\ \A e \in Calls \ {d} : \A r \in Accepted(d) :
                           r \notin Pub(e) /\ (pc'[e] = "stored" => r \notin Accepted(e))
    BY <1>1, <1>3 DEF Exclusive
  <2>4. CASE d = c
    BY <2>1, <2>2, <2>4, <1>2
  <2>5. CASE d # c
    <3>1. pc[d] = "stored"
      BY <2>5, <1>2
    <3>2. \A r \in Accepted(d) : r \notin Accepted(c)
      BY <3>1, <2>2, <2>5
    <3> QED BY <3>1, <3>2, <1>2 DEF ContractInv, Exclusive
  <2> QED BY <2>4, <2>5
<1>6. PushedIsThrough'
  BY <1>1, <1>2, <1>3 DEF ContractInv, PushedIsThrough
<1> QED BY <1>4, <1>5, <1>6 DEF ContractInv

LEMMA PublishKeepsContract ==
  ASSUME TypeInv, ContractInv, NEW c \in Calls, Push(c), Publish(c)
  PROVE  ContractInv'
<1>1. PICK i \in cached[c] \ published[c] :
        /\ feed' = Append(feed, BatchOf[c][i])
        /\ published' = [published EXCEPT ![c] = @ \cup {i}]
  BY DEF Publish
<1>2. pc[c] = "stored" /\ UNCHANGED <<known, table, pc, accepted, spent>>
  BY DEF Push
<1>3. i \in accepted[c] /\ BatchOf[c][i] \in Accepted(c) /\ BatchOf[c][i] \in table
  BY <1>2, TypeParts, TypesOfAccepted DEF CallTypes, PlacesOK, ContractInv, FeedIsStored
<1>4. \A d \in Calls : Accepted(d)' = Accepted(d)
  BY <1>2 DEF Accepted, ReadingsAt
<1>5. \A d \in Calls : Pub(d)' = IF d = c THEN Pub(d) \cup {BatchOf[c][i]} ELSE Pub(d)
  <2>1. published \in [Calls -> SUBSET Nat]
    BY DEF TypeInv, TypeOK
  <2>2. \A d \in Calls : published'[d] = IF d = c THEN published[d] \cup {i} ELSE published[d]
    BY <2>1, <1>1
  <2> QED BY <2>2 DEF Pub, ReadingsAt
<1>6. {feed'[k] : k \in 1..Len(feed')} = {feed[k] : k \in 1..Len(feed)} \cup {BatchOf[c][i]}
  <2> DEFINE r == BatchOf[c][i]
  <2>1. feed \in Seq(Readings) /\ feed' = Append(feed, r)
    BY <1>1 DEF TypeInv, TypeOK
  <2> HIDE DEF r
  <2>2. /\ Len(feed') = Len(feed) + 1 /\ Len(feed) \in Nat
        /\ \A k \in 1..Len(feed) : feed'[k] = feed[k]
        /\ feed'[Len(feed) + 1] = r
    BY <2>1
  <2>3. {feed'[k] : k \in 1..Len(feed')} = {feed[k] : k \in 1..Len(feed)} \cup {r}
    BY <2>2
  <2> QED BY <2>3 DEF r
<1>7. FeedIsStored'
  <2>1. UNION {Pub(d)' : d \in Calls} = (UNION {Pub(d) : d \in Calls}) \cup {BatchOf[c][i]}
    BY <1>5
  <2>2. \A d \in Calls : Pub(d)' \subseteq table
    BY <1>3, <1>5 DEF ContractInv, FeedIsStored
  <2> QED BY <2>1, <2>2, <1>2, <1>4, <1>6 DEF ContractInv, FeedIsStored
<1>8. Exclusive'
  <2> SUFFICES ASSUME NEW d \in Calls, pc[d] = "stored", NEW e \in Calls \ {d}, NEW r \in Accepted(d)
               PROVE  r \notin Pub(e)'
    BY <1>2, <1>4 DEF ContractInv, Exclusive
  <2>1. r \notin Pub(e) /\ (pc[e] = "stored" => r \notin Accepted(e))
    BY DEF ContractInv, Exclusive
  <2>2. e = c => r # BatchOf[c][i]
    BY <2>1, <1>2, <1>3
  <2> QED BY <2>1, <2>2, <1>5
<1>9. PushedIsThrough'
  <2>1. ASSUME NEW d \in Calls, pc[d] = "pushed" PROVE Through(d)' <=> Through(d)
    <3>1. d # c /\ published \in [Calls -> SUBSET Nat]
      BY <2>1, <1>2 DEF TypeInv, TypeOK
    <3> QED BY <3>1, <1>1, <1>2 DEF Through
  <2> QED BY <2>1, <1>2 DEF ContractInv, PushedIsThrough
<1> QED BY <1>7, <1>8, <1>9 DEF ContractInv

\* Steps that publish nothing and store at most what nobody answers for.
QuietStep(c) ==
  \/ Resolve(c) \/ CopyFails(c) \/ EndPush(c) \/ DispatchCheck(c) \/ Dies(c)
  \/ Push(c) /\ SetLatest(c)

LEMMA QuietStepsKeepContract ==
  ASSUME TypeInv, ContractInv,
         \/ \E ch \in Channels : CreateChannel(ch) \/ DeleteChannel(ch)
         \/ \E c \in Calls : QuietStep(c)
         \/ UNCHANGED vars
  PROVE  ContractInv'
<1>1. \A r \in table : r.channel \in known
  BY DEF ContractInv, FeedIsStored
<1>2. spent \in [Faults -> Nat]
  BY DEF TypeInv, TypeOK
<1>3. ASSUME NEW ch \in Channels, CreateChannel(ch) \/ DeleteChannel(ch) PROVE ContractInv'
  <2>1. /\ UNCHANGED <<feed, table, published, accepted, pc, spent>>
        /\ \A r \in table : r.channel \in known'
    BY <1>1, <1>3 DEF CreateChannel, DeleteChannel, callVars
  <2> QED BY <2>1, QuietSteps
<1>4. ASSUME UNCHANGED vars PROVE ContractInv'
  <2>1. UNCHANGED <<feed, table, published, accepted, pc, spent, known>>
    BY <1>4 DEF vars, storeVars, callVars
  <2> QED BY <1>1, <2>1, QuietSteps
<1>5. ASSUME NEW c \in Calls, Push(c), SetLatest(c) PROVE ContractInv'
  <2>1. UNCHANGED <<feed, table, published, accepted, pc, spent, known>>
    BY <1>5 DEF Push, SetLatest
  <2> QED BY <1>1, <2>1, QuietSteps
<1>6. ASSUME NEW c \in Calls, Resolve(c) PROVE ContractInv'
  <2>1. /\ UNCHANGED <<feed, table, published, spent, known>> /\ pc[c] = "new"
        /\ \A d \in Calls \ {c} : accepted'[d] = accepted[d]
    BY <1>6 DEF Resolve, storeVars, TypeInv, TypeOK
  <2>2. PICK s \in {"done", "resolved"} : Move(c, s)
    BY <1>6 DEF Resolve
  <2>3. \A d \in Calls : pc'[d] = IF d = c THEN s ELSE pc[d]
    BY <2>2, MoveTypes DEF TypeInv, Stage
  <2>4. \A d \in Calls : /\ pc[d] # "new" => accepted'[d] = accepted[d]
                         /\ pc'[d] \in {"stored", "pushed"} => pc'[d] = pc[d]
    BY <2>1, <2>3
  <2> QED BY <1>1, <2>1, <2>4, QuietSteps
<1>7. ASSUME NEW c \in Calls, CopyFails(c) PROVE ContractInv'
  <2>1. /\ UNCHANGED <<feed, known, accepted, published>> /\ Move(c, "failed")
        /\ \/ UNCHANGED table
           \/ ~Refused(c) /\ table' = table \cup Accepted(c)
        /\ spent' = spent \/ Fault("copy")
    BY <1>7 DEF CopyFails, Store, callVars
  <2>2. \A d \in Calls : pc'[d] = IF d = c THEN "failed" ELSE pc[d]
    BY <2>1, MoveTypes DEF TypeInv, Stage
  <2>3. spent'["redis"] = spent["redis"]
    BY <2>1, <1>2 DEF Fault, Faults
  <2>4. \A r \in table' : r.channel \in known'
    BY <1>1, <2>1, UnrefusedIsNew
  <2>5. table \subseteq table'
    BY <2>1
  <2>6. \A d \in Calls : /\ accepted'[d] = accepted[d]
                         /\ pc'[d] \in {"stored", "pushed"} => pc'[d] = pc[d]
    BY <2>1, <2>2
  <2>7. UNCHANGED <<feed, published>>
    BY <2>1
  <2> QED BY <2>3, <2>4, <2>5, <2>6, <2>7, QuietSteps
<1>8. ASSUME NEW c \in Calls, EndPush(c) PROVE ContractInv'
  <2>1. /\ UNCHANGED <<feed, known, table, accepted, published>> /\ Move(c, "pushed")
        /\ pc[c] = "stored"
        /\ \/ Through(c) /\ spent' = spent
           \/ Fault("redis")
    BY <1>8 DEF EndPush, callVars, storeVars
  <2>2. \A d \in Calls : pc'[d] = IF d = c THEN "pushed" ELSE pc[d]
    BY <2>1, MoveTypes DEF TypeInv, Stage
  <2>3. /\ spent["redis"] > 0 => spent'["redis"] > 0
        /\ Through(c) \/ spent'["redis"] > 0
    BY <2>1, <1>2 DEF Fault, Faults
  <2>4. \A d \in Calls : /\ accepted'[d] = accepted[d]
                         /\ pc'[d] = "stored" => pc[d] = "stored"
                         /\ pc'[d] = "pushed" => pc[d] = "pushed"
                              \/ (pc[d] # "new" /\ (Through(d) \/ spent'["redis"] > 0))
    BY <2>1, <2>2, <2>3
  <2>5. \A r \in table' : r.channel \in known'
    BY <1>1, <2>1
  <2>6. UNCHANGED <<feed, published>> /\ table \subseteq table'
    BY <2>1
  <2> QED BY <2>3, <2>4, <2>5, <2>6, QuietSteps
<1>9. ASSUME NEW c \in Calls, DispatchCheck(c) \/ Dies(c) PROVE ContractInv'
  <2>1. /\ UNCHANGED <<feed, known, table, accepted, published>>
        /\ \E k \in Faults \ {"redis"} : spent' = spent \/ Fault(k)
    BY <1>9 DEF DispatchCheck, Dies, callVars, storeVars, Faults
  <2>2. PICK s \in {"done", "lost"} : Move(c, s)
    BY <1>9 DEF DispatchCheck, Dies
  <2>3. \A d \in Calls : pc'[d] = IF d = c THEN s ELSE pc[d]
    BY <2>2, MoveTypes DEF TypeInv, Stage
  <2>4. spent'["redis"] = spent["redis"]
    BY <2>1, <1>2 DEF Fault, Faults
  <2>5. \A d \in Calls : /\ accepted'[d] = accepted[d]
                         /\ pc'[d] \in {"stored", "pushed"} => pc'[d] = pc[d]
    BY <2>1, <2>3
  <2>6. \A r \in table' : r.channel \in known'
    BY <1>1, <2>1
  <2>7. UNCHANGED <<feed, published>> /\ table \subseteq table'
    BY <2>1
  <2> QED BY <2>4, <2>5, <2>6, <2>7, QuietSteps
<1> QED BY <1>3, <1>4, <1>5, <1>6, <1>7, <1>8, <1>9 DEF QuietStep

LEMMA ContractKept == TypeInv /\ ContractInv /\ [Next]_vars => ContractInv'
<1> SUFFICES ASSUME TypeInv, ContractInv, [Next]_vars PROVE ContractInv'
  OBVIOUS
<1>1. \A c \in Calls : Push(c) => SetLatest(c) \/ Publish(c)
  BY DEF Push
<1>2. ASSUME NEW c \in Calls, CallStep(c) \/ Dies(c) PROVE ContractInv'
  <2>1. QuietStep(c) \/ Copy(c) \/ (Push(c) /\ Publish(c))
    BY <1>1, <1>2 DEF CallStep, QuietStep
  <2> QED BY <2>1, QuietStepsKeepContract, CopyKeepsContract, PublishKeepsContract
<1> QED BY <1>2, QuietStepsKeepContract DEF Next

-----------------------------------------------------------------------------
(* The mapping.                                                             *)

LEMMA Phases ==
  /\ PhaseOf["new"] = "open" /\ PhaseOf["resolved"] = "open"
  /\ PhaseOf["stored"] = "keeping" /\ PhaseOf["pushed"] = "keeping"
  /\ PhaseOf["done"] = "answered"
  /\ PhaseOf["failed"] = "broken" /\ PhaseOf["lost"] = "broken"
BY DEF PhaseOf

KeptBy(s, c) == IF s \in {"stored", "pushed", "done"} THEN Accepted(c) ELSE {}

\* A call that moves on moves alone.
LEMMA MoveMaps ==
  ASSUME TypeInv, NEW c \in Calls, NEW s \in Stage, Move(c, s),
         \A d \in Calls \ {c} : accepted'[d] = accepted[d]
  PROVE  /\ Phase' = [Phase EXCEPT ![c] = PhaseOf[s]]
         /\ Kept' = [Kept EXCEPT ![c] = KeptBy(s, c)']
         /\ Phase[c] = PhaseOf[pc[c]] /\ Kept[c] = KeptBy(pc[c], c)
<1>1. \A d \in Calls : pc'[d] = IF d = c THEN s ELSE pc[d]
  BY MoveTypes DEF TypeInv
<1>2. \A d \in Calls \ {c} : Accepted(d)' = Accepted(d)
  BY DEF Accepted, ReadingsAt
<1>3. Phase' = [Phase EXCEPT ![c] = PhaseOf[s]]
  BY <1>1 DEF Phase
<1>4. Kept' = [Kept EXCEPT ![c] = KeptBy(s, c)']
  BY <1>1, <1>2 DEF Kept, KeptBy
<1> QED BY <1>3, <1>4 DEF Phase, Kept, KeptBy

\* Steps that move nobody.
LEMMA StayMaps ==
  ASSUME UNCHANGED <<pc, accepted>>
  PROVE  Phase' = Phase /\ Kept' = Kept
BY DEF Phase, Kept, Accepted, ReadingsAt

LEMMA FaultMaps ==
  ASSUME TypeInv, NEW k \in Faults, Fault(k)
  PROVE  Down' = IF k \in {"redis", "broker"} THEN Down \cup {k} ELSE Down
<1>1. /\ spent \in [Faults -> Nat]
      /\ \A f \in Faults : spent'[f] = IF f = k THEN spent[f] + 1 ELSE spent[f]
  BY DEF TypeInv, TypeOK, Fault
<1>2. {"redis", "broker"} \subseteq Faults
  BY DEF Faults
<1> QED BY <1>1, <1>2 DEF Down

LEMMA InitMaps == Init => Contract!Init
<1> SUFFICES ASSUME Init PROVE Contract!Init
  OBVIOUS
<1>1. Phase = [c \in Calls |-> "open"]
  BY Phases DEF Init, Phase
<1>2. Kept = [c \in Calls |-> {}]
  BY DEF Init, Kept
<1>3. Down = {}
  BY DEF Init, Down, Faults
<1> QED BY <1>1, <1>2, <1>3 DEF Init, Contract!Init

\* A place that is about to be published is not in the feed yet.
LEMMA UnpublishedIsNew ==
  ASSUME TypeInv, ContractInv, NEW c \in Calls, pc[c] = "stored",
         NEW i \in accepted[c], i \notin published[c]
  PROVE  BatchOf[c][i] \in Accepted(c) \ Contract!Published
<1>1. BatchOf[c][i] \in Accepted(c)
  BY DEF Accepted, ReadingsAt
<1>2. BatchOf[c][i] \notin Pub(c)
  <2> SUFFICES ASSUME NEW j \in published[c], BatchOf[c][j] = BatchOf[c][i]
               PROVE  FALSE
    BY DEF Pub, ReadingsAt
  <2>1. j \in accepted[c] /\ j # i
    BY TypeParts DEF CallTypes, PlacesOK
  <2> QED BY <2>1 DEF ContractInv, Exclusive
<1>3. \A d \in Calls \ {c} : BatchOf[c][i] \notin Pub(d)
  BY <1>1 DEF ContractInv, Exclusive
<1>4. Contract!Published = UNION {Pub(d) : d \in Calls}
  BY DEF ContractInv, FeedIsStored, Contract!Published
<1> QED BY <1>1, <1>2, <1>3, <1>4

LEMMA CopyKeepsBatch ==
  ASSUME TypeInv, ContractInv, NEW c \in Calls, pc[c] = "resolved", ~Refused(c)
  PROVE  Contract!MayKeep(Accepted(c)) /\ Accepted(c) \in SUBSET Given
<1>1. Accepted(c) # {}
  BY TypeParts DEF CallTypes, Accepted, ReadingsAt
<1>2. \A r, q \in Accepted(c) : SameKey(r, q) => r = q
  BY UnrefusedIsNew DEF Accepted, ReadingsAt
<1>3. Contract!MayKeep(Accepted(c))
  BY <1>1, <1>2, UnrefusedIsNew DEF Contract!MayKeep
<1>4. Accepted(c) \subseteq ReadingsAt(c, Places(c))
  BY TypeParts DEF CallTypes, PlacesOK, Accepted, ReadingsAt
<1> QED BY <1>3, <1>4 DEF Given

LEMMA CopyMaps ==
  ASSUME TypeInv, ContractInv, NEW c \in Calls, Copy(c)
  PROVE  Contract!Next
<1>1. /\ pc[c] = "resolved" /\ ~Refused(c) /\ Move(c, "stored")
      /\ table' = table \cup Accepted(c)
      /\ UNCHANGED <<known, latest, feed, checks, accepted, spent>>
  BY DEF Copy, Store, callVars
<1>2. Accepted(c)' = Accepted(c) /\ Down' = Down
  BY <1>1 DEF Accepted, ReadingsAt, Down
<1>3. /\ Phase' = [Phase EXCEPT ![c] = "keeping"] /\ Kept' = [Kept EXCEPT ![c] = Accepted(c)]
      /\ Phase[c] = "open"
  BY <1>1, <1>2, MoveMaps, Phases DEF Stage, KeptBy
<1>4. Contract!To(c, "keeping", Accepted(c))
  BY <1>3 DEF Contract!To
<1>5. Contract!Keep(c, Accepted(c))
  BY <1>1, <1>2, <1>3, <1>4, CopyKeepsBatch DEF Contract!Keep
<1> QED BY <1>1, <1>5, CopyKeepsBatch DEF Contract!Next

LEMMA CopyFailsMaps ==
  ASSUME TypeInv, ContractInv, NEW c \in Calls, CopyFails(c)
  PROVE  Contract!Next
<1>1. /\ pc[c] \in {"new", "resolved"} /\ Move(c, "failed")
      /\ \/ UNCHANGED table
         \/ pc[c] = "resolved" /\ ~Refused(c) /\ table' = table \cup Accepted(c)
      /\ UNCHANGED <<known, latest, feed, checks, accepted>>
      /\ spent' = spent \/ Fault("copy")
  BY DEF CopyFails, Store, callVars
<1>2. Down' = Down
  BY <1>1, FaultMaps DEF Faults, Down
<1>3. /\ Phase' = [Phase EXCEPT ![c] = "broken"] /\ Kept' = [Kept EXCEPT ![c] = {}]
      /\ Phase[c] = "open"
  BY <1>1, MoveMaps, Phases DEF Stage, KeptBy
<1>4. Contract!To(c, "broken", {})
  BY <1>3 DEF Contract!To
<1>5. CASE UNCHANGED table
  BY <1>1, <1>2, <1>3, <1>4, <1>5 DEF Contract!Break, Contract!Next
<1>6. CASE pc[c] = "resolved" /\ ~Refused(c) /\ table' = table \cup Accepted(c)
  <2>1. Contract!Keep(c, Accepted(c))
    BY <1>1, <1>2, <1>3, <1>4, <1>6, CopyKeepsBatch DEF Contract!Keep
  <2> QED BY <1>6, <2>1, CopyKeepsBatch DEF Contract!Next
<1> QED BY <1>1, <1>5, <1>6

LEMMA ResolveMaps ==
  ASSUME TypeInv, ContractInv, NEW c \in Calls, Resolve(c)
  PROVE  [Contract!Next]_Contract!vars
<1>1. /\ pc[c] = "new" /\ UNCHANGED <<storeVars, spent>>
      /\ \A d \in Calls \ {c} : accepted'[d] = accepted[d]
      /\ Move(c, IF accepted'[c] = {} THEN "done" ELSE "resolved")
  BY DEF Resolve, TypeInv, TypeOK
<1>2. Down' = Down
  BY <1>1 DEF Down
<1>3. CASE accepted'[c] = {}
  <2>1. Accepted(c)' = {}
    BY <1>3 DEF Accepted, ReadingsAt
  <2>2. /\ Phase' = [Phase EXCEPT ![c] = "answered"] /\ Kept' = [Kept EXCEPT ![c] = {}]
        /\ Phase[c] = "open"
    BY <1>1, <1>3, <2>1, MoveMaps, Phases DEF Stage, KeptBy
  <2>3. Contract!Decline(c)
    BY <2>2, <1>1, <1>2 DEF Contract!Decline, Contract!To, storeVars
  <2> QED BY <2>3 DEF Contract!Next
<1>4. CASE accepted'[c] # {}
  <2>1. /\ Phase' = [Phase EXCEPT ![c] = "open"] /\ Kept' = [Kept EXCEPT ![c] = {}]
        /\ Phase[c] = "open" /\ Kept[c] = {}
    BY <1>1, <1>4, MoveMaps, Phases DEF Stage, KeptBy
  <2>2. Phase' = Phase /\ Kept' = Kept
    BY <2>1 DEF Phase, Kept
  <2> QED BY <2>2, <1>1, <1>2 DEF Contract!vars, storeVars
<1> QED BY <1>3, <1>4

LEMMA PushMaps ==
  ASSUME TypeInv, ContractInv, NEW c \in Calls, Push(c)
  PROVE  Contract!Next
<1>1. pc[c] = "stored" /\ UNCHANGED <<known, table, checks, pc, accepted, spent>>
  BY DEF Push
<1>2. Phase' = Phase /\ Kept' = Kept /\ Down' = Down
  BY <1>1, StayMaps DEF Down
<1>3. Phase[c] = "keeping" /\ Kept[c] = Accepted(c)
  BY <1>1, Phases DEF Phase, Kept
<1>4. CASE SetLatest(c)
  <2> DEFINE i == First(accepted[c] \ cached[c])
  <2>1. i \in accepted[c] \ cached[c]
    BY <1>4, FirstIsThere, TypeParts DEF SetLatest, CallTypes
  <2>2. latest' = [latest EXCEPT ![BatchOf[c][i].channel] = BatchOf[c][i]] /\ feed' = feed
    BY <1>4 DEF SetLatest
  <2> HIDE DEF i
  <2>3. BatchOf[c][i] \in Kept[c]
    BY <1>3, <2>1 DEF Accepted, ReadingsAt
  <2>4. Contract!Show(c, BatchOf[c][i])
    BY <1>1, <1>2, <1>3, <2>2, <2>3 DEF Contract!Show
  <2> QED BY <2>3, <2>4 DEF Contract!Next
<1>5. CASE Publish(c)
  <2>1. PICK i \in cached[c] \ published[c] : feed' = Append(feed, BatchOf[c][i]) /\ latest' = latest
    BY <1>5 DEF Publish
  <2>2. i \in accepted[c]
    BY <2>1, TypeParts DEF CallTypes, PlacesOK
  <2>3. BatchOf[c][i] \in Kept[c] \ Contract!Published
    BY <1>1, <1>3, <2>1, <2>2, UnpublishedIsNew
  <2>4. Contract!Publish(c, BatchOf[c][i])
    BY <1>1, <1>2, <1>3, <2>1, <2>3 DEF Contract!Publish
  <2> QED BY <2>3, <2>4 DEF Contract!Next
<1> QED BY <1>4, <1>5 DEF Push

LEMMA EndPushMaps ==
  ASSUME TypeInv, ContractInv, NEW c \in Calls, EndPush(c)
  PROVE  [Contract!Next]_Contract!vars
<1>1. /\ pc[c] = "stored" /\ Move(c, "pushed") /\ UNCHANGED <<storeVars, accepted>>
      /\ spent' = spent \/ Fault("redis")
  BY DEF EndPush, callVars
<1>2. Accepted(c)' = Accepted(c)
  BY <1>1 DEF Accepted, ReadingsAt
<1>3. /\ Phase' = [Phase EXCEPT ![c] = "keeping"] /\ Kept' = [Kept EXCEPT ![c] = Accepted(c)]
      /\ Phase[c] = "keeping" /\ Kept[c] = Accepted(c)
  BY <1>1, <1>2, MoveMaps, Phases DEF Stage, KeptBy
<1>4. Phase' = Phase /\ Kept' = Kept
  BY <1>3 DEF Phase, Kept
<1>5. CASE spent' = spent
  BY <1>1, <1>4, <1>5 DEF Contract!vars, Down, storeVars
<1>6. CASE Fault("redis")
  <2>1. Down' = Down \cup {"redis"}
    BY <1>6, FaultMaps DEF Faults
  <2> QED BY <1>1, <1>4, <2>1 DEF Contract!RedisFails, Contract!Next, storeVars
<1> QED BY <1>1, <1>5, <1>6

LEMMA DispatchMaps ==
  ASSUME TypeInv, ContractInv, NEW c \in Calls, DispatchCheck(c)
  PROVE  Contract!Next
<1>1. /\ pc[c] = "pushed" /\ Move(c, "done")
      /\ \/ checks' = checks \cup {c} /\ spent' = spent
         \/ Fault("broker") /\ checks' \in {checks, checks \cup {c}}
      /\ UNCHANGED <<known, table, latest, feed, accepted>>
  BY DEF DispatchCheck, callVars
<1>2. Accepted(c)' = Accepted(c)
  BY <1>1 DEF Accepted, ReadingsAt
<1>3. /\ Phase' = [Phase EXCEPT ![c] = "answered"] /\ Kept' = [Kept EXCEPT ![c] = Accepted(c)]
      /\ Phase[c] = "keeping" /\ Kept[c] = Accepted(c)
  BY <1>1, <1>2, MoveMaps, Phases DEF Stage, KeptBy
<1>4. Contract!To(c, "answered", Kept[c])
  BY <1>3 DEF Contract!To
<1>5. Kept[c] \subseteq Contract!Published \/ "redis" \in Down
  <2>1. Through(c) \/ spent["redis"] > 0
    BY <1>1 DEF ContractInv, PushedIsThrough
  <2>2. CASE Through(c)
    <3>1. Accepted(c) = Pub(c)
      BY <2>2 DEF Through, Accepted, Pub
    <3>2. Pub(c) \subseteq Contract!Published
      BY DEF ContractInv, FeedIsStored, Contract!Published
    <3> QED BY <1>3, <3>1, <3>2
  <2>3. CASE spent["redis"] > 0
    BY <2>3 DEF Down
  <2> QED BY <2>1, <2>2, <2>3
<1>6. /\ checks' \in {checks, checks \cup {c}} /\ Down' \in {Down, Down \cup {"broker"}}
      /\ c \in checks' \/ "broker" \in Down'
  <2>1. CASE checks' = checks \cup {c} /\ spent' = spent
    BY <2>1 DEF Down
  <2>2. CASE Fault("broker") /\ checks' \in {checks, checks \cup {c}}
    BY <2>2, FaultMaps DEF Faults
  <2> QED BY <1>1, <2>1, <2>2
<1>7. Contract!Answer(c)
  BY <1>1, <1>3, <1>4, <1>5, <1>6 DEF Contract!Answer
<1> QED BY <1>7 DEF Contract!Next

LEMMA DiesMaps ==
  ASSUME TypeInv, ContractInv, NEW c \in Calls, Dies(c)
  PROVE  Contract!Next
<1>1. /\ pc[c] \in {"resolved", "stored", "pushed"} /\ Move(c, "lost")
      /\ UNCHANGED <<storeVars, accepted>> /\ Fault("crash")
  BY DEF Dies, callVars
<1>2. Down' = Down
  BY <1>1, FaultMaps DEF Faults
<1>3. /\ Phase' = [Phase EXCEPT ![c] = "broken"] /\ Kept' = [Kept EXCEPT ![c] = {}]
      /\ Phase[c] \in {"open", "keeping"}
  BY <1>1, MoveMaps, Phases DEF Stage, KeptBy
<1>4. Contract!Break(c)
  BY <1>1, <1>2, <1>3 DEF Contract!Break, Contract!To, storeVars
<1> QED BY <1>4 DEF Contract!Next

LEMMA ChannelsMap ==
  ASSUME TypeInv, ContractInv, NEW ch \in Channels, CreateChannel(ch) \/ DeleteChannel(ch)
  PROVE  Contract!Next
<1>1. /\ UNCHANGED <<table, latest, feed, checks, pc, accepted, spent>>
      /\ known' \in SUBSET Channels
      /\ \A r \in table : r.channel \in known'
  BY DEF CreateChannel, DeleteChannel, callVars, TypeInv, TypeOK, ContractInv, FeedIsStored
<1>2. Phase' = Phase /\ Kept' = Kept /\ Down' = Down
  BY <1>1, StayMaps DEF Down
<1>3. Contract!ChangeChannels
  BY <1>1, <1>2 DEF Contract!ChangeChannels
<1> QED BY <1>3 DEF Contract!Next

LEMMA StepMaps == TypeInv /\ ContractInv /\ [Next]_vars => [Contract!Next]_Contract!vars
<1> SUFFICES ASSUME TypeInv, ContractInv, [Next]_vars PROVE [Contract!Next]_Contract!vars
  OBVIOUS
<1>1. ASSUME UNCHANGED vars PROVE UNCHANGED Contract!vars
  <2>1. UNCHANGED <<known, table, latest, feed, checks, pc, accepted, spent>>
    BY <1>1 DEF vars, storeVars, callVars
  <2> QED BY <2>1, StayMaps DEF Contract!vars, Down
<1>2. ASSUME NEW c \in Calls, CallStep(c) \/ Dies(c) PROVE [Contract!Next]_Contract!vars
  BY <1>2, ResolveMaps, CopyMaps, CopyFailsMaps, PushMaps, EndPushMaps, DispatchMaps, DiesMaps
     DEF CallStep
<1> QED BY <1>1, <1>2, ChannelsMap DEF Next

\* The inductive invariant: what a call still has to publish is stored and nobody else's.
THEOREM IngestSafe == Spec => [](TypeInv /\ ContractInv)
BY InitTypes, TypesKept, InitContract, ContractKept, PTL DEF Spec

\* batch_ingest keeps its contract, for any calls, batches and faults: all or nothing is
\* stored, what is shown is stored, nothing is published twice, and an answer is only
\* given for what was published and handed to the check, unless Redis or the broker failed.
THEOREM IngestImplementsContract == Spec => ImplementsContract
<1>1. Spec => Contract!Init /\ [][Contract!Next]_Contract!vars
  BY InitMaps, StepMaps, IngestSafe, PTL DEF Spec
<1> QED BY <1>1 DEF ImplementsContract, Contract!Spec

-----------------------------------------------------------------------------
(* The value cached for a channel.                                          *)

NoFault == \A k \in Faults : spent[k] = 0

\* Calls that store and publish at the same time are noticed.
OneWriter ==
  \A c, d \in Calls : c # d /\ pc[c] = "stored" /\ pc[d] = "stored" =>
    ChannelsOf(c) \cap ChannelsOf(d) \subseteq overlapped

\* A channel stays as the one call that publishes to it has stored it.
WriterIsNewest ==
  \A c \in Calls : pc[c] = "stored" =>
    \A ch \in ChannelsOf(c) \ overlapped : newest[ch] = LastOf(c, ch)

\* The pipeline follows the order of the batch.
PushedInOrder ==
  \A c \in Calls : pc[c] = "stored" =>
    \A i \in cached[c], j \in accepted[c] \ cached[c] : i < j

\* Once the last reading of a channel is set, it stays.
LastIsCached ==
  \A c \in Calls : pc[c] = "stored" =>
    \A k \in cached[c] :
      \/ BatchOf[c][k].channel \in overlapped
      \/ \E j \in accepted[c] : j > k /\ BatchOf[c][j].channel = BatchOf[c][k].channel
      \/ latest[BatchOf[c][k].channel] = BatchOf[c][k]

FreshInv ==
  NoFault => OneWriter /\ WriterIsNewest /\ PushedInOrder /\ LastIsCached /\ LatestIsNewest

\* LastOf is the reading at the last place of the channel in the batch.
LEMMA LastPlace ==
  ASSUME TypeInv, NEW c \in Calls, NEW ch \in ChannelsOf(c)
  PROVE  \E k \in accepted[c] :
           /\ BatchOf[c][k].channel = ch /\ LastOf(c, ch) = BatchOf[c][k]
           /\ \A j \in accepted[c] : BatchOf[c][j].channel = ch => j <= k
<1> DEFINE places == {i \in accepted[c] : BatchOf[c][i].channel = ch}
           last == CHOOSE i \in places : \A j \in places : j <= i
<1>1. PlacesOK
  BY TypeParts DEF CallTypes
<1>2. places \in SUBSET (1..Len(BatchOf[c])) /\ places # {} /\ Len(BatchOf[c]) \in Nat
  BY <1>1, BatchFacts DEF PlacesOK, Places, ChannelsOf, Accepted, ReadingsAt
<1>3. last \in places /\ \A j \in places : j <= last
  <2> HIDE DEF places
  <2> QED BY <1>2, GreatestExists
<1>4. LastOf(c, ch) = BatchOf[c][last]
  BY DEF LastOf
<1> HIDE DEF last
<1> QED BY <1>3, <1>4

\* A fault is remembered.
LEMMA FaultIsSeen ==
  ASSUME TypeInv, NEW k \in Faults, Fault(k)
  PROVE  ~NoFault'
<1>1. spent[k] \in Nat /\ spent'[k] = spent[k] + 1
  BY DEF TypeInv, TypeOK, Fault
<1> QED BY <1>1 DEF NoFault

\* A step by which no call starts or stops publishing, and that sets nothing.
LEMMA SameWritersFresh ==
  ASSUME FreshInv, NoFault, UNCHANGED <<latest, historyVars>>,
         \A c \in Calls : /\ (pc'[c] = "stored") = (pc[c] = "stored")
                          /\ pc[c] = "stored" => UNCHANGED <<accepted[c], cached[c]>>
  PROVE  FreshInv'
<1>1. \A c \in Calls : pc[c] = "stored" => Accepted(c)' = Accepted(c)
  BY DEF Accepted, ReadingsAt
<1>2. \A c \in Calls : pc[c] = "stored" => ChannelsOf(c)' = ChannelsOf(c)
  BY <1>1 DEF ChannelsOf
<1>3. \A c \in Calls : pc[c] = "stored" => \A ch : LastOf(c, ch)' = LastOf(c, ch)
  BY DEF LastOf
<1>4. UNCHANGED <<newest, overlapped>>
  BY DEF historyVars
<1>5. OneWriter'
  BY <1>2, <1>4 DEF FreshInv, OneWriter
<1>6. WriterIsNewest'
  BY <1>2, <1>3, <1>4 DEF FreshInv, WriterIsNewest
<1>7. PushedInOrder'
  BY DEF FreshInv, PushedInOrder
<1>8. LastIsCached'
  <2> SUFFICES ASSUME NEW c \in Calls, pc'[c] = "stored", NEW k \in cached'[c]
               PROVE  \/ BatchOf[c][k].channel \in overlapped'
                      \/ \E j \in accepted'[c] : j > k /\ BatchOf[c][j].channel = BatchOf[c][k].channel
                      \/ latest'[BatchOf[c][k].channel] = BatchOf[c][k]
    BY DEF LastIsCached
  <2>1. pc[c] = "stored" /\ cached'[c] = cached[c] /\ accepted'[c] = accepted[c]
    OBVIOUS
  <2> QED BY <2>1, <1>4 DEF FreshInv, LastIsCached
<1>9. LatestIsNewest'
  <2> SUFFICES ASSUME NEW ch \in Channels
               PROVE  \/ latest'[ch] = newest'[ch] \/ ch \in overlapped'
                      \/ \E c \in Calls : pc'[c] = "stored" /\ ch \in ChannelsOf(c)'
    BY DEF LatestIsNewest
  <2>1. \/ latest[ch] = newest[ch] \/ ch \in overlapped
        \/ \E c \in Calls : pc[c] = "stored" /\ ch \in ChannelsOf(c)
    BY DEF FreshInv, LatestIsNewest, NoFault
  <2> QED BY <2>1, <1>2, <1>4
<1> QED BY <1>5, <1>6, <1>7, <1>8, <1>9 DEF FreshInv

\* A call that stores is the newest writer of its channels.
LEMMA CopyFresh ==
  ASSUME TypeInv, FreshInv, NoFault, NEW c \in Calls, Copy(c)
  PROVE  FreshInv'
<1>1. /\ pc[c] = "resolved"
      /\ newest' = [ch \in Channels |-> IF ch \in ChannelsOf(c) THEN LastOf(c, ch)
                                        ELSE newest[ch]]
      /\ overlapped' = overlapped \cup Overtakes(c)
      /\ UNCHANGED <<latest, accepted, cached>>
  BY DEF Copy, Store, callVars
<1>2. \A d \in Calls : pc'[d] = IF d = c THEN "stored" ELSE pc[d]
  BY MoveTypes DEF Copy, TypeInv, Stage
<1>3. \A d \in Calls : Accepted(d)' = Accepted(d)
  BY <1>1 DEF Accepted, ReadingsAt
<1>4. \A d \in Calls : ChannelsOf(d)' = ChannelsOf(d) /\ ChannelsOf(d) \subseteq Channels
  BY <1>3, TypesOfAccepted, TypeParts DEF ChannelsOf, CallTypes
<1>5. \A d \in Calls : \A ch : LastOf(d, ch)' = LastOf(d, ch)
  BY <1>1 DEF LastOf
<1>6. cached[c] = {}
  BY <1>1 DEF TypeInv, Untouched
<1>7. \A d \in Calls \ {c}, ch \in ChannelsOf(c) :
        pc[d] = "stored" /\ ch \in ChannelsOf(d) => ch \in overlapped'
  BY <1>1 DEF Overtakes
<1>8. OneWriter'
  BY <1>1, <1>2, <1>4, <1>7 DEF FreshInv, OneWriter
<1>9. WriterIsNewest'
  <2> SUFFICES ASSUME NEW d \in Calls, pc'[d] = "stored",
                      NEW ch \in ChannelsOf(d), ch \notin overlapped'
               PROVE  newest'[ch] = LastOf(d, ch)
    BY <1>4, <1>5 DEF WriterIsNewest
  <2>1. CASE d = c
    BY <2>1, <1>1, <1>4
  <2>2. CASE d # c
    <3>1. ch \notin ChannelsOf(c) /\ pc[d] = "stored" /\ ch \notin overlapped
      BY <2>2, <1>1, <1>2, <1>7
    <3> QED BY <3>1, <1>1, <1>4 DEF FreshInv, WriterIsNewest
  <2> QED BY <2>1, <2>2
<1>10. PushedInOrder'
  BY <1>1, <1>2, <1>6 DEF FreshInv, PushedInOrder
<1>11. LastIsCached'
  <2> SUFFICES ASSUME NEW d \in Calls, pc'[d] = "stored", NEW k \in cached'[d]
               PROVE  \/ BatchOf[d][k].channel \in overlapped'
                      \/ \E j \in accepted'[d] : j > k /\ BatchOf[d][j].channel = BatchOf[d][k].channel
                      \/ latest'[BatchOf[d][k].channel] = BatchOf[d][k]
    BY DEF LastIsCached
  <2>1. d # c /\ pc[d] = "stored" /\ k \in cached[d]
    BY <1>1, <1>2, <1>6
  <2> QED BY <2>1, <1>1 DEF FreshInv, LastIsCached
<1>12. LatestIsNewest'
  <2> SUFFICES ASSUME NEW ch \in Channels
               PROVE  \/ latest'[ch] = newest'[ch] \/ ch \in overlapped'
                      \/ \E d \in Calls : pc'[d] = "stored" /\ ch \in ChannelsOf(d)
    BY <1>4 DEF LatestIsNewest
  <2>1. CASE ch \in ChannelsOf(c)
    BY <2>1, <1>2
  <2>2. CASE ch \notin ChannelsOf(c)
    <3>1. newest'[ch] = newest[ch]
      BY <2>2, <1>1
    <3>2. \/ latest[ch] = newest[ch] \/ ch \in overlapped
          \/ \E d \in Calls : pc[d] = "stored" /\ ch \in ChannelsOf(d)
      BY DEF FreshInv, LatestIsNewest, NoFault
    <3> QED BY <3>1, <3>2, <1>1, <1>2
  <2> QED BY <2>1, <2>2
<1> QED BY <1>8, <1>9, <1>10, <1>11, <1>12 DEF FreshInv

\* A value set meanwhile belongs to the one call that publishes to the channel.
LEMMA SetLatestFresh ==
  ASSUME TypeInv, FreshInv, NoFault, NEW c \in Calls, Push(c), SetLatest(c)
  PROVE  FreshInv'
<1> DEFINE i == First(accepted[c] \ cached[c])
           r == BatchOf[c][i]
<1>1. /\ pc[c] = "stored" /\ UNCHANGED <<pc, accepted, newest, overlapped>>
      /\ latest' = [latest EXCEPT ![r.channel] = r]
      /\ cached' = [cached EXCEPT ![c] = @ \cup {i}]
  BY DEF Push, SetLatest, historyVars
<1>2. PlacesOK /\ latest \in [Channels -> Readings \cup {Nothing}] /\ cached \in [Calls -> SUBSET Nat]
  BY DEF TypeInv, TypeOK, PlacesOK
<1>3. i \in accepted[c] \ cached[c]
  BY <1>2, FirstIsThere DEF SetLatest
<1>4. \A j \in accepted[c] \ cached[c] : i <= j
  <2> DEFINE rest == accepted[c] \ cached[c]
  <2>1. rest \in SUBSET Nat /\ rest # {}
    BY <1>2, <1>3, BatchFacts DEF PlacesOK
  <2> HIDE DEF rest
  <2>2. \E x \in rest : \A y \in rest : x <= y
    BY <2>1, LeastExists
  <2>3. \A y \in rest : First(rest) <= y
    BY <2>2 DEF First
  <2> QED BY <2>3 DEF rest
<1> HIDE DEF i
<1>5. r \in Readings /\ r.channel \in ChannelsOf(c) /\ ChannelsOf(c) \subseteq Channels
      /\ \A j \in accepted[c] : j \in Nat
  BY <1>2, <1>3, BatchFacts, TypesOfAccepted DEF PlacesOK, ChannelsOf
<1>6. /\ \A d \in Calls : cached'[d] = IF d = c THEN cached[d] \cup {i} ELSE cached[d]
      /\ \A ch \in Channels : latest'[ch] = IF ch = r.channel THEN r ELSE latest[ch]
  BY <1>1, <1>2
<1> HIDE DEF r
<1>7. \A d \in Calls : Accepted(d)' = Accepted(d)
  BY <1>1 DEF Accepted, ReadingsAt
<1>8. \A d \in Calls : ChannelsOf(d)' = ChannelsOf(d)
  BY <1>7 DEF ChannelsOf
<1>9. \A d \in Calls : \A ch : LastOf(d, ch)' = LastOf(d, ch)
  BY <1>1 DEF LastOf
<1>10. OneWriter' /\ WriterIsNewest'
  BY <1>1, <1>8, <1>9 DEF FreshInv, OneWriter, WriterIsNewest
<1>11. PushedInOrder'
  <2> SUFFICES ASSUME NEW d \in Calls, pc[d] = "stored",
                      NEW p \in cached'[d], NEW q \in accepted[d] \ cached'[d]
               PROVE  p < q
    BY <1>1 DEF PushedInOrder
  <2>1. CASE p \in cached[d]
    BY <2>1, <1>6 DEF FreshInv, PushedInOrder
  <2>2. CASE p \notin cached[d]
    <3>1. d = c /\ p = i /\ q \in accepted[c] \ cached[c] /\ q # i
      BY <2>2, <1>6
    <3> QED BY <3>1, <1>3, <1>4, <1>5
  <2> QED BY <2>1, <2>2
<1>12. LastIsCached'
  <2> SUFFICES ASSUME NEW d \in Calls, pc[d] = "stored", NEW k \in cached'[d],
                      BatchOf[d][k].channel \notin overlapped,
                      \A j \in accepted[d] : ~(j > k /\ BatchOf[d][j].channel = BatchOf[d][k].channel)
               PROVE  latest'[BatchOf[d][k].channel] = BatchOf[d][k]
    BY <1>1 DEF LastIsCached
  <2>1. k \in accepted[d] /\ k \in Nat
    <3>1. (cached'[d] = cached[d] \cup {i} /\ d = c) \/ cached'[d] = cached[d]
      BY <1>6
    <3>2. k \in accepted[d]
      BY <3>1, <1>2, <1>3 DEF PlacesOK
    <3> QED BY <3>2, <1>2, BatchFacts DEF PlacesOK
  <2>2. BatchOf[d][k].channel \in ChannelsOf(d) /\ BatchOf[d][k].channel \in Channels
    BY <2>1, <1>2, TypesOfAccepted DEF ChannelsOf
  <2>3. CASE BatchOf[d][k].channel # r.channel
    <3>1. k \in cached[d]
      BY <2>3, <1>6 DEF r
    <3>2. latest[BatchOf[d][k].channel] = BatchOf[d][k]
      BY <3>1 DEF FreshInv, LastIsCached
    <3> QED BY <2>2, <2>3, <3>2, <1>6
  <2>4. CASE BatchOf[d][k].channel = r.channel
    <3>1. d = c
      BY <2>2, <2>4, <1>1, <1>5 DEF FreshInv, OneWriter
    <3>2. ~(i > k)
      BY <3>1, <2>4, <1>3 DEF r
    <3>3. k \notin cached[c]
      BY <3>1, <3>2, <2>1, <1>1, <1>3, <1>5 DEF FreshInv, PushedInOrder
    <3>4. k = i
      BY <3>1, <3>3, <1>6
    <3> QED BY <3>1, <3>4, <2>2, <2>4, <1>6 DEF r
  <2> QED BY <2>3, <2>4
<1>13. LatestIsNewest'
  <2> SUFFICES ASSUME NEW ch \in Channels
               PROVE  \/ latest'[ch] = newest[ch] \/ ch \in overlapped
                      \/ \E d \in Calls : pc[d] = "stored" /\ ch \in ChannelsOf(d)
    BY <1>1, <1>8 DEF LatestIsNewest
  <2>1. \/ latest[ch] = newest[ch] \/ ch \in overlapped
        \/ \E d \in Calls : pc[d] = "stored" /\ ch \in ChannelsOf(d)
    BY DEF FreshInv, LatestIsNewest, NoFault
  <2>2. CASE ch = r.channel
    BY <2>2, <1>1, <1>5
  <2>3. CASE ch # r.channel
    <3>1. latest'[ch] = latest[ch]
      BY <2>3, <1>6
    <3> QED BY <3>1, <2>1
  <2> QED BY <2>2, <2>3
<1> QED BY <1>10, <1>11, <1>12, <1>13 DEF FreshInv

\* A call that has published everything leaves its last readings behind.
LEMMA EndPushFresh ==
  ASSUME TypeInv, FreshInv, NoFault, NEW c \in Calls, EndPush(c), Through(c)
  PROVE  FreshInv'
<1>1. pc[c] = "stored" /\ UNCHANGED <<latest, newest, overlapped, accepted, cached>>
  BY DEF EndPush, storeVars, callVars, historyVars
<1>2. \A d \in Calls : pc'[d] = IF d = c THEN "pushed" ELSE pc[d]
  BY MoveTypes DEF EndPush, TypeInv, Stage
<1>3. \A d \in Calls : Accepted(d)' = Accepted(d)
  BY <1>1 DEF Accepted, ReadingsAt
<1>4. \A d \in Calls : ChannelsOf(d)' = ChannelsOf(d)
  BY <1>3 DEF ChannelsOf
<1>5. \A d \in Calls : \A ch : LastOf(d, ch)' = LastOf(d, ch)
  BY <1>1 DEF LastOf
<1>6. OneWriter' /\ WriterIsNewest'
  BY <1>1, <1>2, <1>4, <1>5 DEF FreshInv, OneWriter, WriterIsNewest
<1>7. PushedInOrder' /\ LastIsCached'
  BY <1>1, <1>2 DEF FreshInv, PushedInOrder, LastIsCached
<1>8. cached[c] = accepted[c]
  BY DEF TypeInv, TypeOK, Through
<1>9. \A ch \in ChannelsOf(c) \ overlapped : latest[ch] = newest[ch]
  <2> SUFFICES ASSUME NEW ch \in ChannelsOf(c), ch \notin overlapped
               PROVE  latest[ch] = newest[ch]
    OBVIOUS
  <2>1. PICK k \in accepted[c] :
          /\ BatchOf[c][k].channel = ch /\ LastOf(c, ch) = BatchOf[c][k]
          /\ \A j \in accepted[c] : BatchOf[c][j].channel = ch => j <= k
    BY LastPlace
  <2>2. k \in Nat /\ \A j \in accepted[c] : j \in Nat
    BY BatchFacts, TypeParts DEF CallTypes, PlacesOK
  <2>3. latest[ch] = BatchOf[c][k]
    BY <2>1, <2>2, <1>1, <1>8 DEF FreshInv, LastIsCached
  <2>4. newest[ch] = LastOf(c, ch)
    BY <1>1 DEF FreshInv, WriterIsNewest
  <2> QED BY <2>1, <2>3, <2>4
<1>10. LatestIsNewest'
  <2> SUFFICES ASSUME NEW ch \in Channels
               PROVE  \/ latest[ch] = newest[ch] \/ ch \in overlapped
                      \/ \E d \in Calls : pc'[d] = "stored" /\ ch \in ChannelsOf(d)
    BY <1>1, <1>4 DEF LatestIsNewest
  <2>1. \/ latest[ch] = newest[ch] \/ ch \in overlapped
        \/ \E d \in Calls : pc[d] = "stored" /\ ch \in ChannelsOf(d)
    BY DEF FreshInv, LatestIsNewest, NoFault
  <2> QED BY <2>1, <1>2, <1>9
<1> QED BY <1>6, <1>7, <1>10 DEF FreshInv

LEMMA FreshKept ==
  ASSUME TypeInv, FreshInv, [Next]_vars
  PROVE  FreshInv'
<1>1. CASE ~NoFault'
  BY <1>1 DEF FreshInv
<1>2. CASE NoFault'
  <2>1. \A k \in Faults : ~Fault(k)
    BY <1>2, FaultIsSeen
  <2>2. ASSUME spent' = spent PROVE NoFault
    BY <1>2, <2>2 DEF NoFault
  <2>3. ASSUME NEW c \in Calls, Resolve(c) PROVE FreshInv'
    <3> DEFINE places == {i \in Places(c) : BatchOf[c][i].channel \in known}
               s == IF places = {} THEN "done" ELSE "resolved"
    <3>1. /\ pc[c] = "new" /\ Move(c, s) /\ accepted' = [accepted EXCEPT ![c] = places]
          /\ UNCHANGED <<latest, cached, historyVars, spent>>
      BY <2>3 DEF Resolve, storeVars
    <3>2. s \in Stage /\ s # "stored"
      BY DEF Stage
    <3> HIDE DEF s, places
    <3>3. \A d \in Calls : pc'[d] = IF d = c THEN s ELSE pc[d]
      BY <3>1, <3>2, MoveTypes DEF TypeInv
    <3>4. \A d \in Calls \ {c} : accepted'[d] = accepted[d]
      BY <3>1 DEF TypeInv, TypeOK
    <3> QED BY <2>2, <3>1, <3>2, <3>3, <3>4, SameWritersFresh
  <2>4. ASSUME NEW c \in Calls, Copy(c) PROVE FreshInv'
    BY <2>2, <2>4, CopyFresh DEF Copy
  <2>5. ASSUME NEW c \in Calls, CopyFails(c) \/ DispatchCheck(c) PROVE FreshInv'
    <3>1. pc[c] \in {"new", "resolved", "pushed"}
          /\ UNCHANGED <<latest, callVars, historyVars, spent>>
          /\ \E s \in Stage \ {"stored"} : Move(c, s)
      BY <2>1, <2>5 DEF CopyFails, DispatchCheck, Faults, Stage
    <3>2. PICK s \in Stage \ {"stored"} : Move(c, s)
      BY <3>1
    <3>3. \A d \in Calls : pc'[d] = IF d = c THEN s ELSE pc[d]
      BY <3>2, MoveTypes DEF TypeInv
    <3> QED BY <2>2, <3>1, <3>3, SameWritersFresh DEF callVars
  <2>6. ASSUME NEW c \in Calls, Push(c) PROVE FreshInv'
    <3>1. CASE SetLatest(c)
      BY <2>2, <2>6, <3>1, SetLatestFresh DEF Push
    <3>2. CASE Publish(c)
      BY <2>2, <2>6, <3>2, SameWritersFresh DEF Push, Publish
    <3> QED BY <2>6, <3>1, <3>2 DEF Push
  <2>7. ASSUME NEW c \in Calls, EndPush(c) PROVE FreshInv'
    BY <2>1, <2>2, <2>7, EndPushFresh DEF EndPush, Faults
  <2>8. ASSUME NEW c \in Calls, Dies(c) PROVE FALSE
    BY <2>1, <2>8 DEF Dies, Faults
  <2>9. ASSUME NEW ch \in Channels, CreateChannel(ch) \/ DeleteChannel(ch) PROVE FreshInv'
    BY <2>2, <2>9, SameWritersFresh DEF CreateChannel, DeleteChannel, callVars
  <2>10. CASE UNCHANGED vars
    BY <2>2, <2>10, SameWritersFresh DEF vars, storeVars, callVars
  <2> QED BY <2>3, <2>4, <2>5, <2>6, <2>7, <2>8, <2>9, <2>10 DEF Next, CallStep
<1> QED BY <1>1, <1>2

\* A channel for which no two calls wrote in between each other shows, once they are
\* through, the reading that COPY stored last, as long as nothing fails: the pipeline
\* keeps the order of the batch, and no other call sets the channel meanwhile.
THEOREM NewestIsShown == Spec => []LatestIsNewest
<1>1. Init => FreshInv
  BY DEF Init, FreshInv, OneWriter, WriterIsNewest, PushedInOrder, LastIsCached, LatestIsNewest
<1>2. TypeInv => \A k \in Faults : spent[k] \in Nat
  BY DEF TypeInv, TypeOK
<1>3. TypeInv /\ FreshInv => LatestIsNewest
  BY <1>2 DEF FreshInv, LatestIsNewest, NoFault
<1>4. TypeInv /\ FreshInv /\ [Next]_vars => FreshInv'
  BY FreshKept
<1> QED BY <1>1, <1>3, <1>4, InitTypes, TypesKept, PTL DEF Spec

-----------------------------------------------------------------------------
(* The gateway: sequences of message numbers, in order.                     *)

Rising(s) == \A i, j \in 1..Len(s) : i < j => s[i] < s[j]
Below(s, q) == \A i \in 1..Len(s), j \in 1..Len(q) : s[i] < q[j]

\* What is in the table, in the request and in the queue follows each other.
Follow(s, b, q) ==
  /\ Rising(s) /\ Rising(b) /\ Rising(q)
  /\ Below(s, b) /\ Below(s, q) /\ Below(b, q)

LEMMA Joined ==
  ASSUME NEW S, NEW s \in Seq(S), NEW b \in Seq(S)
  PROVE  /\ s \o b \in Seq(S) /\ Len(s \o b) = Len(s) + Len(b)
         /\ Len(s) \in Nat /\ Len(b) \in Nat
         /\ \A i \in 1..Len(s \o b) :
              \/ i \in 1..Len(s) /\ (s \o b)[i] = s[i]
              \/ i \notin 1..Len(s) /\ i - Len(s) \in 1..Len(b) /\ (s \o b)[i] = b[i - Len(s)]
         /\ In(s \o b) = In(s) \cup In(b)
<1> DEFINE w == s \o b
<1>1. /\ w \in Seq(S) /\ Len(s) \in Nat /\ Len(b) \in Nat
      /\ Len(w) = Len(s) + Len(b)
      /\ \A i \in 1..(Len(s) + Len(b)) :
           w[i] = IF i <= Len(s) THEN s[i] ELSE b[i - Len(s)]
  BY ConcatProperties
<1> HIDE DEF w
<1>2. ASSUME NEW i \in 1..Len(w)
      PROVE  \/ i \in 1..Len(s) /\ w[i] = s[i]
             \/ i \notin 1..Len(s) /\ i - Len(s) \in 1..Len(b) /\ w[i] = b[i - Len(s)]
  <2>1. CASE i <= Len(s)
    BY <1>1, <2>1
  <2>2. CASE ~(i <= Len(s))
    BY <1>1, <2>2
  <2> QED BY <2>1, <2>2
<1>3. ASSUME NEW i \in 1..Len(s)
      PROVE  i \in 1..Len(w) /\ w[i] = s[i]
  BY <1>1
<1>4. ASSUME NEW i \in 1..Len(b)
      PROVE  Len(s) + i \in 1..Len(w) /\ w[Len(s) + i] = b[i]
  <2>1. /\ Len(s) + i \in 1..(Len(s) + Len(b)) /\ ~(Len(s) + i <= Len(s))
        /\ Len(s) + i - Len(s) = i
    BY <1>1
  <2> QED BY <1>1, <2>1
<1>5. In(w) = In(s) \cup In(b)
  <2>1. In(w) \subseteq In(s) \cup In(b)
    BY <1>2 DEF In
  <2>2. In(s) \subseteq In(w)
    BY <1>3 DEF In
  <2>3. In(b) \subseteq In(w)
    BY <1>4 DEF In
  <2> QED BY <2>1, <2>2, <2>3
<1>6. /\ w \in Seq(S) /\ Len(w) = Len(s) + Len(b) /\ Len(s) \in Nat /\ Len(b) \in Nat
      /\ \A i \in 1..Len(w) :
           \/ i \in 1..Len(s) /\ w[i] = s[i]
           \/ i \notin 1..Len(s) /\ i - Len(s) \in 1..Len(b) /\ w[i] = b[i - Len(s)]
      /\ In(w) = In(s) \cup In(b)
  BY <1>1, <1>2, <1>5
<1> QED BY <1>6 DEF w

LEMMA RisingJoined ==
  ASSUME NEW s \in Seq(Nat), NEW b \in Seq(Nat), Rising(s), Rising(b), Below(s, b)
  PROVE  Rising(s \o b)
<1> DEFINE w == s \o b
<1>1. /\ Len(w) = Len(s) + Len(b) /\ Len(s) \in Nat /\ Len(b) \in Nat
      /\ \A i \in 1..Len(w) :
           \/ i \in 1..Len(s) /\ w[i] = s[i]
           \/ i \notin 1..Len(s) /\ i - Len(s) \in 1..Len(b) /\ w[i] = b[i - Len(s)]
  BY Joined
<1> HIDE DEF w
<1>2. ASSUME NEW i \in 1..Len(w), NEW j \in 1..Len(w), i < j
      PROVE  w[i] < w[j]
  <2>1. CASE j \in 1..Len(s)
    <3>1. i \in 1..Len(s)
      BY <1>1, <1>2, <2>1
    <3>2. w[i] = s[i] /\ w[j] = s[j]
      BY <1>1, <2>1, <3>1
    <3> QED BY <1>2, <2>1, <3>1, <3>2 DEF Rising
  <2>2. CASE j \notin 1..Len(s) /\ i \in 1..Len(s)
    <3>1. w[i] = s[i] /\ j - Len(s) \in 1..Len(b) /\ w[j] = b[j - Len(s)]
      BY <1>1, <2>2
    <3> QED BY <2>2, <3>1 DEF Below
  <2>3. CASE i \notin 1..Len(s)
    <3>1. j \notin 1..Len(s) /\ i - Len(s) < j - Len(s)
      BY <1>1, <1>2, <2>3
    <3>2. /\ i - Len(s) \in 1..Len(b) /\ w[i] = b[i - Len(s)]
          /\ j - Len(s) \in 1..Len(b) /\ w[j] = b[j - Len(s)]
      BY <1>1, <2>3, <3>1
    <3> QED BY <3>1, <3>2 DEF Rising
  <2> QED BY <2>1, <2>2, <2>3
<1>3. Rising(w)
  BY <1>2 DEF Rising
<1> QED BY <1>3 DEF w

\* Below compares elements.
LEMMA BelowElements ==
  ASSUME NEW s, NEW q
  PROVE  Below(s, q) <=> \A m \in In(s), n \in In(q) : m < n
BY DEF Below, In

LEMMA NothingIn == In(<<>>) = {} /\ Rising(<<>>)
<1>1. 1..Len(<<>>) = {}
  <2>1. Len(<<>>) = 0
    OBVIOUS
  <2> QED BY <2>1
<1> QED BY <1>1 DEF In, Rising

\* A batch that is written goes behind what was stored before.
LEMMA StoredFollows ==
  ASSUME NEW s \in Seq(Nat), NEW b \in Seq(Nat), NEW q \in Seq(Nat), Follow(s, b, q)
  PROVE  Follow(s \o b, <<>>, q) /\ Follow(s, <<>>, q)
<1>1. Rising(s \o b)
  BY RisingJoined DEF Follow
<1>2. In(s \o b) = In(s) \cup In(b)
  BY Joined
<1>3. Below(s \o b, q)
  BY <1>2, BelowElements DEF Follow
<1> QED BY <1>1, <1>3, NothingIn, BelowElements DEF Follow

LEMMA AllFollow ==
  ASSUME NEW s \in Seq(Nat), NEW b \in Seq(Nat), NEW q \in Seq(Nat), Follow(s, b, q)
  PROVE  /\ Rising(s \o b \o q)
         /\ In(s \o b \o q) = In(s) \cup In(b) \cup In(q)
<1>1. s \o b \in Seq(Nat) /\ In(s \o b) = In(s) \cup In(b)
  BY Joined
<1>2. Rising(s \o b) /\ Below(s \o b, q)
  BY StoredFollows DEF Follow
<1> QED BY <1>1, <1>2, Joined, RisingJoined DEF Follow

LEMMA Appended ==
  ASSUME NEW S, NEW q \in Seq(S), NEW n \in S
  PROVE  /\ Append(q, n) \in Seq(S) /\ Len(Append(q, n)) = Len(q) + 1 /\ Len(q) \in Nat
         /\ \A i \in 1..Len(q) : Append(q, n)[i] = q[i]
         /\ Append(q, n)[Len(q) + 1] = n
         /\ In(Append(q, n)) = In(q) \cup {n}
<1> DEFINE w == Append(q, n)
<1>1. /\ w \in Seq(S) /\ Len(w) = Len(q) + 1 /\ Len(q) \in Nat
      /\ \A i \in 1..Len(q) : w[i] = q[i]
      /\ w[Len(q) + 1] = n
  OBVIOUS
<1> HIDE DEF w
<1>2. 1..Len(w) = (1..Len(q)) \cup {Len(q) + 1}
  BY <1>1
<1>3. In(w) = In(q) \cup {n}
  BY <1>1, <1>2 DEF In
<1>4. /\ w \in Seq(S) /\ Len(w) = Len(q) + 1 /\ Len(q) \in Nat
      /\ \A i \in 1..Len(q) : w[i] = q[i]
      /\ w[Len(q) + 1] = n
      /\ In(w) = In(q) \cup {n}
  BY <1>1, <1>3
<1> QED BY <1>4 DEF w

\* A new message goes behind all that came before.
LEMMA AppendedFollows ==
  ASSUME NEW s \in Seq(Nat), NEW b \in Seq(Nat), NEW q \in Seq(Nat), Follow(s, b, q),
         NEW n \in Nat, \A m \in In(s) \cup In(b) \cup In(q) : m < n
  PROVE  Follow(s, b, Append(q, n))
<1> DEFINE w == Append(q, n)
<1>1. /\ Len(w) = Len(q) + 1 /\ Len(q) \in Nat
      /\ \A i \in 1..Len(q) : w[i] = q[i]
      /\ w[Len(q) + 1] = n
      /\ In(w) = In(q) \cup {n}
  <2>1. q \in Seq(Nat) /\ n \in Nat
    OBVIOUS
  <2> HIDE DEF w
  <2>2. w = Append(q, n)
    BY DEF w
  <2> QED BY <2>1, <2>2, Appended
<1> HIDE DEF w
<1>2. ASSUME NEW i \in 1..Len(w), NEW j \in 1..Len(w), i < j
      PROVE  w[i] < w[j]
  <2>1. i \in 1..Len(q) /\ w[i] = q[i]
    BY <1>1, <1>2
  <2>2. CASE j \in 1..Len(q)
    BY <1>1, <1>2, <2>1, <2>2 DEF Follow, Rising
  <2>3. CASE j = Len(q) + 1
    BY <1>1, <2>1, <2>3 DEF In
  <2> QED BY <1>1, <2>2, <2>3
<1>3. Rising(w)
  BY <1>2 DEF Rising
<1>4. Below(s, w) /\ Below(b, w)
  BY <1>1, BelowElements DEF Follow
<1>5. Follow(s, b, w)
  BY <1>3, <1>4 DEF Follow
<1> QED BY <1>5 DEF w

LEMMA Wider ==
  ASSUME NEW m \in Nat, NEW n \in Nat, m <= n, NEW s \in Seq(1..m)
  PROVE  s \in Seq(1..n) /\ s \in Seq(Nat) /\ In(s) \subseteq 1..m
<1>1. \A i \in 1..Len(s) : s[i] \in 1..m
  OBVIOUS
<1>2. 1..m \subseteq 1..n /\ 1..m \subseteq Nat
  OBVIOUS
<1> QED BY <1>1, <1>2 DEF In

\* What is selected of a sequence keeps its order and its place behind others.
LEMMA Selected ==
  ASSUME NEW M \in Nat, NEW q \in Seq(1..M), NEW C, NEW r \in Selections(q, C)
  PROVE  /\ r \in Seq(1..M) /\ r \in Seq(Nat)
         /\ In(r) = In(q) \cap C
         /\ Rising(q) => Rising(r)
<1>1. PICK n \in 0..Len(q) : r \in [1..n -> In(q) \cap C]
  BY DEF Selections
<1>2. /\ In(r) = In(q) \cap C
      /\ \A i, j \in 1..Len(r) : i < j =>
           \E k, l \in 1..Len(q) : k < l /\ r[i] = q[k] /\ r[j] = q[l]
  BY DEF Selections
<1>3. In(q) \subseteq 1..M
  BY Wider
<1>4. r \in Seq(1..M)
  <2>1. r \in [1..n -> 1..M] /\ n \in Nat
    BY <1>1, <1>3
  <2> QED BY <2>1, SeqDef
<1>5. r \in Seq(Nat)
  BY <1>4, Wider
<1>6. Rising(q) => Rising(r)
  BY <1>2 DEF Rising
<1> QED BY <1>2, <1>4, <1>5, <1>6

\* What was parsed of the queue follows what is stored.
LEMMA ParsedFollows ==
  ASSUME NEW s \in Seq(Nat), NEW q \in Seq(Nat), Follow(s, <<>>, q),
         NEW r \in Seq(Nat), In(r) \subseteq In(q), Rising(r)
  PROVE  Follow(s, r, <<>>)
<1>1. Below(s, r)
  BY BelowElements DEF Follow
<1> QED BY <1>1, NothingIn, BelowElements DEF Follow

\* What is kept of a batch goes behind what was stored before.
LEMMA KeptFollows ==
  ASSUME NEW s \in Seq(Nat), NEW b \in Seq(Nat), NEW q \in Seq(Nat), Follow(s, b, q),
         NEW r \in Seq(Nat), In(r) \subseteq In(b), Rising(r)
  PROVE  Follow(s \o r, <<>>, q)
<1>1. Follow(s, r, q)
  BY BelowElements DEF Follow
<1> QED BY <1>1, StoredFollows

LEMMA Shifted ==
  ASSUME NEW n \in Nat, NEW i \in 1..n, NEW k \in 1..(n - i)
  PROVE  k + i \in 1..n /\ i + 1 + k - 1 = k + i /\ k \in 1..(n - (i + 1) + 1)
OBVIOUS

LEMMA RestFollows ==
  ASSUME NEW s \in Seq(Nat), NEW q \in Seq(Nat), Follow(s, <<>>, q), NEW i \in 1..Len(q)
  PROVE  /\ Follow(s, <<>>, SubSeq(q, i + 1, Len(q)))
         /\ Len(SubSeq(q, i + 1, Len(q))) <= Len(q)
         /\ \A S : q \in Seq(S) => SubSeq(q, i + 1, Len(q)) \in Seq(S)
<1>0. PICK r : r = SubSeq(q, i + 1, Len(q))
  OBVIOUS
<1>1. /\ Len(q) \in Nat /\ Len(r) = Len(q) - i
      /\ \A k \in 1..Len(r) : k + i \in 1..Len(q) /\ r[k] = q[k + i]
  <2>1. Len(q) \in Nat
    OBVIOUS
  <2>2. \A k \in (i + 1)..Len(q) : q[k] \in Nat
    OBVIOUS
  <2>3. /\ Len(r) = IF i + 1 <= Len(q) THEN Len(q) - (i + 1) + 1 ELSE 0
        /\ \A k \in 1..(Len(q) - (i + 1) + 1) : r[k] = q[i + 1 + k - 1]
    BY <2>1, <2>2, <1>0, SubSeqProperties
  <2>4. Len(r) = Len(q) - i /\ Len(q) - (i + 1) + 1 = Len(q) - i
    BY <2>1, <2>3
  <2>5. ASSUME NEW k \in 1..Len(r)
        PROVE  k + i \in 1..Len(q) /\ r[k] = q[k + i]
    <3>1. k \in 1..(Len(q) - i)
      BY <2>4
    <3>2. /\ k + i \in 1..Len(q) /\ i + 1 + k - 1 = k + i
          /\ k \in 1..(Len(q) - (i + 1) + 1)
      BY <2>1, <3>1, Shifted
    <3>3. r[k] = q[i + 1 + k - 1]
      BY <2>3, <3>2
    <3> QED BY <3>2, <3>3
  <2> QED BY <2>1, <2>4, <2>5
<1>2. Rising(r)
  <2>1. ASSUME NEW k \in 1..Len(r), NEW l \in 1..Len(r), k < l
        PROVE  r[k] < r[l]
    <3>1. k + i < l + i /\ k + i \in 1..Len(q) /\ l + i \in 1..Len(q)
      BY <1>1, <2>1
    <3> QED BY <1>1, <3>1 DEF Follow, Rising
  <2> QED BY <2>1 DEF Rising
<1>3. In(r) \subseteq In(q)
  BY <1>1 DEF In
<1>4. Below(s, r)
  BY <1>3, BelowElements DEF Follow
<1>5. ASSUME NEW S, q \in Seq(S)
      PROVE  r \in Seq(S)
  <2>1. \A k \in (i + 1)..Len(q) : q[k] \in S
    BY <1>5
  <2> QED BY <1>1, <2>1, <1>0, SubSeqProperties
<1>6. Follow(s, <<>>, r) /\ Len(r) <= Len(q)
  BY <1>1, <1>2, <1>4, NothingIn, BelowElements DEF Follow
<1> QED BY <1>0, <1>5, <1>6

\* The readings of a poll are numbered after all others.
LEMMA PolledFollow ==
  ASSUME NEW s \in Seq(Nat), Rising(s), NEW n \in Nat, \A m \in In(s) : m <= n,
         NEW k \in Nat, NEW r, r = [i \in 1..k |-> n + i]
  PROVE  /\ r \in Seq((n + 1)..(n + k)) /\ Len(r) = k
         /\ In(r) = (n + 1)..(n + k)
         /\ Follow(s, r, <<>>)
<1>1. r \in [1..k -> (n + 1)..(n + k)]
  OBVIOUS
<1>2. r \in Seq((n + 1)..(n + k))
  BY <1>1, SeqDef
<1>3. DOMAIN r = 1..k /\ DOMAIN r = 1..Len(r) /\ Len(r) \in Nat
  BY <1>2
<1>4. Len(r) = k /\ \A i \in 1..k : r[i] = n + i
  BY <1>3
<1>5. In(r) = (n + 1)..(n + k)
  <2>1. ASSUME NEW m \in (n + 1)..(n + k)
        PROVE  m \in In(r)
    <3>1. m - n \in 1..k /\ n + (m - n) = m
      OBVIOUS
    <3> QED BY <1>4, <3>1 DEF In
  <2>2. In(r) \subseteq (n + 1)..(n + k)
    BY <1>4 DEF In
  <2> QED BY <2>1, <2>2
<1>6. Rising(r)
  BY <1>4 DEF Rising
<1>7. \A m \in In(s) : m \in Nat
  <2>1. \A i \in 1..Len(s) : s[i] \in Nat
    OBVIOUS
  <2> QED BY <2>1 DEF In
<1>8. Below(s, r)
  BY <1>5, <1>7, BelowElements
<1> QED BY <1>2, <1>4, <1>5, <1>6, <1>8, NothingIn, BelowElements DEF Follow

-----------------------------------------------------------------------------
(* The gateway's inductive invariant.                                       *)

NumbersOK ==
  /\ sent \in Seq(Contents)
  /\ queue \in Seq(1..Len(sent)) /\ batch \in Seq(1..Len(sent))
  /\ stored \in Seq(1..Len(sent))
  /\ received \subseteq 1..Len(sent)

LoopOK ==
  /\ protocol \in Protocols
  /\ Len(queue) <= QueueMax
  /\ listener \in {"none", "connecting", "listening", "ended", "cancelled"}
  /\ protocol # "mqtt" => queue = <<>> /\ listener = "none"
  /\ loop \in LoopStage
  /\ loop = "posting" <=> batch # <<>>
  /\ rounds \in 0..MaxIterations
  /\ faults \in 0..MaxFaults

\* An iteration that has begun is still to be counted.
RoundsLeft ==
  /\ loop = "starting" => rounds = 0
  /\ loop \in {"reading", "posting", "sleeping"} => rounds < MaxIterations

\* What was received of known codes is in the table, in the request or in the queue.
Complete ==
  {n \in received : IsKnown(n)} =
    {n \in In(stored) \cup In(batch) \cup In(queue) : Parses(n) /\ IsKnown(n)}
NothingMissing == Untroubled /\ loop \notin {"closing", "stopped"} => Complete

StoredIsKnown == \A n \in In(stored) : IsKnown(n)

GatewayInv ==
  /\ NumbersOK /\ LoopOK /\ RoundsLeft
  /\ Follow(stored, batch, queue) /\ NothingMissing /\ StoredIsKnown

LEMMA GatewayBounds ==
  /\ QueueMax \in Nat /\ MaxIterations \in Nat /\ Registers \in Nat
  /\ MaxMessages \in Nat /\ MaxFaults \in Nat
BY BoundAssumption

LEMMA Numbers ==
  ASSUME NumbersOK
  PROVE  /\ Len(sent) \in Nat
         /\ queue \in Seq(Nat) /\ batch \in Seq(Nat) /\ stored \in Seq(Nat)
         /\ In(queue) \subseteq 1..Len(sent) /\ In(batch) \subseteq 1..Len(sent)
         /\ In(stored) \subseteq 1..Len(sent)
         /\ <<>> \in Seq(1..Len(sent)) /\ <<>> \in Seq(Nat)
<1>1. Len(sent) \in Nat
  BY DEF NumbersOK
<1> QED BY <1>1, Wider DEF NumbersOK

\* A step that moves no message.
LEMMA MessagesStay ==
  ASSUME NumbersOK, Follow(stored, batch, queue), NothingMissing, StoredIsKnown,
         UNCHANGED <<sent, queue, batch, stored, received>>,
         faults' = 0 => faults = 0,
         loop' \notin {"closing", "stopped"} => loop \notin {"closing", "stopped"}
  PROVE  NumbersOK' /\ Follow(stored, batch, queue)' /\ NothingMissing' /\ StoredIsKnown'
<1>1. NumbersOK'
  BY DEF NumbersOK
<1>2. Untroubled' => Untroubled
  BY DEF Untroubled
<1>3. Complete' = Complete /\ StoredIsKnown'
  BY DEF Complete, Parses, IsKnown, StoredIsKnown
<1> QED BY <1>1, <1>2, <1>3 DEF NothingMissing

LEMMA GatewayStarts ==
  ASSUME GatewayInit
  PROVE  GatewayInv
<1>1. Len(<<>>) = 0 /\ <<>> \in Seq(Contents) /\ <<>> \in Seq(1..Len(sent))
  OBVIOUS
<1>2. NumbersOK
  BY <1>1 DEF GatewayInit, NumbersOK
<1>3. LoopOK
  BY <1>1, GatewayBounds DEF GatewayInit, LoopOK, LoopStage
<1>4. Follow(stored, batch, queue) /\ Complete /\ StoredIsKnown
  BY NothingIn, BelowElements DEF GatewayInit, Follow, Complete, StoredIsKnown
<1> QED BY <1>2, <1>3, <1>4 DEF GatewayInv, RoundsLeft, NothingMissing, GatewayInit

-----------------------------------------------------------------------------
(* Steps that move no message.                                              *)

LEMMA TroubleCounts ==
  ASSUME faults \in 0..MaxFaults, Trouble
  PROVE  faults' \in 0..MaxFaults /\ faults' # 0
BY GatewayBounds DEF Trouble

LEMMA ListenerKeeps ==
  ASSUME GatewayInv, Subscribe \/ BrokerFails
  PROVE  GatewayInv'
<1>1. UNCHANGED <<protocol, sent, queue, batch, stored, received, loop, rounds>>
  BY DEF Subscribe, BrokerFails
<1>2. faults' \in 0..MaxFaults /\ (faults' = 0 => faults = 0)
  BY TroubleCounts DEF Subscribe, BrokerFails, GatewayInv, LoopOK
<1>3. listener' \in {"listening", "ended"} /\ listener # "none"
  BY DEF Subscribe, BrokerFails
<1>4. LoopOK'
  BY <1>1, <1>2, <1>3 DEF GatewayInv, LoopOK
<1> QED BY <1>1, <1>2, <1>4, MessagesStay DEF GatewayInv, RoundsLeft

LEMMA ConnectingKeeps ==
  ASSUME GatewayInv, ConnectMqtt \/ ConnectModbus \/ ConnectHttp
  PROVE  GatewayInv'
<1>1. /\ UNCHANGED <<protocol, sent, queue, batch, stored, received, rounds>>
      /\ loop = "starting"
  BY DEF ConnectMqtt, ConnectModbus, ConnectHttp
<1>2. faults' \in 0..MaxFaults /\ (faults' = 0 => faults = 0)
  BY TroubleCounts DEF ConnectMqtt, ConnectModbus, ConnectHttp, GatewayInv, LoopOK
<1>3. \/ listener' = listener
      \/ listener' = "connecting" /\ protocol = "mqtt"
  BY DEF ConnectMqtt, ConnectModbus, ConnectHttp
<1>4. /\ loop' \in {"reading", "leaving"}
      /\ loop' = "reading" => MaxIterations # 0
  BY DEF ConnectMqtt, ConnectModbus, ConnectHttp, Connected
<1>5. LoopOK'
  BY <1>1, <1>2, <1>3, <1>4 DEF GatewayInv, LoopOK, LoopStage
<1>6. RoundsLeft'
  BY <1>1, <1>4, GatewayBounds DEF GatewayInv, RoundsLeft
<1> QED BY <1>1, <1>2, <1>5, <1>6, MessagesStay DEF GatewayInv

LEMMA LoopMovesKeep ==
  ASSUME GatewayInv, ReadHttpRaises \/ Interrupt \/ Leave
  PROVE  GatewayInv'
<1>1. /\ UNCHANGED <<protocol, sent, queue, batch, stored, received, rounds>>
      /\ loop \in {"starting", "reading", "sleeping", "leaving"}
  BY DEF ReadHttpRaises, Interrupt, Leave
<1>2. faults' \in 0..MaxFaults /\ (faults' = 0 => faults = 0)
  BY TroubleCounts DEF ReadHttpRaises, Interrupt, Leave, GatewayInv, LoopOK
<1>3. listener' = listener \/ (listener' = "cancelled" /\ listener # "none")
  BY DEF ReadHttpRaises, Interrupt, Leave
<1>4. /\ loop' \in {"sleeping", "leaving", "closing"}
      /\ loop' = "sleeping" => loop = "reading"
  BY DEF ReadHttpRaises, Interrupt, Leave
<1>5. LoopOK'
  BY <1>1, <1>2, <1>3, <1>4 DEF GatewayInv, LoopOK, LoopStage
<1>6. RoundsLeft'
  BY <1>1, <1>4 DEF GatewayInv, RoundsLeft
<1> QED BY <1>1, <1>2, <1>5, <1>6, MessagesStay DEF GatewayInv

LEMMA SleepKeeps ==
  ASSUME GatewayInv, Sleep
  PROVE  GatewayInv'
<1>1. /\ UNCHANGED <<protocol, sent, queue, listener, batch, stored, received, faults>>
      /\ loop = "sleeping" /\ rounds' = rounds + 1
      /\ loop' \in {"reading", "leaving"}
      /\ loop' = "reading" => rounds' # MaxIterations
  BY DEF Sleep
<1>2. rounds' \in 0..MaxIterations
  BY <1>1, GatewayBounds DEF GatewayInv, LoopOK, RoundsLeft
<1>3. LoopOK'
  BY <1>1, <1>2 DEF GatewayInv, LoopOK, LoopStage
<1>4. RoundsLeft'
  BY <1>1, <1>2, GatewayBounds DEF RoundsLeft
<1> QED BY <1>1, <1>3, <1>4, MessagesStay DEF GatewayInv

LEMMA GatewayStutters ==
  ASSUME GatewayInv, UNCHANGED gatewayVars
  PROVE  GatewayInv'
<1>1. UNCHANGED <<protocol, sent, queue, listener, loop, rounds, batch, stored, received, faults>>
  BY DEF gatewayVars
<1>2. LoopOK' /\ RoundsLeft'
  BY <1>1 DEF GatewayInv, LoopOK, RoundsLeft
<1> QED BY <1>1, <1>2, MessagesStay DEF GatewayInv

-----------------------------------------------------------------------------
(* Requests and reads of the MQTT queue.                                    *)

\* When nothing fails and nothing spoils a batch, the platform takes it.
LEMMA UntroubledIsTaken ==
  ASSUME NumbersOK, Follow(stored, batch, queue), Untroubled
  PROVE  MayStore /\ \A i \in 1..Len(batch) : Content(i) # "nan"
<1>1. /\ Len(sent) \in Nat /\ In(batch) \subseteq 1..Len(sent) /\ In(stored) \subseteq 1..Len(sent)
      /\ \A i \in 1..Len(batch) : batch[i] \in In(batch)
  BY Numbers DEF In
<1>2. \A i \in 1..Len(batch) : Content(i) \notin Spoiling
  BY <1>1 DEF Untroubled, Content
<1>3. Rising(batch) /\ Below(stored, batch)
  BY DEF Follow
<1>4. ASSUME NEW i \in 1..Len(batch), Content(i) \in Keys,
             NEW j \in 1..Len(batch), Content(j) = Content(i)
      PROVE  i = j
  <2>1. batch[j] = batch[i] /\ batch[i] \in Nat /\ batch[j] \in Nat
    BY <1>1, <1>4 DEF Untroubled, Content
  <2>2. ~(i < j) /\ ~(j < i)
    BY <1>3, <2>1 DEF Rising
  <2> QED BY <2>2
<1>5. ASSUME NEW i \in 1..Len(batch), Content(i) \in Keys, NEW n \in In(stored)
      PROVE  sent[n] # Content(i)
  <2>1. n < batch[i] /\ n \in Nat /\ batch[i] \in Nat
    BY <1>1, <1>3, BelowElements
  <2>2. n # batch[i] /\ n \in 1..Len(sent) /\ batch[i] \in 1..Len(sent)
    BY <1>1, <2>1
  <2> QED BY <1>5, <2>2 DEF Untroubled, Content
<1> QED BY <1>2, <1>4, <1>5 DEF MayStore, Spoiling

\* What the platform stores of a batch goes behind what it has stored, and is what it
\* knows of the batch.
LEMMA StoredOf ==
  ASSUME GatewayInv, StoreBatch, UNCHANGED sent
  PROVE  /\ stored' \in Seq(1..Len(sent)) /\ Follow(stored', <<>>, queue)
         /\ StoredIsKnown'
         /\ MayStore => In(stored') = In(stored) \cup {n \in In(batch) : IsKnown(n)}
<1> DEFINE Known == {n \in In(batch) : IsKnown(n)}
<1>1. /\ stored \in Seq(1..Len(sent)) /\ batch \in Seq(1..Len(sent)) /\ Len(sent) \in Nat
      /\ stored \in Seq(Nat) /\ batch \in Seq(Nat) /\ queue \in Seq(Nat)
      /\ Follow(stored, batch, queue) /\ StoredIsKnown
  BY Numbers DEF GatewayInv, NumbersOK
<1>2. CASE ~MayStore
  <2>1. stored' = stored
    BY <1>2 DEF StoreBatch
  <2> QED BY <1>1, <1>2, <2>1, StoredFollows DEF StoredIsKnown, IsKnown
<1>3. CASE MayStore
  <2>1. PICK kept \in Selections(batch, Known) : stored' = stored \o kept
    BY <1>3 DEF StoreBatch
  <2> HIDE DEF Known
  <2>2. /\ kept \in Seq(1..Len(sent)) /\ kept \in Seq(Nat)
        /\ In(kept) = In(batch) \cap Known /\ Rising(kept)
    BY <1>1, <2>1, Selected DEF Follow
  <2>3. In(kept) = Known
    BY <2>2 DEF Known
  <2>4. stored' \in Seq(1..Len(sent)) /\ In(stored') = In(stored) \cup In(kept)
    <3>1. stored \o kept \in Seq(1..Len(sent)) /\ In(stored \o kept) = In(stored) \cup In(kept)
      BY <1>1, <2>2, Joined
    <3> QED BY <2>1, <3>1
  <2>5. Follow(stored', <<>>, queue)
    BY <1>1, <2>1, <2>2, KeptFollows
  <2>6. StoredIsKnown'
    BY <1>1, <2>3, <2>4 DEF StoredIsKnown, IsKnown, Known
  <2> QED BY <2>3, <2>4, <2>5, <2>6 DEF Known
<1> QED BY <1>2, <1>3

LEMMA NotStored ==
  ASSUME GatewayInv, UNCHANGED <<stored, sent>>
  PROVE  stored' \in Seq(1..Len(sent)) /\ Follow(stored', <<>>, queue) /\ StoredIsKnown'
BY Numbers, StoredFollows DEF GatewayInv, NumbersOK, StoredIsKnown, IsKnown

LEMMA RequestEnds ==
  ASSUME GatewayInv, loop = "posting", batch' = <<>>,
         UNCHANGED <<protocol, sent, queue, listener, rounds, received>>,
         stored' \in Seq(1..Len(sent)), Follow(stored', <<>>, queue), StoredIsKnown',
         loop' \in {"sleeping", "leaving"}, faults' \in 0..MaxFaults, NothingMissing'
  PROVE  GatewayInv'
<1>1. NumbersOK'
  BY Numbers DEF GatewayInv, NumbersOK
<1>2. LoopOK' /\ RoundsLeft'
  BY DEF GatewayInv, LoopOK, LoopStage, RoundsLeft
<1> QED BY <1>1, <1>2 DEF GatewayInv

LEMMA PostKeeps ==
  ASSUME GatewayInv, Post
  PROVE  GatewayInv'
<1>1. /\ UNCHANGED <<protocol, sent, queue, listener, rounds, received, faults>>
      /\ loop = "posting" /\ batch' = <<>> /\ loop' = "sleeping" /\ StoreBatch
  BY DEF Post, Posted
<1>2. /\ stored' \in Seq(1..Len(sent)) /\ Follow(stored', <<>>, queue) /\ StoredIsKnown'
      /\ MayStore => In(stored') = In(stored) \cup {n \in In(batch) : IsKnown(n)}
  BY <1>1, StoredOf
<1>3. ASSUME Untroubled'
      PROVE  Complete'
  <2>1. Untroubled
    BY <1>1, <1>3 DEF Untroubled
  <2>2. MayStore
    BY <2>1, UntroubledIsTaken DEF GatewayInv
  <2>3. /\ In(stored') = In(stored) \cup {n \in In(batch) : IsKnown(n)}
        /\ In(batch') = {} /\ In(queue') = In(queue)
    BY <1>1, <1>2, <2>2, NothingIn
  <2>4. Complete
    BY <1>1, <2>1 DEF GatewayInv, NothingMissing
  <2> QED BY <1>1, <2>3, <2>4 DEF Complete, Parses, IsKnown
<1>4. faults' \in 0..MaxFaults
  BY <1>1 DEF GatewayInv, LoopOK
<1> QED BY <1>1, <1>2, <1>3, <1>4, RequestEnds DEF NothingMissing

LEMMA PostFailsKeeps ==
  ASSUME GatewayInv, PostFails
  PROVE  GatewayInv'
<1>1. /\ UNCHANGED <<protocol, sent, queue, listener, rounds, received>>
      /\ loop = "posting" /\ batch' = <<>> /\ loop' \in {"sleeping", "leaving"}
      /\ StoreBatch \/ UNCHANGED stored
  BY DEF PostFails, Posted
<1>2. faults' \in 0..MaxFaults /\ faults' # 0
  BY TroubleCounts DEF PostFails, GatewayInv, LoopOK
<1>3. NothingMissing'
  BY <1>2 DEF NothingMissing, Untroubled
<1>4. stored' \in Seq(1..Len(sent)) /\ Follow(stored', <<>>, queue) /\ StoredIsKnown'
  BY <1>1, StoredOf, NotStored
<1> QED BY <1>1, <1>2, <1>3, <1>4, RequestEnds

LEMMA EncodeRaisesKeeps ==
  ASSUME GatewayInv, EncodeRaises
  PROVE  GatewayInv'
<1>1. /\ UNCHANGED <<protocol, sent, queue, listener, rounds, stored, received, faults>>
      /\ loop = "posting" /\ batch' = <<>> /\ loop' = "leaving"
      /\ \E i \in 1..Len(batch) : Content(i) = "nan"
  BY DEF EncodeRaises, Posted
<1>2. ~Untroubled
  BY <1>1, UntroubledIsTaken DEF GatewayInv
<1>3. NothingMissing'
  BY <1>1, <1>2 DEF NothingMissing, Untroubled
<1>4. faults' \in 0..MaxFaults
  BY <1>1 DEF GatewayInv, LoopOK
<1>5. stored' \in Seq(1..Len(sent)) /\ Follow(stored', <<>>, queue) /\ StoredIsKnown'
  BY <1>1, NotStored
<1> QED BY <1>1, <1>3, <1>4, <1>5, RequestEnds

LEMMA ReadQueueKeeps ==
  ASSUME GatewayInv, ReadQueue
  PROVE  GatewayInv'
<1> DEFINE Parsed == {n \in In(queue) : Parses(n)}
<1>1. PICK r \in Selections(queue, Parsed) : Take(r)
  BY DEF ReadQueue
<1> HIDE DEF Parsed
<1>2. /\ UNCHANGED <<protocol, sent, listener, rounds, stored, received, faults>>
      /\ loop = "reading" /\ queue' = <<>> /\ batch' = r
      /\ loop' = IF r = <<>> THEN "sleeping" ELSE "posting"
  BY <1>1 DEF ReadQueue, Take
<1>3. /\ Len(sent) \in Nat /\ queue \in Seq(Nat) /\ stored \in Seq(Nat)
      /\ queue \in Seq(1..Len(sent)) /\ batch = <<>>
      /\ Follow(stored, <<>>, queue)
  BY <1>2, Numbers DEF GatewayInv, LoopOK, NumbersOK
<1>4. /\ r \in Seq(1..Len(sent)) /\ r \in Seq(Nat)
      /\ In(r) = In(queue) \cap Parsed /\ Rising(r)
  BY <1>1, <1>3, Selected DEF Follow
<1>5. NumbersOK' /\ StoredIsKnown'
  <2>1. <<>> \in Seq(1..Len(sent))
    OBVIOUS
  <2> QED BY <1>2, <1>4, <2>1 DEF GatewayInv, NumbersOK, StoredIsKnown, IsKnown
<1>6. Follow(stored', batch', queue')
  BY <1>2, <1>3, <1>4, ParsedFollows
<1>7. LoopOK' /\ RoundsLeft'
  <2>1. Len(<<>>) = 0
    OBVIOUS
  <2>2. Len(queue') <= QueueMax
    BY <1>2, <2>1, GatewayBounds
  <2> QED BY <1>2, <2>2 DEF GatewayInv, LoopOK, LoopStage, RoundsLeft
<1>8. Complete => Complete'
  <2>1. In(batch) = {} /\ In(queue') = {}
    BY <1>2, <1>3, NothingIn
  <2>2. In(batch') = {m \in In(queue) : Parses(m)}
    BY <1>2, <1>4 DEF Parsed
  <2> QED BY <1>2, <2>1, <2>2 DEF Complete, Parses, IsKnown
<1>9. NothingMissing'
  BY <1>2, <1>8 DEF GatewayInv, NothingMissing, Untroubled
<1> QED BY <1>5, <1>6, <1>7, <1>9 DEF GatewayInv

LEMMA ReadQueueRaisesKeeps ==
  ASSUME GatewayInv, ReadQueueRaises
  PROVE  GatewayInv'
<1>1. PICK i \in 1..Len(queue) : /\ sent[queue[i]] = "huge"
                                 /\ queue' = SubSeq(queue, i + 1, Len(queue))
  BY DEF ReadQueueRaises
<1>2. /\ UNCHANGED <<protocol, sent, listener, rounds, batch, stored, received, faults>>
      /\ loop = "reading" /\ protocol = "mqtt" /\ loop' = "sleeping"
  BY DEF ReadQueueRaises
<1>3. /\ queue \in Seq(Nat) /\ stored \in Seq(Nat) /\ batch = <<>>
      /\ queue \in Seq(1..Len(sent)) /\ In(queue) \subseteq 1..Len(sent)
  BY <1>2, Numbers DEF GatewayInv, LoopOK, NumbersOK
<1>4. Follow(stored, <<>>, queue)
  BY <1>3 DEF GatewayInv
<1>5. /\ Follow(stored, <<>>, queue') /\ Len(queue') <= Len(queue)
      /\ queue' \in Seq(1..Len(sent))
  <2>1. /\ Follow(stored, <<>>, queue') /\ Len(queue') <= Len(queue)
        /\ \A S : queue \in Seq(S) => queue' \in Seq(S)
    BY <1>1, <1>3, <1>4, RestFollows
  <2> QED BY <1>3, <2>1
<1>6. NumbersOK' /\ StoredIsKnown'
  BY <1>2, <1>5 DEF GatewayInv, NumbersOK, StoredIsKnown, IsKnown
<1>7. Len(queue') <= QueueMax
  BY <1>3, <1>5, GatewayBounds DEF GatewayInv, LoopOK
<1>8. LoopOK' /\ RoundsLeft'
  BY <1>2, <1>7 DEF GatewayInv, LoopOK, LoopStage, RoundsLeft
<1>9. ~Untroubled
  <2>1. queue[i] \in 1..Len(sent)
    BY <1>3 DEF In
  <2> QED BY <1>1, <2>1 DEF Untroubled, Spoiling
<1>10. NothingMissing'
  BY <1>2, <1>9 DEF NothingMissing, Untroubled
<1> QED BY <1>2, <1>3, <1>5, <1>6, <1>8, <1>10 DEF GatewayInv

LEMMA DisconnectKeepsOrder ==
  ASSUME GatewayInv, Disconnect
  PROVE  GatewayInv'
<1>1. /\ UNCHANGED <<protocol, sent, listener, rounds, batch, stored, received, faults>>
      /\ loop = "closing" /\ loop' = "stopped" /\ queue' = <<>>
  BY DEF Disconnect
<1>2. <<>> \in Seq(1..Len(sent)) /\ Len(<<>>) = 0
  OBVIOUS
<1>3. NumbersOK'
  BY <1>1, <1>2 DEF GatewayInv, NumbersOK
<1>4. Len(queue') <= QueueMax
  BY <1>1, <1>2, GatewayBounds
<1>5. LoopOK' /\ RoundsLeft'
  BY <1>1, <1>4 DEF GatewayInv, LoopOK, LoopStage, RoundsLeft
<1>6. Follow(stored', batch', queue') /\ StoredIsKnown'
  BY <1>1, NothingIn, BelowElements DEF GatewayInv, Follow, StoredIsKnown, IsKnown
<1> QED BY <1>1, <1>3, <1>5, <1>6 DEF GatewayInv, NothingMissing

-----------------------------------------------------------------------------
(* Messages and polls.                                                      *)

\* What is known of the messages sent before stays.
LEMMA Grown ==
  ASSUME NumbersOK, sent' \in Seq(Contents), Len(sent) <= Len(sent'),
         \A n \in 1..Len(sent) : sent'[n] = sent[n]
  PROVE  /\ Len(sent) \in Nat /\ Len(sent') \in Nat
         /\ queue \in Seq(1..Len(sent')) /\ batch \in Seq(1..Len(sent'))
         /\ stored \in Seq(1..Len(sent')) /\ received \subseteq 1..Len(sent')
         /\ \A n \in 1..Len(sent) : (Parses(n)' <=> Parses(n)) /\ (IsKnown(n)' <=> IsKnown(n))
         /\ UNCHANGED stored /\ StoredIsKnown => StoredIsKnown'
         /\ faults' = faults /\ Untroubled' => Untroubled
<1>1. Len(sent) \in Nat /\ Len(sent') \in Nat
  BY DEF NumbersOK
<1>2. 1..Len(sent) \subseteq 1..Len(sent')
  BY <1>1
<1>3. /\ queue \in Seq(1..Len(sent')) /\ batch \in Seq(1..Len(sent'))
      /\ stored \in Seq(1..Len(sent'))
  BY <1>1, Wider DEF NumbersOK
<1>4. \A n \in 1..Len(sent) : (Parses(n)' <=> Parses(n)) /\ (IsKnown(n)' <=> IsKnown(n))
  BY DEF Parses, IsKnown
<1>5. faults' = faults /\ Untroubled' => Untroubled
  BY <1>2 DEF Untroubled
<1>6. UNCHANGED stored /\ StoredIsKnown => StoredIsKnown'
  BY <1>4, Numbers DEF StoredIsKnown
<1> QED BY <1>1, <1>2, <1>3, <1>4, <1>5, <1>6 DEF NumbersOK

LEMMA ElementsOf ==
  ASSUME NEW S, NEW T, S \subseteq T, NEW s \in Seq(S)
  PROVE  s \in Seq(T)
OBVIOUS

LEMMA ArrivesFacts ==
  ASSUME NumbersOK, NEW c \in Payloads, Arrives(c)
  PROVE  /\ sent' \in Seq(Contents) /\ Len(sent') = Len(sent) + 1 /\ Len(sent) \in Nat
         /\ \A n \in 1..Len(sent) : sent'[n] = sent[n]
         /\ sent'[Len(sent')] = c
         /\ Len(sent) <= Len(sent') /\ listener = "listening"
<1>1. sent \in Seq(Contents) /\ sent' = Append(sent, c) /\ listener = "listening"
  BY DEF NumbersOK, Arrives
<1>0. c \in Contents
  BY DEF Contents
<1>2. /\ sent' \in Seq(Contents) /\ Len(sent') = Len(sent) + 1 /\ Len(sent) \in Nat
      /\ \A n \in 1..Len(sent) : sent'[n] = sent[n]
      /\ sent'[Len(sent) + 1] = c
  BY <1>0, <1>1, Appended
<1> QED BY <1>1, <1>2

\* A message that leaves no payload behind.
LEMMA IgnoredKeeps ==
  ASSUME GatewayInv, NEW c \in Payloads,
         Skip(c) \/ (c = "undecodable" /\ ListenerRaises)
  PROVE  GatewayInv'
<1>1. /\ UNCHANGED <<protocol, queue, loop, rounds, batch, stored, received, faults>>
      /\ Arrives(c) /\ listener' \in {listener, "ended"}
  BY DEF Skip, ListenerRaises
<1>2. /\ sent' \in Seq(Contents) /\ Len(sent) <= Len(sent')
      /\ \A n \in 1..Len(sent) : sent'[n] = sent[n]
      /\ listener = "listening"
  BY <1>1, ArrivesFacts DEF GatewayInv
<1>3. /\ queue \in Seq(1..Len(sent')) /\ batch \in Seq(1..Len(sent'))
      /\ stored \in Seq(1..Len(sent')) /\ received \subseteq 1..Len(sent')
      /\ \A n \in 1..Len(sent) : (Parses(n)' <=> Parses(n)) /\ (IsKnown(n)' <=> IsKnown(n))
      /\ StoredIsKnown' /\ (Untroubled' => Untroubled)
  BY <1>1, <1>2, Grown DEF GatewayInv
<1>4. NumbersOK'
  BY <1>1, <1>2, <1>3 DEF NumbersOK
<1>5. LoopOK' /\ RoundsLeft' /\ Follow(stored', batch', queue')
  BY <1>1, <1>2 DEF GatewayInv, LoopOK, RoundsLeft
<1>6. In(stored) \cup In(batch) \cup In(queue) \cup received \subseteq 1..Len(sent)
  BY Numbers DEF GatewayInv, NumbersOK
<1>7. Complete => Complete'
  BY <1>1, <1>3, <1>6 DEF Complete
<1> QED BY <1>1, <1>3, <1>4, <1>5, <1>7 DEF GatewayInv, NothingMissing

LEMMA EnqueueKeeps ==
  ASSUME GatewayInv, NEW c \in Payloads, Enqueue(c)
  PROVE  GatewayInv'
<1>0. PICK new : new = Len(sent')
  OBVIOUS
<1>1. /\ UNCHANGED <<protocol, listener, loop, rounds, batch, stored, faults>>
      /\ Arrives(c) /\ c \notin {"foreign", "undecodable"} /\ Len(queue) < QueueMax
      /\ queue' = Append(queue, new)
      /\ received' = IF c \in {"unparsed", "huge"} THEN received ELSE received \cup {new}
  BY <1>0 DEF Enqueue
<1>2. /\ sent' \in Seq(Contents) /\ Len(sent) <= new /\ new = Len(sent) + 1 /\ Len(sent) \in Nat
      /\ \A n \in 1..Len(sent) : sent'[n] = sent[n]
      /\ sent'[new] = c /\ listener = "listening"
  BY <1>0, <1>1, ArrivesFacts DEF GatewayInv
<1>3. /\ queue \in Seq(1..new) /\ batch \in Seq(1..new)
      /\ stored \in Seq(1..new) /\ received \subseteq 1..new
      /\ \A n \in 1..Len(sent) : (Parses(n)' <=> Parses(n)) /\ (IsKnown(n)' <=> IsKnown(n))
      /\ StoredIsKnown' /\ (Untroubled' => Untroubled)
  BY <1>0, <1>1, <1>2, Grown DEF GatewayInv
<1>4. /\ In(stored) \cup In(batch) \cup In(queue) \cup received \subseteq 1..Len(sent)
      /\ queue \in Seq(Nat) /\ batch \in Seq(Nat) /\ stored \in Seq(Nat)
  BY Numbers DEF GatewayInv, NumbersOK
<1>5. /\ queue' \in Seq(1..new) /\ Len(queue') = Len(queue) + 1 /\ Len(queue) \in Nat
      /\ In(queue') = In(queue) \cup {new}
  <2>1. new \in 1..new /\ queue \in Seq(1..new)
    BY <1>2, <1>3
  <2>2. /\ Append(queue, new) \in Seq(1..new)
        /\ Len(Append(queue, new)) = Len(queue) + 1 /\ Len(queue) \in Nat
        /\ In(Append(queue, new)) = In(queue) \cup {new}
    BY <2>1, Appended
  <2>3. queue' = Append(queue, new)
    BY <1>1
  <2> QED BY <2>2, <2>3
<1>6. NumbersOK'
  <2>1. new \in 1..new
    BY <1>2
  <2>2. received' \subseteq 1..new
    BY <1>1, <1>3, <2>1
  <2> QED BY <1>0, <1>1, <1>2, <1>3, <1>5, <2>2 DEF NumbersOK
<1>7. LoopOK' /\ RoundsLeft'
  <2>1. Len(queue') <= QueueMax
    BY <1>1, <1>5, GatewayBounds
  <2> QED BY <1>1, <1>2, <2>1 DEF GatewayInv, LoopOK, RoundsLeft
<1>8. Follow(stored', batch', queue')
  <2>1. new \in Nat /\ \A m \in In(stored) \cup In(batch) \cup In(queue) : m < new
    BY <1>2, <1>4
  <2> QED BY <1>1, <1>4, <2>1, AppendedFollows DEF GatewayInv
<1>9. Complete => Complete'
  <2>1. Parses(new)' <=> c \notin {"unparsed", "huge"}
    BY <1>2 DEF Parses
  <2>2. \A m \in In(stored') \cup In(batch') \cup In(queue') :
          \/ m = new
          \/ /\ m \in In(stored) \cup In(batch) \cup In(queue)
             /\ (Parses(m)' <=> Parses(m)) /\ (IsKnown(m)' <=> IsKnown(m))
    BY <1>1, <1>3, <1>4, <1>5
  <2> QED BY <1>1, <1>3, <1>4, <1>5, <2>1, <2>2 DEF Complete
<1> QED BY <1>1, <1>3, <1>6, <1>7, <1>8, <1>9 DEF GatewayInv, NothingMissing

\* A poll that is let read: nothing waits anywhere, and its readings come last.
LEMMA PollKeeps ==
  ASSUME GatewayInv, NEW k \in Nat, Poll(k), loop = "reading", protocol # "mqtt"
  PROVE  GatewayInv'
<1> DEFINE n == Len(sent)
           polled == [i \in 1..k |-> n + i]
<1>0. PICK more \in [1..k -> Polled] : sent' = sent \o more
  BY DEF Poll
<1>1. /\ UNCHANGED <<protocol, queue, listener, rounds, stored, faults>>
      /\ sent' = sent \o more /\ received' = received \cup In(polled)
      /\ batch' = polled
      /\ loop' = IF polled = <<>> THEN "sleeping" ELSE "posting"
  BY <1>0 DEF Poll, Take
<1>2. /\ queue = <<>> /\ batch = <<>> /\ n \in Nat /\ stored \in Seq(Nat)
      /\ In(stored) \cup received \subseteq 1..n /\ sent \in Seq(Contents)
      /\ In(queue) = {} /\ In(batch) = {}
  BY Numbers, NothingIn DEF GatewayInv, LoopOK, NumbersOK
<1>3. more \in Seq(Contents) /\ Len(more) = k /\ \A i \in 1..k : more[i] \in Polled
  <2>1. more \in [1..k -> Contents]
    BY <1>0 DEF Contents
  <2>2. more \in Seq(Contents)
    BY <2>1, SeqDef
  <2>3. DOMAIN more = 1..k /\ DOMAIN more = 1..Len(more) /\ Len(more) \in Nat
    BY <2>2
  <2> QED BY <1>0, <2>2, <2>3
<1>4. polled = [i \in 1..k |-> n + i]
  OBVIOUS
<1> HIDE DEF polled
<1>5. /\ polled \in Seq((n + 1)..(n + k)) /\ Len(polled) = k
      /\ In(polled) = (n + 1)..(n + k)
      /\ Follow(stored, polled, <<>>)
  <2>1. Rising(stored) /\ \A m \in In(stored) : m <= n
    BY <1>2 DEF GatewayInv, Follow
  <2> QED BY <1>2, <1>4, <2>1, PolledFollow
<1>6. /\ sent' \in Seq(Contents) /\ Len(sent') = n + k
      /\ \A m \in 1..n : sent'[m] = sent[m]
      /\ \A m \in (n + 1)..(n + k) : sent'[m] \in Polled
  <2>1. /\ sent' \in Seq(Contents) /\ Len(sent') = n + k
        /\ \A i \in 1..(n + k) :
             \/ i \in 1..n /\ sent'[i] = sent[i]
             \/ i \notin 1..n /\ i - n \in 1..k /\ sent'[i] = more[i - n]
    <3>1. /\ sent' \in Seq(Contents) /\ Len(sent') = n + Len(more)
          /\ \A i \in 1..Len(sent') :
               \/ i \in 1..n /\ sent'[i] = sent[i]
               \/ i \notin 1..n /\ i - n \in 1..Len(more) /\ sent'[i] = more[i - n]
      <4> DEFINE w == sent \o more
      <4>1. /\ w \in Seq(Contents) /\ Len(w) = Len(sent) + Len(more)
            /\ \A i \in 1..Len(w) :
                 \/ i \in 1..Len(sent) /\ w[i] = sent[i]
                 \/ /\ i \notin 1..Len(sent) /\ i - Len(sent) \in 1..Len(more)
                    /\ w[i] = more[i - Len(sent)]
        BY <1>2, <1>3, Joined
      <4>2. sent' = w
        BY <1>1
      <4> HIDE DEF w
      <4> QED BY <4>1, <4>2
    <3> QED BY <1>3, <3>1
  <2>2. 1..n \subseteq 1..(n + k)
    BY <1>2
  <2>3. \A m \in (n + 1)..(n + k) : m \in 1..(n + k) /\ m \notin 1..n
    BY <1>2
  <2> QED BY <1>3, <2>1, <2>2, <2>3
<1>7. /\ stored \in Seq(1..Len(sent')) /\ received \subseteq 1..Len(sent')
      /\ queue \in Seq(1..Len(sent'))
      /\ \A m \in 1..n : (Parses(m)' <=> Parses(m)) /\ (IsKnown(m)' <=> IsKnown(m))
      /\ StoredIsKnown' /\ (Untroubled' => Untroubled)
  <2>1. Len(sent) <= Len(sent')
    BY <1>2, <1>6
  <2> QED BY <1>1, <1>6, <2>1, Grown DEF GatewayInv
<1>8. NumbersOK'
  <2>1. (n + 1)..(n + k) \subseteq 1..(n + k)
    BY <1>2
  <2>2. batch' \in Seq(1..Len(sent')) /\ received' \subseteq 1..Len(sent')
    BY <1>1, <1>5, <1>6, <1>7, <2>1, ElementsOf
  <2> QED BY <1>1, <1>6, <1>7, <2>2 DEF NumbersOK
<1>9. LoopOK' /\ RoundsLeft'
  BY <1>1, <1>2 DEF GatewayInv, LoopOK, LoopStage, RoundsLeft
<1>10. Follow(stored', batch', queue')
  BY <1>1, <1>2, <1>5
<1>11. Complete => Complete'
  <2>1. \A m \in (n + 1)..(n + k) : Parses(m)'
    BY <1>6 DEF Parses, Polled
  <2> QED BY <1>1, <1>2, <1>5, <1>7, <2>1 DEF Complete
<1> QED BY <1>1, <1>7, <1>8, <1>9, <1>10, <1>11 DEF GatewayInv, NothingMissing

LEMMA ReadsKeep ==
  ASSUME GatewayInv, ReadRegisters \/ \E k \in 0..MaxMessages : ReadHttp(k)
  PROVE  GatewayInv'
<1>1. CASE ReadRegisters
  <2>1. /\ loop = "reading" /\ protocol # "mqtt"
        /\ Poll(IF Len(sent) + Registers <= MaxMessages THEN Registers ELSE 0)
    BY <1>1 DEF ReadRegisters
  <2>2. (IF Len(sent) + Registers <= MaxMessages THEN Registers ELSE 0) \in Nat
    BY GatewayBounds
  <2> QED BY <2>1, <2>2, PollKeeps
<1>2. CASE \E k \in 0..MaxMessages : ReadHttp(k)
  <2>1. PICK k \in 0..MaxMessages : ReadHttp(k)
    BY <1>2
  <2>2. k \in Nat /\ Poll(k) /\ loop = "reading" /\ protocol # "mqtt"
    BY <2>1, GatewayBounds DEF ReadHttp
  <2> QED BY <2>2, PollKeeps
<1> QED BY <1>1, <1>2

-----------------------------------------------------------------------------
(* The theorems about the gateway.                                          *)

LEMMA GatewayStep ==
  ASSUME GatewayInv, [GatewayNext]_gatewayVars
  PROVE  GatewayInv'
<1>1. CASE LoopStep
  BY <1>1, ConnectingKeeps, ReadQueueKeeps, ReadQueueRaisesKeeps, ReadsKeep, LoopMovesKeep,
     PostKeeps, EncodeRaisesKeeps, SleepKeeps, DisconnectKeepsOrder DEF LoopStep
<1>2. CASE PostFails \/ Interrupt \/ Subscribe \/ BrokerFails
  BY <1>2, PostFailsKeeps, LoopMovesKeep, ListenerKeeps
<1>3. CASE ListenerRaises
  <2>1. "undecodable" \in Payloads
    BY DEF Payloads
  <2> QED BY <1>3, <2>1, IgnoredKeeps
<1>4. CASE \E c \in Payloads : Enqueue(c) \/ Skip(c)
  BY <1>4, EnqueueKeeps, IgnoredKeeps
<1> QED BY <1>1, <1>2, <1>3, <1>4, GatewayStutters DEF GatewayNext

\* The inductive invariant: readings follow each other on their way, only those of known
\* codes are stored, and while nothing fails or spoils a batch, none of these is missing.
THEOREM GatewaySafe == GatewaySpec => []GatewayInv
BY GatewayStarts, GatewayStep, PTL DEF GatewaySpec

\* The gateway keeps its types: the queue its bound, the loop its iterations, and a batch
\* exists exactly while it is posted.
THEOREM GatewayTypeCorrect == GatewaySpec => []GatewayTypeOK
<1>1. GatewayInv => GatewayTypeOK
  BY DEF GatewayInv, NumbersOK, LoopOK, GatewayTypeOK
<1> QED BY <1>1, GatewaySafe, PTL

\* Readings reach the platform in the order they were received and never twice, those of
\* unknown codes never, and no other is missing unless a call failed or a reading spoiled
\* its batch.
THEOREM ReadingsAreAccounted == GatewaySpec => []Accounted
<1>1. GatewayInv => Accounted
  <2> SUFFICES ASSUME GatewayInv
               PROVE  Accounted
    OBVIOUS
  <2>1. /\ Rising(OnTheWay)
        /\ In(OnTheWay) = In(stored) \cup In(batch) \cup In(queue)
    BY Numbers, AllFollow DEF GatewayInv, OnTheWay
  <2> QED BY <2>1 DEF GatewayInv, NothingMissing, Complete, StoredIsKnown, Accounted, Rising
<1> QED BY <1>1, GatewaySafe, PTL

-----------------------------------------------------------------------------
(* The end of the gateway.                                                  *)

LEMMA ListenerKeepsClean ==
  ASSUME GatewayInv, StoppedIsClean,
         Subscribe \/ BrokerFails \/ ListenerRaises \/ \E c \in Payloads : Enqueue(c) \/ Skip(c)
  PROVE  StoppedIsClean' /\ loop # "stopped"
BY DEF StoppedIsClean, Subscribe, BrokerFails, ListenerRaises, Enqueue, Skip, Arrives

LEMMA EndingKeepsClean ==
  ASSUME GatewayInv, StoppedIsClean, Leave \/ Disconnect
  PROVE  StoppedIsClean' /\ loop # "stopped"
BY DEF StoppedIsClean, Leave, Disconnect, GatewayInv, LoopOK

\* Every other step begins before the gateway leaves, and does not pass Leave.
LEMMA WorkKeepsClean ==
  ASSUME GatewayInv,
         \/ ConnectMqtt \/ ConnectModbus \/ ConnectHttp
         \/ ReadQueue \/ ReadQueueRaises \/ ReadRegisters
         \/ (\E k \in 0..MaxMessages : ReadHttp(k)) \/ ReadHttpRaises
         \/ Post \/ EncodeRaises \/ Sleep \/ PostFails \/ Interrupt
  PROVE  StoppedIsClean' /\ loop # "stopped"
<1>1. CASE ConnectMqtt \/ ConnectModbus \/ ConnectHttp
  BY <1>1 DEF StoppedIsClean, ConnectMqtt, ConnectModbus, ConnectHttp, Connected
<1>2. CASE ReadQueue
  BY <1>2 DEF StoppedIsClean, ReadQueue, Take
<1>3. CASE ReadQueueRaises \/ ReadHttpRaises
  BY <1>3 DEF StoppedIsClean, ReadQueueRaises, ReadHttpRaises
<1>4. CASE ReadRegisters \/ \E k \in 0..MaxMessages : ReadHttp(k)
  BY <1>4 DEF StoppedIsClean, ReadRegisters, ReadHttp, Poll, Take
<1>5. CASE Post \/ EncodeRaises \/ PostFails
  BY <1>5 DEF StoppedIsClean, Post, EncodeRaises, PostFails, Posted
<1>6. CASE Sleep \/ Interrupt
  BY <1>6 DEF StoppedIsClean, Sleep, Interrupt
<1> QED BY <1>1, <1>2, <1>3, <1>4, <1>5, <1>6

LEMMA CleanKept ==
  ASSUME GatewayInv, StoppedIsClean, [GatewayNext]_gatewayVars
  PROVE  StoppedIsClean' /\ [loop # "stopped"]_gatewayVars
<1>1. CASE GatewayNext
  BY <1>1, ListenerKeepsClean, EndingKeepsClean, WorkKeepsClean DEF GatewayNext, LoopStep
<1>2. CASE UNCHANGED gatewayVars
  BY <1>2 DEF StoppedIsClean, gatewayVars
<1> QED BY <1>1, <1>2

\* A gateway that has stopped left neither a listener nor a reading in its queue, and
\* stays as it is: what EndsClean reaches, it keeps.
THEOREM StoppedForGood == GatewaySpec => []StoppedIsClean /\ StaysStopped
<1>1. GatewayInit => StoppedIsClean
  BY DEF GatewayInit, StoppedIsClean
<1>2. GatewayInv /\ StoppedIsClean /\ [GatewayNext]_gatewayVars
        => StoppedIsClean' /\ [loop # "stopped"]_gatewayVars
  BY CleanKept
<1> QED BY <1>1, <1>2, GatewaySafe, PTL DEF GatewaySpec, StaysStopped
=============================================================================
