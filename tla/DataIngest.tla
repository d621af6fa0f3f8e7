----------------------------- MODULE DataIngest -----------------------------
(***************************************************************************)
(* Concurrent executions of batch_ingest (app/services/data_service.py) by *)
(* the API process (POST /data/ingest) and the DTU process: the codes are  *)
(* resolved, the accepted readings are copied to the table, the latest     *)
(* values are cached and the readings published, and the alert check is    *)
(* handed to Celery.  PostgreSQL, Redis and Celery are not one             *)
(* transaction.                                                            *)
(***************************************************************************)
EXTENDS Naturals, Sequences

CONSTANTS
  Calls,     \* executions of batch_ingest
  BatchOf,   \* the readings each of them is given
  Channels,
  Budget,    \* how often the environment may misbehave, by kind
  Nothing    \* no cached value

\* copy: the resolving query or COPY fails, the latter before or after it took effect
\* redis: the pipeline breaks off
\* broker: delay() raises, whether or not the broker has taken the message
\* crash: the process of a call ends
Faults == {"copy", "redis", "broker", "crash"}

\* The primary key of readings is (time, channel_id).
Readings == [channel : Channels, time : Nat, value : Nat]
SameKey(r, q) == r.channel = q.channel /\ r.time = q.time

ASSUME BatchAssumption == BatchOf \in [Calls -> Seq(Readings)]
ASSUME BudgetAssumption == Budget \in [Faults -> Nat]
ASSUME NothingAssumption == Nothing \notin Readings

VARIABLES
  known,      \* the channels that exist
  table,      \* the readings stored
  latest,     \* latest:{channel_id} in Redis
  feed,       \* what was published, in order
  checks,     \* calls whose readings were handed to check_threshold_batch
  pc,         \* where each call is
  accepted,   \* the places in its batch of the readings of known channels
  cached,     \* of these, the ones that SET latest was executed for
  published,  \* of these, the ones that PUBLISH was executed for
  newest,     \* history: the reading of each channel that COPY stored last
  overlapped, \* history: channels for which two calls wrote in between each other
  spent       \* how often each kind of fault has happened

storeVars == <<known, table, latest, feed, checks>>
historyVars == <<newest, overlapped>>
callVars == <<accepted, cached, published>>
vars == <<storeVars, pc, callVars, historyVars, spent>>

\* done: written was returned; failed: an exception was; lost: the process ended
Stage == {"new", "resolved", "stored", "pushed", "done", "failed", "lost"}

Places(c) == 1..Len(BatchOf[c])
ReadingsAt(c, places) == {BatchOf[c][i] : i \in places}
Accepted(c) == ReadingsAt(c, accepted[c])
ChannelsOf(c) == {r.channel : r \in Accepted(c)}

TypeOK ==
  /\ known \subseteq Channels
  /\ table \subseteq Readings
  /\ latest \in [Channels -> Readings \cup {Nothing}]
  /\ feed \in Seq(Readings)
  /\ checks \subseteq Calls
  /\ pc \in [Calls -> Stage]
  /\ {accepted, cached, published} \subseteq [Calls -> SUBSET Nat]
  /\ \A c \in Calls :
       /\ published[c] \subseteq cached[c] /\ cached[c] \subseteq accepted[c]
       /\ accepted[c] \subseteq Places(c)
       /\ pc[c] \in {"resolved", "stored", "pushed"} => accepted[c] # {}
  /\ newest \in [Channels -> Readings \cup {Nothing}]
  /\ overlapped \subseteq Channels
  /\ spent \in [Faults -> Nat]

Init ==
  /\ known \in SUBSET Channels
  /\ table = {}
  /\ latest = [ch \in Channels |-> Nothing]
  /\ feed = <<>>
  /\ checks = {}
  /\ pc = [c \in Calls |-> "new"]
  /\ accepted = [c \in Calls |-> {}] /\ cached = accepted /\ published = accepted
  /\ newest = [ch \in Channels |-> Nothing]
  /\ overlapped = {}
  /\ spent = [k \in Faults |-> 0]

Fault(k) ==
  /\ spent[k] < Budget[k]
  /\ spent' = [spent EXCEPT ![k] = @ + 1]

Move(c, stage) == pc' = [pc EXCEPT ![c] = stage]

-----------------------------------------------------------------------------
(* Channels are created and deleted by their own routes; one that has       *)
(* readings cannot be deleted.                                              *)

CreateChannel(ch) ==
  /\ ch \notin known
  /\ known' = known \cup {ch}
  /\ UNCHANGED <<table, latest, feed, checks, pc, callVars, historyVars, spent>>

DeleteChannel(ch) ==
  /\ ch \in known
  /\ \A r \in table : r.channel # ch
  /\ known' = known \ {ch}
  /\ UNCHANGED <<table, latest, feed, checks, pc, callVars, historyVars, spent>>

-----------------------------------------------------------------------------
(* batch_ingest.                                                            *)

\* Mutant of Resolve: an empty rest of the batch goes on.
ResolveUntested(c) ==
  /\ pc[c] = "new"
  /\ accepted' = [accepted EXCEPT ![c] = {i \in Places(c) : BatchOf[c][i].channel \in known}]
  /\ Move(c, "resolved")
  /\ UNCHANGED <<storeVars, cached, published, historyVars, spent>>

\* Readings of unknown codes are dropped; a batch of nothing else returns 0.
Resolve(c) ==
  LET places == {i \in Places(c) : BatchOf[c][i].channel \in known}
  IN /\ pc[c] = "new"
     /\ accepted' = [accepted EXCEPT ![c] = places]
     /\ Move(c, IF places = {} THEN "done" ELSE "resolved")
     /\ UNCHANGED <<storeVars, cached, published, historyVars, spent>>

\* COPY stores all records or none: none when a key is there already or a channel is
\* gone since it was resolved.
Refused(c) ==
  \/ \E r \in Accepted(c), q \in table : SameKey(r, q)
  \/ \E i, j \in accepted[c] : i # j /\ SameKey(BatchOf[c][i], BatchOf[c][j])
  \/ ~(ChannelsOf(c) \subseteq known)

\* The last record of each channel in the batch.
LastOf(c, ch) ==
  LET places == {i \in accepted[c] : BatchOf[c][i].channel = ch}
  IN BatchOf[c][CHOOSE i \in places : \A j \in places : j <= i]

Overtakes(c) ==
  {ch \in ChannelsOf(c) : \E d \in Calls \ {c} : pc[d] = "stored" /\ ch \in ChannelsOf(d)}

Store(c) ==
  /\ table' = table \cup Accepted(c)
  /\ newest' = [ch \in Channels |-> IF ch \in ChannelsOf(c) THEN LastOf(c, ch)
                                    ELSE newest[ch]]
  /\ overlapped' = overlapped \cup Overtakes(c)

\* Mutant of Copy: ON CONFLICT DO NOTHING instead of COPY.
CopyUnlessThere(c) ==
  /\ pc[c] = "resolved"
  /\ ChannelsOf(c) \subseteq known
  /\ table' = table \cup {r \in Accepted(c) : \A q \in table : ~SameKey(r, q)}
  /\ Move(c, "stored")
  /\ UNCHANGED <<known, latest, feed, checks, callVars, historyVars, spent>>

Copy(c) ==
  /\ pc[c] = "resolved"
  /\ ~Refused(c)
  /\ Store(c)
  /\ Move(c, "stored")
  /\ UNCHANGED <<known, latest, feed, checks, callVars, spent>>

\* Mutant of CopyFails: the exception is logged and the call goes on.
CopyFailsCaught(c) ==
  /\ pc[c] = "resolved" /\ Refused(c)
  /\ Move(c, "stored")
  /\ UNCHANGED <<storeVars, callVars, historyVars, spent>>

\* The exception ends the call.  When only the answer was lost the rows are there.
CopyFails(c) ==
  /\ pc[c] \in {"new", "resolved"}
  /\ \/ /\ pc[c] = "resolved" /\ Refused(c)
        /\ UNCHANGED <<table, historyVars, spent>>
     \/ /\ Fault("copy")
        /\ UNCHANGED <<table, historyVars>>
     \/ /\ pc[c] = "resolved" /\ ~Refused(c)
        /\ Fault("copy")
        /\ Store(c)
  /\ Move(c, "failed")
  /\ UNCHANGED <<known, latest, feed, checks, callVars>>

\* _publish_realtime: SET and PUBLISH for each reading in one pipeline, which Redis
\* executes command by command between those of other clients.
First(places) == CHOOSE i \in places : \A j \in places : i <= j
Through(c) == published[c] = accepted[c]

\* Mutant of SetLatest: the value is only set when none is cached.
SetLatestIfAbsent(c) ==
  LET i == First(accepted[c] \ cached[c])
      r == BatchOf[c][i]
  IN /\ published[c] = cached[c] /\ ~Through(c)
     /\ latest' = [latest EXCEPT ![r.channel] = IF @ = Nothing THEN r ELSE @]
     /\ cached' = [cached EXCEPT ![c] = @ \cup {i}]
     /\ UNCHANGED <<feed, published>>

SetLatest(c) ==
  LET i == First(accepted[c] \ cached[c])
      r == BatchOf[c][i]
  IN /\ published[c] = cached[c] /\ ~Through(c)
     /\ latest' = [latest EXCEPT ![r.channel] = r]
     /\ cached' = [cached EXCEPT ![c] = @ \cup {i}]
     /\ UNCHANGED <<feed, published>>

Publish(c) ==
  \E i \in cached[c] \ published[c] :
    /\ feed' = Append(feed, BatchOf[c][i])
    /\ published' = [published EXCEPT ![c] = @ \cup {i}]
    /\ UNCHANGED <<latest, cached>>

\* Mutant of Push: the pipeline is executed before COPY.
PushEarly(c) ==
  /\ pc[c] \in {"resolved", "stored"}
  /\ SetLatest(c) \/ Publish(c)
  /\ UNCHANGED <<known, table, checks, pc, accepted, historyVars, spent>>

Push(c) ==
  /\ pc[c] = "stored"
  /\ SetLatest(c) \/ Publish(c)
  /\ UNCHANGED <<known, table, checks, pc, accepted, historyVars, spent>>

\* Mutant of EndPush: an exception of the pipeline is not caught.
EndPushUncaught(c) ==
  /\ pc[c] = "stored"
  /\ \/ Through(c) /\ UNCHANGED spent /\ Move(c, "pushed")
     \/ ~Through(c) /\ Fault("redis") /\ Move(c, "failed")
  /\ UNCHANGED <<storeVars, callVars, historyVars>>

\* The pipeline is through, or what it raised was logged.
EndPush(c) ==
  /\ pc[c] = "stored"
  /\ \/ Through(c) /\ UNCHANGED spent
     \/ ~Through(c) /\ Fault("redis")
  /\ Move(c, "pushed")
  /\ UNCHANGED <<storeVars, callVars, historyVars>>

\* _dispatch_alert_check; its failure is only logged.
DispatchCheck(c) ==
  /\ pc[c] = "pushed"
  /\ \/ checks' = checks \cup {c} /\ UNCHANGED spent
     \/ Fault("broker") /\ checks' \in {checks, checks \cup {c}}
  /\ Move(c, "done")
  /\ UNCHANGED <<known, table, latest, feed, callVars, historyVars>>

Dies(c) ==
  /\ pc[c] \in {"resolved", "stored", "pushed"}
  /\ Fault("crash")
  /\ Move(c, "lost")
  /\ UNCHANGED <<storeVars, callVars, historyVars>>

-----------------------------------------------------------------------------
CallStep(c) ==
  \/ Resolve(c) \/ Copy(c) \/ CopyFails(c) \/ Push(c) \/ EndPush(c) \/ DispatchCheck(c)

Next ==
  \/ \E c \in Calls : CallStep(c) \/ Dies(c)
  \/ \E ch \in Channels : CreateChannel(ch) \/ DeleteChannel(ch)

Spec == Init /\ [][Next]_vars

\* Each call is a coroutine of a running event loop.
Fairness == \A c \in Calls : WF_vars(CallStep(c))
FairSpec == Spec /\ Fairness

-----------------------------------------------------------------------------
(* Properties.                                                              *)

\* Every batch keeps the contract of IngestContract, whatever fails between the four
\* systems and however calls interleave: it is stored as a whole or not at all, nothing
\* is shown that is not stored, nothing is published twice, even if a reading is
\* delivered to two calls, and what is answered was published and handed to the check,
\* unless Redis or the broker failed.
Given == UNION {ReadingsAt(c, Places(c)) : c \in Calls}
PhaseOf == [new |-> "open", resolved |-> "open", stored |-> "keeping", pushed |-> "keeping",
            done |-> "answered", failed |-> "broken", lost |-> "broken"]
Phase == [c \in Calls |-> PhaseOf[pc[c]]]
Kept == [c \in Calls |-> IF pc[c] \in {"stored", "pushed", "done"} THEN Accepted(c) ELSE {}]
Down == {k \in {"redis", "broker"} : spent[k] > 0}
Contract ==
  INSTANCE IngestContract WITH Readings <- Given, stage <- Phase, kept <- Kept, down <- Down
ImplementsContract == Contract!Spec

\* The cached value is the last one COPY wrote to the channel, once all calls that
\* stored readings have published them, if no two of them overlapped.
LatestIsNewest ==
  \A ch \in Channels :
    \/ latest[ch] = newest[ch]
    \/ ch \in overlapped
    \/ \E c \in Calls : pc[c] = "stored" /\ ch \in ChannelsOf(c)
    \/ \E k \in Faults : spent[k] > 0

\* Stored readings are checked against the alert rules, although publishing them may
\* fail: only a broker that refuses, a call that dies and a lost answer of COPY prevent it.
StoredIsChecked ==
  \A c \in Calls :
    pc[c] = "stored" ~> c \in checks \/ pc[c] = "lost" \/ spent["broker"] > 0
=============================================================================
