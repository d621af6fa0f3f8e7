--------------------------- MODULE IngestContract ---------------------------
(***************************************************************************)
(* What batch_ingest (app/services/data_service.py) promises its callers,  *)
(* the subscribers and the alert check.  A call stores its readings of     *)
(* existing channels as a whole or not at all; only what it has stored is  *)
(* shown to others, and published once; it answers when everything stored  *)
(* is published and handed to the check, unless Redis or the broker fail.  *)
(***************************************************************************)
EXTENDS Sequences, FiniteSets, Naturals

CONSTANTS Calls, Channels, Readings, SameKey(_, _), Nothing

VARIABLES
  known,   \* the channels that exist
  table,   \* the readings stored
  latest,  \* the reading shown for each channel
  feed,    \* what was published, in order
  checks,  \* calls whose readings are checked
  stage,   \* open, keeping, answered or broken
  kept,    \* the readings a call has stored and answers for
  down     \* which of redis and broker have ever failed

vars == <<known, table, latest, feed, checks, stage, kept, down>>

Published == {feed[i] : i \in 1..Len(feed)}

Init ==
  /\ known \in SUBSET Channels
  /\ table = {} /\ feed = <<>> /\ checks = {} /\ down = {}
  /\ latest = [ch \in Channels |-> Nothing]
  /\ stage = [c \in Calls |-> "open"]
  /\ kept = [c \in Calls |-> {}]

To(c, s, readings) ==
  /\ stage' = [stage EXCEPT ![c] = s]
  /\ kept' = [kept EXCEPT ![c] = readings]

\* The key of a reading is new, and unique within the batch.
MayKeep(batch) ==
  /\ batch # {}
  /\ \A r \in batch : r.channel \in known /\ \A q \in table : ~SameKey(r, q)
  /\ \A r, q \in batch : SameKey(r, q) => r = q

\* All are stored; the call may break although they are.
Keep(c, batch) ==
  /\ stage[c] = "open" /\ MayKeep(batch)
  /\ table' = table \cup batch
  /\ To(c, "keeping", batch) \/ To(c, "broken", {})
  /\ UNCHANGED <<known, latest, feed, checks, down>>

Show(c, r) ==
  /\ stage[c] = "keeping" /\ r \in kept[c]
  /\ latest' = [latest EXCEPT ![r.channel] = r]
  /\ UNCHANGED <<known, table, feed, checks, stage, kept, down>>

Publish(c, r) ==
  /\ stage[c] = "keeping" /\ r \in kept[c] \ Published
  /\ feed' = Append(feed, r)
  /\ UNCHANGED <<known, table, latest, checks, stage, kept, down>>

Answer(c) ==
  /\ stage[c] = "keeping"
  /\ kept[c] \subseteq Published \/ "redis" \in down
  /\ checks' \in {checks, checks \cup {c}}
  /\ down' \in {down, down \cup {"broker"}}
  /\ c \in checks' \/ "broker" \in down'
  /\ To(c, "answered", kept[c])
  /\ UNCHANGED <<known, table, latest, feed>>

\* Nothing of the batch belongs to an existing channel.
Decline(c) ==
  /\ stage[c] = "open"
  /\ To(c, "answered", {})
  /\ UNCHANGED <<known, table, latest, feed, checks, down>>

Break(c) ==
  /\ stage[c] \in {"open", "keeping"}
  /\ To(c, "broken", {})
  /\ UNCHANGED <<known, table, latest, feed, checks, down>>

RedisFails ==
  /\ down' = down \cup {"redis"}
  /\ UNCHANGED <<known, table, latest, feed, checks, stage, kept>>

\* A channel with readings is not deleted.
ChangeChannels ==
  /\ known' \in SUBSET Channels
  /\ \A r \in table : r.channel \in known'
  /\ UNCHANGED <<table, latest, feed, checks, stage, kept, down>>

Next ==
  \/ \E c \in Calls :
       \/ \E batch \in SUBSET Readings : Keep(c, batch)
       \/ \E r \in kept[c] : Show(c, r) \/ Publish(c, r)
       \/ Answer(c) \/ Decline(c) \/ Break(c)
  \/ RedisFails \/ ChangeChannels

Spec == Init /\ [][Next]_vars
=============================================================================
