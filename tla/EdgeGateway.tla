---------------------------- MODULE EdgeGateway ----------------------------
(***************************************************************************)
(* The edge gateway (scripts/run_edge_adapter.py): its loop reads one      *)
(* protocol adapter and posts each batch to /data/ingest.  The MQTT        *)
(* adapter (app/plugins/protocols/mqtt_adapter.py) has a listener task and *)
(* a bounded queue beside the loop; the others are polled.  The platform   *)
(* refuses a batch as a whole, or skips the readings whose codes it does   *)
(* not know and stores the others together (data_service.py:103-123).      *)
(* Names that DataIngest has too differ here: IngestProofs is about both.  *)
(***************************************************************************)
EXTENDS Naturals, Sequences, FiniteSets

CONSTANTS
  Protocols,      \* the adapters --protocol may name
  QueueMax,       \* queue_max
  MaxIterations,  \* --max-iterations; the default 0 reads nothing
  Registers,      \* how many registers a Modbus device is configured with
  Keys,           \* (time, channel) that a device may send more than once
  MaxMessages,    \* bound: readings and messages that devices send
  MaxFaults       \* bound: failures of the broker, a peer or the network, and Ctrl-C

\* fresh: a reading with a key of its own, as one without timestamp has
\* unknown: its device or channel code is none of the platform's
\* nan: not a number, which httpx refuses to encode since 0.28
\* unfit: taken by the adapter, refused by the schema of the platform
\* twin: polled with the key of an earlier reading of its poll
\* unparsed: a field is missing or no number; huge: an integer no float holds
\* foreign: no JSON or no object; undecodable: bytes json.loads cannot decode
Spoiling == {"nan", "unfit", "twin", "huge"}
Payloads == Keys \cup {"fresh", "unknown", "nan", "unfit", "unparsed", "huge", "foreign",
                       "undecodable"}
Polled == {"fresh", "unknown", "nan", "unfit", "twin"}
Contents == Payloads \cup Polled

ASSUME ProtocolAssumption == Protocols \subseteq {"mqtt", "modbus_tcp", "http_json"}
ASSUME BoundAssumption == {QueueMax, MaxIterations, Registers, MaxMessages, MaxFaults} \subseteq Nat

VARIABLES
  protocol,
  sent,      \* the contents sent so far; a message is known by its place here
  queue,     \* MqttAdapter._queue
  listener,  \* none, connecting, listening, ended or cancelled
  loop,      \* where run_loop is
  rounds,    \* iterations of run_loop that are over
  batch,     \* the readings push_ingest was given
  stored,    \* the readings the platform has stored, in order
  received,  \* history: the readings that were queued or polled
  faults

gatewayVars == <<protocol, sent, queue, listener, loop, rounds, batch, stored, received, faults>>

LoopStage == {"starting", "reading", "posting", "sleeping", "leaving", "closing", "stopped"}

Parses(n) == sent[n] \notin {"unparsed", "huge"}
IsKnown(n) == sent[n] # "unknown"
In(s) == {s[i] : i \in 1..Len(s)}

\* What is in s and in chosen, in the order of s, where nothing is in s twice: SelectSeq
\* without the recursion, of which the provers know nothing.
Selections(s, chosen) ==
  {r \in UNION {[1..n -> In(s) \cap chosen] : n \in 0..Len(s)} :
     /\ In(r) = In(s) \cap chosen
     /\ \A i, j \in 1..Len(r) : i < j =>
          \E k, l \in 1..Len(s) : k < l /\ r[i] = s[k] /\ r[j] = s[l]}

GatewayTypeOK ==
  /\ protocol \in Protocols
  /\ sent \in Seq(Contents)
  /\ {queue, batch, stored} \subseteq Seq(1..Len(sent))
  /\ received \subseteq 1..Len(sent)
  /\ Len(queue) <= QueueMax
  /\ listener \in {"none", "connecting", "listening", "ended", "cancelled"}
  /\ protocol # "mqtt" => queue = <<>> /\ listener = "none"
  /\ loop \in LoopStage
  /\ loop = "posting" <=> batch # <<>>
  /\ rounds \in 0..MaxIterations
  /\ faults \in 0..MaxFaults

GatewayInit ==
  /\ protocol \in Protocols
  /\ sent = <<>> /\ queue = <<>> /\ batch = <<>> /\ stored = <<>> /\ received = {}
  /\ listener = "none"
  /\ loop = "starting"
  /\ rounds = 0 /\ faults = 0

Trouble == faults < MaxFaults /\ faults' = faults + 1

-----------------------------------------------------------------------------
(* The listener task of the MQTT adapter.                                   *)

Subscribe ==
  /\ listener = "connecting"
  /\ listener' = "listening"
  /\ UNCHANGED <<protocol, sent, queue, loop, rounds, batch, stored, received, faults>>

\* Whatever aiomqtt raises is logged and ends the task.
BrokerFails ==
  /\ listener \in {"connecting", "listening"}
  /\ Trouble
  /\ listener' = "ended"
  /\ UNCHANGED <<protocol, sent, queue, loop, rounds, batch, stored, received>>

Arrives(c) ==
  /\ listener = "listening" /\ Len(sent) < MaxMessages
  /\ sent' = Append(sent, c)

\* Mutant of Enqueue: a full queue gives up its oldest payload.
EnqueueOverOldest(c) ==
  /\ Arrives(c) /\ c \notin {"foreign", "undecodable"}
  /\ queue' = Append(IF Len(queue) < QueueMax THEN queue ELSE Tail(queue), Len(sent'))
  /\ received' = IF c \in {"unparsed", "huge"} THEN received
                 ELSE received \cup {Len(sent')}
  /\ UNCHANGED <<protocol, listener, loop, rounds, batch, stored, faults>>

Enqueue(c) ==
  /\ Arrives(c) /\ c \notin {"foreign", "undecodable"}
  /\ Len(queue) < QueueMax
  /\ queue' = Append(queue, Len(sent'))
  /\ received' = IF c \in {"unparsed", "huge"} THEN received
                 ELSE received \cup {Len(sent')}
  /\ UNCHANGED <<protocol, listener, loop, rounds, batch, stored, faults>>

\* QueueFull, or a payload that is no object: it is dropped, what is queued stays.
Skip(c) ==
  /\ Arrives(c)
  /\ c = "foreign" \/ (c # "undecodable" /\ Len(queue) = QueueMax)
  /\ UNCHANGED <<protocol, queue, listener, loop, rounds, batch, stored, received, faults>>

\* UnicodeDecodeError is no JSONDecodeError: one such message ends the task.
ListenerRaises ==
  /\ Arrives("undecodable")
  /\ listener' = "ended"
  /\ UNCHANGED <<protocol, queue, loop, rounds, batch, stored, received, faults>>

-----------------------------------------------------------------------------
(* run_loop.                                                                *)

Connected == loop' = IF MaxIterations = 0 THEN "leaving" ELSE "reading"

\* connect creates the listener task, which connects later or never.
ConnectMqtt ==
  /\ loop = "starting" /\ protocol = "mqtt"
  /\ listener' = "connecting"
  /\ Connected
  /\ UNCHANGED <<protocol, sent, queue, rounds, batch, stored, received, faults>>

\* A peer that is not there raises ConnectionError.
ConnectModbus ==
  /\ loop = "starting" /\ protocol = "modbus_tcp"
  /\ \/ Connected /\ UNCHANGED faults
     \/ Trouble /\ loop' = "leaving"
  /\ UNCHANGED <<protocol, sent, queue, listener, rounds, batch, stored, received>>

\* The client of httpx connects with its first request.
ConnectHttp ==
  /\ loop = "starting" /\ protocol = "http_json"
  /\ Connected
  /\ UNCHANGED <<protocol, sent, queue, listener, rounds, batch, stored, received, faults>>

\* Mutant of Take: an empty batch is posted.
TakeAnyway(readings) ==
  /\ batch' = readings
  /\ loop' = "posting"
  /\ UNCHANGED <<protocol, listener, rounds, stored, faults>>

Take(readings) ==
  /\ batch' = readings
  /\ loop' = IF readings = <<>> THEN "sleeping" ELSE "posting"
  /\ UNCHANGED <<protocol, listener, rounds, stored, faults>>

\* MqttAdapter.read_batch drains the queue and leaves out what does not parse.
ReadQueue ==
  /\ loop = "reading" /\ protocol = "mqtt"
  /\ \A i \in 1..Len(queue) : sent[queue[i]] # "huge"
  /\ \E readings \in Selections(queue, {n \in In(queue) : Parses(n)}) : Take(readings)
  /\ queue' = <<>>
  /\ UNCHANGED <<sent, received>>

\* OverflowError is not caught by _parse: what read_batch has taken so far is gone.
ReadQueueRaises ==
  /\ loop = "reading" /\ protocol = "mqtt"
  /\ \E i \in 1..Len(queue) :
       /\ sent[queue[i]] = "huge"
       /\ \A j \in 1..(i - 1) : sent[queue[j]] # "huge"
       /\ queue' = SubSeq(queue, i + 1, Len(queue))
  /\ loop' = "sleeping"
  /\ UNCHANGED <<protocol, sent, listener, rounds, batch, stored, received, faults>>

\* All readings of a poll have the time of the poll: two of the same channel have one key.
\* A value may be no number (a float32 register, "NaN" in JSON), a code may be unknown to
\* the platform or, as a quality may, refused by its schema.
Poll(k) ==
  LET polled == [i \in 1..k |-> Len(sent) + i]
  IN /\ Len(sent) + k <= MaxMessages
     /\ \E contents \in [1..k -> Polled] :
          /\ \A i \in 1..k : contents[i] = "twin" => \E j \in 1..(i - 1) : contents[j] = "fresh"
          /\ sent' = sent \o contents
     /\ received' = received \cup In(polled)
     /\ Take(polled)
     /\ UNCHANGED queue

\* One reading per register; that of a register which cannot be read is 0.0, of bad
\* quality: nothing is raised.  Beyond the bound no register is configured.
ReadRegisters ==
  /\ loop = "reading" /\ protocol = "modbus_tcp"
  /\ Poll(IF Len(sent) + Registers <= MaxMessages THEN Registers ELSE 0)

\* What the peer returns.
ReadHttp(k) ==
  /\ loop = "reading" /\ protocol = "http_json"
  /\ Poll(k)

\* An HTTP error, or an item without its fields; the loop logs it and goes on.
ReadHttpRaises ==
  /\ loop = "reading" /\ protocol = "http_json"
  /\ loop' = "sleeping"
  /\ UNCHANGED <<protocol, sent, queue, listener, rounds, batch, stored, received, faults>>

Content(i) == sent[batch[i]]

\* The schema of the platform and the primary key of readings.
MayStore ==
  \A i \in 1..Len(batch) :
    /\ Content(i) \notin {"unfit", "twin"}
    /\ Content(i) \in Keys =>
         /\ \A j \in 1..Len(batch) : Content(j) = Content(i) => i = j
         /\ \A n \in In(stored) : sent[n] # Content(i)

\* The platform stores what it knows of a batch that it may store: readings of other codes
\* it skips one by one, and answers 200.
StoreBatch ==
  IF MayStore
  THEN \E kept \in Selections(batch, {n \in In(batch) : IsKnown(n)}) : stored' = stored \o kept
  ELSE UNCHANGED stored

Posted(stage) == loop' = stage /\ batch' = <<>>

\* Mutant of Post: what was not acknowledged is put back into the queue.
PostAgain ==
  /\ loop = "posting"
  /\ \/ StoreBatch /\ UNCHANGED <<queue, faults>>
     \/ Trouble /\ (StoreBatch \/ UNCHANGED stored) /\ queue' = batch \o queue
  /\ Posted("sleeping")
  /\ UNCHANGED <<protocol, sent, listener, rounds, received>>

\* push_ingest: the answer is 200, or another one that is only logged.
Post ==
  /\ loop = "posting"
  /\ StoreBatch
  /\ Posted("sleeping")
  /\ UNCHANGED <<protocol, sent, queue, listener, rounds, received, faults>>

\* The platform fails, the request times out, the connection breaks or Ctrl-C is pressed
\* before or after the batch was stored: an answer is logged, an exception ends the loop.
PostFails ==
  /\ loop = "posting"
  /\ Trouble
  /\ StoreBatch \/ UNCHANGED stored
  /\ Posted("sleeping") \/ Posted("leaving")
  /\ UNCHANGED <<protocol, sent, queue, listener, rounds, received>>

EncodeRaises ==
  /\ loop = "posting"
  /\ \E i \in 1..Len(batch) : Content(i) = "nan"
  /\ Posted("leaving")
  /\ UNCHANGED <<protocol, sent, queue, listener, rounds, stored, received, faults>>

Sleep ==
  /\ loop = "sleeping"
  /\ rounds' = rounds + 1
  /\ loop' = IF rounds' = MaxIterations THEN "leaving" ELSE "reading"
  /\ UNCHANGED <<protocol, sent, queue, listener, batch, stored, received, faults>>

\* KeyboardInterrupt cancels the main task where it awaits.
Interrupt ==
  /\ loop \in {"starting", "reading", "sleeping"}
  /\ Trouble
  /\ loop' = "leaving"
  /\ UNCHANGED <<protocol, sent, queue, listener, rounds, batch, stored, received>>

\* Mutant of Leave: the listener is not cancelled.
LeaveListening ==
  /\ loop = "leaving"
  /\ loop' = "closing"
  /\ UNCHANGED <<protocol, sent, queue, listener, rounds, batch, stored, received, faults>>

\* The finally clause: disconnect cancels the listener and awaits it ...
Leave ==
  /\ loop = "leaving"
  /\ loop' = "closing"
  /\ listener' = IF listener \in {"connecting", "listening"} THEN "cancelled" ELSE listener
  /\ UNCHANGED <<protocol, sent, queue, rounds, batch, stored, received, faults>>

\* ... then empties the queue.
Disconnect ==
  /\ loop = "closing"
  /\ loop' = "stopped"
  /\ queue' = <<>>
  /\ UNCHANGED <<protocol, sent, listener, rounds, batch, stored, received, faults>>

-----------------------------------------------------------------------------
LoopStep ==
  \/ ConnectMqtt \/ ConnectModbus \/ ConnectHttp
  \/ ReadQueue \/ ReadQueueRaises \/ ReadRegisters
  \/ (\E k \in 0..MaxMessages : ReadHttp(k)) \/ ReadHttpRaises
  \/ Post \/ EncodeRaises \/ Sleep \/ Leave \/ Disconnect

GatewayNext ==
  \/ LoopStep \/ PostFails \/ Interrupt
  \/ Subscribe \/ BrokerFails \/ ListenerRaises
  \/ \E c \in Payloads : Enqueue(c) \/ Skip(c)

GatewaySpec == GatewayInit /\ [][GatewayNext]_gatewayVars

\* The loop task runs: sleeps end, requests time out after 10 s and so do reads.
FairGatewaySpec == GatewaySpec /\ WF_gatewayVars(LoopStep)

-----------------------------------------------------------------------------
(* Properties.                                                              *)

\* What was received in its order: stored, in the request, in the queue.
OnTheWay == stored \o batch \o queue

\* Nothing fails and no content spoils the batch it is in.
Untroubled ==
  /\ faults = 0
  /\ \A i, j \in 1..Len(sent) :
       /\ sent[i] \notin Spoiling
       /\ sent[i] \in Keys /\ sent[j] = sent[i] => i = j

\* Readings reach the platform in the order they were received and never twice, although
\* messages arrive while a batch is posted and answers are lost.  Until the gateway
\* leaves, no reading it received whose codes the platform knows is missing, unless a call
\* failed or a reading spoiled its batch; those of unknown codes are never stored.  What a
\* full queue or a missing field dropped, and what came after an undecodable message, was
\* not received.
Accounted ==
  /\ \A i, j \in 1..Len(OnTheWay) : i < j => OnTheWay[i] < OnTheWay[j]
  /\ \A n \in In(stored) : IsKnown(n)
  /\ Untroubled /\ loop \notin {"closing", "stopped"} =>
       {n \in received : IsKnown(n)} = {n \in In(OnTheWay) : Parses(n) /\ IsKnown(n)}

\* After max_iterations the gateway has ended, however its reads and posts failed, with no
\* listener left and nothing in the queue.
EndsClean ==
  <>[](loop = "stopped" /\ queue = <<>> /\ listener \in {"none", "ended", "cancelled"})

\* The safety half of EndsClean: disconnect leaves no listener that could fill the queue
\* again before it is emptied ...
StoppedIsClean ==
  /\ loop \in {"closing", "stopped"} => listener \in {"none", "ended", "cancelled"}
  /\ loop = "stopped" => queue = <<>>

\* ... and then nothing of the gateway moves.
StaysStopped == [][loop # "stopped"]_gatewayVars
=============================================================================
