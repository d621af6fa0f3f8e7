----------------------------- MODULE DtuServer -----------------------------
(***************************************************************************)
(* The DTU listening server (app/dtus/server.py): connections whose chunks *)
(* of bytes are split into frames and decoded into readings, the unbounded *)
(* queue between them and one consumer that ingests batches, the start,    *)
(* port after port, and the graceful stop.                                 *)
(*                                                                         *)
(* A frame is two halves and decodes to one reading; a chunk is a number   *)
(* of halves.  Readings are numbered in the order in which they are        *)
(* decoded.  Server.wait_closed is that of the deployed Python 3.12: it    *)
(* returns when every accepted connection is gone.                         *)
(***************************************************************************)
EXTENDS Naturals, Sequences

CONSTANTS
  Dtus,          \* devices, each with one port and one connection at a time
  BatchSize,     \* dtu_batch_size
  MaxChunkSize,  \* halves that one read returns at most
  MaxReadings,   \* bound on the readings decoded
  MaxConnects    \* bound on the connections accepted

ASSUME BatchAssumption == BatchSize \in Nat \ {0}
ASSUME BoundsAssumption ==
  MaxChunkSize \in Nat /\ MaxReadings \in Nat /\ MaxConnects \in Nat

VARIABLES
  expected,  \* the devices start() loaded and has not opened a port for yet
  ports,     \* the devices whose port is open
  conn,      \* per device, whether it has a connection
  buffer,    \* the handler's buffer: the type it has and the halves it holds
  decoded,   \* how many readings were put into the queue
  queue,     \* readings waiting for the consumer
  batch,     \* readings the consumer has taken
  consumer,  \* none until start() creates the task, then collecting, ingesting, or exited
  stored,    \* readings that batch_ingest wrote, in order
  skipped,   \* readings of unknown codes it left out of a batch it accepted
  dropped,   \* readings of the batches it raised on
  phase,     \* starting; running; closing: stop() was called; stopped: it returned;
             \* failed: start() raised, and the process has ended
  connects   \* how many connections were accepted

startVars == <<expected, ports>>
connVars == <<conn, buffer, connects>>
queueVars == <<decoded, queue>>
consumerVars == <<batch, consumer, stored, skipped, dropped>>
vars == <<startVars, connVars, queueVars, consumerVars, phase>>

NewBuffer == [type |-> "bytearray", halves |-> 0]

TypeOK ==
  /\ expected \subseteq Dtus /\ ports \subseteq Dtus \ expected
  /\ \A d \in Dtus : conn[d] = "open" => d \in ports
  /\ conn \in [Dtus -> {"none", "open"}]
  /\ buffer \in [Dtus -> [type : {"bytearray", "bytes"}, halves : 0..1]]
  /\ decoded \in 0..MaxReadings
  /\ queue \in Seq(1..MaxReadings)
  /\ batch \in Seq(1..MaxReadings)
  /\ Len(batch) <= BatchSize
  /\ consumer \in {"none", "collecting", "ingesting", "exited"}
  /\ stored \in Seq(1..MaxReadings)
  /\ skipped \cup dropped \subseteq 1..MaxReadings
  /\ phase \in {"starting", "running", "closing", "stopped", "failed"}
  /\ phase \in {"starting", "failed"} => consumer = "none"
  /\ connects \in 0..MaxConnects

\* Without devices start() returns at once, without a consumer.
Init ==
  /\ expected \in SUBSET Dtus
  /\ ports = {}
  /\ conn = [d \in Dtus |-> "none"]
  /\ buffer = [d \in Dtus |-> NewBuffer]
  /\ decoded = 0
  /\ queue = <<>>
  /\ batch = <<>>
  /\ consumer = "none"
  /\ stored = <<>>
  /\ skipped = {} /\ dropped = {}
  /\ phase = IF expected = {} THEN "running" ELSE "starting"
  /\ connects = 0

-----------------------------------------------------------------------------
(* start(): the devices come in the order of an unordered query.            *)

StartListener(d) ==
  /\ phase = "starting" /\ d \in expected
  /\ expected' = expected \ {d}
  /\ ports' = ports \cup {d}
  /\ UNCHANGED <<connVars, queueVars, consumerVars, phase>>

\* A device without a port is passed over.
SkipDevice(d) ==
  /\ phase = "starting" /\ d \in expected
  /\ expected' = expected \ {d}
  /\ UNCHANGED <<ports, connVars, queueVars, consumerVars, phase>>

\* A port that is no number or is taken, also by another device, ends the process, as a
\* signal does now: their handlers are installed later.  Connections and queue are gone.
StartRaises ==
  /\ phase = "starting" /\ expected # {}
  /\ phase' = "failed"
  /\ ports' = {}
  /\ conn' = [d \in Dtus |-> "none"]
  /\ buffer' = [d \in Dtus |-> NewBuffer]
  /\ queue' = <<>> /\ decoded' = 0
  /\ UNCHANGED <<expected, connects, consumerVars>>

\* The consumer is created last.
Started ==
  /\ phase = "starting" /\ expected = {}
  /\ phase' = "running"
  /\ consumer' = "collecting"
  /\ UNCHANGED <<startVars, connVars, queueVars, batch, stored, skipped, dropped>>

-----------------------------------------------------------------------------
(* Connections.                                                             *)

Connect(d) ==
  /\ d \in ports /\ phase \in {"starting", "running"}
  /\ conn[d] = "none"
  /\ connects < MaxConnects
  /\ connects' = connects + 1
  /\ conn' = [conn EXCEPT ![d] = "open"]
  /\ buffer' = [buffer EXCEPT ![d] = NewBuffer]
  /\ UNCHANGED <<queueVars, consumerVars, startVars, phase>>

\* The device closed the connection, or the handler raised: what the buffer holds
\* is gone.
Close(d) ==
  /\ conn' = [conn EXCEPT ![d] = "none"]
  /\ buffer' = [buffer EXCEPT ![d] = NewBuffer]

Disconnect(d) ==
  /\ conn[d] = "open"
  /\ Close(d)
  /\ UNCHANGED <<queueVars, consumerVars, startVars, phase, connects>>

\* The readings decoded next are n in number.
NextReadings(n) == [i \in 1..n |-> decoded + i]

\* A chunk is split together with the halves before it; split_rtu_frames returns
\* the rest as bytes, and the handler keeps that as its buffer.
Split(d, n) ==
  /\ buffer[d].type = "bytearray"
  /\ LET halves == buffer[d].halves + n
         frames == halves \div 2
     IN /\ decoded + frames <= MaxReadings
        /\ queue' = queue \o NextReadings(frames)
        /\ decoded' = decoded + frames
        /\ buffer' = [buffer EXCEPT ![d] = [type |-> "bytes", halves |-> halves % 2]]
  /\ UNCHANGED conn

\* bytes has no extend: the handler logs the AttributeError and closes.
ExtendRaises(d) ==
  /\ buffer[d].type = "bytes"
  /\ Close(d)
  /\ UNCHANGED queueVars

Receive(d, n) ==
  /\ conn[d] = "open"
  /\ Split(d, n) \/ ExtendRaises(d)
  /\ UNCHANGED <<consumerVars, startVars, phase, connects>>

-----------------------------------------------------------------------------
(* The consumer.                                                            *)

\* Mutants of TakeItem: the size of the batch is not tested; an item that arrives at
\* the deadline is taken and not kept.
TakeItemUnbounded ==
  /\ consumer = "collecting"
  /\ queue # <<>>
  /\ batch' = Append(batch, Head(queue))
  /\ queue' = Tail(queue)
  /\ UNCHANGED <<connVars, decoded, consumer, stored, skipped, dropped, startVars, phase>>
TakeItemOrLose ==
  /\ consumer = "collecting"
  /\ queue # <<>>
  /\ Len(batch) < BatchSize
  /\ batch' \in {batch, Append(batch, Head(queue))}
  /\ queue' = Tail(queue)
  /\ UNCHANGED <<connVars, decoded, consumer, stored, skipped, dropped, startVars, phase>>

TakeItem ==
  /\ consumer = "collecting"
  /\ queue # <<>>
  /\ Len(batch) < BatchSize
  /\ batch' = Append(batch, Head(queue))
  /\ queue' = Tail(queue)
  /\ UNCHANGED <<connVars, decoded, consumer, stored, skipped, dropped, startVars, phase>>

\* The batch is full or its deadline has passed.
EndBatch ==
  /\ consumer = "collecting"
  /\ batch # <<>>
  /\ consumer' = "ingesting"
  /\ UNCHANGED <<connVars, queueVars, batch, stored, skipped, dropped, startVars, phase>>

\* Mutant of Continue: the consumer stops with the server.
ContinueUnlessStopping ==
  consumer' = IF phase # "running" THEN "exited" ELSE "collecting"

\* After a batch the consumer goes on, unless the server stops and has nothing queued.
Continue ==
  consumer' = IF phase # "running" /\ queue = <<>> THEN "exited" ELSE "collecting"

\* Mutant of EmptyBatch: the end is only tested after a batch was ingested.
EmptyBatchGoesOn ==
  /\ consumer = "collecting"
  /\ batch = <<>>
  /\ UNCHANGED vars

\* The deadline passed with nothing taken.
EmptyBatch ==
  /\ consumer = "collecting"
  /\ batch = <<>>
  /\ Continue
  /\ UNCHANGED <<connVars, queueVars, batch, stored, skipped, dropped, startVars, phase>>

ElementsOf(s) == {s[i] : i \in DOMAIN s}

\* What is left of a sequence when any of its elements are left out.
Choices(s, n) == {f \in [1..n -> DOMAIN s] : \A i, j \in 1..n : i < j => f[i] < f[j]}
SubSequences(s) ==
  UNION {{[i \in 1..n |-> s[f[i]]] : f \in Choices(s, n)} : n \in 0..Len(s)}

\* batch_ingest leaves out the readings of unknown codes one by one and writes the others.
Ingest ==
  /\ consumer = "ingesting"
  /\ \E kept \in SubSequences(batch) :
       /\ stored' = stored \o kept
       /\ skipped' = skipped \cup (ElementsOf(batch) \ ElementsOf(kept))
  /\ batch' = <<>>
  /\ Continue
  /\ UNCHANGED <<connVars, queueVars, dropped, startVars, phase>>

\* batch_ingest raised: the batch is logged as dropped.  The COPY was not made, or it took
\* effect, without the readings of unknown codes, and its answer was lost.
IngestRaises ==
  /\ consumer = "ingesting"
  /\ \E kept \in SubSequences(batch) : stored' = stored \o kept
  /\ dropped' = dropped \cup ElementsOf(batch)
  /\ batch' = <<>>
  /\ Continue
  /\ UNCHANGED <<connVars, queueVars, skipped, startVars, phase>>

-----------------------------------------------------------------------------
(* SIGTERM: the ports are closed, then stop() waits for the connections and *)
(* for the consumer.                                                        *)

Stop ==
  /\ phase = "running"
  /\ phase' = "closing"
  /\ UNCHANGED <<startVars, connVars, queueVars, consumerVars>>

StopReturns ==
  /\ phase = "closing"
  /\ \A d \in Dtus : conn[d] = "none"
  /\ consumer \in {"none", "exited"}
  /\ phase' = "stopped"
  /\ UNCHANGED <<startVars, connVars, queueVars, consumerVars>>

-----------------------------------------------------------------------------
ConsumerStep == TakeItem \/ EndBatch \/ EmptyBatch \/ Ingest \/ IngestRaises

StartStep == Started \/ \E d \in Dtus : StartListener(d) \/ SkipDevice(d)

Next ==
  \/ StartStep \/ StartRaises
  \/ \E d \in Dtus : Connect(d) \/ Disconnect(d)
  \/ \E d \in Dtus, n \in 1..MaxChunkSize : Receive(d, n)
  \/ ConsumerStep
  \/ Stop \/ StopReturns

Spec == Init /\ [][Next]_vars

\* start() goes on, the consumer task is scheduled, its ingestion ends, and stop() goes
\* on when what it awaits is done.  No device has to send or to disconnect, and nobody has to
\* stop the server.
Fairness == WF_vars(StartStep) /\ WF_vars(ConsumerStep) /\ WF_vars(StopReturns)

FairSpec == Spec /\ Fairness

-----------------------------------------------------------------------------
(* Properties that hold.                                                    *)

\* However chunks, flushes, failed batches and the stop interleave, the readings not yet
\* handled are the ones decoded last, in order, and each of the ones before them was
\* stored, left out because its code is unknown, or logged as dropped with its batch;
\* none is stored twice or before an earlier one.  A reading left out is neither stored nor
\* dropped; one of a dropped batch may be stored, when the answer of the COPY was lost.
Waiting == batch \o queue
Handled == decoded - Len(Waiting)
Accounted == ElementsOf(stored) \cup skipped \cup dropped
InOrder ==
  /\ Waiting = [i \in 1..Len(Waiting) |-> Handled + i]
  /\ \A i, j \in DOMAIN stored : i < j => stored[i] < stored[j]
  /\ Accounted = 1..Handled
  /\ \A r \in skipped : r \notin ElementsOf(stored) \cup dropped

\* What is queued when the server is stopped is still handed to batch_ingest, and so is
\* what came in before there was a consumer, unless the start fails.
QueuedIsHandled ==
  \A r \in 1..MaxReadings :
    (phase \in {"starting", "running"} /\ r \in ElementsOf(queue))
      ~> (phase = "failed" \/ r \in Accounted)

\* stop() returns once the devices have gone, also when the consumer is idle.
StopEnds ==
  (phase = "closing" /\ \A d \in Dtus : conn[d] = "none") ~> (phase = "stopped")

\* The safety halves of QueuedIsHandled and StopEnds.  A reading that waits has a consumer,
\* or will have one when start() is done: only behind a consumer that a stop has ended,
\* while its device was still connected, may one be left.
WaitingHasConsumer ==
  LET takes == consumer \in {"collecting", "ingesting"}
  IN /\ batch # <<>> => takes
     /\ queue # <<>> =>
          takes \/ phase = "starting" \/ (phase \in {"closing", "stopped"} /\ consumer = "exited")

\* The consumer ends in a stop only, when all that was decoded is accounted for.
ExitsEmptyHanded ==
  [][consumer # "exited" /\ consumer' = "exited" =>
       /\ phase = "closing" /\ Waiting' = <<>> /\ Accounted' = 1..decoded']_vars

\* When stop() has returned or start() has raised, no task is left that could do anything.
StaysDown == [][phase \notin {"stopped", "failed"}]_vars
=============================================================================
