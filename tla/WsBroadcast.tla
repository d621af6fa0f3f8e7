---------------------------- MODULE WsBroadcast ----------------------------
(***************************************************************************)
(* The WebSocket endpoint (app/ws/endpoints.py), one coroutine for each    *)
(* client, and the connection manager (app/ws/manager.py) with the one     *)
(* listener that passes on what is published in Redis.  They share the     *)
(* lists active_connections and run on one event loop: control changes     *)
(* hands only where a coroutine awaits, which the listener does inside its *)
(* loop over a list.                                                       *)
(***************************************************************************)
EXTENDS Naturals, Sequences

CONSTANTS
  Sockets,      \* connections that passed the token check
  Projects,
  MaxMessages,  \* bound on what is published
  MaxFailures,  \* how often the Redis connection may fail
  NoProject,
  NoSocket

ASSUME MaxMessagesAssumption == MaxMessages \in Nat
ASSUME MaxFailuresAssumption == MaxFailures \in Nat
ASSUME NoProjectAssumption == NoProject \notin Projects
ASSUME NoSocketAssumption == NoSocket \notin Sockets

VARIABLES
  active,     \* active_connections: the sockets of each project, in order
  stage,      \* where the endpoint coroutine of each socket is
  project,    \* subscribed_project, or the one being checked
  open,       \* sockets whose client is connected
  log,        \* published so far: the project of each message
  heard,      \* how many messages the listener took
  listener,   \* where the listener is
  index,      \* how many items its loop over the list has taken
  target,     \* the socket it awaits
  failed,     \* disconnected: the sockets it could not send to
  received,   \* the messages each client was sent
  staying,    \* history: in the list since the current round began
  disturbed,  \* history: somebody left the list during the current round
  failures

socketVars == <<stage, project, open>>
listenerVars == <<heard, listener, index, target, failed>>
historyVars == <<staying, disturbed>>
vars == <<active, socketVars, log, listenerVars, received, historyVars, failures>>

\* checking: the access query is awaited
Stage == {"accepted", "checking", "subscribed", "closed"}
ListenerStage == {"listening", "looping", "sending", "pruning", "dead"}

Elements(seq) == {seq[i] : i \in 1..Len(seq)}
Looping == listener \in {"looping", "sending"}
Current == log[heard]

\* No other coroutine of the process runs while the listener removes the sockets it could
\* not send to: disconnect awaits nothing.
LoopIsFree == listener # "pruning"

TypeOK ==
  /\ active \in [Projects -> Seq(Sockets)]
  /\ stage \in [Sockets -> Stage]
  /\ project \in [Sockets -> Projects \cup {NoProject}]
  /\ \A s \in Sockets : stage[s] \in {"checking", "subscribed"} => project[s] \in Projects
  /\ open \subseteq Sockets
  /\ log \in Seq(Projects)
  /\ heard \in 0..Len(log)
  /\ listener \in ListenerStage
  /\ Looping \/ ~LoopIsFree => heard > 0
  /\ index \in Nat
  /\ ~Looping => index = 0
  /\ listener = "pruning" <=> ~Looping /\ failed # {}
  /\ target \in Sockets \cup {NoSocket}
  /\ listener = "sending" => target \in Sockets
  /\ failed \subseteq Sockets
  /\ received \in [Sockets -> Seq(1..Len(log))]
  /\ staying \subseteq Sockets
  /\ disturbed \in BOOLEAN
  /\ failures \in 0..MaxFailures

Init ==
  /\ active = [p \in Projects |-> <<>>]
  /\ stage = [s \in Sockets |-> "accepted"]
  /\ project = [s \in Sockets |-> NoProject]
  /\ open = Sockets
  /\ log = <<>>
  /\ heard = 0
  /\ listener = "listening"
  /\ index = 0
  /\ target = NoSocket
  /\ failed = {}
  /\ received = [s \in Sockets |-> <<>>]
  /\ staying = {}
  /\ disturbed = FALSE
  /\ failures = 0

\* The index of the first occurrence.
Place(seq, s) ==
  CHOOSE k \in 1..Len(seq) : seq[k] = s /\ \A j \in 1..(k - 1) : seq[j] # s

\* disconnect: list.remove, if the socket is in the list.
Without(seq, s) ==
  IF s \notin Elements(seq) THEN seq
  ELSE [k \in 1..(Len(seq) - 1) |-> IF k < Place(seq, s) THEN seq[k] ELSE seq[k + 1]]

-----------------------------------------------------------------------------
(* ws_data.                                                                 *)

\* Mutant of Subscribe: the test that there is no subscription yet is left out.
SubscribeAgain(s, p) ==
  /\ LoopIsFree
  /\ stage[s] \in {"accepted", "subscribed"}
  /\ s \in open
  /\ project' = [project EXCEPT ![s] = p]
  /\ stage' = [stage EXCEPT ![s] = "checking"]
  /\ UNCHANGED <<active, open, log, listenerVars, received, historyVars, failures>>

\* cmd:subscribe for a project that check_project_access allows.  One that is refused changes nothing,
\* nor does one sent by a socket that has a subscription.
Subscribe(s, p) ==
  /\ LoopIsFree
  /\ stage[s] = "accepted"
  /\ s \in open
  /\ project' = [project EXCEPT ![s] = p]
  /\ stage' = [stage EXCEPT ![s] = "checking"]
  /\ UNCHANGED <<active, open, log, listenerVars, received, historyVars, failures>>

\* Mutant of Connect: a new socket goes to the front of the list.
ConnectInFront(s) ==
  /\ LoopIsFree
  /\ stage[s] = "checking"
  /\ active' = [active EXCEPT ![project[s]] = <<s>> \o @]
  /\ stage' = [stage EXCEPT ![s] = "subscribed"]
  /\ UNCHANGED <<project, open, log, listenerVars, received, historyVars, failures>>

\* The query answered: connect appends without awaiting.
Connect(s) ==
  /\ LoopIsFree
  /\ stage[s] = "checking"
  /\ active' = [active EXCEPT ![project[s]] = Append(@, s)]
  /\ stage' = [stage EXCEPT ![s] = "subscribed"]
  /\ UNCHANGED <<project, open, log, listenerVars, received, historyVars, failures>>

\* The client goes away; its coroutine learns of it at its next receive or send.
ClientLeaves(s) ==
  /\ s \in open
  /\ open' = open \ {s}
  /\ UNCHANGED <<active, stage, project, log, listenerVars, received,
                 historyVars, failures>>

\* The finally clause: disconnect looks the socket up and removes it.
Finish(s) ==
  /\ LoopIsFree
  /\ s \notin open
  /\ stage[s] \in {"accepted", "subscribed"}
  /\ stage' = [stage EXCEPT ![s] = "closed"]
  /\ IF project[s] # NoProject /\ s \in Elements(active[project[s]])
     THEN /\ active' = [active EXCEPT ![project[s]] = Without(@, s)]
          /\ staying' = staying \ {s}
          /\ disturbed' = (disturbed \/ (Looping /\ project[s] = Current))
     ELSE UNCHANGED <<active, historyVars>>
  /\ UNCHANGED <<project, open, log, listenerVars, received, failures>>

-----------------------------------------------------------------------------
(* _broadcast_listener.                                                     *)

\* batch_ingest and the alert task publish to project:{id}.
Publish(p) ==
  /\ Len(log) < MaxMessages
  /\ log' = Append(log, p)
  /\ UNCHANGED <<active, socketVars, listenerVars, received, historyVars, failures>>

Listen ==
  /\ listener = "listening"
  /\ heard < Len(log)
  /\ heard' = heard + 1
  /\ listener' = "looping"
  /\ staying' = Elements(active[log[heard + 1]])
  /\ disturbed' = FALSE
  /\ UNCHANGED <<active, socketVars, log, index, target, failed, received, failures>>

\* The list iterator takes the item at its index, if the list still reaches there.
StartSend ==
  /\ listener = "looping"
  /\ index < Len(active[Current])
  /\ index' = index + 1
  /\ target' = active[Current][index + 1]
  /\ listener' = "sending"
  /\ UNCHANGED <<active, socketVars, log, heard, failed, received, historyVars, failures>>

\* Mutant of EndSend: a failing send ends the loop.
EndSendUncaught ==
  /\ listener = "sending"
  /\ IF target \in open
     THEN /\ received' = [received EXCEPT ![target] = Append(@, heard)]
          /\ listener' = "looping"
     ELSE listener' = "dead" /\ UNCHANGED received
  /\ UNCHANGED <<active, socketVars, log, heard, index, target, failed, historyVars, failures>>

\* Sending to a client that has gone raises, or nobody notices.
EndSend ==
  /\ listener = "sending"
  /\ \/ /\ target \in open
        /\ received' = [received EXCEPT ![target] = Append(@, heard)]
        /\ UNCHANGED failed
     \/ /\ target \notin open
        /\ failed' \in {failed, failed \cup {target}}
        /\ UNCHANGED received
  /\ target' = NoSocket
  /\ listener' = "looping"
  /\ UNCHANGED <<active, socketVars, log, heard, index, historyVars, failures>>

\* Mutant of EndLoop: the loop stops one item early.
EndLoopEarly ==
  /\ listener = "looping"
  /\ index + 1 >= Len(active[Current])
  /\ index' = 0
  /\ listener' = IF failed = {} THEN "listening" ELSE "pruning"
  /\ UNCHANGED <<active, socketVars, log, heard, target, failed, received, historyVars, failures>>

EndLoop ==
  /\ listener = "looping"
  /\ index >= Len(active[Current])
  /\ index' = 0
  /\ listener' = IF failed = {} THEN "listening" ELSE "pruning"
  /\ UNCHANGED <<active, socketVars, log, heard, target, failed, received, historyVars, failures>>

\* One turn of the loop over disconnected.
Prune ==
  /\ listener = "pruning"
  /\ \E s \in failed :
       /\ active' = [active EXCEPT ![Current] = Without(@, s)]
       /\ failed' = failed \ {s}
       /\ listener' = IF failed = {s} THEN "listening" ELSE "pruning"
  /\ UNCHANGED <<socketVars, log, heard, index, target, received, historyVars, failures>>

\* listen() raises: the exception is logged and the task is over.
ListenerFails ==
  /\ listener = "listening"
  /\ failures < MaxFailures
  /\ failures' = failures + 1
  /\ listener' = "dead"
  /\ UNCHANGED <<active, socketVars, log, heard, index, target, failed, received,
                 historyVars>>

-----------------------------------------------------------------------------
SocketStep(s) == Connect(s) \/ Finish(s)
ListenerStep == Listen \/ StartSend \/ EndSend \/ EndLoop \/ Prune

Next ==
  \/ \E s \in Sockets :
       \/ SocketStep(s) \/ ClientLeaves(s)
       \/ \E p \in Projects : Subscribe(s, p)
  \/ \E p \in Projects : Publish(p)
  \/ ListenerStep \/ ListenerFails

Spec == Init /\ [][Next]_vars

\* The event loop runs every coroutine; a send ends, if only because the server closes
\* a connection that does not answer its pings.
Fairness == WF_vars(ListenerStep) /\ \A s \in Sockets : WF_vars(SocketStep(s))
FairSpec == Spec /\ Fairness

-----------------------------------------------------------------------------
(* Properties.                                                              *)

\* A client is sent the messages of its project only, each at most once and in the
\* order they were published, however the list changes under the loop.
InOrder ==
  \A s \in Sockets :
    /\ \A i, j \in 1..Len(received[s]) : i < j => received[s][i] < received[s][j]
    /\ \A i \in 1..Len(received[s]) : log[received[s][i]] = project[s]

\* A socket is in at most one list, once, and in none when its coroutine has ended.
NoneLeftBehind ==
  /\ \A p \in Projects : \A i \in 1..Len(active[p]) :
       LET s == active[p][i]
       IN /\ stage[s] = "subscribed" /\ project[s] = p
          /\ \A j \in 1..Len(active[p]) : active[p][j] = s => i = j

RoundOver == listener \in {"listening", "pruning"} /\ heard > 0

Served(s) == s \in open /\ s \in staying => heard \in Elements(received[s])

\* A round reaches every client that is in the list from its beginning to its end and
\* stays connected, provided that nobody leaves the list during the round: a client that
\* was served and leaves shifts the list, and the next one is skipped.
UndisturbedRoundIsComplete ==
  RoundOver /\ ~disturbed => \A s \in Sockets : Served(s)

\* Every message published gets its round, whoever leaves, unless Redis fails.
EveryMessageIsHeard ==
  \A n \in 1..MaxMessages : Len(log) >= n ~> heard >= n \/ failures > 0
=============================================================================
