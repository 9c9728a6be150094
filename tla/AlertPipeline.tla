--------------------------- MODULE AlertPipeline ---------------------------
(***************************************************************************)
(* The life of an alert: raised by the agent's sampling thread, kept in the *)
(* EventQueue, sent by the agent's network thread (CTA::networkLoop) over a *)
(* TCP connection, received by the server's loop (CTB::runReceiveLoop) and  *)
(* appended to the log file.                                                *)
(*                                                                          *)
(* Alert n is the n-th one checkThresholds pushes.  A connection is a       *)
(* number, in the order of connect(); the server accepts them in that       *)
(* order.  One line of the wire protocol is one element of wire[c].         *)
(***************************************************************************)
EXTENDS EventQueue, SequencesExt

CONSTANTS MaxAlerts,  \* bound on the alerts raised
          MaxFaults,  \* bound on the faults injected (see "Faults" below)
          MaxConns    \* bound on the connections ever made

ASSUME BoundsAssumption == MaxAlerts \in Nat /\ MaxFaults \in Nat /\ MaxConns \in Nat

VARIABLES
  raised,    \* how many alerts checkThresholds has pushed
  queue,     \* event_queue_
  hand,      \* what the network thread took out of the queue and has not sent:
             \* the rest of pending_events, or the popped event
  pc,        \* where the network thread stands in networkLoop
  cli,       \* the agent's connection (client_fd_ with is_connected_), or 0
  conns,     \* how many connections were ever made
  conn,      \* state of each connection, as TCP keeps it
  wire,      \* what each connection carries from the agent to the server
  up,        \* is the server process running
  accepted,  \* the last connection the server took from its backlog
  srv,       \* the server's connection (client_fd_ with is_connected_), or 0
  rx,        \* complete lines in the server's rx_buffer_
  log,       \* the server's log file
  faults     \* faults injected so far

agentVars  == <<raised, queue, hand, pc, cli>>
netVars    == <<conns, conn, wire>>
serverVars == <<up, accepted, srv, rx, log>>
vars       == <<agentVars, netVars, serverVars, faults>>

Alerts == 1 .. MaxAlerts
Conns  == 1 .. MaxConns

(* "open": both ends work.  "fin": the agent closed it, what it sent still  *)
(* arrives.  "dead": both ends get an error.  "halfopen": the agent's end   *)
(* is gone and the server's end has not been told (no keepalive is set).    *)
ConnStates == {"unused", "open", "fin", "halfopen", "dead"}

PCs == {"top", "backoff", "drain", "flush", "receive", "pop", "send", "stopped"}

Init ==
  /\ raised = 0 /\ queue = <<>> /\ hand = <<>> /\ pc = "top" /\ cli = 0
  /\ conns = 0
  /\ conn = [c \in Conns |-> "unused"]
  /\ wire = [c \in Conns |-> <<>>]
  /\ up = TRUE /\ accepted = 0 /\ srv = 0 /\ rx = <<>> /\ log = <<>>
  /\ faults = 0

-----------------------------------------------------------------------------
(* The sampling thread *)

Raise ==
  /\ pc # "stopped"
  /\ raised < MaxAlerts
  /\ raised' = raised + 1
  /\ queue' = Push(queue, raised + 1)
  /\ UNCHANGED <<hand, pc, cli, netVars, serverVars, faults>>

-----------------------------------------------------------------------------
(* The network thread *)

At(l) == pc = l
Goto(l) == pc' = l

(* isConnected() holds: go on to receiveMessage.                           *)
StayConnected ==
  /\ At("top") /\ cli # 0
  /\ Goto("receive")
  /\ UNCHANGED <<raised, queue, hand, cli, netVars, serverVars, faults>>

(* connectClient succeeds as soon as the server listens: the kernel accepts *)
(* into the backlog whatever the server's loop is doing.                    *)
Connect ==
  /\ At("top") /\ cli = 0
  /\ up
  /\ conns < MaxConns
  /\ conns' = conns + 1
  /\ conn' = [conn EXCEPT ![conns + 1] = "open"]
  /\ cli' = conns + 1
  /\ Goto("drain")
  /\ UNCHANGED <<raised, queue, hand, wire, serverVars, faults>>

(* connect() is refused: wait one second on cv_stop_ and start over.       *)
ConnectRefused ==
  /\ At("top") /\ cli = 0
  /\ ~up
  /\ Goto("backoff")
  /\ UNCHANGED <<raised, queue, hand, cli, netVars, serverVars, faults>>

BackoffOver ==
  /\ At("backoff")
  /\ Goto("top")
  /\ UNCHANGED <<raised, queue, hand, cli, netVars, serverVars, faults>>

DrainAll ==
  /\ At("drain")
  /\ hand' = Drained(queue)
  /\ queue' = AfterDrain(queue)
  /\ Goto(IF queue = <<>> THEN "receive" ELSE "flush")
  /\ UNCHANGED <<raised, cli, netVars, serverVars, faults>>

(* sendMessage returns true: the kernel took the whole line.  On a          *)
(* connection that is already broken it may still do so, and the line is    *)
(* lost.                                                                    *)
SendOk(c, e) ==
  /\ c # 0
  /\ wire' = IF conn[c] = "open" THEN [wire EXCEPT ![c] = Append(@, e)] ELSE wire

(* sendMessage returns false: not connected, or send() failed on a broken   *)
(* connection, in which case it has called disconnect().                    *)
SendFails(c) == IF c = 0 THEN TRUE ELSE conn[c] # "open"

(* The loop over pending_events: its break drops what was not sent.        *)
FlushOne ==
  /\ At("flush")
  /\ \/ /\ SendOk(cli, Head(hand))
        /\ hand' = Tail(hand)
        /\ Goto(IF Len(hand) = 1 THEN "receive" ELSE "flush")
        /\ UNCHANGED cli
     \/ /\ SendFails(cli)
        /\ hand' = <<>>
        /\ Goto("receive")
        /\ cli' = 0
        /\ UNCHANGED wire
  /\ UNCHANGED <<raised, queue, conns, conn, serverVars, faults>>

(* receiveMessage(100) on the agent: a configuration or a timeout leaves the *)
(* alerts alone.                                                            *)
ReceiveNothing ==
  /\ At("receive")
  /\ Goto("pop")
  /\ UNCHANGED <<raised, queue, hand, cli, netVars, serverVars, faults>>

(* ... and end of stream or an error disconnects, once the configurations   *)
(* that arrived before it have been read.                                   *)
ReceiveBroken ==
  /\ At("receive")
  /\ cli # 0 /\ SendFails(cli)
  /\ cli' = 0
  /\ Goto("pop")
  /\ UNCHANGED <<raised, queue, hand, netVars, serverVars, faults>>

Pop ==
  /\ At("pop")
  /\ IF CanPop(queue)
       THEN /\ hand' = <<Oldest(queue)>>
            /\ queue' = AfterPop(queue)
            /\ Goto("send")
       ELSE /\ Goto("top")
            /\ UNCHANGED <<hand, queue>>
  /\ UNCHANGED <<raised, cli, netVars, serverVars, faults>>

(* Mutant of Requeue: the event that could not be sent is dropped.         *)
NoRequeue(q, e) == q

(* A popped event that could not be sent goes back to the END of the queue *)
(* and the loop is left through disconnect().                               *)
Requeue(q, e) == Push(q, e)

(* Mutant of SendOne: send() has taken the whole line when it fails.       *)
SendOneUnsure ==
  /\ At("send")
  /\ \/ /\ SendOk(cli, Head(hand))
        /\ Goto("pop")
        /\ UNCHANGED <<queue, cli>>
     \/ /\ cli # 0
        /\ queue' = Requeue(queue, Head(hand))
        /\ cli' = 0
        /\ Goto("top")
        /\ wire' = [wire EXCEPT ![cli] = Append(@, Head(hand))]
  /\ hand' = <<>>
  /\ UNCHANGED <<raised, conns, conn, serverVars, faults>>

SendOne ==
  /\ At("send")
  /\ \/ /\ SendOk(cli, Head(hand))
        /\ Goto("pop")
        /\ UNCHANGED <<queue, cli>>
     \/ /\ SendFails(cli)
        /\ queue' = Requeue(queue, Head(hand))
        /\ cli' = 0
        /\ Goto("top")
        /\ UNCHANGED wire
  /\ hand' = <<>>
  /\ UNCHANGED <<raised, conns, conn, serverVars, faults>>

NetworkStep ==
  \/ StayConnected \/ Connect \/ ConnectRefused \/ BackoffOver
  \/ DrainAll \/ FlushOne \/ ReceiveNothing \/ ReceiveBroken \/ Pop \/ SendOne

-----------------------------------------------------------------------------
(* The server's receive loop *)

(* sendConfigJson on connection c: nothing is heard of it on an open one;   *)
(* an end that is gone answers with a reset; a reset connection makes send  *)
(* fail, and sendMessage disconnects: what was not yet read is gone.        *)
PushConfig(c) ==
  /\ conn' = IF conn[c] \in {"fin", "halfopen"} THEN [conn EXCEPT ![c] = "dead"] ELSE conn
  /\ srv' = IF conn[c] = "dead" THEN 0 ELSE c
  /\ wire' = IF conn[c] = "dead" THEN [wire EXCEPT ![c] = <<>>] ELSE wire

(* waitForClient takes the next connection of the backlog and forgets what  *)
(* was buffered from the last one; the current configuration, when there is *)
(* one, is sent at once.                                                    *)
Accept ==
  /\ up /\ srv = 0
  /\ accepted < conns
  /\ accepted' = accepted + 1
  /\ rx' = <<>>
  /\ \/ PushConfig(accepted + 1)
     \/ srv' = accepted + 1 /\ UNCHANGED <<conn, wire>>
  /\ UNCHANGED <<agentVars, conns, up, log, faults>>

(* checkAndReloadConfigFile found an edited file while a client is there.  *)
ReloadConfig ==
  /\ up /\ srv # 0
  /\ PushConfig(srv)
  /\ UNCHANGED <<agentVars, conns, up, accepted, rx, log, faults>>

(* writeAlertLog opens the file anew for each line; when it cannot, it     *)
(* complains on stderr and the line is gone.                                *)
WriteAlertLog(e) ==
  \/ log' = Append(log, e) /\ UNCHANGED faults
  \/ faults < MaxFaults /\ faults' = faults + 1 /\ UNCHANGED log

(* receiveMessage(200) finds a complete line already buffered.             *)
TakeBuffered ==
  /\ up /\ srv # 0
  /\ rx # <<>>
  /\ rx' = Tail(rx)
  /\ WriteAlertLog(Head(rx))
  /\ UNCHANGED <<agentVars, netVars, up, accepted, srv>>

(* Mutant of TakeChunk: what follows the first line of the chunk is not     *)
(* kept in rx_buffer_.                                                      *)
TakeOneLinePerChunk ==
  /\ up /\ srv # 0
  /\ rx = <<>>
  /\ \E k \in 1 .. Len(wire[srv]) :
       /\ WriteAlertLog(Head(wire[srv]))
       /\ wire' = [wire EXCEPT ![srv] = SubSeq(@, k + 1, Len(@))]
  /\ UNCHANGED <<agentVars, conns, conn, up, accepted, srv, rx>>

(* ... or reads a chunk of k lines and takes the first.                    *)
TakeChunk ==
  /\ up /\ srv # 0
  /\ rx = <<>>
  /\ \E k \in 1 .. Len(wire[srv]) :
       /\ rx' = SubSeq(wire[srv], 2, k)
       /\ WriteAlertLog(Head(wire[srv]))
       /\ wire' = [wire EXCEPT ![srv] = SubSeq(@, k + 1, Len(@))]
  /\ UNCHANGED <<agentVars, conns, conn, up, accepted, srv>>

(* Mutant of ServerDisconnect: an error of recv is taken for a timeout.    *)
ServerDisconnectOnEof ==
  /\ up /\ srv # 0
  /\ rx = <<>> /\ wire[srv] = <<>>
  /\ conn[srv] = "fin"
  /\ srv' = 0
  /\ UNCHANGED <<agentVars, netVars, up, accepted, rx, log, faults>>

(* ... or finds the stream at its end or in error and disconnects.         *)
ServerDisconnect ==
  /\ up /\ srv # 0
  /\ rx = <<>> /\ wire[srv] = <<>>
  /\ conn[srv] \in {"fin", "dead"}
  /\ srv' = 0
  /\ UNCHANGED <<agentVars, netVars, up, accepted, rx, log, faults>>

ServerStep == Accept \/ TakeBuffered \/ TakeChunk \/ ServerDisconnect

-----------------------------------------------------------------------------
(* Faults: at most MaxFaults of them *)

Fault == faults < MaxFaults /\ faults' = faults + 1

(* The path of a connection breaks: what was under way beyond the first k   *)
(* lines never arrives, and the server may or may not get to know.          *)
Break(c, k, s) ==
  /\ Fault
  /\ conn[c] \in {"open", "fin"}
  /\ conn' = [conn EXCEPT ![c] = s]
  /\ wire' = [wire EXCEPT ![c] = SubSeq(@, 1, k)]
  /\ UNCHANGED <<agentVars, conns, serverVars>>

(* CTA::stop or the death of the agent: what it holds in RAM is gone.      *)
AgentStop ==
  /\ Fault
  /\ pc # "stopped"
  /\ queue' = <<>> /\ hand' = <<>> /\ cli' = 0
  /\ Goto("stopped")
  /\ conn' = IF cli # 0 /\ conn[cli] = "open" THEN [conn EXCEPT ![cli] = "fin"] ELSE conn
  /\ UNCHANGED <<raised, conns, wire, serverVars>>

AgentStart ==
  /\ At("stopped")
  /\ Goto("top")
  /\ UNCHANGED <<raised, queue, hand, cli, netVars, serverVars, faults>>

(* The server dies or stops; its host resets every connection, those still  *)
(* in the backlog included.                                                 *)
ServerStop ==
  /\ Fault
  /\ up
  /\ up' = FALSE /\ srv' = 0 /\ rx' = <<>> /\ accepted' = conns
  /\ conn' = [c \in Conns |-> IF c <= conns THEN "dead" ELSE "unused"]
  /\ wire' = [c \in Conns |-> <<>>]
  /\ UNCHANGED <<agentVars, conns, log>>

ServerStart ==
  /\ ~up
  /\ up' = TRUE
  /\ UNCHANGED <<agentVars, netVars, accepted, srv, rx, log, faults>>

Breaks == \E c \in Conns, s \in {"halfopen", "dead"} :
            \E k \in 0 .. Len(wire[c]) : Break(c, k, s)

Next ==
  \/ Raise \/ NetworkStep
  \/ ServerStep \/ ReloadConfig
  \/ Breaks \/ AgentStop \/ AgentStart \/ ServerStop \/ ServerStart

(* The two threads keep running; end of stream is found behind a finite     *)
(* number of configurations, hence the strong fairness.                     *)
Fairness ==
  /\ WF_vars(NetworkStep) /\ SF_vars(ReceiveBroken)
  /\ WF_vars(ServerStep)

Spec     == Init /\ [][Next]_vars
FairSpec == Spec /\ Fairness

-----------------------------------------------------------------------------
(* Properties *)

InAgent  == Range(queue) \cup Range(hand)
OnWire   == UNION {Range(wire[c]) : c \in Conns}
Underway == InAgent \cup OnWire \cup Range(rx)

(* Type invariant: the queue never exceeds its capacity (EventQueue::push), *)
(* the network thread holds events exactly between taking and sending them, *)
(* and the server never holds a connection it has not accepted.             *)
TypeOK ==
  /\ raised \in 0 .. MaxAlerts
  /\ queue \in Seq(Alerts) /\ Len(queue) <= Capacity
  /\ hand \in Seq(Alerts)
  /\ pc \in PCs
  /\ (hand # <<>>) <=> pc \in {"flush", "send"}
  /\ pc = "send" => Len(hand) = 1
  /\ conns \in 0 .. MaxConns
  /\ cli \in 0 .. conns
  /\ conn \in [Conns -> ConnStates]
  /\ wire \in [Conns -> Seq(Alerts)]
  /\ up \in BOOLEAN
  /\ accepted \in 0 .. conns /\ srv \in 0 .. accepted
  /\ rx \in Seq(Alerts) /\ log \in Seq(Alerts)
  /\ faults \in 0 .. MaxFaults

(* Every place an alert can be in, and no alert in two of them: the move    *)
(* from the queue to the hand to the wire to the buffer to the log never    *)
(* copies, whatever send fails half-way or is tried again.                  *)
NoDuplicates ==
  /\ IsInjective(queue) /\ IsInjective(hand) /\ IsInjective(rx) /\ IsInjective(log)
  /\ \A c \in Conns : IsInjective(wire[c])
  /\ \A c, d \in Conns : c # d => Range(wire[c]) \cap Range(wire[d]) = {}
  /\ Range(queue) \cap Range(hand) = {}
  /\ InAgent \cap OnWire = {}
  /\ (InAgent \cup OnWire) \cap Range(rx) = {}
  /\ Underway \cap Range(log) = {}
  /\ Underway \cup Range(log) \subseteq 1 .. raised

(* The alerts in the order they will reach the log if nothing more is lost: *)
(* the places they are in, and the slots of every place.                   *)
Pipeline == <<log, rx>> \o wire \o <<hand, queue>>
Slots    == UNION {{k} \X DOMAIN Pipeline[k] : k \in DOMAIN Pipeline}

AlertAt(s) == Pipeline[s[1]][s[2]]

Precedes(s, t) == s[1] < t[1] \/ (s[1] = t[1] /\ s[2] < t[2])
Neighbours(s, t) == Precedes(s, t) /\ ~\E u \in Slots : Precedes(s, u) /\ Precedes(u, t)

(* The slots whose alert is older than the one just before it.             *)
Descents == {t \in Slots : \E s \in Slots : Neighbours(s, t) /\ AlertAt(s) > AlertAt(t)}

Broken == {c \in Conns : conn[c] \in {"halfopen", "dead"}}

(* Requeueing at the back (CTA.cpp:278) breaks the order of the alerts, but *)
(* each lost connection does so at one place at most.                       *)
OneInversionPerBrokenConnection == Cardinality(Descents) <= Cardinality(Broken)

Gone == (Underway \cup Range(log)) \ (Underway \cup Range(log))'

Overflow == IF IsFull(queue) THEN {Head(queue)} ELSE {}

(* The alerts a broken path may cost: what was not read of a dead           *)
(* connection, before or after it came to rx_buffer_.                       *)
Unread ==
  (UNION {Range(wire[c]) : c \in {d \in Conns : conn[d] = "dead"}})
    \cup (IF accepted # 0 /\ conn[accepted] = "dead" THEN Range(rx) ELSE {})

(* Between the faults themselves, a step loses only the oldest alert of a   *)
(* full queue, what is handed to a connection already broken or is not read *)
(* of a dead one.  An open path loses nothing, whatever broke before: not    *)
(* in the drain on connecting, nor where the server clears rx_buffer_ on     *)
(* accepting (ISocketChannel.cpp:148), nor in its chunked reads; and a       *)
(* popped event is not lost when its send is seen to fail (CTA.cpp:278).     *)
LossNeedsBrokenPathOrOverflow ==
  [][faults' = faults =>
       Gone \subseteq Overflow \cup Unread \cup
         IF cli # 0 /\ conn[cli] # "open" /\ (pc = "flush" \/ cli' = cli) THEN Range(hand) ELSE {}]_vars

(* While the agent runs without a connection it keeps every alert it holds, *)
(* save the oldest of a full queue (README.md:59, EventQueue.cpp:16).       *)
OutageKeepsAlerts ==
  [][cli = 0 /\ cli' = 0 /\ pc' # "stopped"
       => InAgent \ InAgent' \subseteq Overflow]_vars

(* The server waits on a connection whose other end is gone: it serves one  *)
(* client at a time and has no timeout for a silent one.                    *)
Stuck == srv # 0 /\ conn[srv] = "halfopen"

(* Whatever failed before: once both programs stay up and the server is not *)
(* stuck, every alert not lost by then reaches the log.                     *)
BacklogIsLogged ==
  <>[](pc # "stopped" /\ up /\ ~Stuck) => <>[](Underway = {})

(* The pipeline is an at-most-once, lossy, reordering delivery.            *)
Delivery == INSTANCE AlertDelivery WITH
              issued <- raised, underway <- Underway, delivered <- log
ImplementsDelivery == Delivery!DSpec

(* README.md:59: all alerts are kept in RAM while the connection is down    *)
(* and are pushed when it is back.  Losing the connection should not cost   *)
(* an alert that is still in the agent and has room in the queue.           *)
RamKeepsBacklog ==
  [][cli # 0 /\ cli' = 0 /\ pc' # "stopped" /\ ~IsFull(queue)
       => InAgent \subseteq InAgent']_vars

(* README.md:59, of the server: what is pushed after a reconnection is      *)
(* logged, however the last connection ended.                               *)
ReconnectionIsServed ==
  <>[](pc # "stopped" /\ up) => <>[](Underway = {})
=============================================================================
