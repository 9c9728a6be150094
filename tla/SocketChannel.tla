--------------------------- MODULE SocketChannel ---------------------------
(***************************************************************************)
(* ISocketChannel as an object the agent's network thread and CTA::stop use *)
(* at once: client_fd_ and is_connected_ have no lock, and the number in    *)
(* client_fd_ is an index into the table of descriptors of the process,     *)
(* which the sampling thread opens the files of /proc in.                   *)
(*                                                                          *)
(* A descriptor is a number, given out lowest first; 0 stands for the       *)
(* code's -1.  A socket is known by its state in the table.                 *)
(***************************************************************************)
EXTENDS Naturals

CONSTANTS MaxFds,    \* the descriptors the process can open
          MaxAlerts  \* bound on the alerts that are sent

ASSUME ChannelAssumption == MaxFds \in Nat \ {0} /\ MaxAlerts \in Nat

VARIABLES
  running,    \* is_running_
  pc,         \* where the network thread, stop() and the sampling thread stand
  ret,        \* where disconnect() returns to
  client,     \* client_fd_
  connected,  \* is_connected_
  arg,        \* the descriptor a thread has read from client_fd_
  table,      \* the table of descriptors
  file,       \* the descriptor of the sampling thread's file
  stage,      \* of networkLoop: "flush" after a connect, else "pop"
  alerts,     \* alerts still to be sent
  late,       \* history: connections made after is_running_ was cleared
  foreign     \* history: the channel has closed the sampling thread's file

shared == <<client, connected, table>>
vars == <<running, pc, ret, shared, arg, file, stage, alerts, late, foreign>>

Fds     == 1 .. MaxFds
Sockets == {"new", "open", "dead"}
Users   == {"network", "stop"}
Threads == Users \cup {"sampler"}

Init ==
  /\ running = TRUE
  /\ pc = [p \in Threads |-> IF p = "stop" THEN "idle" ELSE "top"]
  /\ ret = [p \in Users |-> "top"]
  /\ client = 0 /\ connected = FALSE
  /\ arg = [p \in Users |-> 0]
  /\ table = [d \in Fds |-> "free"] /\ file = 0
  /\ stage = "pop" /\ alerts = MaxAlerts
  /\ late = 0 /\ foreign = FALSE

(* The process ends when main has destroyed the channel, or in the check    *)
(* of a fortified FD_SET.                                                   *)
Alive == pc["stop"] # "ended" /\ pc["network"] # "aborted"

Step(p, from, to) == Alive /\ pc[p] = from /\ pc' = [pc EXCEPT ![p] = to]

(* What system calls find under a descriptor.                              *)
Object(d) == IF d = 0 THEN "free" ELSE table[d]

(* d is the descriptor the kernel gives to the next file or socket.        *)
Lowest(d) == table[d] = "free" /\ \A e \in Fds : table[e] = "free" => d <= e

-----------------------------------------------------------------------------
(* disconnect() and closeSocketHandle(client_fd_), by either user *)

(* p goes to `l`, and disconnect(), or from "load" on closeSocketHandle(),  *)
(* will return to r.                                                        *)
Call(p, from, l, r) == Step(p, from, l) /\ ret' = [ret EXCEPT ![p] = r]

ClearFlag(p) ==
  /\ Step(p, "flag", "load")
  /\ connected' = FALSE
  /\ UNCHANGED <<running, ret, client, table, arg, file, stage, alerts, late, foreign>>

(* Mutant of Load: client_fd_ is not compared with INVALID_SOCKET_FD.      *)
LoadUntested(p) ==
  /\ Step(p, "load", "close")
  /\ arg' = [arg EXCEPT ![p] = client]
  /\ UNCHANGED <<running, ret, shared, file, stage, alerts, late, foreign>>

Load(p) ==
  /\ \/ client # 0 /\ Step(p, "load", "close") /\ arg' = [arg EXCEPT ![p] = client]
     \/ client = 0 /\ Step(p, "load", ret[p]) /\ UNCHANGED arg
  /\ UNCHANGED <<running, ret, shared, file, stage, alerts, late, foreign>>

(* Mutant of Close: the descriptor is only forgotten.                      *)
CloseNot(p) ==
  /\ Step(p, "close", "clear")
  /\ UNCHANGED <<running, ret, shared, arg, file, stage, alerts, late, foreign>>

(* ::close, whatever has the number by now.                                *)
Close(p) ==
  /\ Step(p, "close", "clear")
  /\ table' = [table EXCEPT ![arg[p]] = "free"]
  /\ foreign' = (foreign \/ table[arg[p]] = "file")
  /\ UNCHANGED <<running, ret, client, connected, arg, file, stage, alerts, late>>

(* Mutant of Clear: client_fd_ keeps the number.                           *)
ClearNot(p) ==
  /\ Step(p, "clear", ret[p])
  /\ UNCHANGED <<running, ret, shared, arg, file, stage, alerts, late, foreign>>

(* ... and client_fd_ is reset, whatever it is by now.                     *)
Clear(p) ==
  /\ Step(p, "clear", ret[p])
  /\ client' = 0
  /\ UNCHANGED <<running, ret, connected, table, arg, file, stage, alerts, late, foreign>>

Disconnect(p) == ClearFlag(p) \/ Load(p) \/ Close(p) \/ Clear(p)

-----------------------------------------------------------------------------
(* networkLoop: the loop and connectClient *)

(* Mutant of LoopTop: without a connection, is_running_ is not looked at.  *)
LoopTopReconnects ==
  /\ Step("network", "top", IF running \/ ~connected THEN "test" ELSE "done")
  /\ UNCHANGED <<running, ret, shared, arg, file, stage, alerts, late, foreign>>

(* Mutant of LoopTop: with a connection, is_running_ is not looked at.     *)
LoopTopServes ==
  /\ Step("network", "top", IF running \/ connected THEN "test" ELSE "done")
  /\ UNCHANGED <<running, ret, shared, arg, file, stage, alerts, late, foreign>>

LoopTop ==
  /\ Step("network", "top", IF running THEN "test" ELSE "done")
  /\ UNCHANGED <<running, ret, shared, arg, file, stage, alerts, late, foreign>>

(* isConnected(), a load of its own; connectClient first disconnects.      *)
TestConnected ==
  /\ \/ connected /\ Step("network", "test", "check") /\ UNCHANGED ret
     \/ ~connected /\ Call("network", "test", "flag", "socket")
  /\ UNCHANGED <<running, shared, arg, file, stage, alerts, late, foreign>>

(* socket(); without a free descriptor, connectClient fails.               *)
MakeSocket ==
  /\ \/ \E d \in Fds : /\ Lowest(d)
                       /\ client' = d
                       /\ table' = [table EXCEPT ![d] = "new"]
                       /\ Step("network", "socket", "connect")
     \/ /\ \A d \in Fds : table[d] # "free"
        /\ client' = 0
        /\ Step("network", "socket", "backoff")
        /\ UNCHANGED table
  /\ UNCHANGED <<running, ret, connected, arg, file, stage, alerts, late, foreign>>

(* connect() blocks, for as long as the kernel keeps trying: the timeout    *)
(* that is passed is not used.  On anything but a new socket it fails.      *)
CallConnect ==
  /\ \/ /\ Object(client) = "new"
        /\ Step("network", "connect", "connecting")
        /\ arg' = [arg EXCEPT !["network"] = client]
        /\ UNCHANGED ret
     \/ /\ Object(client) # "new"
        /\ Call("network", "connect", "load", "backoff")
        /\ UNCHANGED arg
  /\ UNCHANGED <<running, shared, file, stage, alerts, late, foreign>>

(* It goes on when its descriptor is closed meanwhile.                     *)
ConnectReturns ==
  LET d == arg["network"]
  IN  /\ \/ /\ Step("network", "connecting", "established")
            /\ table' = IF Object(d) = "new" THEN [table EXCEPT ![d] = "open"] ELSE table
            /\ UNCHANGED ret
         \/ Call("network", "connecting", "load", "backoff") /\ UNCHANGED table
      /\ UNCHANGED <<running, client, connected, arg, file, stage, alerts, late, foreign>>

Establish ==
  /\ Step("network", "established", "send")
  /\ connected' = TRUE
  /\ stage' = "flush"
  /\ late' = IF running \/ late = 2 THEN late ELSE late + 1
  /\ UNCHANGED <<running, ret, client, table, arg, file, alerts, foreign>>

(* One second on cv_stop_, or a notification.                              *)
Backoff ==
  /\ Step("network", "backoff", "top")
  /\ UNCHANGED <<running, ret, shared, arg, file, stage, alerts, late, foreign>>

-----------------------------------------------------------------------------
(* networkLoop: sendMessage and receiveMessage *)

(* The backlog has been flushed, or the queue is empty.                    *)
NothingToSend ==
  /\ Step("network", "send", IF stage = "flush" THEN "check" ELSE "top")
  /\ UNCHANGED <<running, ret, shared, arg, file, stage, alerts, late, foreign>>

(* What networkLoop does after a failed send: with the backlog in hand it   *)
(* goes on, an event that was popped makes it disconnect once more.         *)
AfterFailure == IF stage = "flush" THEN "check" ELSE "flag"

(* sendMessage is not connected, or finds something else than its socket.  *)
SendFails ==
  /\ alerts > 0
  /\ \/ /\ ~connected \/ client = 0
        /\ Call("network", "send", AfterFailure, "top")
     \/ /\ Object(client) # "open"
        /\ Call("network", "send", "flag", IF stage = "flush" THEN "check" ELSE "again")
  /\ UNCHANGED <<running, shared, arg, file, stage, alerts, late, foreign>>

(* networkLoop's own disconnect(), after the one of sendMessage.           *)
DisconnectAgain ==
  /\ Call("network", "again", "flag", "top")
  /\ UNCHANGED <<running, shared, arg, file, stage, alerts, late, foreign>>

(* send() on an open connection, blocked until there is room ...           *)
CallSend ==
  /\ alerts > 0
  /\ connected /\ Object(client) = "open"
  /\ Step("network", "send", "sending")
  /\ arg' = [arg EXCEPT !["network"] = client]
  /\ UNCHANGED <<running, ret, shared, file, stage, alerts, late, foreign>>

(* ... or the connection has come to its end.  Closing the descriptor does  *)
(* not interrupt it: a server that does not read, but whose system answers,  *)
(* holds it for ever.                                                       *)
SendReturns ==
  /\ \/ /\ Step("network", "sending", "send")
        /\ alerts' = alerts - 1
        /\ UNCHANGED ret
     \/ /\ Object(arg["network"]) # "open"
        /\ Call("network", "sending", "flag", IF stage = "flush" THEN "check" ELSE "again")
        /\ UNCHANGED alerts
  /\ UNCHANGED <<running, shared, arg, file, stage, late, foreign>>

(* receiveMessage: a complete line is there, or not connected ...          *)
NothingToWaitFor ==
  /\ Step("network", "check", "send")
  /\ stage' = "pop"
  /\ UNCHANGED <<running, ret, shared, arg, file, alerts, late, foreign>>

(* ... else wait for bytes.                                                *)
CheckConnected ==
  /\ connected /\ client # 0
  /\ Step("network", "check", "select")
  /\ stage' = "pop"
  /\ UNCHANGED <<running, ret, shared, arg, file, alerts, late, foreign>>

(* select() for 100 ms on what client_fd_ is now.  FD_SET(-1) is undefined: *)
(* it ends the process where it is checked, and waits on nothing elsewhere. *)
(* A closed descriptor is an error, a file is readable at once.             *)
Select ==
  /\ \/ Object(client) # "file" /\ Step("network", "select", "send")
     \/ Object(client) # "free" /\ Step("network", "select", "recv")
     \/ client = 0 /\ Step("network", "select", "aborted")
  /\ UNCHANGED <<running, ret, shared, arg, file, stage, alerts, late, foreign>>

Receive ==
  /\ \/ Object(client) = "open" /\ Step("network", "recv", "send") /\ UNCHANGED ret
     \/ Object(client) # "open" /\ Call("network", "recv", "flag", "send")
  /\ UNCHANGED <<running, shared, arg, file, stage, alerts, late, foreign>>

NetworkStep ==
  \/ Disconnect("network")
  \/ LoopTop \/ TestConnected \/ MakeSocket \/ CallConnect \/ ConnectReturns \/ Establish \/ Backoff
  \/ NothingToSend \/ SendFails \/ DisconnectAgain \/ CallSend \/ SendReturns
  \/ NothingToWaitFor \/ CheckConnected \/ Select \/ Receive

-----------------------------------------------------------------------------
(* stop(), then ~CTA with ~ISocketChannel *)

Exchange ==
  /\ Call("stop", "idle", "flag", "join")
  /\ running' = FALSE
  /\ UNCHANGED <<shared, arg, file, stage, alerts, late, foreign>>

(* Both joins; then main destroys the channel, which disconnects again.    *)
Join ==
  /\ pc["sampler"] = "done" /\ pc["network"] = "done"
  /\ Call("stop", "join", "flag", "ended")
  /\ UNCHANGED <<running, shared, arg, file, stage, alerts, late, foreign>>

StopStep == Join \/ Disconnect("stop")

-----------------------------------------------------------------------------
(* samplingLoop, as far as it opens files *)

SamplerTop ==
  /\ Step("sampler", "top", IF running THEN "sample" ELSE "done")
  /\ UNCHANGED <<running, ret, shared, arg, file, stage, alerts, late, foreign>>

OpenFile ==
  /\ Step("sampler", "sample", "read")
  /\ \E d \in Fds : Lowest(d) /\ file' = d /\ table' = [table EXCEPT ![d] = "file"]
  /\ UNCHANGED <<running, ret, client, connected, arg, stage, alerts, late, foreign>>

CloseFile ==
  /\ Step("sampler", "read", "sample")
  /\ file' = 0
  /\ table' = [table EXCEPT ![file] = "free"]
  /\ UNCHANGED <<running, ret, client, connected, arg, stage, alerts, late, foreign>>

SampleDone ==
  /\ Step("sampler", "sample", "top")
  /\ UNCHANGED <<running, ret, shared, arg, file, stage, alerts, late, foreign>>

SamplerStep == SamplerTop \/ OpenFile \/ CloseFile \/ SampleDone

-----------------------------------------------------------------------------
(* The server closes the connection, or the network breaks it.             *)
PeerLeaves ==
  /\ Alive
  /\ \E d \in Fds : table[d] = "open" /\ table' = [table EXCEPT ![d] = "dead"]
  /\ UNCHANGED <<running, pc, ret, client, connected, arg, file, stage, alerts, late, foreign>>

Ended == ~Alive /\ UNCHANGED vars

Next == NetworkStep \/ Exchange \/ StopStep \/ SamplerStep \/ PeerLeaves \/ Ended

(* In send(), on a connection nothing is known to be wrong with.           *)
Blocked == pc["network"] = "sending" /\ Object(arg["network"]) # "dead"

(* Every thread is scheduled; the kernel gives up a connect() that is not   *)
(* answered, and a send() when the connection breaks, but nobody has to     *)
(* read what is sent; a round of sampling has an end.                       *)
Fairness ==
  /\ WF_vars(NetworkStep /\ ~Blocked) /\ WF_vars(StopStep)
  /\ WF_vars(SamplerStep) /\ SF_vars(SampleDone)

Spec == Init /\ [][Next]_vars /\ Fairness

-----------------------------------------------------------------------------
(* Properties *)

Closing == {"flag", "load", "close", "clear"}

(* Type invariant; who is about to close has read a descriptor.            *)
TypeOK ==
  /\ running \in BOOLEAN /\ connected \in BOOLEAN /\ foreign \in BOOLEAN
  /\ DOMAIN pc = Threads
  /\ pc["network"] \in Closing \cup {"top", "test", "socket", "connect", "connecting", "established",
                                     "backoff", "send", "sending", "again", "check",
                                     "select", "recv", "done", "aborted"}
  /\ pc["stop"] \in Closing \cup {"idle", "join", "ended"}
  /\ pc["sampler"] \in {"top", "sample", "read", "done"}
  /\ DOMAIN ret = Users
  /\ ret["network"] \in {"top", "socket", "backoff", "send", "again", "check"}
  /\ ret["stop"] \in {"top", "join", "ended"}
  /\ pc["stop"] \in Closing => ret["stop"] # "top"
  /\ client \in Fds \cup {0} /\ arg \in [Users -> Fds \cup {0}]
  /\ \A p \in Users : pc[p] \in {"close", "clear", "connecting", "sending"} => arg[p] # 0
  /\ table \in [Fds -> Sockets \cup {"free", "file"}]
  /\ file \in Fds \cup {0} /\ (file # 0 <=> pc["sampler"] = "read")
  /\ stage \in {"flush", "pop"} /\ alerts \in 0 .. MaxAlerts
  /\ late \in 0 .. 2

(* Until stop() is called the channel harms nobody: whatever connects,      *)
(* fails and is closed meanwhile, it never closes a descriptor of the       *)
(* sampling thread and never puts -1 into a set of descriptors              *)
(* (ISocketChannel.cpp:264, 301-305).                                       *)
SafeWhileRunning == running => ~foreign /\ pc["network"] # "aborted"

(* Until then the process holds one socket at most, the one in client_fd_:  *)
(* none is lost on a failed or repeated connect (ISocketChannel.cpp:158-184). *)
NoSocketIsLost ==
  running => \A d \in Fds : table[d] \in Sockets => d = client

(* The network thread may connect once more after stop() has disconnected   *)
(* (CTA.cpp:97, 233-235), but only once.                                    *)
LateConnectOnce == late <= 1

(* stop() and the destructor come to their end, whatever stop() has done to *)
(* the descriptor the network thread is using, unless that thread is in a   *)
(* send() that never returns: stop() waits for it in join (CTA.cpp:97, 107). *)
StopEnds ==
  <>[](pc["network"] = "sending") \/ (pc["stop"] # "idle" ~> ~Alive)
=============================================================================
