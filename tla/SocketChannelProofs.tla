------------------------ MODULE SocketChannelProofs ------------------------
(***************************************************************************)
(* Proofs about SocketChannel, for every number of descriptors and alerts.  *)
(***************************************************************************)
EXTENDS SocketChannel, TLAPS

USE ChannelAssumption

(* The kinds of a descriptor that is in use by the channel are not those of *)
(* the others.                                                              *)
LEMMA Kinds == "free" \notin Sockets /\ "file" \notin Sockets
BY DEF Sockets

(* How a step of one thread changes pc.                                    *)
LEMMA StepChanges ==
  ASSUME DOMAIN pc = Threads, NEW p \in Threads, NEW from, NEW to, Step(p, from, to)
  PROVE  /\ Alive /\ pc[p] = from /\ pc'[p] = to
         /\ DOMAIN pc' = Threads /\ \A q \in Threads \ {p} : pc'[q] = pc[q]
BY DEF Step

(* ... and how one that sets a place to return to does.                    *)
LEMMA CallChanges ==
  ASSUME DOMAIN pc = Threads, DOMAIN ret = Users, NEW p \in Users, NEW from, NEW l, NEW r,
         Call(p, from, l, r)
  PROVE  /\ Alive /\ pc[p] = from /\ pc'[p] = l /\ ret'[p] = r
         /\ DOMAIN pc' = Threads /\ \A q \in Threads \ {p} : pc'[q] = pc[q]
         /\ DOMAIN ret' = Users /\ \A q \in Users \ {p} : ret'[q] = ret[q]
BY StepChanges DEF Call, Threads

-----------------------------------------------------------------------------
(* Types *)

(* TypeOK in parts: the control, and the data.                             *)
ControlOK ==
  /\ DOMAIN pc = Threads
  /\ pc["network"] \in Closing \cup {"top", "test", "socket", "connect", "connecting", "established",
                                     "backoff", "send", "sending", "again", "check",
                                     "select", "recv", "done", "aborted"}
  /\ pc["stop"] \in Closing \cup {"idle", "join", "ended"}
  /\ pc["sampler"] \in {"top", "sample", "read", "done"}
  /\ DOMAIN ret = Users
  /\ ret["network"] \in {"top", "socket", "backoff", "send", "again", "check"}
  /\ ret["stop"] \in {"top", "join", "ended"}
  /\ pc["stop"] \in Closing => ret["stop"] # "top"

DataOK ==
  /\ running \in BOOLEAN /\ connected \in BOOLEAN /\ foreign \in BOOLEAN
  /\ client \in Fds \cup {0} /\ arg \in [Users -> Fds \cup {0}]
  /\ table \in [Fds -> Sockets \cup {"free", "file"}]
  /\ file \in Fds \cup {0}
  /\ stage \in {"flush", "pop"} /\ alerts \in 0 .. MaxAlerts
  /\ late \in 0 .. 2

HoldsOne ==
  /\ \A p \in Users : pc[p] \in {"close", "clear", "connecting", "sending"} => arg[p] # 0
  /\ file # 0 <=> pc["sampler"] = "read"
  /\ pc["network"] = "sending" => alerts > 0

IInv == ControlOK /\ DataOK /\ HoldsOne

(* The parts give the type invariant.                                      *)
LEMMA TypeFromIInv == IInv => TypeOK
BY DEF IInv, ControlOK, DataOK, HoldsOne, TypeOK

(* They hold at first.                                                     *)
LEMMA IInvInit == Init => IInv
<1> SUFFICES ASSUME Init PROVE IInv
  OBVIOUS
<1>1. ControlOK
  BY DEF Init, ControlOK, Threads, Users, Closing
<1>2. DataOK
  <2>1. running \in BOOLEAN /\ connected \in BOOLEAN /\ foreign \in BOOLEAN
    BY DEF Init
  <2>2. alerts \in 0 .. MaxAlerts /\ late \in 0 .. 2
    BY DEF Init
  <2>3. /\ client \in Fds \cup {0} /\ arg \in [Users -> Fds \cup {0}] /\ file \in Fds \cup {0}
        /\ table \in [Fds -> Sockets \cup {"free", "file"}] /\ stage \in {"flush", "pop"}
    BY DEF Init
  <2> QED BY <2>1, <2>2, <2>3 DEF DataOK
<1>3. HoldsOne
  BY DEF Init, HoldsOne, Threads, Users
<1> QED BY <1>1, <1>2, <1>3 DEF IInv

(* disconnect() by either user.                                            *)
LEMMA IInvDisconnect ==
  ASSUME IInv, NEW p \in Users, Disconnect(p)
  PROVE  IInv'
<1> USE DEF Closing
<1>0. ControlOK /\ DataOK /\ HoldsOne /\ p \in Threads
  BY DEF IInv, Threads
<1>1. CASE ClearFlag(p)
  <2>1. ControlOK'
    BY <1>0, <1>1, StepChanges DEF ClearFlag, ControlOK, Threads, Users
  <2>2. DataOK'
    <3>1. /\ UNCHANGED <<running, client, table, arg, file, stage, alerts, late, foreign>>
          /\ connected' = FALSE
      BY <1>1 DEF ClearFlag
    <3> QED BY <1>0, <3>1 DEF DataOK
  <2>3. HoldsOne'
    BY <1>0, <1>1, StepChanges DEF ClearFlag, ControlOK, HoldsOne, Threads, Users
  <2> QED BY <2>1, <2>2, <2>3 DEF IInv
<1>2. CASE Load(p)
  <2>0. /\ UNCHANGED <<running, ret, client, connected, table, file, stage, alerts, late, foreign>>
        /\ pc[p] = "load" /\ DOMAIN pc' = Threads /\ \A q \in Threads \ {p} : pc'[q] = pc[q]
        /\ \/ client # 0 /\ pc'[p] = "close" /\ arg' = [arg EXCEPT ![p] = client]
           \/ pc'[p] = ret[p] /\ arg' = arg
    BY <1>0, <1>2, StepChanges DEF Load, shared, ControlOK
  <2>1. ControlOK'
    BY <1>0, <2>0 DEF ControlOK, Threads, Users
  <2>2. DataOK'
    BY <1>0, <2>0 DEF DataOK
  <2>3. HoldsOne'
    BY <1>0, <2>0 DEF ControlOK, DataOK, HoldsOne, Threads, Users
  <2> QED BY <2>1, <2>2, <2>3 DEF IInv
<1>3. CASE Close(p)
  <2>1. ControlOK'
    BY <1>0, <1>3, StepChanges DEF Close, ControlOK, Threads, Users
  <2>2. DataOK' /\ HoldsOne'
    BY <1>0, <1>3, StepChanges DEF Close, ControlOK, DataOK, HoldsOne, Threads, Users
  <2> QED BY <2>1, <2>2 DEF IInv
<1>4. CASE Clear(p)
  <2>1. ControlOK'
    BY <1>0, <1>4, StepChanges DEF Clear, ControlOK, Threads, Users
  <2>2. DataOK' /\ HoldsOne'
    BY <1>0, <1>4, StepChanges DEF Clear, ControlOK, DataOK, HoldsOne, Threads, Users
  <2> QED BY <2>1, <2>2 DEF IInv
<1> QED BY <1>1, <1>2, <1>3, <1>4 DEF Disconnect

(* networkLoop.                                                            *)
LEMMA IInvNetwork ==
  ASSUME IInv, NetworkStep
  PROVE  IInv'
<1> USE DEF Closing, shared
<1>0. ControlOK /\ DataOK /\ HoldsOne /\ "network" \in Threads /\ "network" \in Users
  BY DEF IInv, Threads, Users
<1>1. CASE LoopTop \/ TestConnected \/ Backoff \/ NothingToSend \/ DisconnectAgain \/ NothingToWaitFor
           \/ CheckConnected \/ Select \/ Receive
  <2>0. /\ UNCHANGED <<running, client, connected, table, arg, file, alerts, late, foreign>>
        /\ stage' \in {"flush", "pop"}
    BY <1>0, <1>1 DEF LoopTop, TestConnected, Backoff, NothingToSend, DisconnectAgain, NothingToWaitFor,
                      CheckConnected, Select, Receive, DataOK
  <2>1. /\ DOMAIN pc' = Threads /\ \A q \in Threads \ {"network"} : pc'[q] = pc[q]
        /\ pc'["network"] \in {"done", "test", "check", "flag", "top", "send", "select", "recv", "aborted"}
        /\ DOMAIN ret' = Users /\ \A q \in Users \ {"network"} : ret'[q] = ret[q]
        /\ ret'["network"] \in {"top", "socket", "backoff", "send", "again", "check"}
    BY <1>0, <1>1, StepChanges, CallChanges
       DEF LoopTop, TestConnected, Backoff, NothingToSend, DisconnectAgain, NothingToWaitFor,
           CheckConnected, Select, Receive, ControlOK
  <2> QED BY <1>0, <2>0, <2>1 DEF IInv, ControlOK, DataOK, HoldsOne, Threads, Users
<1>2. CASE MakeSocket
  <2>1. /\ UNCHANGED <<running, ret, connected, arg, file, stage, alerts, late, foreign>>
        /\ pc'["network"] \in {"connect", "backoff"}
        /\ DOMAIN pc' = Threads /\ \A q \in Threads \ {"network"} : pc'[q] = pc[q]
    BY <1>0, <1>2, StepChanges DEF MakeSocket, ControlOK
  <2>2. client' \in Fds \cup {0} /\ table' \in [Fds -> Sockets \cup {"free", "file"}]
    BY <1>0, <1>2 DEF MakeSocket, DataOK, Sockets
  <2> QED BY <1>0, <2>1, <2>2 DEF IInv, ControlOK, DataOK, HoldsOne, Threads, Users
<1>3. CASE CallConnect \/ CallSend
  <2>1. /\ UNCHANGED <<running, client, connected, table, file, stage, alerts, late, foreign>>
        /\ DOMAIN pc' = Threads /\ \A q \in Threads \ {"network"} : pc'[q] = pc[q]
        /\ DOMAIN ret' = Users /\ \A q \in Users \ {"network"} : ret'[q] = ret[q]
        /\ ret'["network"] \in {"top", "socket", "backoff", "send", "again", "check"}
    BY <1>0, <1>3, StepChanges, CallChanges DEF CallConnect, CallSend, ControlOK
  <2>2. \/ /\ pc'["network"] \in {"connecting", "sending"} /\ client # 0
           /\ arg' = [arg EXCEPT !["network"] = client]
           /\ pc'["network"] = "sending" => alerts > 0
        \/ pc'["network"] = "load" /\ UNCHANGED arg
    BY <1>0, <1>3, StepChanges, CallChanges DEF CallConnect, CallSend, ControlOK, Object
  <2>3. ControlOK'
    BY <1>0, <2>1, <2>2 DEF ControlOK, Threads, Users
  <2>4. DataOK'
    BY <1>0, <2>1, <2>2 DEF DataOK
  <2>5. HoldsOne'
    BY <1>0, <2>1, <2>2 DEF HoldsOne, DataOK, Threads, Users
  <2> QED BY <2>3, <2>4, <2>5 DEF IInv
<1>4. CASE ConnectReturns
  <2>1. /\ UNCHANGED <<running, client, connected, arg, file, stage, alerts, late, foreign>>
        /\ pc'["network"] \in {"established", "load"}
        /\ DOMAIN pc' = Threads /\ \A q \in Threads \ {"network"} : pc'[q] = pc[q]
        /\ DOMAIN ret' = Users /\ \A q \in Users \ {"network"} : ret'[q] = ret[q]
        /\ ret'["network"] \in {"top", "socket", "backoff", "send", "again", "check"}
    BY <1>0, <1>4, StepChanges, CallChanges DEF ConnectReturns, ControlOK
  <2>2. table' \in [Fds -> Sockets \cup {"free", "file"}]
    BY <1>0, <1>4 DEF ConnectReturns, DataOK, Sockets
  <2> QED BY <1>0, <2>1, <2>2 DEF IInv, ControlOK, DataOK, HoldsOne, Threads, Users
<1>5. CASE Establish
  <2>1. /\ UNCHANGED <<running, ret, client, table, arg, file, alerts, foreign>>
        /\ connected' = TRUE /\ stage' = "flush" /\ late' \in 0 .. 2
        /\ pc'["network"] = "send"
        /\ DOMAIN pc' = Threads /\ \A q \in Threads \ {"network"} : pc'[q] = pc[q]
    BY <1>0, <1>5, StepChanges DEF Establish, ControlOK, DataOK
  <2> QED BY <1>0, <2>1 DEF IInv, ControlOK, DataOK, HoldsOne, Threads, Users
<1>6. CASE SendFails
  <2>1. /\ UNCHANGED <<running, client, connected, table, arg, file, stage, alerts, late, foreign>>
        /\ pc'["network"] \in {"check", "flag"}
        /\ DOMAIN pc' = Threads /\ \A q \in Threads \ {"network"} : pc'[q] = pc[q]
        /\ DOMAIN ret' = Users /\ \A q \in Users \ {"network"} : ret'[q] = ret[q]
        /\ ret'["network"] \in {"top", "again", "check"}
    BY <1>0, <1>6, CallChanges DEF SendFails, AfterFailure, ControlOK
  <2> QED BY <1>0, <2>1 DEF IInv, ControlOK, DataOK, HoldsOne, Threads, Users
<1>7. CASE SendReturns
  <2>1. /\ UNCHANGED <<running, client, connected, table, arg, file, stage, late, foreign>>
        /\ pc["network"] = "sending" /\ alerts' \in {alerts, alerts - 1}
        /\ pc'["network"] \in {"send", "flag"}
        /\ DOMAIN pc' = Threads /\ \A q \in Threads \ {"network"} : pc'[q] = pc[q]
        /\ DOMAIN ret' = Users /\ \A q \in Users \ {"network"} : ret'[q] = ret[q]
        /\ ret'["network"] \in {"top", "socket", "backoff", "send", "again", "check"}
    BY <1>0, <1>7, StepChanges, CallChanges DEF SendReturns, ControlOK
  <2>2. alerts' \in 0 .. MaxAlerts
    BY <1>0, <2>1 DEF HoldsOne, DataOK
  <2> QED BY <1>0, <2>1, <2>2 DEF IInv, ControlOK, DataOK, HoldsOne, Threads, Users
<1> QED BY <1>0, <1>1, <1>2, <1>3, <1>4, <1>5, <1>6, <1>7, IInvDisconnect DEF NetworkStep

(* The rest: stop(), samplingLoop, the server.                             *)
LEMMA IInvOthers ==
  ASSUME IInv, Exchange \/ Join \/ SamplerStep \/ PeerLeaves
  PROVE  IInv'
<1> USE DEF Closing, shared
<1>0. ControlOK /\ DataOK /\ HoldsOne /\ "stop" \in Users /\ "stop" \in Threads /\ "sampler" \in Threads
  BY DEF IInv, Threads, Users
<1>1. CASE Exchange \/ Join
  <2>0. running' \in BOOLEAN
    BY <1>0, <1>1 DEF Exchange, Join, DataOK
  <2>1. /\ UNCHANGED <<client, connected, table, arg, file, stage, alerts, late, foreign>>
        /\ pc'["stop"] = "flag" /\ ret'["stop"] \in {"join", "ended"}
        /\ DOMAIN pc' = Threads /\ \A q \in Threads \ {"stop"} : pc'[q] = pc[q]
        /\ DOMAIN ret' = Users /\ \A q \in Users \ {"stop"} : ret'[q] = ret[q]
    BY <1>0, <1>1, CallChanges DEF Exchange, Join, ControlOK
  <2> QED BY <1>0, <2>0, <2>1 DEF IInv, ControlOK, DataOK, HoldsOne, Threads, Users
<1>2. CASE SamplerTop \/ SampleDone
  <2>1. /\ UNCHANGED <<running, ret, client, connected, table, arg, file, stage, alerts, late, foreign>>
        /\ pc["sampler"] # "read" /\ pc'["sampler"] \in {"top", "sample", "done"}
        /\ DOMAIN pc' = Threads /\ \A q \in Threads \ {"sampler"} : pc'[q] = pc[q]
    BY <1>0, <1>2, StepChanges DEF SamplerTop, SampleDone, ControlOK
  <2> QED BY <1>0, <2>1 DEF IInv, ControlOK, DataOK, HoldsOne, Threads, Users
<1>3. CASE OpenFile
  <2>1. /\ UNCHANGED <<running, ret, client, connected, arg, stage, alerts, late, foreign>>
        /\ pc'["sampler"] = "read"
        /\ DOMAIN pc' = Threads /\ \A q \in Threads \ {"sampler"} : pc'[q] = pc[q]
    BY <1>0, <1>3, StepChanges DEF OpenFile, ControlOK
  <2>2. file' \in Fds /\ table' \in [Fds -> Sockets \cup {"free", "file"}]
    BY <1>0, <1>3 DEF OpenFile, DataOK
  <2>3. file' # 0
    BY <2>2 DEF Fds
  <2> QED BY <1>0, <2>1, <2>2, <2>3 DEF IInv, ControlOK, DataOK, HoldsOne, Threads, Users
<1>4. CASE CloseFile
  <2>1. /\ UNCHANGED <<running, ret, client, connected, arg, stage, alerts, late, foreign>>
        /\ pc'["sampler"] = "sample" /\ file' = 0
        /\ DOMAIN pc' = Threads /\ \A q \in Threads \ {"sampler"} : pc'[q] = pc[q]
    BY <1>0, <1>4, StepChanges DEF CloseFile, ControlOK
  <2>2. table' \in [Fds -> Sockets \cup {"free", "file"}]
    BY <1>0, <1>4 DEF CloseFile, DataOK
  <2> QED BY <1>0, <2>1, <2>2 DEF IInv, ControlOK, DataOK, HoldsOne, Threads, Users
<1>5. CASE PeerLeaves
  <2>1. UNCHANGED <<running, pc, ret, client, connected, arg, file, stage, alerts, late, foreign>>
    BY <1>5 DEF PeerLeaves
  <2>2. table' \in [Fds -> Sockets \cup {"free", "file"}]
    BY <1>0, <1>5 DEF PeerLeaves, DataOK, Sockets
  <2> QED BY <1>0, <2>1, <2>2 DEF IInv, ControlOK, DataOK, HoldsOne
<1> QED BY <1>1, <1>2, <1>3, <1>4, <1>5 DEF SamplerStep

(* The parts of the type invariant hold in every state.                    *)
LEMMA IInvHolds == Spec => []IInv
<1>1. IInv /\ UNCHANGED vars => IInv'
  BY DEF IInv, ControlOK, DataOK, HoldsOne, vars, shared
<1>2. IInv /\ [Next]_vars => IInv'
  <2> SUFFICES ASSUME IInv, Next PROVE IInv'
    BY <1>1
  <2>1. CASE StopStep
    BY <2>1, IInvDisconnect, IInvOthers DEF StopStep, Users
  <2> QED BY <1>1, <2>1, IInvNetwork, IInvOthers DEF Next, Ended
<1> QED BY <1>2, IInvInit, PTL DEF Spec

(* The types, and a thread about to close has read a descriptor.           *)
THEOREM ChannelTypes == Spec => []TypeOK
BY IInvHolds, TypeFromIInv, PTL

-----------------------------------------------------------------------------
(* While the agent runs *)

(* Nobody else uses the channel; the only socket is the one in client_fd_,   *)
(* until it has been closed.                                                *)
Owned ==
  /\ pc["stop"] = "idle" /\ ~foreign /\ pc["network"] # "aborted"
  /\ \A d \in Fds : table[d] \in Sockets => d = client /\ pc["network"] # "clear"
  /\ client # 0 /\ pc["network"] # "clear" => table[client] \in Sockets
  /\ pc["network"] = "close" => arg["network"] = client
  /\ pc["network"] = "socket" => client = 0
  /\ pc["network"] = "select" => client # 0
  /\ file # 0 => table[file] = "file"

RunInv == running => Owned

(* disconnect() by the network thread.                                     *)
LEMMA OwnedDisconnect ==
  ASSUME IInv, Owned, running, Disconnect("network")
  PROVE  Owned'
<1>0. /\ ControlOK /\ DataOK /\ HoldsOne
      /\ "network" \in Threads /\ "network" \in Users /\ "stop" \in Threads
  BY DEF IInv, Threads, Users
<1>1. CASE ClearFlag("network")
  <2>1. /\ UNCHANGED <<client, table, arg, file, foreign>>
        /\ pc'["network"] = "load" /\ pc'["stop"] = pc["stop"] /\ pc["network"] = "flag"
    BY <1>0, <1>1, StepChanges DEF ClearFlag, ControlOK
  <2> QED BY <2>1 DEF Owned
<1>2. CASE Load("network")
  <2>1. /\ UNCHANGED <<client, table, file, foreign>> /\ pc'["stop"] = pc["stop"]
        /\ pc["network"] = "load"
        /\ \/ client # 0 /\ pc'["network"] = "close" /\ arg' = [arg EXCEPT !["network"] = client]
           \/ client = 0 /\ pc'["network"] = ret["network"] /\ arg' = arg
    BY <1>0, <1>2, StepChanges DEF Load, shared, ControlOK
  <2>2. arg'["network"] = client \/ pc'["network"] # "close"
    BY <1>0, <2>1 DEF DataOK, ControlOK
  <2>3. pc'["network"] \notin {"clear", "aborted", "select"}
    BY <1>0, <2>1 DEF ControlOK
  <2> QED BY <2>1, <2>2, <2>3 DEF Owned
<1>3. CASE Close("network")
  <2>1. /\ UNCHANGED <<client, arg, file>> /\ pc'["stop"] = pc["stop"]
        /\ pc["network"] = "close" /\ pc'["network"] = "clear"
        /\ table' = [table EXCEPT ![client] = "free"]
        /\ foreign' = (foreign \/ table[client] = "file")
    <3>1. pc["network"] = "close" /\ pc'["network"] = "clear" /\ pc'["stop"] = pc["stop"]
      BY <1>0, <1>3, StepChanges DEF Close, ControlOK
    <3>2. arg["network"] = client
      BY <3>1 DEF Owned
    <3> QED BY <1>3, <3>1, <3>2 DEF Close
  <2>2. client \in Fds /\ table[client] \in Sockets
    BY <1>0, <2>1 DEF HoldsOne, DataOK, Owned
  <2>3. \A d \in Fds : table'[d] \notin Sockets
    BY <1>0, <2>1, <2>2, Kinds DEF DataOK, Owned
  <2>4. file # 0 => table'[file] = "file"
    BY <1>0, <2>1, <2>2, Kinds DEF DataOK, Owned
  <2>5. ~foreign'
    BY <2>1, <2>2, Kinds DEF Owned
  <2> QED BY <2>1, <2>3, <2>4, <2>5 DEF Owned
<1>4. CASE Clear("network")
  <2>1. /\ UNCHANGED <<table, arg, file, foreign>> /\ pc'["stop"] = pc["stop"]
        /\ client' = 0
        /\ pc["network"] = "clear" /\ pc'["network"] = ret["network"]
    BY <1>0, <1>4, StepChanges DEF Clear, ControlOK
  <2>2. pc'["network"] \notin {"clear", "aborted", "select", "close"}
    BY <1>0, <2>1 DEF ControlOK
  <2> QED BY <2>1, <2>2 DEF Owned
<1> QED BY <1>1, <1>2, <1>3, <1>4 DEF Disconnect

(* networkLoop.                                                            *)
LEMMA OwnedNetwork ==
  ASSUME IInv, Owned, running, NetworkStep
  PROVE  Owned'
<1> USE DEF shared, Closing
<1>0. /\ ControlOK /\ DataOK /\ HoldsOne
      /\ "network" \in Threads /\ "network" \in Users /\ "stop" \in Threads
  BY DEF IInv, Threads, Users
<1>6. pc'["stop"] = pc["stop"]
  <2>1. CASE Disconnect("network")
    BY <1>0, <2>1, StepChanges DEF Disconnect, ClearFlag, Load, Close, Clear, ControlOK
  <2>2. CASE LoopTop \/ TestConnected \/ MakeSocket \/ CallConnect \/ ConnectReturns \/ Establish \/ Backoff
    BY <1>0, <2>2, StepChanges, CallChanges
       DEF LoopTop, TestConnected, MakeSocket, CallConnect, ConnectReturns, Establish, Backoff, ControlOK
  <2>3. CASE NothingToSend \/ SendFails \/ DisconnectAgain \/ CallSend \/ SendReturns
             \/ NothingToWaitFor \/ CheckConnected \/ Select \/ Receive
    BY <1>0, <2>3, StepChanges, CallChanges
       DEF NothingToSend, SendFails, DisconnectAgain, CallSend, SendReturns, NothingToWaitFor,
           CheckConnected, Select, Receive, ControlOK
  <2> QED BY <2>1, <2>2, <2>3 DEF NetworkStep
<1>1. CASE LoopTop \/ TestConnected \/ Backoff \/ NothingToSend \/ DisconnectAgain \/ NothingToWaitFor
           \/ CheckConnected \/ Receive \/ Establish \/ SendFails \/ SendReturns
  <2>0. UNCHANGED <<client, table, arg, file, foreign>>
    BY <1>1 DEF LoopTop, TestConnected, Backoff, NothingToSend, DisconnectAgain, NothingToWaitFor,
                CheckConnected, Receive, Establish, SendFails, SendReturns
  <2>1. pc["network"] \notin {"clear", "close"}
    BY <1>1 DEF LoopTop, TestConnected, Backoff, NothingToSend, DisconnectAgain, NothingToWaitFor,
                CheckConnected, Receive, Establish, SendFails, SendReturns, Call, Step
  <2>2. pc'["network"] \in {"done", "test", "check", "flag", "top", "send", "select", "recv"}
    <3>1. CASE LoopTop \/ TestConnected \/ Backoff \/ NothingToSend \/ DisconnectAgain \/ NothingToWaitFor
               \/ CheckConnected
      BY <1>0, <3>1 DEF LoopTop, TestConnected, Backoff, NothingToSend, DisconnectAgain, NothingToWaitFor,
             CheckConnected, Call, Step, ControlOK
    <3>2. CASE Receive \/ Establish \/ SendReturns
      BY <1>0, <3>2 DEF Receive, Establish, SendReturns, Call, Step, ControlOK
    <3>3. CASE SendFails
      BY <1>0, <3>3 DEF SendFails, AfterFailure, Call, Step, ControlOK
    <3> QED BY <1>1, <3>1, <3>2, <3>3
  <2>3. pc'["network"] = "select" => client # 0
    <3>1. CASE CheckConnected
      BY <3>1 DEF CheckConnected
    <3>2. CASE LoopTop \/ TestConnected \/ Backoff \/ NothingToSend \/ DisconnectAgain \/ NothingToWaitFor
      BY <1>0, <3>2 DEF LoopTop, TestConnected, Backoff, NothingToSend, DisconnectAgain, NothingToWaitFor, Call, Step, ControlOK
    <3>3. CASE Receive \/ Establish \/ SendReturns \/ SendFails
      BY <1>0, <3>3 DEF Receive, Establish, SendReturns, SendFails, AfterFailure, Call, Step, ControlOK
    <3> QED BY <1>1, <3>1, <3>2, <3>3
  <2> QED BY <1>6, <2>0, <2>1, <2>2, <2>3 DEF Owned
<1>2. CASE Select
  <2>1. /\ UNCHANGED <<client, table, arg, file, foreign>> /\ pc'["stop"] = pc["stop"]
        /\ pc["network"] = "select" /\ pc'["network"] \in {"send", "recv", "aborted"}
        /\ pc'["network"] = "aborted" => client = 0
    BY <1>0, <1>2 DEF Select, Call, Step, ControlOK
  <2> QED BY <2>1 DEF Owned
<1>3. CASE MakeSocket
  <2>1. /\ UNCHANGED <<arg, file, foreign>> /\ pc'["stop"] = pc["stop"]
        /\ pc["network"] = "socket" /\ pc'["network"] \in {"connect", "backoff"}
    BY <1>0, <1>3 DEF MakeSocket, Call, Step, ControlOK
  <2>2. client = 0 /\ \A d \in Fds : table[d] \notin Sockets
    <3>1. client = 0 /\ 0 \notin Fds
      BY <2>1 DEF Owned, Fds
    <3> QED BY <3>1 DEF Owned
  <2>3. CASE client' = 0 /\ UNCHANGED table
    BY <2>1, <2>2, <2>3 DEF Owned
  <2>4. ASSUME NEW d \in Fds, Lowest(d), client' = d, table' = [table EXCEPT ![d] = "new"]
        PROVE  Owned'
    <3>1. table[d] = "free" /\ table'[d] = "new" /\ \A e \in Fds \ {d} : table'[e] = table[e]
      BY <1>0, <2>4 DEF Lowest, DataOK
    <3>2. file # 0 => file \in Fds \ {d}
      BY <1>0, <3>1 DEF DataOK, Owned
    <3> QED BY <2>1, <2>2, <2>4, <3>1, <3>2 DEF Owned, Sockets
  <2> QED BY <1>3, <2>3, <2>4 DEF MakeSocket
<1>4. CASE CallConnect \/ CallSend
  <2>1. UNCHANGED <<client, table, file, foreign>>
    BY <1>4 DEF CallConnect, CallSend
  <2>2. pc["network"] \in {"connect", "send"}
    BY <1>0, <1>4 DEF CallConnect, CallSend, Call, Step, ControlOK
  <2>3. pc'["network"] \in {"connecting", "sending", "load"}
    BY <1>0, <1>4 DEF CallConnect, CallSend, Call, Step, ControlOK
  <2> QED BY <1>6, <2>1, <2>2, <2>3 DEF Owned
<1>5. CASE ConnectReturns
  <2>1. /\ UNCHANGED <<client, arg, file, foreign>> /\ pc'["stop"] = pc["stop"]
        /\ pc["network"] = "connecting" /\ pc'["network"] \in {"established", "load"}
    BY <1>0, <1>5 DEF ConnectReturns, Call, Step, ControlOK
  <2>2. CASE UNCHANGED table
    BY <2>1, <2>2 DEF Owned
  <2>3. CASE /\ Object(arg["network"]) = "new"
             /\ table' = [table EXCEPT ![arg["network"]] = "open"]
    <3>1. /\ arg["network"] \in Fds /\ table[arg["network"]] = "new"
      BY <1>0, <2>3 DEF Object, DataOK
    <3>2. /\ table'[arg["network"]] = "open"
          /\ \A e \in Fds \ {arg["network"]} : table'[e] = table[e]
      BY <1>0, <2>3, <3>1 DEF DataOK
    <3> QED BY <1>0, <2>1, <3>1, <3>2 DEF Owned, Sockets, DataOK
  <2> QED BY <1>5, <2>2, <2>3 DEF ConnectReturns
<1> QED BY <1>1, <1>2, <1>3, <1>4, <1>5, OwnedDisconnect DEF NetworkStep

(* The sampling thread and the server.                                     *)
LEMMA OwnedOthers ==
  ASSUME IInv, Owned, SamplerStep \/ PeerLeaves
  PROVE  Owned'
<1>0. /\ ControlOK /\ DataOK /\ HoldsOne
      /\ "stop" \in Threads /\ "network" \in Threads /\ "sampler" \in Threads
  BY DEF IInv, Threads, Users
<1>1. CASE SamplerStep
  <2>1. /\ UNCHANGED <<client, arg, foreign>>
        /\ pc'["stop"] = pc["stop"] /\ pc'["network"] = pc["network"]
    BY <1>0, <1>1, StepChanges
       DEF SamplerStep, SamplerTop, OpenFile, CloseFile, SampleDone, shared, ControlOK, Threads
  <2>2. CASE SamplerTop \/ SampleDone
    BY <2>1, <2>2 DEF SamplerTop, SampleDone, shared, Owned
  <2>3. CASE OpenFile
    <3>1. PICK d \in Fds : Lowest(d) /\ file' = d /\ table' = [table EXCEPT ![d] = "file"]
      BY <2>3 DEF OpenFile
    <3>2. /\ table[d] = "free" /\ table'[d] = "file"
          /\ \A e \in Fds \ {d} : table'[e] = table[e]
      BY <1>0, <3>1 DEF Lowest, DataOK
    <3>3. client # 0 /\ pc["network"] # "clear" => client \in Fds \ {d}
      BY <1>0, <3>2, Kinds DEF Owned, DataOK
    <3> QED BY <2>1, <3>1, <3>2, <3>3, Kinds DEF Owned
  <2>4. CASE CloseFile
    <3>1. /\ pc["sampler"] = "read" /\ file' = 0
          /\ table' = [table EXCEPT ![file] = "free"]
      BY <1>0, <2>4, StepChanges DEF CloseFile, ControlOK
    <3>2. /\ file \in Fds /\ table[file] = "file" /\ table'[file] = "free"
          /\ \A e \in Fds \ {file} : table'[e] = table[e]
      BY <1>0, <3>1 DEF HoldsOne, DataOK, Owned
    <3>3. client # 0 /\ pc["network"] # "clear" => client \in Fds \ {file}
      BY <1>0, <3>2, Kinds DEF Owned, DataOK
    <3> QED BY <2>1, <3>1, <3>2, <3>3, Kinds DEF Owned
  <2> QED BY <1>1, <2>2, <2>3, <2>4 DEF SamplerStep
<1>2. CASE PeerLeaves
  <2>1. PICK d \in Fds : table[d] = "open" /\ table' = [table EXCEPT ![d] = "dead"]
    BY <1>2 DEF PeerLeaves
  <2>2. /\ table'[d] = "dead" /\ \A e \in Fds \ {d} : table'[e] = table[e]
    BY <1>0, <2>1 DEF DataOK
  <2>3. UNCHANGED <<pc, client, arg, file, foreign>>
    BY <1>2 DEF PeerLeaves
  <2> QED BY <1>0, <2>1, <2>2, <2>3 DEF Owned, Sockets, DataOK
<1> QED BY <1>1, <1>2

(* Until stop() is called the channel is sound.                            *)
LEMMA RunInvHolds == Spec => []RunInv
<1>1. Init => RunInv
  <2> SUFFICES ASSUME Init PROVE Owned
    BY DEF RunInv
  <2>1. pc["stop"] = "idle" /\ pc["network"] = "top"
    BY DEF Init, Threads, Users
  <2>2. ~foreign /\ client = 0 /\ file = 0 /\ \A d \in Fds : table[d] = "free"
    BY DEF Init
  <2> QED BY <2>1, <2>2, Kinds DEF Owned
<1>2. IInv /\ RunInv /\ [Next]_vars => RunInv'
  <2> SUFFICES ASSUME IInv, RunInv, [Next]_vars, running' PROVE Owned'
    BY DEF RunInv
  <2>1. CASE UNCHANGED vars
    BY <2>1 DEF vars, shared, RunInv, Owned
  <2>2. CASE Exchange
    BY <2>2 DEF Exchange
  <2>3. CASE StopStep
    <3>1. running /\ pc["stop"] # "idle"
      BY <2>3, StepChanges DEF StopStep, Disconnect, Join, Call, Step, ClearFlag, Load, Close, Clear
    <3> QED BY <3>1 DEF RunInv, Owned
  <2>4. CASE NetworkStep
    <3>1. running
      BY <2>4 DEF NetworkStep, Disconnect, ClearFlag, Load, Close, Clear, LoopTop, TestConnected, MakeSocket,
                  CallConnect, ConnectReturns, Establish, Backoff, NothingToSend, SendFails,
                  DisconnectAgain, CallSend, SendReturns, NothingToWaitFor, CheckConnected,
                  Select, Receive
    <3> QED BY <2>4, <3>1, OwnedNetwork DEF RunInv
  <2>5. CASE SamplerStep \/ PeerLeaves
    <3>1. running
      BY <2>5 DEF SamplerStep, SamplerTop, OpenFile, CloseFile, SampleDone, PeerLeaves
    <3> QED BY <2>5, <3>1, OwnedOthers DEF RunInv
  <2> QED BY <2>1, <2>2, <2>3, <2>4, <2>5 DEF Next, Ended
<1> QED BY <1>1, <1>2, IInvHolds, PTL DEF Spec

(* It closes no descriptor that is not its own, and never selects on -1.    *)
THEOREM ChannelIsSafeWhileRunning == Spec => []SafeWhileRunning
<1>1. RunInv => SafeWhileRunning
  BY DEF RunInv, Owned, SafeWhileRunning
<1> QED BY <1>1, RunInvHolds, PTL

(* It keeps hold of every socket it makes.                                 *)
THEOREM ChannelKeepsItsSocket == Spec => []NoSocketIsLost
<1>1. RunInv => NoSocketIsLost
  BY DEF RunInv, Owned, NoSocketIsLost
<1> QED BY <1>1, RunInvHolds, PTL

-----------------------------------------------------------------------------
(* After stop() *)

(* A thread that has connected after stop() is past connecting for good.    *)
LateInv ==
  late = 0 \/ /\ late = 1 /\ ~running
              /\ pc["network"] \notin {"test", "socket", "connect", "connecting", "established"}
              /\ ret["network"] = "socket" => pc["network"] \notin Closing

(* The network thread reads is_running_ before it connects again.          *)
LEMMA LateInvNext == IInv /\ LateInv /\ [Next]_vars => LateInv'
<1> SUFFICES ASSUME IInv, LateInv, [Next]_vars PROVE LateInv'
  OBVIOUS
<1> USE DEF shared, Closing
<1>0. /\ ControlOK /\ "network" \in Threads /\ "network" \in Users
      /\ "stop" \in Threads /\ "stop" \in Users /\ "sampler" \in Threads
  BY DEF IInv, Threads, Users
<1>1. CASE UNCHANGED vars
  BY <1>1 DEF vars, LateInv
<1>2. CASE Exchange \/ StopStep \/ SamplerStep \/ PeerLeaves
  <2>1. pc'["network"] = pc["network"] /\ ret'["network"] = ret["network"] /\ late' = late
    BY <1>0, <1>2, StepChanges, CallChanges
       DEF Exchange, StopStep, Join, Disconnect, ClearFlag, Load, Close, Clear, SamplerStep,
           SamplerTop, OpenFile, CloseFile, SampleDone, PeerLeaves, ControlOK, Threads, Users
  <2>2. running' => running
    BY <1>2 DEF Exchange, StopStep, Join, Disconnect, ClearFlag, Load, Close, Clear, SamplerStep,
                SamplerTop, OpenFile, CloseFile, SampleDone, PeerLeaves
  <2> QED BY <2>1, <2>2 DEF LateInv
<1>3. CASE Disconnect("network")
  <2>1. /\ late' = late /\ running' = running /\ ret' = ret /\ pc["network"] \in Closing
        /\ pc'["network"] \in Closing \cup {ret["network"]}
    BY <1>0, <1>3, StepChanges DEF Disconnect, ClearFlag, Load, Close, Clear, ControlOK
  <2> QED BY <1>0, <2>1 DEF LateInv, ControlOK
<1>4. CASE LoopTop \/ TestConnected
  <2>1. UNCHANGED <<late, running>>
    BY <1>4 DEF LoopTop, TestConnected
  <2>2. CASE running
    BY <2>1, <2>2 DEF LateInv
  <2>3. CASE ~running /\ LoopTop
    <3>1. pc'["network"] = "done"
      BY <1>0, <2>3, StepChanges DEF LoopTop, ControlOK
    <3> QED BY <2>1, <2>3, <3>1 DEF LateInv
  <2>4. CASE TestConnected
    <3>1. pc["network"] = "test"
      BY <1>0, <2>4, StepChanges, CallChanges DEF TestConnected, ControlOK
    <3> QED BY <2>1, <3>1 DEF LateInv
  <2> QED BY <1>4, <2>2, <2>3, <2>4
<1>5. CASE Establish
  <2>1. /\ pc["network"] = "established" /\ pc'["network"] = "send" /\ running' = running
        /\ late' = IF running \/ late = 2 THEN late ELSE late + 1
    BY <1>0, <1>5, StepChanges DEF Establish, ControlOK
  <2> QED BY <1>0, <2>1 DEF LateInv, ControlOK
<1>6. CASE MakeSocket \/ CallConnect \/ ConnectReturns
  <2>1. /\ pc["network"] \in {"socket", "connect", "connecting"} /\ late' = late
    BY <1>0, <1>6, StepChanges, CallChanges DEF MakeSocket, CallConnect, ConnectReturns, ControlOK
  <2> QED BY <2>1 DEF LateInv
<1>7. CASE Backoff \/ NothingToSend \/ DisconnectAgain \/ CallSend \/ NothingToWaitFor
           \/ CheckConnected \/ Select
  <2>1. /\ late' = late /\ running' = running
        /\ pc'["network"] \in {"top", "check", "send", "sending", "select", "recv", "aborted"}
           \/ (pc'["network"] = "flag" /\ ret'["network"] = "top")
    BY <1>0, <1>7, StepChanges, CallChanges
       DEF Backoff, NothingToSend, DisconnectAgain, CallSend, NothingToWaitFor, CheckConnected,
           Select, ControlOK
  <2> QED BY <2>1 DEF LateInv
<1>8. CASE SendFails \/ SendReturns \/ Receive
  <2>1. /\ late' = late /\ running' = running
        /\ \/ pc'["network"] \in {"send", "check"}
           \/ pc'["network"] = "flag" /\ ret'["network"] # "socket"
    BY <1>0, <1>8, StepChanges, CallChanges
       DEF SendFails, AfterFailure, SendReturns, Receive, ControlOK
  <2> QED BY <2>1 DEF LateInv
<1> QED BY <1>1, <1>2, <1>3, <1>4, <1>5, <1>6, <1>7, <1>8 DEF Next, NetworkStep, Ended

(* One connection at most is made after stop() has been called.            *)
THEOREM OneLateConnection == Spec => []LateConnectOnce
<1>1. Init => LateInv
  BY DEF Init, LateInv
<1>2. LateInv => LateConnectOnce
  BY DEF LateInv, LateConnectOnce
<1> QED BY <1>1, <1>2, LateInvNext, IInvHolds, PTL DEF Spec
=============================================================================
