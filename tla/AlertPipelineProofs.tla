------------------------ MODULE AlertPipelineProofs ------------------------
(***************************************************************************)
(* Proofs about AlertPipeline, for every queue capacity and every number of *)
(* alerts, faults and connections.                                          *)
(***************************************************************************)
EXTENDS AlertPipeline, SeqLemmas, FiniteSetTheorems

USE CapacityAssumption, BoundsAssumption

(* A push keeps the queue a sequence of its elements within its capacity.  *)
LEMMA PushType ==
  ASSUME NEW S, NEW q \in Seq(S), NEW e \in S, Len(q) <= Capacity
  PROVE  /\ Push(q, e) \in Seq(S) /\ Len(Push(q, e)) <= Capacity
         /\ Range(Push(q, e)) = {e} \cup IF IsFull(q) THEN Range(Tail(q)) ELSE Range(q)
         /\ IsFull(q) => q # <<>>
         /\ IsInjective(q) /\ e \notin Range(q) => IsInjective(Push(q, e))
<1>1. CASE IsFull(q)
  <2>1. q # <<>>
    BY <1>1, EmptySeq DEF IsFull
  <2>2. /\ Tail(q) \in Seq(S) /\ Len(Tail(q)) = Len(q) - 1
        /\ Range(q) = {Head(q)} \cup Range(Tail(q))
        /\ IsInjective(q) => IsInjective(Tail(q))
    BY <2>1, RangeTail
  <2>3. /\ Append(Tail(q), e) \in Seq(S)
        /\ Len(Append(Tail(q), e)) = Len(Tail(q)) + 1
    BY <2>2, AppendProperties
  <2>4. /\ Range(Append(Tail(q), e)) = Range(Tail(q)) \cup {e}
        /\ IsInjective(Tail(q)) /\ e \notin Range(Tail(q)) => IsInjective(Append(Tail(q), e))
    <3>1. Tail(q) \in Seq(S)
      BY <2>2
    <3> QED BY <3>1, RangeAppend
  <2>5. Push(q, e) = Append(Tail(q), e)
    BY <1>1 DEF Push
  <2> QED BY <1>1, <2>1, <2>2, <2>3, <2>4, <2>5, LenProperties
<1>2. CASE ~IsFull(q)
  <2>1. Push(q, e) = Append(q, e)
    BY <1>2 DEF Push
  <2>2. Append(q, e) \in Seq(S) /\ Len(Append(q, e)) = Len(q) + 1 /\ Len(q) \in Nat
    BY AppendProperties, LenProperties
  <2>3. Len(q) < Capacity
    BY <1>2, <2>2 DEF IsFull
  <2> QED BY <1>2, <2>1, <2>2, <2>3, RangeAppend
<1> QED BY <1>1, <1>2

-----------------------------------------------------------------------------
(* The type invariant *)

(* The initial state has the types.                                        *)
LEMMA TypeInit == Init => TypeOK
<1> SUFFICES ASSUME Init PROVE TypeOK
  OBVIOUS
<1>1. <<>> \in Seq(Alerts) /\ Len(<<>>) = 0
  BY EmptySeq
<1> QED BY <1>1 DEF Init, TypeOK, PCs, ConnStates, Conns

(* The steps of the agent keep the types.                                  *)
LEMMA TypeAgent == TypeOK /\ (Raise \/ NetworkStep) => TypeOK'
<1> SUFFICES ASSUME TypeOK, Raise \/ NetworkStep PROVE TypeOK'
  OBVIOUS
<1> USE DEF At, Goto, netVars, serverVars, PCs, ConnStates, Conns
<1>e. <<>> \in Seq(Alerts) /\ Len(<<>>) = 0
  BY EmptySeq
<1>h. hand # <<>> => /\ Head(hand) \in Alerts /\ Tail(hand) \in Seq(Alerts)
                     /\ Len(Tail(hand)) = Len(hand) - 1
  BY HeadTailProperties DEF TypeOK
<1>n. \A s \in Seq(Alerts) : Len(s) \in Nat /\ (s = <<>> <=> Len(s) = 0)
  BY EmptySeq, LenProperties
<1>1. CASE Raise
  <2>1. raised + 1 \in Alerts /\ raised + 1 \in 0 .. MaxAlerts
    BY <1>1 DEF Raise, TypeOK, Alerts
  <2>2. Push(queue, raised + 1) \in Seq(Alerts) /\ Len(Push(queue, raised + 1)) <= Capacity
    BY <2>1, PushType DEF TypeOK
  <2> QED BY <1>1, <2>1, <2>2 DEF Raise, TypeOK
<1>2. CASE StayConnected \/ ConnectRefused \/ BackoffOver \/ ReceiveNothing
  BY <1>2 DEF StayConnected, ConnectRefused, BackoffOver, ReceiveNothing, TypeOK
<1>3. CASE Connect
  BY <1>3 DEF Connect, TypeOK
<1>4. CASE DrainAll
  BY <1>4, <1>e DEF DrainAll, Drained, AfterDrain, TypeOK
<1>5. CASE FlushOne
  <2>1. hand # <<>> /\ Head(hand) \in Alerts
    BY <1>5, <1>h DEF FlushOne, TypeOK
  <2>2. CASE SendOk(cli, Head(hand)) /\ hand' = Tail(hand) /\ cli' = cli
             /\ pc' = IF Len(hand) = 1 THEN "receive" ELSE "flush"
    <3>1. wire' \in [Conns -> Seq(Alerts)]
      BY <2>1, <2>2, AppendProperties DEF SendOk, TypeOK
    <3>2. hand' \in Seq(Alerts) /\ (hand' # <<>> <=> pc' = "flush") /\ pc' \in {"receive", "flush"}
      <4>1. Tail(hand) \in Seq(Alerts) /\ Len(Tail(hand)) = Len(hand) - 1
        BY <1>h, <2>1
      <4>2. Len(hand) \in Nat /\ (Tail(hand) = <<>> <=> Len(Tail(hand)) = 0)
        BY <1>n, <4>1 DEF TypeOK
      <4> QED BY <2>2, <4>1, <4>2
    <3> QED BY <1>5, <2>2, <3>1, <3>2 DEF FlushOne, TypeOK
  <2>3. CASE hand' = <<>> /\ pc' = "receive" /\ cli' = 0 /\ wire' = wire
    BY <1>5, <2>3, <1>e DEF FlushOne, TypeOK
  <2> QED BY <1>5, <2>2, <2>3 DEF FlushOne
<1>6. CASE ReceiveBroken
  BY <1>6 DEF ReceiveBroken, TypeOK
<1>7. CASE Pop
  <2>1. CASE queue # <<>>
    <3>1. Head(queue) \in Alerts /\ Tail(queue) \in Seq(Alerts) /\ Len(Tail(queue)) = Len(queue) - 1
      BY <2>1, HeadTailProperties DEF TypeOK
    <3>2. <<Head(queue)>> \in Seq(Alerts) /\ Len(<<Head(queue)>>) = 1 /\ <<Head(queue)>> # <<>>
      BY <3>1
    <3>3. hand' = <<Head(queue)>> /\ queue' = Tail(queue) /\ pc' = "send"
      BY <1>7, <2>1 DEF Pop, CanPop, Oldest, AfterPop
    <3>4. Len(queue') <= Capacity
      BY <1>n, <3>1, <3>3 DEF TypeOK
    <3>5. hand' \in Seq(Alerts) /\ Len(hand') = 1 /\ hand' # <<>>
      BY <3>2, <3>3
    <3>6. UNCHANGED <<raised, cli, conns, conn, wire, up, accepted, srv, rx, log, faults>>
      BY <1>7 DEF Pop
    <3> QED BY <3>1, <3>3, <3>4, <3>5, <3>6 DEF TypeOK
  <2>2. CASE queue = <<>>
    BY <1>7, <2>2 DEF Pop, CanPop, TypeOK
  <2> QED BY <2>1, <2>2
<1>8. CASE SendOne
  <2>1. hand # <<>> /\ Head(hand) \in Alerts
    BY <1>8, <1>h DEF SendOne, TypeOK
  <2>2. CASE SendOk(cli, Head(hand)) /\ pc' = "pop" /\ UNCHANGED <<queue, cli>>
    <3>1. wire' \in [Conns -> Seq(Alerts)]
      BY <2>1, <2>2, AppendProperties DEF SendOk, TypeOK
    <3> QED BY <1>8, <1>e, <2>2, <3>1 DEF SendOne, TypeOK
  <2>3. CASE queue' = Requeue(queue, Head(hand)) /\ cli' = 0 /\ pc' = "top" /\ wire' = wire
    <3>1. queue' \in Seq(Alerts) /\ Len(queue') <= Capacity
      BY <2>1, <2>3, PushType DEF Requeue, TypeOK
    <3> QED BY <1>8, <1>e, <2>3, <3>1 DEF SendOne, TypeOK
  <2> QED BY <1>8, <2>2, <2>3 DEF SendOne
<1> QED BY <1>1, <1>2, <1>3, <1>4, <1>5, <1>6, <1>7, <1>8 DEF NetworkStep

(* The steps of the server keep the types.                                 *)
LEMMA TypeServer == TypeOK /\ (ServerStep \/ ReloadConfig) => TypeOK'
<1> SUFFICES ASSUME TypeOK, ServerStep \/ ReloadConfig PROVE TypeOK'
  OBVIOUS
<1> USE DEF agentVars, netVars, PCs, ConnStates, Conns
<1>e. <<>> \in Seq(Alerts)
  BY EmptySeq
<1>p. ASSUME NEW c \in Conns, c <= accepted', PushConfig(c)
      PROVE  /\ conn' \in [Conns -> ConnStates] /\ srv' \in {0, c}
             /\ wire' \in [Conns -> Seq(Alerts)]
  BY <1>e, <1>p DEF PushConfig, TypeOK
<1>w. ASSUME NEW e \in Alerts, WriteAlertLog(e)
      PROVE  log' \in Seq(Alerts) /\ faults' \in 0 .. MaxFaults
  <2>1. Append(log, e) \in Seq(Alerts)
    BY <1>w, AppendProperties DEF TypeOK
  <2>2. faults' \in 0 .. MaxFaults
    BY <1>w DEF WriteAlertLog, TypeOK
  <2> QED BY <1>w, <2>1, <2>2 DEF WriteAlertLog, TypeOK
<1>1. CASE Accept
  <2>1. accepted + 1 \in Conns /\ accepted' = accepted + 1
    BY <1>1 DEF Accept, TypeOK
  <2>2. /\ conn' \in [Conns -> ConnStates] /\ srv' \in {0, accepted + 1}
        /\ wire' \in [Conns -> Seq(Alerts)]
    <3>1. CASE PushConfig(accepted + 1)
      BY <1>p, <2>1, <3>1
    <3>2. CASE srv' = accepted + 1 /\ UNCHANGED <<conn, wire>>
      BY <3>2 DEF TypeOK
    <3> QED BY <1>1, <3>1, <3>2 DEF Accept
  <2>3. rx' = <<>> /\ accepted < conns
        /\ UNCHANGED <<raised, queue, hand, pc, cli, conns, up, log, faults>>
    BY <1>1 DEF Accept
  <2>4. accepted' \in 0 .. conns' /\ srv' \in 0 .. accepted'
    BY <2>1, <2>2, <2>3 DEF TypeOK
  <2> QED BY <1>e, <2>2, <2>3, <2>4 DEF TypeOK
<1>2. CASE ReloadConfig
  <2>1. srv \in Conns /\ accepted' = accepted /\ srv <= accepted
    BY <1>2 DEF ReloadConfig, TypeOK
  <2>2. /\ conn' \in [Conns -> ConnStates] /\ srv' \in {0, srv}
        /\ wire' \in [Conns -> Seq(Alerts)]
    BY <1>2, <1>p, <2>1 DEF ReloadConfig, TypeOK
  <2>3. UNCHANGED <<raised, queue, hand, pc, cli, conns, up, accepted, rx, log, faults>>
    BY <1>2 DEF ReloadConfig
  <2>4. srv' \in 0 .. accepted'
    BY <2>1, <2>2, <2>3 DEF TypeOK
  <2> QED BY <2>2, <2>3, <2>4 DEF TypeOK
<1>3. CASE TakeBuffered
  <2>1. rx # <<>> /\ Head(rx) \in Alerts /\ Tail(rx) \in Seq(Alerts)
    BY <1>3, HeadTailProperties DEF TakeBuffered, TypeOK
  <2>2. log' \in Seq(Alerts) /\ faults' \in 0 .. MaxFaults
    BY <1>3, <1>w, <2>1 DEF TakeBuffered
  <2>3. rx' = Tail(rx)
        /\ UNCHANGED <<raised, queue, hand, pc, cli, conns, conn, wire, up, accepted, srv>>
    BY <1>3 DEF TakeBuffered
  <2> QED BY <2>1, <2>2, <2>3 DEF TypeOK
<1>4. CASE TakeChunk
  <2>1. srv \in Conns /\ wire[srv] \in Seq(Alerts)
    BY <1>4 DEF TakeChunk, TypeOK
  <2>2. PICK k \in 1 .. Len(wire[srv]) :
          /\ rx' = SubSeq(wire[srv], 2, k)
          /\ WriteAlertLog(Head(wire[srv]))
          /\ wire' = [wire EXCEPT ![srv] = SubSeq(@, k + 1, Len(@))]
    BY <1>4 DEF TakeChunk
  <2>3. /\ Head(wire[srv]) \in Alerts /\ SubSeq(wire[srv], 2, k) \in Seq(Alerts)
        /\ SubSeq(wire[srv], k + 1, Len(wire[srv])) \in Seq(Alerts)
    BY <2>1, RangeChunk
  <2>4. log' \in Seq(Alerts) /\ faults' \in 0 .. MaxFaults
    BY <1>w, <2>2, <2>3
  <2>5. wire' \in [Conns -> Seq(Alerts)]
    BY <2>1, <2>2, <2>3 DEF TypeOK
  <2> QED BY <1>4, <2>2, <2>3, <2>4, <2>5 DEF TakeChunk, TypeOK
<1>5. CASE ServerDisconnect
  BY <1>5 DEF ServerDisconnect, TypeOK
<1> QED BY <1>1, <1>2, <1>3, <1>4, <1>5 DEF ServerStep

(* Broken connections, crashes and restarts keep the types.                *)
LEMMA TypeFaults ==
  TypeOK /\ (Breaks \/ AgentStop \/ AgentStart \/ ServerStop \/ ServerStart) => TypeOK'
<1> SUFFICES ASSUME TypeOK, Breaks \/ AgentStop \/ AgentStart \/ ServerStop \/ ServerStart
             PROVE  TypeOK'
  OBVIOUS
<1> USE DEF agentVars, netVars, serverVars, PCs, ConnStates, Conns, Goto, At, Fault
<1>e. <<>> \in Seq(Alerts) /\ Len(<<>>) = 0
  BY EmptySeq
<1>1. CASE Breaks
  <2>1. PICK c \in Conns, s \in {"halfopen", "dead"} :
          \E k \in 0 .. Len(wire[c]) : Break(c, k, s)
    BY <1>1 DEF Breaks
  <2>2. PICK k \in 0 .. Len(wire[c]) : Break(c, k, s)
    BY <2>1
  <2>3. wire[c] \in Seq(Alerts) /\ Len(wire[c]) \in Nat
    BY <2>1, LenProperties DEF TypeOK
  <2>4. SubSeq(wire[c], 1, k) \in Seq(Alerts)
    BY <2>3, RangeSubSeq
  <2>5. conn' \in [Conns -> ConnStates] /\ wire' \in [Conns -> Seq(Alerts)]
    BY <2>1, <2>2, <2>4 DEF Break, TypeOK
  <2>6. faults' \in 0 .. MaxFaults
    BY <2>2 DEF Break, TypeOK
  <2>7. UNCHANGED <<raised, queue, hand, pc, cli, conns, up, accepted, srv, rx, log>>
    BY <2>2 DEF Break
  <2> QED BY <2>5, <2>6, <2>7 DEF TypeOK
<1>2. CASE AgentStop
  <2>1. conn' \in [Conns -> ConnStates]
    BY <1>2 DEF AgentStop, TypeOK
  <2>2. faults' \in 0 .. MaxFaults
    BY <1>2 DEF AgentStop, TypeOK
  <2>3. /\ queue' = <<>> /\ hand' = <<>> /\ cli' = 0 /\ pc' = "stopped"
        /\ UNCHANGED <<raised, conns, wire, up, accepted, srv, rx, log>>
    BY <1>2 DEF AgentStop
  <2> QED BY <1>e, <2>1, <2>2, <2>3 DEF TypeOK
<1>3. CASE AgentStart
  BY <1>3 DEF AgentStart, TypeOK
<1>4. CASE ServerStop
  <2>1. conn' \in [Conns -> ConnStates] /\ wire' \in [Conns -> Seq(Alerts)]
    BY <1>4, <1>e DEF ServerStop
  <2>2. faults' \in 0 .. MaxFaults
    BY <1>4 DEF ServerStop, TypeOK
  <2>3. /\ up' = FALSE /\ srv' = 0 /\ rx' = <<>> /\ accepted' = conns
        /\ UNCHANGED <<raised, queue, hand, pc, cli, conns, log>>
    BY <1>4 DEF ServerStop
  <2>4. accepted' \in 0 .. conns' /\ srv' \in 0 .. accepted'
    BY <2>3 DEF TypeOK
  <2> QED BY <1>e, <2>1, <2>2, <2>3, <2>4 DEF TypeOK
<1>5. CASE ServerStart
  BY <1>5 DEF ServerStart, TypeOK
<1> QED BY <1>1, <1>2, <1>3, <1>4, <1>5

(* TypeOK holds in every reachable state: in particular the queue never    *)
(* outgrows its capacity, however pushes of the sampler and requeues of the *)
(* network thread interleave.                                               *)
THEOREM TypeCorrect == Spec => []TypeOK
<1>1. TypeOK /\ UNCHANGED vars => TypeOK'
  BY DEF TypeOK, vars, agentVars, netVars, serverVars
<1>2. TypeOK /\ [Next]_vars => TypeOK'
  BY <1>1, TypeAgent, TypeServer, TypeFaults DEF Next
<1> QED BY TypeInit, <1>2, PTL DEF Spec

-----------------------------------------------------------------------------
(* No alert is in two places *)

(* At first every place is empty.                                          *)
LEMMA NoDuplicatesInit == Init => NoDuplicates
<1> SUFFICES ASSUME Init PROVE NoDuplicates
  OBVIOUS
<1>1. \A c \in Conns : wire[c] = <<>>
  BY DEF Init
<1> QED BY <1>1, RangeSmall DEF Init, NoDuplicates, Underway, InAgent, OnWire

(* A step after which every place holds a part of what it held.            *)
LEMMA LossKeepsApart ==
  ASSUME NoDuplicates, UNCHANGED <<raised, log>>,
         IsInjective(queue'), Range(queue') \subseteq Range(queue),
         IsInjective(hand'), Range(hand') \subseteq Range(hand),
         IsInjective(rx'), Range(rx') \subseteq Range(rx),
         \A c \in Conns : IsInjective(wire'[c]) /\ Range(wire'[c]) \subseteq Range(wire[c])
  PROVE  NoDuplicates'
<1>1. OnWire' \subseteq OnWire /\ InAgent' \subseteq InAgent /\ Underway' \subseteq Underway
  BY DEF OnWire, InAgent, Underway
<1>2. \A c, d \in Conns : c # d => Range(wire'[c]) \cap Range(wire'[d]) = {}
  BY DEF NoDuplicates
<1>3. IsInjective(log')
  BY DEF NoDuplicates
<1>4. Range(queue') \cap Range(hand') = {}
  BY DEF NoDuplicates
<1>5. /\ InAgent' \cap OnWire' = {} /\ (InAgent' \cup OnWire') \cap Range(rx') = {}
  BY <1>1 DEF NoDuplicates
<1>6. /\ Underway' \cap Range(log') = {} /\ Underway' \cup Range(log') \subseteq 1 .. raised'
  BY <1>1 DEF NoDuplicates
<1> QED BY <1>2, <1>3, <1>4, <1>5, <1>6 DEF NoDuplicates

(* A new alert is in no other place when it is pushed.                     *)
LEMMA NoDuplicatesSampler == TypeOK /\ NoDuplicates /\ Raise => NoDuplicates'
<1> SUFFICES ASSUME TypeOK, NoDuplicates, Raise PROVE NoDuplicates'
  OBVIOUS
<1> DEFINE n == raised + 1
<1>1. /\ raised' = n /\ queue' = Push(queue, n)
      /\ UNCHANGED <<hand, wire, rx, log>>
  BY DEF Raise, netVars, serverVars
<1>2. n \in Alerts /\ raised \in Nat /\ n \notin 1 .. raised /\ 1 .. raised \subseteq 1 .. n
  BY DEF Raise, TypeOK, Alerts
<1>3. n \notin Underway \cup Range(log)
  BY <1>2 DEF NoDuplicates
<1>4. /\ Range(queue') \subseteq Range(queue) \cup {n}
      /\ IsInjective(queue')
  <2>1. IsFull(queue) => Range(Tail(queue)) \subseteq Range(queue)
    BY <1>2, PushType, RangeTail DEF TypeOK
  <2> QED BY <1>1, <1>2, <1>3, <2>1, PushType DEF TypeOK, NoDuplicates, Underway, InAgent
<1>5. OnWire' = OnWire /\ InAgent' \subseteq InAgent \cup {n} /\ Underway' \subseteq Underway \cup {n}
  BY <1>1, <1>4 DEF OnWire, InAgent, Underway
<1>6. n \in 1 .. n
  BY <1>2
<1>7. \A c \in Conns : wire'[c] = wire[c]
  BY <1>1
<1>8. Range(queue') \cap Range(hand') = {}
  BY <1>1, <1>3, <1>4 DEF NoDuplicates, Underway, InAgent
<1>9. /\ InAgent' \cap OnWire' = {} /\ (InAgent' \cup OnWire') \cap Range(rx') = {}
      /\ Underway' \cap Range(log') = {}
  BY <1>1, <1>3, <1>5 DEF NoDuplicates, Underway, InAgent
<1>10. Underway' \cup Range(log') \subseteq 1 .. raised'
  BY <1>1, <1>2, <1>5, <1>6 DEF NoDuplicates
<1>11. IsInjective(hand') /\ IsInjective(rx') /\ IsInjective(log')
  BY <1>1 DEF NoDuplicates
<1> QED BY <1>4, <1>7, <1>8, <1>9, <1>10, <1>11 DEF NoDuplicates

(* The first event of the hand goes to the wire, or nowhere.               *)
LEMMA SendKeepsApart ==
  ASSUME TypeOK, NoDuplicates, hand # <<>>, SendOk(cli, Head(hand)), hand' = Tail(hand),
         UNCHANGED <<raised, queue, rx, log>>
  PROVE  NoDuplicates'
<1> DEFINE e == Head(hand)
<1>1. /\ e \in Alerts /\ Range(hand) = {e} \cup Range(hand')
      /\ IsInjective(hand') /\ e \notin Range(hand')
  BY RangeTail DEF TypeOK, NoDuplicates
<1>2. CASE wire' = wire
  <2>1. \A c \in Conns : IsInjective(wire'[c]) /\ Range(wire'[c]) \subseteq Range(wire[c])
    BY <1>2 DEF NoDuplicates
  <2> QED BY <1>1, <2>1, LossKeepsApart DEF NoDuplicates
<1>3. CASE wire' # wire
  <2>1. cli \in Conns /\ wire' = [wire EXCEPT ![cli] = Append(@, e)]
    BY <1>3 DEF SendOk, TypeOK, Conns
  <2>2. e \notin OnWire /\ \A c \in Conns : e \notin Range(wire[c])
    BY <1>1 DEF NoDuplicates, InAgent, OnWire
  <2>3. Range(wire'[cli]) = Range(wire[cli]) \cup {e} /\ IsInjective(wire'[cli])
    <3>1. wire[cli] \in Seq(Alerts) /\ wire'[cli] = Append(wire[cli], e)
      BY <2>1 DEF TypeOK
    <3> QED BY <1>1, <2>1, <2>2, <3>1, RangeAppend DEF NoDuplicates
  <2>4. \A c \in Conns \ {cli} : wire'[c] = wire[c]
    BY <2>1 DEF TypeOK
  <2>5. OnWire' = OnWire \cup {e}
    BY <2>1, <2>3, <2>4 DEF OnWire
  <2>6. \A c, d \in Conns : c # d => Range(wire'[c]) \cap Range(wire'[d]) = {}
    <3> SUFFICES ASSUME NEW c \in Conns, NEW d \in Conns, c # d
                 PROVE  Range(wire'[c]) \cap Range(wire'[d]) = {}
      OBVIOUS
    <3>1. Range(wire[c]) \cap Range(wire[d]) = {}
      BY DEF NoDuplicates
    <3>2. CASE c = cli
      BY <2>2, <2>3, <2>4, <3>1, <3>2
    <3>3. CASE d = cli
      BY <2>2, <2>3, <2>4, <3>1, <3>3
    <3>4. CASE c # cli /\ d # cli
      BY <2>4, <3>1, <3>4
    <3> QED BY <3>2, <3>3, <3>4
  <2>7. \A c \in Conns : IsInjective(wire'[c])
    BY <2>3, <2>4 DEF NoDuplicates
  <2>8. /\ InAgent' \subseteq InAgent /\ e \notin InAgent' /\ Underway' \subseteq Underway
    <3>1. InAgent' = Range(queue) \cup Range(hand') /\ InAgent = Range(queue) \cup Range(hand)
      BY DEF InAgent
    <3>2. e \notin Range(queue) /\ e \in Range(hand)
      BY <1>1 DEF NoDuplicates
    <3> QED BY <1>1, <2>5, <3>1, <3>2 DEF Underway
  <2>9. InAgent' \cap OnWire' = {} /\ (InAgent' \cup OnWire') \cap Range(rx') = {}
    <3>1. e \notin Range(rx)
      BY <1>1 DEF NoDuplicates, InAgent
    <3> QED BY <2>5, <2>8, <3>1 DEF NoDuplicates
  <2>10. Range(queue') \cap Range(hand') = {}
    BY <1>1 DEF NoDuplicates
  <2>11. Underway' \cap Range(log') = {} /\ Underway' \cup Range(log') \subseteq 1 .. raised'
    BY <2>8 DEF NoDuplicates
  <2>12. IsInjective(queue') /\ IsInjective(rx') /\ IsInjective(log')
    BY DEF NoDuplicates
  <2> QED BY <1>1, <2>6, <2>7, <2>9, <2>10, <2>11, <2>12 DEF NoDuplicates
<1> QED BY <1>2, <1>3

(* Events move between the queue and the hand.                             *)
LEMMA MoveInAgentKeepsApart ==
  ASSUME NoDuplicates, UNCHANGED <<raised, wire, rx, log>>,
         IsInjective(queue'), IsInjective(hand'), Range(queue') \cap Range(hand') = {},
         InAgent' \subseteq InAgent
  PROVE  NoDuplicates'
<1>1. OnWire' = OnWire /\ Underway' \subseteq Underway
  BY DEF OnWire, Underway
<1>2. \A c \in Conns : wire'[c] = wire[c]
  OBVIOUS
<1>3. /\ InAgent' \cap OnWire' = {} /\ (InAgent' \cup OnWire') \cap Range(rx') = {}
      /\ Underway' \cap Range(log') = {} /\ Underway' \cup Range(log') \subseteq 1 .. raised'
  BY <1>1 DEF NoDuplicates
<1>4. IsInjective(rx') /\ IsInjective(log')
  BY DEF NoDuplicates
<1> QED BY <1>2, <1>3, <1>4 DEF NoDuplicates

(* The network thread moves alerts, it never copies one.                   *)
LEMMA NoDuplicatesNetwork == TypeOK /\ NoDuplicates /\ NetworkStep => NoDuplicates'
<1> SUFFICES ASSUME TypeOK, NoDuplicates, NetworkStep PROVE NoDuplicates'
  OBVIOUS
<1> USE DEF At, Goto, netVars, serverVars
<1>0. /\ IsInjective(queue) /\ IsInjective(hand) /\ IsInjective(rx)
      /\ \A c \in Conns : IsInjective(wire[c])
  BY DEF NoDuplicates
<1>1. CASE StayConnected \/ Connect \/ ConnectRefused \/ BackoffOver
           \/ ReceiveNothing \/ ReceiveBroken
  <2>1. UNCHANGED <<raised, queue, hand, wire, rx, log>>
    BY <1>1 DEF StayConnected, Connect, ConnectRefused, BackoffOver, ReceiveNothing, ReceiveBroken
  <2> QED BY <1>0, <2>1, LossKeepsApart
<1>2. CASE DrainAll
  <2>1. /\ hand' = queue /\ queue' = <<>> /\ hand = <<>>
        /\ UNCHANGED <<raised, wire, rx, log>>
    BY <1>2 DEF DrainAll, Drained, AfterDrain, TypeOK
  <2>2. InAgent' \subseteq InAgent /\ Range(queue') \cap Range(hand') = {} /\ IsInjective(queue')
    BY <2>1, RangeSmall DEF InAgent
  <2> QED BY <1>0, <2>1, <2>2, MoveInAgentKeepsApart
<1>3. CASE FlushOne
  <2>1. hand # <<>> /\ UNCHANGED <<raised, queue, rx, log>>
    BY <1>3 DEF FlushOne, TypeOK
  <2>2. CASE SendOk(cli, Head(hand)) /\ hand' = Tail(hand)
    BY <2>1, <2>2, SendKeepsApart
  <2>3. CASE hand' = <<>> /\ wire' = wire
    <3>1. IsInjective(hand') /\ Range(hand') \subseteq Range(hand)
      BY <2>3, RangeSmall
    <3> QED BY <1>0, <2>1, <2>3, <3>1, LossKeepsApart
  <2> QED BY <1>3, <2>2, <2>3 DEF FlushOne
<1>4. CASE Pop
  <2>1. CASE queue # <<>>
    <3>1. /\ hand' = <<Head(queue)>> /\ queue' = Tail(queue) /\ hand = <<>>
          /\ UNCHANGED <<raised, wire, rx, log>>
      BY <1>4, <2>1 DEF Pop, CanPop, Oldest, AfterPop, TypeOK
    <3>2. /\ Range(queue) = {Head(queue)} \cup Range(queue')
          /\ IsInjective(queue') /\ Head(queue) \notin Range(queue')
      BY <1>0, <2>1, <3>1, RangeTail DEF TypeOK
    <3>3. Range(hand') = {Head(queue)} /\ IsInjective(hand')
      BY <3>1, RangeSmall
    <3>4. InAgent' \subseteq InAgent /\ Range(queue') \cap Range(hand') = {}
      BY <3>2, <3>3 DEF InAgent
    <3> QED BY <3>1, <3>2, <3>3, <3>4, MoveInAgentKeepsApart
  <2>2. CASE queue = <<>>
    <3>1. UNCHANGED <<raised, queue, hand, wire, rx, log>>
      BY <1>4, <2>2 DEF Pop, CanPop
    <3> QED BY <1>0, <3>1, LossKeepsApart
  <2> QED BY <2>1, <2>2
<1>5. CASE SendOne
  <2>1. /\ hand # <<>> /\ Len(hand) = 1 /\ hand' = <<>> /\ UNCHANGED <<raised, rx, log>>
    BY <1>5 DEF SendOne, TypeOK
  <2>2. /\ Head(hand) \in Alerts /\ Head(hand) \in Range(hand) /\ Tail(hand) = <<>>
    <3>1. /\ Tail(hand) \in Seq(Alerts) /\ Len(Tail(hand)) = 0
          /\ Head(hand) \in Alerts /\ Head(hand) \in Range(hand)
      BY <2>1, RangeTail DEF TypeOK
    <3>2. Tail(hand) = <<>>
      BY <3>1, EmptySeq
    <3> QED BY <3>1, <3>2
  <2>3. CASE SendOk(cli, Head(hand)) /\ queue' = queue
    BY <2>1, <2>2, <2>3, SendKeepsApart
  <2>4. CASE queue' = Requeue(queue, Head(hand)) /\ wire' = wire
    <3>1. Head(hand) \notin Range(queue)
      BY <2>2 DEF NoDuplicates
    <3>2. /\ Range(queue') \subseteq Range(queue) \cup {Head(hand)}
          /\ IsInjective(queue')
      <4>1. IsFull(queue) => Range(Tail(queue)) \subseteq Range(queue)
        BY <2>2, PushType, RangeTail DEF TypeOK
      <4> QED BY <1>0, <2>2, <2>4, <3>1, <4>1, PushType DEF TypeOK, Requeue
    <3>3. Range(hand') = {} /\ IsInjective(hand')
      BY <2>1, RangeSmall
    <3>4. InAgent' \subseteq InAgent /\ Range(queue') \cap Range(hand') = {}
      BY <2>2, <3>2, <3>3 DEF InAgent
    <3> QED BY <2>1, <2>4, <3>2, <3>3, <3>4, MoveInAgentKeepsApart
  <2> QED BY <1>5, <2>3, <2>4 DEF SendOne
<1> QED BY <1>1, <1>2, <1>3, <1>4, <1>5 DEF NetworkStep

(* A line moves from a place to the log, or nowhere.                       *)
LEMMA LogKeepsApart ==
  ASSUME NoDuplicates, log \in Seq(Alerts), NEW e \in Alerts, e \in Underway, e \notin Underway',
         log' = Append(log, e) \/ log' = log,
         UNCHANGED <<raised, queue, hand>>,
         IsInjective(rx'), Range(rx') \subseteq Range(rx) \cup OnWire,
         OnWire' \subseteq OnWire, OnWire' \cap Range(rx') = {},
         \A c \in Conns : IsInjective(wire'[c]) /\ Range(wire'[c]) \subseteq Range(wire[c])
  PROVE  NoDuplicates'
<1>1. IsInjective(log') /\ Range(log') \subseteq Range(log) \cup {e}
  <2>1. e \notin Range(log)
    BY DEF NoDuplicates
  <2>2. /\ Range(Append(log, e)) = Range(log) \cup {e}
        /\ IsInjective(Append(log, e)) /\ IsInjective(log)
    BY <2>1, RangeAppend DEF NoDuplicates
  <2> QED BY <2>2
<1>2. InAgent' = InAgent /\ Underway' \subseteq Underway
  BY DEF InAgent, Underway
<1>3. \A c, d \in Conns : c # d => Range(wire'[c]) \cap Range(wire'[d]) = {}
  BY DEF NoDuplicates
<1>4. InAgent' \cap OnWire' = {} /\ (InAgent' \cup OnWire') \cap Range(rx') = {}
  BY <1>2 DEF NoDuplicates
<1>5. Underway' \cap Range(log') = {}
  BY <1>1, <1>2 DEF NoDuplicates
<1>6. Underway' \cup Range(log') \subseteq 1 .. raised'
  BY <1>1, <1>2 DEF NoDuplicates
<1>7. IsInjective(queue') /\ IsInjective(hand') /\ Range(queue') \cap Range(hand') = {}
  BY DEF NoDuplicates
<1> QED BY <1>1, <1>3, <1>4, <1>5, <1>6, <1>7 DEF NoDuplicates

(* The server takes lines off the wire and logs them once.                 *)
LEMMA NoDuplicatesServer == TypeOK /\ NoDuplicates /\ (ServerStep \/ ReloadConfig) => NoDuplicates'
<1> SUFFICES ASSUME TypeOK, NoDuplicates, ServerStep \/ ReloadConfig PROVE NoDuplicates'
  OBVIOUS
<1> USE DEF agentVars, netVars
<1>0. /\ IsInjective(queue) /\ IsInjective(hand) /\ IsInjective(rx)
      /\ \A c \in Conns : IsInjective(wire[c])
  BY DEF NoDuplicates
<1>1. CASE Accept \/ ReloadConfig \/ ServerDisconnect
  <2>1. UNCHANGED <<raised, queue, hand, log>> /\ (rx' = rx \/ rx' = <<>>)
    BY <1>1 DEF Accept, ReloadConfig, ServerDisconnect
  <2>2. ASSUME NEW c \in Conns PROVE wire'[c] = wire[c] \/ wire'[c] = <<>>
    BY <1>1 DEF Accept, ReloadConfig, ServerDisconnect, PushConfig, TypeOK
  <2>3. IsInjective(rx') /\ Range(rx') \subseteq Range(rx)
    BY <1>0, <2>1, RangeSmall
  <2>4. \A c \in Conns : IsInjective(wire'[c]) /\ Range(wire'[c]) \subseteq Range(wire[c])
    BY <1>0, <2>2, RangeSmall
  <2> QED BY <1>0, <2>1, <2>3, <2>4, LossKeepsApart
<1>2. CASE TakeBuffered
  <2> DEFINE e == Head(rx)
  <2>1. /\ rx' = Tail(rx) /\ rx # <<>>
        /\ log' = Append(log, e) \/ log' = log
        /\ UNCHANGED <<raised, queue, hand, wire>>
    BY <1>2 DEF TakeBuffered, WriteAlertLog
  <2>2. /\ e \in Alerts /\ Range(rx) = {e} \cup Range(rx') /\ IsInjective(rx')
        /\ e \notin Range(rx')
    BY <1>0, <2>1, RangeTail DEF TypeOK
  <2>3. OnWire' = OnWire /\ InAgent' = InAgent
    BY <2>1 DEF OnWire, InAgent
  <2>4. e \in Underway /\ e \notin Underway'
    BY <2>2, <2>3 DEF NoDuplicates, Underway
  <2>5. OnWire' \cap Range(rx') = {}
    BY <2>2, <2>3 DEF NoDuplicates
  <2>6. \A c \in Conns : IsInjective(wire'[c]) /\ Range(wire'[c]) \subseteq Range(wire[c])
    BY <1>0, <2>1
  <2>7. log \in Seq(Alerts)
    BY DEF TypeOK
  <2> QED BY <2>1, <2>2, <2>3, <2>4, <2>5, <2>6, <2>7, LogKeepsApart
<1>3. CASE TakeChunk
  <2>1. srv \in Conns /\ wire[srv] \in Seq(Alerts) /\ rx = <<>>
    BY <1>3 DEF TakeChunk, TypeOK, Conns
  <2>2. PICK k \in 1 .. Len(wire[srv]) :
          /\ rx' = SubSeq(wire[srv], 2, k)
          /\ WriteAlertLog(Head(wire[srv]))
          /\ wire' = [wire EXCEPT ![srv] = SubSeq(@, k + 1, Len(@))]
    BY <1>3 DEF TakeChunk
  <2> DEFINE e == Head(wire[srv])
             rest == SubSeq(wire[srv], k + 1, Len(wire[srv]))
  <2>3. /\ log' = Append(log, e) \/ log' = log
        /\ UNCHANGED <<raised, queue, hand>>
    BY <1>3, <2>2 DEF TakeChunk, WriteAlertLog
  <2>4. wire'[srv] = rest /\ \A c \in Conns \ {srv} : wire'[c] = wire[c]
    BY <2>1, <2>2 DEF TypeOK
  <2>5. /\ e \in Alerts /\ e \in Range(wire[srv])
        /\ Range(rx') \subseteq Range(wire[srv]) /\ Range(rest) \subseteq Range(wire[srv])
        /\ IsInjective(rx') /\ IsInjective(rest)
        /\ e \notin Range(rx') /\ e \notin Range(rest) /\ Range(rx') \cap Range(rest) = {}
    BY <1>0, <2>1, <2>2, RangeChunk
  <2>6. \A c \in Conns : IsInjective(wire'[c]) /\ Range(wire'[c]) \subseteq Range(wire[c])
    BY <1>0, <2>4, <2>5
  <2>7. \A c \in Conns \ {srv} : Range(wire[c]) \cap Range(wire[srv]) = {}
    BY <2>1 DEF NoDuplicates
  <2>8. OnWire' \subseteq OnWire /\ Range(wire[srv]) \subseteq OnWire /\ InAgent' = InAgent
    BY <2>1, <2>3, <2>6 DEF OnWire, InAgent
  <2>9. OnWire' \cap Range(rx') = {} /\ e \notin OnWire'
    <3>1. \A c \in Conns : Range(wire'[c]) \cap Range(rx') = {} /\ e \notin Range(wire'[c])
      BY <2>4, <2>5, <2>7
    <3> QED BY <3>1 DEF OnWire
  <2>10. e \in Underway /\ e \notin Underway'
    BY <2>5, <2>8, <2>9 DEF NoDuplicates, Underway
  <2>11. log \in Seq(Alerts) /\ Range(rx') \subseteq Range(rx) \cup OnWire
    BY <2>5, <2>8 DEF TypeOK
  <2> QED BY <2>3, <2>5, <2>6, <2>8, <2>9, <2>10, <2>11, LogKeepsApart
<1> QED BY <1>1, <1>2, <1>3 DEF ServerStep

(* Faults only take alerts away.                                           *)
LEMMA NoDuplicatesFaults ==
  TypeOK /\ NoDuplicates /\ (Breaks \/ AgentStop \/ AgentStart \/ ServerStop \/ ServerStart)
    => NoDuplicates'
<1> SUFFICES ASSUME TypeOK, NoDuplicates,
                    Breaks \/ AgentStop \/ AgentStart \/ ServerStop \/ ServerStart
             PROVE  NoDuplicates'
  OBVIOUS
<1> USE DEF agentVars, netVars, serverVars
<1>0. /\ IsInjective(queue) /\ IsInjective(hand) /\ IsInjective(rx)
      /\ \A c \in Conns : IsInjective(wire[c])
  BY DEF NoDuplicates
<1>1. CASE Breaks
  <2>1. PICK c \in Conns, s \in {"halfopen", "dead"} :
          \E k \in 0 .. Len(wire[c]) : Break(c, k, s)
    BY <1>1 DEF Breaks
  <2>2. PICK k \in 0 .. Len(wire[c]) : Break(c, k, s)
    BY <2>1
  <2>3. wire[c] \in Seq(Alerts) /\ Len(wire[c]) \in Nat
    BY <2>1, LenProperties DEF TypeOK
  <2>4. /\ IsInjective(SubSeq(wire[c], 1, k))
        /\ Range(SubSeq(wire[c], 1, k)) \subseteq Range(wire[c])
    BY <1>0, <2>1, <2>2, <2>3, RangeSubSeq
  <2>5. /\ wire'[c] = SubSeq(wire[c], 1, k) /\ \A d \in Conns \ {c} : wire'[d] = wire[d]
        /\ UNCHANGED <<raised, queue, hand, rx, log>>
    BY <2>1, <2>2 DEF Break, TypeOK
  <2>6. \A d \in Conns : IsInjective(wire'[d]) /\ Range(wire'[d]) \subseteq Range(wire[d])
    BY <1>0, <2>4, <2>5
  <2> QED BY <1>0, <2>5, <2>6, LossKeepsApart
<1>2. CASE AgentStop \/ AgentStart \/ ServerStop \/ ServerStart
  <2>1. /\ queue' = queue \/ queue' = <<>>
        /\ hand' = hand \/ hand' = <<>>
        /\ rx' = rx \/ rx' = <<>>
        /\ UNCHANGED <<raised, log>>
    BY <1>2 DEF AgentStop, AgentStart, ServerStop, ServerStart
  <2>2. ASSUME NEW c \in Conns PROVE wire'[c] = wire[c] \/ wire'[c] = <<>>
    BY <1>2 DEF AgentStop, AgentStart, ServerStop, ServerStart
  <2>3. /\ IsInjective(queue') /\ Range(queue') \subseteq Range(queue)
        /\ IsInjective(hand') /\ Range(hand') \subseteq Range(hand)
        /\ IsInjective(rx') /\ Range(rx') \subseteq Range(rx)
    BY <1>0, <2>1, RangeSmall
  <2>4. \A c \in Conns : IsInjective(wire'[c]) /\ Range(wire'[c]) \subseteq Range(wire[c])
    BY <1>0, <2>2, RangeSmall
  <2> QED BY <2>1, <2>3, <2>4, LossKeepsApart
<1> QED BY <1>1, <1>2

(* No alert is ever in two places.                                         *)
THEOREM AlertsApart == Spec => []NoDuplicates
<1>1. TypeOK /\ NoDuplicates /\ [Next]_vars => NoDuplicates'
  <2> SUFFICES ASSUME TypeOK, NoDuplicates, [Next]_vars PROVE NoDuplicates'
    OBVIOUS
  <2>1. CASE UNCHANGED vars
    BY <2>1, LossKeepsApart DEF vars, agentVars, netVars, serverVars, NoDuplicates
  <2> QED BY <2>1, NoDuplicatesSampler, NoDuplicatesNetwork, NoDuplicatesServer,
             NoDuplicatesFaults DEF Next
<1> QED BY NoDuplicatesInit, TypeCorrect, <1>1, PTL DEF Spec

-----------------------------------------------------------------------------
(* What an outage costs *)

(* The backlog is drained and flushed on a connection only.                *)
FlushConnected == pc \in {"drain", "flush"} => cli # 0

(* The backlog is drained and flushed only on a connection.                *)
LEMMA FlushConnectedInvariant == Spec => []FlushConnected
<1>1. Init => FlushConnected
  BY DEF Init, FlushConnected
<1>2. TypeOK /\ FlushConnected /\ [Next]_vars => FlushConnected'
  <2> SUFFICES ASSUME TypeOK, FlushConnected, [Next]_vars PROVE FlushConnected'
    OBVIOUS
  <2> USE DEF FlushConnected, At, Goto, agentVars, netVars, serverVars
  <2>1. CASE UNCHANGED vars
    BY <2>1 DEF vars
  <2>2. CASE Raise
    BY <2>2 DEF Raise
  <2>3. CASE NetworkStep
    BY <2>3 DEF NetworkStep, StayConnected, Connect, ConnectRefused, BackoffOver, DrainAll,
                FlushOne, ReceiveNothing, ReceiveBroken, Pop, SendOne, TypeOK
  <2>4. CASE ServerStep \/ ReloadConfig
    BY <2>4 DEF ServerStep, Accept, TakeBuffered, TakeChunk, ServerDisconnect, ReloadConfig
  <2>5. CASE Breaks
    BY <2>5 DEF Breaks, Break
  <2>6. CASE AgentStop \/ AgentStart \/ ServerStop \/ ServerStart
    BY <2>6 DEF AgentStop, AgentStart, ServerStop, ServerStart
  <2> QED BY <2>1, <2>2, <2>3, <2>4, <2>5, <2>6 DEF Next
<1> QED BY <1>1, <1>2, TypeCorrect, PTL DEF Spec

(* What a push costs: the oldest element, if the queue is full.            *)
PushCost(q) == IF IsFull(q) THEN {Head(q)} ELSE {}

(* A push loses nothing but the oldest element of a full queue.            *)
LEMMA PushKeeps ==
  ASSUME NEW S, NEW q \in Seq(S), NEW e \in S, Len(q) <= Capacity
  PROVE  /\ Range(q) \ Range(Push(q, e)) \subseteq PushCost(q)
         /\ e \in Range(Push(q, e))
<1>1. /\ Range(Push(q, e)) = {e} \cup IF IsFull(q) THEN Range(Tail(q)) ELSE Range(q)
      /\ IsFull(q) => q # <<>>
  BY PushType
<1>2. IsFull(q) => Range(q) = {Head(q)} \cup Range(Tail(q))
  BY <1>1, RangeTail
<1> QED BY <1>1, <1>2 DEF PushCost

(* While the agent runs without a connection it keeps every alert it holds, *)
(* save the oldest of a full queue.                                         *)
THEOREM OutageIsHarmless == Spec => OutageKeepsAlerts
<1> DEFINE Keeps == cli = 0 /\ cli' = 0 /\ pc' # "stopped"
                      => InAgent \ InAgent' \subseteq PushCost(queue)
<1>1. TypeOK /\ FlushConnected /\ [Next]_vars => Keeps
  <2> SUFFICES ASSUME TypeOK, FlushConnected, [Next]_vars, cli = 0, cli' = 0, pc' # "stopped"
               PROVE  InAgent \ InAgent' \subseteq PushCost(queue)
    OBVIOUS
  <2> USE DEF At, Goto
  <2>1. CASE UNCHANGED <<queue, hand>>
    BY <2>1 DEF InAgent
  <2>2. CASE Raise
    <3>1. raised + 1 \in Alerts /\ queue' = Push(queue, raised + 1) /\ hand' = hand
      BY <2>2 DEF Raise, TypeOK, Alerts
    <3> QED BY <3>1, PushKeeps DEF TypeOK, InAgent
  <2>3. CASE DrainAll
    BY <2>3 DEF DrainAll, FlushConnected
  <2>4. CASE FlushOne
    BY <2>4 DEF FlushOne, FlushConnected
  <2>5. CASE Pop
    <3>1. CASE queue # <<>>
      <4>1. /\ hand' = <<Head(queue)>> /\ queue' = Tail(queue) /\ hand = <<>>
        BY <2>5, <3>1 DEF Pop, CanPop, Oldest, AfterPop, TypeOK
      <4>2. Range(queue) = {Head(queue)} \cup Range(queue')
        BY <3>1, <4>1, RangeTail DEF TypeOK
      <4>3. Range(hand') = {Head(queue)} /\ Range(hand) = {}
        BY <4>1, RangeSmall
      <4> QED BY <4>2, <4>3 DEF InAgent
    <3>2. CASE queue = <<>>
      BY <2>1, <2>5, <3>2 DEF Pop, CanPop
    <3> QED BY <3>1, <3>2
  <2>6. CASE SendOne
    <3>1. /\ hand # <<>> /\ Len(hand) = 1 /\ queue' = Push(queue, Head(hand))
      BY <2>6 DEF SendOne, SendOk, Requeue, TypeOK
    <3>2. /\ Tail(hand) \in Seq(Alerts) /\ Len(Tail(hand)) = 0 /\ Head(hand) \in Alerts
          /\ Range(hand) = {Head(hand)} \cup Range(Tail(hand))
      BY <3>1, RangeTail DEF TypeOK
    <3>3. Tail(hand) = <<>>
      BY <3>2, EmptySeq
    <3>4. Range(hand) = {Head(hand)}
      BY <3>2, <3>3, RangeSmall
    <3>5. /\ Range(queue) \ Range(queue') \subseteq PushCost(queue)
          /\ Head(hand) \in Range(queue')
      BY <3>1, <3>2, PushKeeps DEF TypeOK
    <3> QED BY <3>4, <3>5 DEF InAgent
  <2>7. CASE StayConnected \/ Connect \/ ConnectRefused \/ BackoffOver
             \/ ReceiveNothing \/ ReceiveBroken
    BY <2>1, <2>7 DEF StayConnected, Connect, ConnectRefused, BackoffOver, ReceiveNothing,
                      ReceiveBroken
  <2>8. CASE ServerStep \/ ReloadConfig
    BY <2>1, <2>8 DEF ServerStep, Accept, TakeBuffered, TakeChunk, ServerDisconnect,
                      ReloadConfig, agentVars
  <2>9. CASE Breaks \/ AgentStop \/ AgentStart \/ ServerStop \/ ServerStart
    BY <2>1, <2>9 DEF Breaks, Break, AgentStop, AgentStart, ServerStop, ServerStart, agentVars
  <2>10. CASE UNCHANGED vars
    BY <2>1, <2>10 DEF vars, agentVars
  <2> QED BY <2>2, <2>3, <2>4, <2>5, <2>6, <2>7, <2>8, <2>9, <2>10 DEF Next, NetworkStep
<1>2. TypeOK /\ FlushConnected /\ [Next]_vars
        => [cli = 0 /\ cli' = 0 /\ pc' # "stopped"
              => InAgent \ InAgent' \subseteq Overflow]_vars
  BY <1>1 DEF PushCost, Overflow
<1> QED BY <1>2, TypeCorrect, FlushConnectedInvariant, PTL DEF Spec, OutageKeepsAlerts

-----------------------------------------------------------------------------
(* The pipeline implements the abstract delivery *)

Loses    == UNCHANGED <<raised, log>> /\ Underway' \subseteq Underway
Delivers == /\ \E e \in Underway : log' = Append(log, e) /\ Underway' = Underway \ {e}
            /\ raised' = raised
Issues   == /\ raised' = raised + 1 /\ log' = log
            /\ raised + 1 \in Underway' /\ Underway' \subseteq Underway \cup {raised + 1}

(* Raising an alert issues it, at the cost of others at worst.             *)
LEMMA SamplerIssues == TypeOK /\ Raise => Issues
<1> SUFFICES ASSUME TypeOK, Raise PROVE Issues
  OBVIOUS
<1>1. /\ raised' = raised + 1 /\ queue' = Push(queue, raised + 1)
      /\ UNCHANGED <<hand, wire, rx, log>> /\ raised + 1 \in Alerts
  BY DEF Raise, netVars, serverVars, TypeOK, Alerts
<1>2. /\ Range(queue') = {raised + 1} \cup IF IsFull(queue) THEN Range(Tail(queue)) ELSE Range(queue)
      /\ IsFull(queue) => queue # <<>>
  BY <1>1, PushType DEF TypeOK
<1>3. IsFull(queue) => Range(Tail(queue)) \subseteq Range(queue)
  BY <1>2, RangeTail DEF TypeOK
<1>4. OnWire' = OnWire
  BY <1>1 DEF OnWire
<1> QED BY <1>1, <1>2, <1>3, <1>4 DEF Issues, Underway, InAgent

(* Sending, popping and requeueing move alerts, and lose some at worst.    *)
LEMMA NetworkLoses == TypeOK /\ NetworkStep => Loses
<1> SUFFICES ASSUME TypeOK, NetworkStep PROVE Loses
  OBVIOUS
<1> USE DEF At, Goto, netVars, serverVars
<1>h. hand # <<>> => Range(hand) = {Head(hand)} \cup Range(Tail(hand)) /\ Head(hand) \in Alerts
  BY RangeTail DEF TypeOK
<1>s. ASSUME hand # <<>>, SendOk(cli, Head(hand))
      PROVE  OnWire' \subseteq OnWire \cup {Head(hand)}
  <2>1. ASSUME NEW c \in Conns PROVE Range(wire'[c]) \subseteq OnWire \cup {Head(hand)}
    <3>1. CASE wire'[c] = wire[c]
      BY <3>1 DEF OnWire
    <3>2. CASE wire'[c] # wire[c]
      <4>1. wire'[c] = Append(wire[c], Head(hand)) /\ wire[c] \in Seq(Alerts)
        BY <1>s, <3>2 DEF SendOk, TypeOK
      <4>2. Range(wire'[c]) = Range(wire[c]) \cup {Head(hand)}
        BY <1>h, <1>s, <4>1, RangeAppend
      <4> QED BY <4>2 DEF OnWire
    <3> QED BY <3>1, <3>2
  <2> QED BY <2>1 DEF OnWire
<1>1. CASE StayConnected \/ Connect \/ ConnectRefused \/ BackoffOver
           \/ ReceiveNothing \/ ReceiveBroken
  BY <1>1 DEF StayConnected, Connect, ConnectRefused, BackoffOver, ReceiveNothing, ReceiveBroken,
              Loses, Underway, InAgent, OnWire
<1>2. CASE DrainAll
  BY <1>2, RangeSmall DEF DrainAll, Drained, AfterDrain, Loses, Underway, InAgent, OnWire
<1>3. CASE FlushOne
  <2>1. hand # <<>> /\ UNCHANGED <<raised, queue, rx, log>>
    BY <1>3 DEF FlushOne, TypeOK
  <2>2. CASE SendOk(cli, Head(hand)) /\ hand' = Tail(hand)
    BY <1>h, <1>s, <2>1, <2>2 DEF Loses, Underway, InAgent
  <2>3. CASE hand' = <<>> /\ wire' = wire
    BY <2>1, <2>3, RangeSmall DEF Loses, Underway, InAgent, OnWire
  <2> QED BY <1>3, <2>2, <2>3 DEF FlushOne
<1>4. CASE Pop
  <2>1. CASE queue # <<>>
    <3>1. /\ hand' = <<Head(queue)>> /\ queue' = Tail(queue)
          /\ UNCHANGED <<raised, wire, rx, log>>
      BY <1>4, <2>1 DEF Pop, CanPop, Oldest, AfterPop
    <3>2. Range(queue) = {Head(queue)} \cup Range(queue')
      BY <2>1, <3>1, RangeTail DEF TypeOK
    <3>3. Range(hand') = {Head(queue)}
      BY <3>1, RangeSmall
    <3> QED BY <3>1, <3>2, <3>3 DEF Loses, Underway, InAgent, OnWire
  <2>2. CASE queue = <<>>
    BY <1>4, <2>2 DEF Pop, CanPop, Loses, Underway, InAgent, OnWire
  <2> QED BY <2>1, <2>2
<1>5. CASE SendOne
  <2>1. /\ hand # <<>> /\ hand' = <<>> /\ Range(hand') = {} /\ UNCHANGED <<raised, rx, log>>
    BY <1>5, RangeSmall DEF SendOne, TypeOK
  <2>2. CASE SendOk(cli, Head(hand)) /\ queue' = queue
    BY <1>h, <1>s, <2>1, <2>2 DEF Loses, Underway, InAgent
  <2>3. CASE queue' = Requeue(queue, Head(hand)) /\ wire' = wire
    <3>1. IsFull(queue) => Range(Tail(queue)) \subseteq Range(queue)
      BY <1>h, <2>1, PushType, RangeTail DEF TypeOK
    <3>2. Range(queue') = {Head(hand)} \cup IF IsFull(queue) THEN Range(Tail(queue)) ELSE Range(queue)
      BY <1>h, <2>1, <2>3, PushType DEF Requeue, TypeOK
    <3>3. Range(queue') \subseteq Range(queue) \cup {Head(hand)}
      BY <3>1, <3>2
    <3> QED BY <1>h, <2>1, <2>3, <3>3 DEF Loses, Underway, InAgent, OnWire
  <2> QED BY <1>5, <2>2, <2>3 DEF SendOne
<1> QED BY <1>1, <1>2, <1>3, <1>4, <1>5 DEF NetworkStep

(* A line the server takes is logged and is under way no more, or is lost. *)
LEMMA ServerDelivers ==
  TypeOK /\ NoDuplicates /\ (ServerStep \/ ReloadConfig) => Delivers \/ Loses
<1> SUFFICES ASSUME TypeOK, NoDuplicates, ServerStep \/ ReloadConfig PROVE Delivers \/ Loses
  OBVIOUS
<1> USE DEF agentVars, netVars
<1>a. /\ InAgent \cap OnWire = {} /\ (InAgent \cup OnWire) \cap Range(rx) = {}
      /\ \A c \in Conns : IsInjective(wire[c])
      /\ IsInjective(rx)
  BY DEF NoDuplicates
<1>1. CASE Accept \/ ReloadConfig \/ ServerDisconnect
  <2>1. UNCHANGED <<raised, queue, hand, log>> /\ (rx' = rx \/ rx' = <<>>)
    BY <1>1 DEF Accept, ReloadConfig, ServerDisconnect
  <2>2. ASSUME NEW c \in Conns PROVE wire'[c] = wire[c] \/ wire'[c] = <<>>
    BY <1>1 DEF Accept, ReloadConfig, ServerDisconnect, PushConfig, TypeOK
  <2>3. OnWire' \subseteq OnWire /\ Range(rx') \subseteq Range(rx)
    BY <2>1, <2>2, RangeSmall DEF OnWire
  <2> QED BY <2>1, <2>3 DEF Loses, Underway, InAgent
<1>2. CASE TakeBuffered
  <2> DEFINE e == Head(rx)
  <2>1. /\ rx' = Tail(rx) /\ rx # <<>>
        /\ log' = Append(log, e) \/ log' = log
        /\ UNCHANGED <<raised, queue, hand, wire>>
    BY <1>2 DEF TakeBuffered, WriteAlertLog
  <2>2. Range(rx) = {e} \cup Range(rx') /\ e \notin Range(rx')
    BY <1>a, <2>1, RangeTail DEF TypeOK
  <2>3. OnWire' = OnWire /\ InAgent' = InAgent
    BY <2>1 DEF OnWire, InAgent
  <2>4. e \in Underway /\ Underway' = Underway \ {e}
    BY <1>a, <2>2, <2>3 DEF Underway
  <2> QED BY <2>1, <2>4 DEF Delivers, Loses
<1>3. CASE TakeChunk
  <2>1. srv \in Conns /\ wire[srv] \in Seq(Alerts) /\ rx = <<>>
    BY <1>3 DEF TakeChunk, TypeOK, Conns
  <2>2. PICK k \in 1 .. Len(wire[srv]) :
          /\ rx' = SubSeq(wire[srv], 2, k)
          /\ WriteAlertLog(Head(wire[srv]))
          /\ wire' = [wire EXCEPT ![srv] = SubSeq(@, k + 1, Len(@))]
    BY <1>3 DEF TakeChunk
  <2> DEFINE e == Head(wire[srv])
             rest == SubSeq(wire[srv], k + 1, Len(wire[srv]))
             others == UNION {Range(wire[c]) : c \in Conns \ {srv}}
  <2>3. /\ log' = Append(log, e) \/ log' = log
        /\ UNCHANGED <<raised, queue, hand>>
    BY <1>3, <2>2 DEF TakeChunk, WriteAlertLog
  <2>4. wire'[srv] = rest /\ \A c \in Conns \ {srv} : wire'[c] = wire[c]
    BY <2>1, <2>2 DEF TypeOK
  <2>5. /\ Range(wire[srv]) = {e} \cup Range(rx') \cup Range(rest)
        /\ e \notin Range(rx') /\ e \notin Range(rest)
    BY <1>a, <2>1, <2>2, RangeChunk
  <2>6. OnWire = Range(wire[srv]) \cup others /\ OnWire' = Range(rest) \cup others
    BY <2>1, <2>4 DEF OnWire
  <2>7. e \notin others
    BY <2>1, <2>5 DEF NoDuplicates
  <2>8. Range(rx) = {} /\ InAgent' = InAgent /\ e \notin InAgent
    BY <1>a, <2>1, <2>3, <2>5, <2>6, RangeSmall DEF InAgent
  <2>9. e \in Underway /\ Underway' = Underway \ {e}
    BY <2>5, <2>6, <2>7, <2>8 DEF Underway
  <2> QED BY <2>3, <2>9 DEF Delivers, Loses
<1> QED BY <1>1, <1>2, <1>3 DEF ServerStep

(* Faults lose alerts at worst.                                            *)
LEMMA FaultsLose ==
  TypeOK /\ (Breaks \/ AgentStop \/ AgentStart \/ ServerStop \/ ServerStart) => Loses
<1> SUFFICES ASSUME TypeOK, Breaks \/ AgentStop \/ AgentStart \/ ServerStop \/ ServerStart
             PROVE  Loses
  OBVIOUS
<1> USE DEF agentVars, netVars, serverVars
<1>1. CASE Breaks
  <2>1. PICK c \in Conns, s \in {"halfopen", "dead"} :
          \E k \in 0 .. Len(wire[c]) : Break(c, k, s)
    BY <1>1 DEF Breaks
  <2>2. PICK k \in 0 .. Len(wire[c]) : Break(c, k, s)
    BY <2>1
  <2>3. wire[c] \in Seq(Alerts) /\ Len(wire[c]) \in Nat
    BY <2>1, LenProperties DEF TypeOK
  <2>4. Range(SubSeq(wire[c], 1, k)) \subseteq Range(wire[c])
    BY <2>1, <2>2, <2>3, RangeSubSeq
  <2>5. /\ wire'[c] = SubSeq(wire[c], 1, k) /\ \A d \in Conns \ {c} : wire'[d] = wire[d]
        /\ UNCHANGED <<raised, queue, hand, rx, log>>
    BY <2>1, <2>2 DEF Break, TypeOK
  <2>6. \A d \in Conns : Range(wire'[d]) \subseteq Range(wire[d])
    BY <2>4, <2>5
  <2>7. OnWire' \subseteq OnWire
    BY <2>6 DEF OnWire
  <2> QED BY <2>5, <2>7 DEF Loses, Underway, InAgent
<1>2. CASE AgentStop \/ AgentStart \/ ServerStop \/ ServerStart
  <2>1. /\ queue' = queue \/ queue' = <<>>
        /\ hand' = hand \/ hand' = <<>>
        /\ rx' = rx \/ rx' = <<>>
        /\ UNCHANGED <<raised, log>>
    BY <1>2 DEF AgentStop, AgentStart, ServerStop, ServerStart
  <2>2. ASSUME NEW c \in Conns PROVE Range(wire'[c]) \subseteq Range(wire[c])
    BY <1>2, RangeSmall DEF AgentStop, AgentStart, ServerStop, ServerStart
  <2>3. /\ Range(queue') \subseteq Range(queue) /\ Range(hand') \subseteq Range(hand)
        /\ Range(rx') \subseteq Range(rx)
    BY <2>1, RangeSmall
  <2>4. OnWire' \subseteq OnWire
    BY <2>2 DEF OnWire
  <2> QED BY <2>1, <2>3, <2>4 DEF Loses, Underway, InAgent
<1> QED BY <1>1, <1>2

(* The whole path, with its queue, connections, crashes and requeues, is a *)
(* lossy at-most-once delivery of raised alerts.                            *)
THEOREM PipelineDelivers == Spec => ImplementsDelivery
<1>1. Init => Delivery!DInit
  <2> SUFFICES ASSUME Init PROVE Delivery!DInit
    OBVIOUS
  <2>1. \A c \in Conns : Range(wire[c]) = {}
    BY RangeSmall DEF Init
  <2>2. Underway = {}
    BY <2>1, RangeSmall DEF Init, Underway, InAgent, OnWire
  <2> QED BY <2>2 DEF Init, Delivery!DInit
<1>2. TypeOK /\ NoDuplicates /\ [Next]_vars => [Delivery!DNext]_(Delivery!dvars)
  <2> SUFFICES ASSUME TypeOK, NoDuplicates, [Next]_vars
               PROVE  Delivery!DNext \/ UNCHANGED Delivery!dvars
    BY DEF Delivery!dvars
  <2>1. CASE Raise
    BY <2>1, SamplerIssues DEF Issues, Delivery!DNext, Delivery!Issue
  <2>2. CASE Loses
    BY <2>2 DEF Loses, Delivery!DNext, Delivery!Lose
  <2>3. CASE Delivers
    BY <2>3 DEF Delivers, Delivery!DNext, Delivery!Deliver
  <2>4. CASE UNCHANGED vars
    BY <2>4 DEF vars, agentVars, netVars, serverVars, Delivery!dvars, Underway, InAgent, OnWire
  <2> QED BY <2>1, <2>2, <2>3, <2>4, NetworkLoses, ServerDelivers, FaultsLose DEF Next
<1> QED BY <1>1, <1>2, TypeCorrect, AlertsApart, PTL
        DEF Spec, ImplementsDelivery, Delivery!DSpec

-----------------------------------------------------------------------------
(* The order of the alerts *)

(* The alerts are in runs: x comes before y when its run does, or in one    *)
(* run when it is older.                                                   *)
Less(run, x, y)   == run[x] < run[y] \/ (run[x] = run[y] /\ x < y)
Rising(run, s)    == \A i, j \in DOMAIN s : i < j => Less(run, s[i], s[j])
Below(run, S, T)  == \A x \in S, y \in T : Less(run, x, y)
Sorted(run, f)    ==
  \A k \in DOMAIN f : /\ Rising(run, f[k])
                      /\ \A l \in DOMAIN f : k < l => Below(run, Range(f[k]), Range(f[l]))

(* The places of the pipeline, by number.                                  *)
Line(l, r, w, h, q) == <<l, r>> \o w \o <<h, q>>

(* Which place has which number.                                           *)
LEMMA LineIs ==
  ASSUME NEW l \in Seq(Alerts), NEW r \in Seq(Alerts), NEW w \in [Conns -> Seq(Alerts)],
         NEW h \in Seq(Alerts), NEW q \in Seq(Alerts)
  PROVE  /\ DOMAIN Line(l, r, w, h, q) = 1 .. MaxConns + 4
         /\ Line(l, r, w, h, q)[1] = l /\ Line(l, r, w, h, q)[2] = r
         /\ \A c \in Conns : Line(l, r, w, h, q)[c + 2] = w[c]
         /\ Line(l, r, w, h, q)[MaxConns + 3] = h /\ Line(l, r, w, h, q)[MaxConns + 4] = q
<1> DEFINE S == Seq(Alerts)
<1>1. w \in Seq(S) /\ Len(w) = MaxConns
  BY DEF Conns
<1>2. <<l, r>> \in Seq(S) /\ Len(<<l, r>>) = 2 /\ <<l, r>>[1] = l /\ <<l, r>>[2] = r
  OBVIOUS
<1>3. <<h, q>> \in Seq(S) /\ Len(<<h, q>>) = 2 /\ <<h, q>>[1] = h /\ <<h, q>>[2] = q
  OBVIOUS
<1> HIDE DEF S
<1> DEFINE front == <<l, r>> \o w
<1>4. /\ front \in Seq(S) /\ Len(front) = MaxConns + 2
      /\ front[1] = l /\ front[2] = r /\ \A c \in Conns : front[c + 2] = w[c]
  BY <1>1, <1>2, ConcatProperties DEF Conns
<1> HIDE DEF front
<1>5. /\ front \o <<h, q>> \in Seq(S) /\ Len(front \o <<h, q>>) = MaxConns + 4
      /\ \A i \in 1 .. MaxConns + 2 : (front \o <<h, q>>)[i] = front[i]
      /\ (front \o <<h, q>>)[MaxConns + 3] = h /\ (front \o <<h, q>>)[MaxConns + 4] = q
  BY <1>3, <1>4, ConcatProperties
<1>6. DOMAIN (front \o <<h, q>>) = 1 .. MaxConns + 4
  BY <1>5, LenProperties
<1>7. Line(l, r, w, h, q) = front \o <<h, q>>
  BY DEF Line, front
<1> QED BY <1>4, <1>5, <1>6, <1>7 DEF Conns

(* Order survives when every place keeps some of what it had, in order.    *)
LEMMA Shrink ==
  ASSUME NEW run, NEW f, NEW g, Sorted(run, f), DOMAIN g = DOMAIN f,
         \A k \in DOMAIN f : Range(g[k]) \subseteq Range(f[k]) /\ Rising(run, g[k])
  PROVE  Sorted(run, g)
BY DEF Sorted, Below

(* ... when some of a place moves to the end of one before it, with nothing *)
(* in between.                                                             *)
LEMMA Shift ==
  ASSUME NEW run, NEW f, NEW g, Sorted(run, f), DOMAIN g = DOMAIN f, DOMAIN f \subseteq Nat,
         NEW a \in DOMAIN f, NEW b \in DOMAIN f, b < a,
         \A k \in DOMAIN f : b < k /\ k < a => Range(f[k]) = {},
         \A k \in DOMAIN f : /\ Rising(run, g[k])
                             /\ Range(g[k]) \subseteq Range(f[k]) \cup (IF k = b THEN Range(f[a]) ELSE {}),
         Below(run, Range(g[b]), Range(g[a]))
  PROVE  Sorted(run, g)
<1> SUFFICES ASSUME NEW k \in DOMAIN f, NEW l \in DOMAIN f, k < l
             PROVE  Below(run, Range(g[k]), Range(g[l]))
  BY DEF Sorted
<1>1. \A i, j \in DOMAIN f : i < j => Below(run, Range(f[i]), Range(f[j]))
  BY DEF Sorted
<1>2. CASE k # b /\ l # b
  BY <1>1, <1>2 DEF Below
<1>3. CASE l = b
  <2>1. k < a /\ k # b
    BY <1>3
  <2> QED BY <1>1, <1>3, <2>1 DEF Below
<1>4. CASE k = b /\ l = a
  BY <1>4
<1>5. CASE k = b /\ l # a
  <2>1. l # b /\ (l < a \/ a < l)
    BY <1>5
  <2>2. CASE l < a
    <3>1. Range(g[l]) = {}
      BY <1>5, <2>1, <2>2
    <3> QED BY <3>1 DEF Below
  <2>3. CASE a < l
    BY <1>1, <1>5, <2>1, <2>3 DEF Below
  <2> QED BY <2>1, <2>2, <2>3
<1> QED BY <1>2, <1>3, <1>4, <1>5

(* ... and when an alert that comes after all is put at the end.           *)
LEMMA Extend ==
  ASSUME NEW run, NEW f, NEW g, Sorted(run, f), DOMAIN g = DOMAIN f, NEW m \in DOMAIN f,
         \A k \in DOMAIN f : ~(m < k), NEW e,
         \A k \in DOMAIN f : \A x \in Range(f[k]) : Less(run, x, e),
         \A k \in DOMAIN f : /\ Rising(run, g[k])
                             /\ Range(g[k]) \subseteq Range(f[k]) \cup (IF k = m THEN {e} ELSE {})
  PROVE  Sorted(run, g)
<1> SUFFICES ASSUME NEW k \in DOMAIN f, NEW l \in DOMAIN f, k < l
             PROVE  Below(run, Range(g[k]), Range(g[l]))
  BY DEF Sorted
<1>1. k # m
  OBVIOUS
<1> QED BY <1>1 DEF Sorted, Below

(* Only the runs of the alerts that are there count.                       *)
LEMMA Rerun ==
  ASSUME NEW run, NEW new, NEW f, Sorted(run, f),
         \A k \in DOMAIN f : \A x \in Range(f[k]) : new[x] = run[x]
  PROVE  Sorted(new, f)
<1>1. \A k \in DOMAIN f : \A i \in DOMAIN f[k] : f[k][i] \in Range(f[k])
  BY DEF Range
<1> QED BY <1>1 DEF Sorted, Rising, Below, Less

(* Sections of a rising sequence.                                          *)
LEMMA RisingParts ==
  ASSUME NEW run, NEW S, NEW s \in Seq(S), Rising(run, s)
  PROVE  /\ Rising(run, <<>>) /\ \A e : Rising(run, <<e>>)
         /\ s # <<>> => Rising(run, Tail(s)) /\ Below(run, {Head(s)}, Range(Tail(s)))
         /\ \A a \in Nat \ {0}, b \in Nat : b <= Len(s) => Rising(run, SubSeq(s, a, b))
         /\ \A k \in 1 .. Len(s) :
              /\ Below(run, {Head(s)}, Range(SubSeq(s, 2, k)) \cup Range(SubSeq(s, k + 1, Len(s))))
              /\ Below(run, Range(SubSeq(s, 2, k)), Range(SubSeq(s, k + 1, Len(s))))
         /\ \A e \in S : Below(run, Range(s), {e}) => Rising(run, Append(s, e))
<1>0. Len(s) \in Nat /\ DOMAIN s = 1 .. Len(s)
  BY LenProperties
<1>1. Rising(run, <<>>) /\ \A e : Rising(run, <<e>>)
  BY DEF Rising
<1>2. ASSUME s # <<>> PROVE Rising(run, Tail(s)) /\ Below(run, {Head(s)}, Range(Tail(s)))
  <2>1. /\ Tail(s) \in Seq(S) /\ Len(Tail(s)) = Len(s) - 1 /\ Len(s) \in Nat \ {0}
        /\ \A i \in 1 .. Len(Tail(s)) : Tail(s)[i] = s[i + 1]
    BY <1>2, HeadTailProperties, EmptySeq
  <2>2. DOMAIN Tail(s) = 1 .. Len(s) - 1 /\ Head(s) = s[1]
    BY <2>1, LenProperties
  <2> QED BY <1>0, <2>1, <2>2 DEF Rising, Below, Range
<1>3. ASSUME NEW a \in Nat \ {0}, NEW b \in Nat, b <= Len(s) PROVE Rising(run, SubSeq(s, a, b))
  <2>1. \A i \in a .. b : i \in 1 .. Len(s) /\ s[i] \in S
    BY <1>0, <1>3
  <2>2. /\ SubSeq(s, a, b) \in Seq(S)
        /\ Len(SubSeq(s, a, b)) = IF a <= b THEN b - a + 1 ELSE 0
        /\ \A i \in 1 .. b - a + 1 : SubSeq(s, a, b)[i] = s[a + i - 1]
    BY <2>1, SubSeqProperties
  <2>3. DOMAIN SubSeq(s, a, b) = 1 .. b - a + 1
    BY <2>2, LenProperties
  <2> QED BY <1>0, <1>3, <2>2, <2>3 DEF Rising
<1>4. ASSUME NEW k \in 1 .. Len(s)
      PROVE  /\ Below(run, {Head(s)}, Range(SubSeq(s, 2, k)) \cup Range(SubSeq(s, k + 1, Len(s))))
             /\ Below(run, Range(SubSeq(s, 2, k)), Range(SubSeq(s, k + 1, Len(s))))
  <2>1. /\ Range(SubSeq(s, 2, k)) = {s[i] : i \in 2 .. k}
        /\ Range(SubSeq(s, k + 1, Len(s))) = {s[i] : i \in k + 1 .. Len(s)}
    <3>1. 2 \in Nat \ {0} /\ k \in Nat /\ k <= Len(s) /\ k + 1 \in Nat \ {0} /\ Len(s) <= Len(s)
      BY <1>0
    <3> QED BY <1>0, <3>1, RangeSubSeq
  <2>2. Head(s) = s[1]
    OBVIOUS
  <2>3. \A i \in 2 .. k : i \in 1 .. Len(s) /\ 1 < i
    BY <1>0
  <2>4. \A i \in k + 1 .. Len(s) : i \in 1 .. Len(s) /\ 1 < i
    BY <1>0
  <2>5. \A i \in 2 .. k, j \in k + 1 .. Len(s) : i < j
    BY <1>0
  <2> QED BY <1>0, <2>1, <2>2, <2>3, <2>4, <2>5 DEF Rising, Below
<1>5. ASSUME NEW e \in S, Below(run, Range(s), {e}) PROVE Rising(run, Append(s, e))
  <2>1. /\ Append(s, e) \in Seq(S) /\ Len(Append(s, e)) = Len(s) + 1
        /\ \A i \in 1 .. Len(s) : Append(s, e)[i] = s[i]
        /\ Append(s, e)[Len(s) + 1] = e
    BY AppendProperties
  <2>2. DOMAIN Append(s, e) = 1 .. Len(s) + 1
    BY <2>1, LenProperties
  <2>3. \A i \in 1 .. Len(s) : s[i] \in Range(s)
    BY <1>0 DEF Range
  <2> QED BY <1>0, <1>5, <2>1, <2>2, <2>3 DEF Rising, Below
<1> QED BY <1>1, <1>2, <1>3, <1>4, <1>5

(* The connections: the agent's is the last one made, the server's the last *)
(* one accepted, and those accepted before carry nothing.  A network thread *)
(* that goes on without a connection has just lost the last one.           *)
PathInv ==
  /\ \A c \in Conns : c > conns => conn[c] = "unused" /\ wire[c] = <<>>
  /\ cli # 0 => cli = conns /\ conn[cli] \in {"open", "halfopen", "dead"}
  /\ pc \in {"receive", "pop", "send"} /\ cli = 0 => conns \in Broken
  /\ pc \in {"drain", "flush"} => cli # 0
  /\ srv # 0 => srv = accepted
  /\ \A c \in Conns : c <= accepted /\ c # srv => wire[c] = <<>> /\ conn[c] # "open"

(* Nothing is connected at first.                                          *)
LEMMA PathInit == Init => PathInv
BY DEF Init, PathInv, Conns

(* The agent's steps.                                                      *)
LEMMA PathAgent == TypeOK /\ PathInv /\ (Raise \/ NetworkStep) => PathInv'
<1> SUFFICES ASSUME TypeOK, PathInv, Raise \/ NetworkStep PROVE PathInv'
  OBVIOUS
<1> USE DEF At, Goto, netVars, serverVars, Conns
<1>1. CASE Raise
  BY <1>1 DEF Raise, PathInv, Broken
<1>2. CASE StayConnected \/ ConnectRefused \/ BackoffOver \/ ReceiveNothing \/ ReceiveBroken \/ Pop
  <2>1. UNCHANGED <<conns, conn, wire, accepted, srv>>
    BY <1>2 DEF StayConnected, ConnectRefused, BackoffOver, ReceiveNothing, ReceiveBroken, Pop
  <2>2. pc' \notin {"drain", "flush"} /\ (cli' = cli \/ cli' = 0)
    BY <1>2 DEF StayConnected, ConnectRefused, BackoffOver, ReceiveNothing, ReceiveBroken, Pop
  <2>3. pc' \in {"receive", "pop", "send"} /\ cli' = 0 => conns \in Broken
    <3>1. CASE ReceiveBroken
      <4>1. cli # 0 /\ conn[cli] # "open"
        BY <3>1 DEF ReceiveBroken, SendFails
      <4>2. cli = conns /\ conn[cli] \in {"halfopen", "dead"} /\ cli \in Conns
        BY <4>1 DEF PathInv, TypeOK
      <4> QED BY <4>2 DEF Broken
    <3>2. CASE ~ReceiveBroken
      BY <1>2, <3>2 DEF StayConnected, ConnectRefused, BackoffOver, ReceiveNothing, Pop, PathInv
    <3> QED BY <3>1, <3>2
  <2> QED BY <2>1, <2>2, <2>3 DEF PathInv, Broken
<1>3. CASE Connect
  <2>1. /\ conns' = conns + 1 /\ conn' = [conn EXCEPT ![conns + 1] = "open"] /\ cli' = conns + 1
        /\ pc' = "drain" /\ UNCHANGED <<wire, accepted, srv>>
        /\ conns \in Nat /\ accepted \in Nat /\ accepted <= conns /\ conn \in [Conns -> ConnStates]
        /\ conns + 1 \in Conns
    BY <1>3 DEF Connect, TypeOK
  <2>2. conn'[conns + 1] = "open" /\ \A c \in Conns : c # conns + 1 => conn'[c] = conn[c]
    BY <2>1
  <2> QED BY <2>1, <2>2 DEF PathInv
<1>4. CASE DrainAll
  BY <1>4 DEF DrainAll, PathInv, Broken
<1>5. CASE FlushOne \/ SendOne
  <2>1. UNCHANGED <<conns, conn, accepted, srv>>
    BY <1>5 DEF FlushOne, SendOne
  <2>2. CASE SendOk(cli, Head(hand)) /\ cli' = cli
    <3>1. cli # 0 /\ cli = conns /\ cli \in Conns /\ wire \in [Conns -> Seq(Alerts)] /\ accepted <= conns
      BY <2>2 DEF SendOk, PathInv, TypeOK
    <3>2. \A c \in Conns : wire'[c] # wire[c] => c = cli /\ conn[c] = "open"
      BY <2>2, <3>1 DEF SendOk
    <3> QED BY <2>1, <2>2, <3>1, <3>2 DEF PathInv, Broken
  <2>3. CASE SendFails(cli) /\ cli' = 0 /\ wire' = wire
    <3>1. pc' \notin {"drain", "flush"}
      BY <1>5, <2>3 DEF FlushOne, SendOne, SendOk
    <3>2. pc' \in {"receive", "pop", "send"} => conns \in Broken
      <4>1. CASE cli # 0
        <5>1. cli = conns /\ conn[cli] \in {"halfopen", "dead"} /\ cli \in Conns
          BY <2>3, <4>1 DEF SendFails, PathInv, TypeOK
        <5> QED BY <5>1 DEF Broken
      <4>2. CASE cli = 0
        BY <1>5, <4>2 DEF FlushOne, SendOne, PathInv
      <4> QED BY <4>1, <4>2
    <3> QED BY <2>1, <2>3, <3>1, <3>2 DEF PathInv, Broken
  <2> QED BY <1>5, <2>2, <2>3 DEF FlushOne, SendOne
<1> QED BY <1>1, <1>2, <1>3, <1>4, <1>5 DEF NetworkStep

(* The server's steps.                                                     *)
LEMMA PathServer == TypeOK /\ PathInv /\ (ServerStep \/ ReloadConfig) => PathInv'
<1> SUFFICES ASSUME TypeOK, PathInv, ServerStep \/ ReloadConfig PROVE PathInv'
  OBVIOUS
<1> USE DEF agentVars, netVars, Conns
<1>0. /\ wire \in [Conns -> Seq(Alerts)] /\ conn \in [Conns -> ConnStates]
      /\ conns \in Nat /\ accepted \in Nat /\ srv \in Nat /\ conns <= MaxConns
      /\ accepted <= conns /\ srv <= accepted /\ cli \in 0 .. conns
  BY DEF TypeOK
<1>1. CASE Accept \/ ReloadConfig
  <2>1. PICK c \in Conns :
          /\ c = accepted' /\ c <= conns /\ (c = srv \/ srv = 0) /\ accepted <= c
          /\ \A d \in Conns : d < c => d <= accepted /\ d # srv
          /\ PushConfig(c) \/ (srv' = c /\ UNCHANGED <<conn, wire>>)
          /\ UNCHANGED <<pc, cli, conns>>
    <3>1. CASE Accept
      BY <1>0, <3>1 DEF Accept
    <3>2. CASE ReloadConfig
      BY <1>0, <3>2 DEF ReloadConfig, PathInv
    <3> QED BY <1>1, <3>1, <3>2
  <2>2. /\ \A d \in Conns : d # c => wire'[d] = wire[d] /\ conn'[d] = conn[d]
        /\ conn'[c] = conn[c] \/ (conn[c] \in {"fin", "halfopen"} /\ conn'[c] = "dead")
        /\ srv' = c \/ (srv' = 0 /\ wire'[c] = <<>> /\ conn'[c] = "dead")
    BY <1>0, <2>1 DEF PushConfig
  <2>3. Broken \subseteq Broken'
    BY <2>2 DEF Broken
  <2>4. \A d \in Conns : d > conns' => conn'[d] = "unused" /\ wire'[d] = <<>>
    <3>1. conns' = conns /\ \A d \in Conns : d > conns => d # c
      BY <1>0, <2>1
    <3> QED BY <2>2, <3>1 DEF PathInv
  <2>5. cli' # 0 => cli' = conns' /\ conn'[cli'] \in {"open", "halfopen", "dead"}
    BY <1>0, <2>1, <2>2 DEF PathInv
  <2>6. \A d \in Conns : d <= accepted' /\ d # srv' => wire'[d] = <<>> /\ conn'[d] # "open"
    <3> SUFFICES ASSUME NEW d \in Conns, d <= accepted', d # srv'
                 PROVE  wire'[d] = <<>> /\ conn'[d] # "open"
      OBVIOUS
    <3>1. CASE d = c
      BY <2>2, <3>1
    <3>2. CASE d # c
      <4>1. d < c
        BY <1>0, <2>1, <3>2
      <4> QED BY <2>1, <2>2, <4>1 DEF PathInv
    <3> QED BY <3>1, <3>2
  <2> QED BY <2>1, <2>2, <2>3, <2>4, <2>5, <2>6 DEF PathInv
<1>2. CASE TakeBuffered
  BY <1>2 DEF TakeBuffered, PathInv, Broken
<1>3. CASE TakeChunk
  <2>1. srv # 0 /\ UNCHANGED <<pc, cli, conns, conn, accepted, srv>>
    BY <1>3 DEF TakeChunk
  <2>2. \A c \in Conns : c # srv => wire'[c] = wire[c]
    BY <1>0, <1>3 DEF TakeChunk
  <2>3. srv <= conns
    BY <1>0
  <2> QED BY <1>0, <2>1, <2>2, <2>3 DEF PathInv, Broken
<1>4. CASE ServerDisconnect
  <2>1. /\ srv # 0 /\ wire[srv] = <<>> /\ conn[srv] # "open" /\ srv' = 0
        /\ UNCHANGED <<pc, cli, conns, conn, wire, accepted>>
    BY <1>4 DEF ServerDisconnect
  <2> QED BY <1>0, <2>1 DEF PathInv, Broken
<1> QED BY <1>1, <1>2, <1>3, <1>4 DEF ServerStep

(* Broken connections, crashes and restarts.                               *)
LEMMA PathFaults ==
  TypeOK /\ PathInv /\ (Breaks \/ AgentStop \/ AgentStart \/ ServerStop \/ ServerStart) => PathInv'
<1> SUFFICES ASSUME TypeOK, PathInv, Breaks \/ AgentStop \/ AgentStart \/ ServerStop \/ ServerStart
             PROVE  PathInv'
  OBVIOUS
<1> USE DEF agentVars, netVars, serverVars, Conns, At, Goto
<1>0. /\ wire \in [Conns -> Seq(Alerts)] /\ conn \in [Conns -> ConnStates]
      /\ conns \in Nat /\ accepted \in Nat /\ srv \in Nat /\ conns <= MaxConns
      /\ accepted <= conns /\ srv <= accepted /\ cli \in 0 .. conns
  BY DEF TypeOK
<1>1. CASE Breaks
  <2>1. PICK c \in Conns, s \in {"halfopen", "dead"} :
          /\ conn[c] \in {"open", "fin"} /\ conn' = [conn EXCEPT ![c] = s]
          /\ \E k \in 0 .. Len(wire[c]) : wire' = [wire EXCEPT ![c] = SubSeq(wire[c], 1, k)]
          /\ UNCHANGED <<pc, cli, conns, accepted, srv>>
    BY <1>1 DEF Breaks, Break
  <2>2. /\ \A d \in Conns : d # c => wire'[d] = wire[d] /\ conn'[d] = conn[d]
        /\ conn'[c] = s /\ (wire[c] = <<>> => wire'[c] = <<>>)
    BY <1>0, <2>1
  <2>3. c <= conns
    BY <1>0, <2>1 DEF PathInv
  <2>4. Broken \subseteq Broken'
    BY <2>2, <2>1 DEF Broken
  <2>5. \A d \in Conns : d > conns' => conn'[d] = "unused" /\ wire'[d] = <<>>
    BY <1>0, <2>1, <2>2, <2>3 DEF PathInv
  <2>6. cli' # 0 => cli' = conns' /\ conn'[cli'] \in {"open", "halfopen", "dead"}
    BY <1>0, <2>1, <2>2 DEF PathInv
  <2>7. \A d \in Conns : d <= accepted' /\ d # srv' => wire'[d] = <<>> /\ conn'[d] # "open"
    BY <2>1, <2>2 DEF PathInv
  <2> QED BY <2>1, <2>4, <2>5, <2>6, <2>7 DEF PathInv
<1>2. CASE AgentStop
  <2>1. /\ pc' = "stopped" /\ cli' = 0 /\ UNCHANGED <<conns, wire, accepted, srv>>
        /\ conn' = IF cli # 0 /\ conn[cli] = "open" THEN [conn EXCEPT ![cli] = "fin"] ELSE conn
    BY <1>2 DEF AgentStop
  <2>2. \A c \in Conns : conn'[c] = conn[c] \/ (c = cli /\ conn'[c] = "fin")
    BY <1>0, <2>1
  <2>3. \A c \in Conns : c > conns => c # cli
    BY <1>0
  <2> QED BY <2>1, <2>2, <2>3 DEF PathInv
<1>3. CASE AgentStart \/ ServerStart
  BY <1>3 DEF AgentStart, ServerStart, PathInv, Broken
<1>4. CASE ServerStop
  <2>1. /\ srv' = 0 /\ accepted' = conns /\ UNCHANGED <<pc, cli, conns>>
        /\ \A c \in Conns : conn'[c] = (IF c <= conns THEN "dead" ELSE "unused") /\ wire'[c] = <<>>
    BY <1>4 DEF ServerStop
  <2>2. \A c \in Conns : c > conns => ~(c <= conns)
    BY <1>0
  <2>3. Broken \subseteq Broken'
    <3>1. \A c \in Broken : c <= conns
      BY <1>0 DEF Broken, PathInv
    <3> QED BY <2>1, <3>1 DEF Broken
  <2>4. cli' # 0 => cli' = conns' /\ conn'[cli'] \in {"open", "halfopen", "dead"}
    BY <1>0, <2>1 DEF PathInv
  <2> QED BY <2>1, <2>2, <2>3, <2>4 DEF PathInv
<1> QED BY <1>1, <1>2, <1>3, <1>4

(* Every step keeps the connections so.                                    *)
LEMMA PathNext == TypeOK /\ PathInv /\ [Next]_vars => PathInv'
<1>1. PathInv /\ UNCHANGED vars => PathInv'
  BY DEF PathInv, Broken, vars, agentVars, netVars, serverVars
<1> QED BY <1>1, PathAgent, PathServer, PathFaults DEF Next

-----------------------------------------------------------------------------
(* What a broken path costs *)

(* Lines are left in rx_buffer_ without a connection only when a failed      *)
(* send has disconnected the server.                                        *)
RxInv == srv = 0 /\ rx # <<>> => accepted # 0 /\ conn[accepted] = "dead"

(* A dead connection stays the last one accepted until its lines are gone.   *)
LEMMA RxNext == TypeOK /\ PathInv /\ RxInv /\ [Next]_vars => RxInv'
<1> SUFFICES ASSUME TypeOK, PathInv, RxInv, [Next]_vars PROVE RxInv'
  OBVIOUS
<1> USE DEF agentVars, netVars, serverVars
<1>1. CASE UNCHANGED <<conn, accepted, srv, rx>>
  BY <1>1 DEF RxInv
<1>2. CASE Raise \/ NetworkStep
  <2>1. CASE Connect
    <3>1. accepted <= conns /\ conn' = [conn EXCEPT ![conns + 1] = "open"] /\ UNCHANGED serverVars
      BY <2>1 DEF Connect, TypeOK
    <3>2. accepted # 0 => accepted \in Conns /\ conn'[accepted] = conn[accepted]
      BY <3>1, BoundsAssumption DEF TypeOK, Conns
    <3> QED BY <3>1, <3>2 DEF RxInv
  <2> QED BY <1>1, <1>2, <2>1 DEF Raise, NetworkStep, StayConnected, ConnectRefused, BackoffOver,
             DrainAll, FlushOne, ReceiveNothing, ReceiveBroken, Pop, SendOne
<1>3. CASE Accept
  BY <1>3 DEF Accept, RxInv
<1>4. CASE ReloadConfig
  <2>1. srv # 0 /\ srv = accepted /\ UNCHANGED <<accepted, rx>>
    BY <1>4 DEF ReloadConfig, PathInv
  <2>2. srv' = 0 => conn[srv] = "dead" /\ conn' = conn
    BY <1>4, <2>1 DEF ReloadConfig, PushConfig
  <2> QED BY <2>1, <2>2 DEF RxInv
<1>5. CASE TakeBuffered \/ TakeChunk
  BY <1>5 DEF TakeBuffered, TakeChunk, RxInv
<1>6. CASE ServerDisconnect
  BY <1>6 DEF ServerDisconnect, RxInv
<1>7. CASE Breaks
  <2>1. PICK c \in Conns, t \in {"halfopen", "dead"} : \E k \in 0 .. Len(wire[c]) : Break(c, k, t)
    BY <1>7 DEF Breaks
  <2>2. /\ conn[c] # "dead" /\ conn' = [conn EXCEPT ![c] = t]
        /\ UNCHANGED <<accepted, srv, rx>>
    BY <2>1 DEF Break
  <2>3. accepted # 0 => accepted \in Conns
    BY BoundsAssumption DEF TypeOK, Conns
  <2> QED BY <2>2, <2>3 DEF RxInv, TypeOK
<1>8. CASE AgentStop
  <2>1. accepted # 0 => accepted \in Conns
    BY BoundsAssumption DEF TypeOK, Conns
  <2> QED BY <1>8, <2>1 DEF AgentStop, RxInv, TypeOK
<1>9. CASE ServerStop
  BY <1>9 DEF ServerStop, RxInv
<1>10. CASE AgentStart \/ ServerStart
  BY <1>1, <1>10 DEF AgentStart, ServerStart
<1> QED BY <1>1, <1>2, <1>3, <1>4, <1>5, <1>6, <1>7, <1>8, <1>9, <1>10 DEF Next, ServerStep, vars

(* Every alert that has been raised and not lost.                          *)
Kept == Underway \cup Range(log)

(* What a step may cost: the oldest of a full queue, what is not read of a  *)
(* dead connection, what is sent on a broken one and not seen to fail.      *)
Unsent == IF cli # 0 /\ conn[cli] # "open" /\ (pc = "flush" \/ cli' = cli) THEN Range(hand) ELSE {}
Costs  == Kept \ Kept' \subseteq PushCost(queue) \cup Unread \cup Unsent

(* Sending on an open connection puts the event on the wire.               *)
LEMMA SendKeeps ==
  ASSUME TypeOK, hand # <<>>, cli \in Conns, conn[cli] = "open", SendOk(cli, Head(hand))
  PROVE  OnWire \cup {Head(hand)} \subseteq OnWire'
<1>1. Head(hand) \in Alerts /\ wire[cli] \in Seq(Alerts)
  BY RangeTail DEF TypeOK
<1>2. /\ wire'[cli] = Append(wire[cli], Head(hand))
      /\ \A c \in Conns \ {cli} : wire'[c] = wire[c]
  BY DEF SendOk, TypeOK
<1>3. Range(wire'[cli]) = Range(wire[cli]) \cup {Head(hand)}
  BY <1>1, <1>2, RangeAppend
<1>4. \A c \in Conns : Range(wire[c]) \subseteq Range(wire'[c])
  BY <1>2, <1>3
<1> QED BY <1>3, <1>4 DEF OnWire

(* The agent's own steps.                                                  *)
LEMMA AgentKeeps == TypeOK /\ PathInv /\ (Raise \/ NetworkStep) => Costs
<1> SUFFICES ASSUME TypeOK, PathInv, Raise \/ NetworkStep PROVE Costs
  OBVIOUS
<1> USE DEF At, Goto, netVars, serverVars
<1>c. cli # 0 => cli \in Conns
  BY BoundsAssumption DEF TypeOK, Conns
<1>h. hand # <<>> => Range(hand) = {Head(hand)} \cup Range(Tail(hand)) /\ Head(hand) \in Alerts
  BY RangeTail DEF TypeOK
<1>1. CASE Raise
  <2>1. /\ raised + 1 \in Alerts /\ queue' = Push(queue, raised + 1)
        /\ UNCHANGED <<hand, wire, rx, log>>
    BY <1>1 DEF Raise, TypeOK, Alerts
  <2>2. Range(queue) \ Range(queue') \subseteq PushCost(queue)
    BY <2>1, PushKeeps DEF TypeOK
  <2> QED BY <2>1, <2>2 DEF Costs, Kept, Underway, InAgent, OnWire
<1>2. CASE StayConnected \/ Connect \/ ConnectRefused \/ BackoffOver
           \/ ReceiveNothing \/ ReceiveBroken
  BY <1>2 DEF StayConnected, Connect, ConnectRefused, BackoffOver, ReceiveNothing, ReceiveBroken,
              Costs, Kept, Underway, InAgent, OnWire
<1>3. CASE DrainAll
  <2>1. hand = <<>> /\ hand' = queue /\ UNCHANGED <<wire, rx, log>>
    BY <1>3 DEF DrainAll, Drained, TypeOK
  <2> QED BY <2>1, RangeSmall DEF Costs, Kept, Underway, InAgent, OnWire
<1>4. CASE FlushOne
  <2>1. pc = "flush" /\ hand # <<>> /\ cli # 0 /\ UNCHANGED <<queue, rx, log>>
    BY <1>4 DEF FlushOne, TypeOK, PathInv
  <2>2. CASE conn[cli] = "open"
    <3>1. SendOk(cli, Head(hand)) /\ hand' = Tail(hand)
      BY <1>4, <2>1, <2>2 DEF FlushOne, SendFails
    <3>2. OnWire \cup {Head(hand)} \subseteq OnWire'
      BY <1>c, <2>1, <2>2, <3>1, SendKeeps
    <3> QED BY <1>h, <2>1, <3>1, <3>2 DEF Costs, Kept, Underway, InAgent
  <2>3. CASE conn[cli] # "open"
    <3>1. wire' = wire /\ Unsent = Range(hand)
      BY <1>4, <2>1, <2>3 DEF FlushOne, SendOk, Unsent
    <3> QED BY <2>1, <3>1 DEF Costs, Kept, Underway, InAgent, OnWire
  <2> QED BY <2>2, <2>3
<1>5. CASE Pop
  <2>1. CASE queue # <<>>
    <3>1. /\ hand = <<>> /\ hand' = <<Head(queue)>> /\ queue' = Tail(queue)
          /\ UNCHANGED <<wire, rx, log>>
      BY <1>5, <2>1 DEF Pop, CanPop, Oldest, AfterPop, TypeOK
    <3>2. Range(queue) = {Head(queue)} \cup Range(queue')
      BY <2>1, <3>1, RangeTail DEF TypeOK
    <3>3. Range(hand') = {Head(queue)} /\ Range(hand) = {}
      BY <3>1, RangeSmall
    <3> QED BY <3>1, <3>2, <3>3 DEF Costs, Kept, Underway, InAgent, OnWire
  <2>2. CASE queue = <<>>
    BY <1>5, <2>2 DEF Pop, CanPop, Costs, Kept, Underway, InAgent, OnWire
  <2> QED BY <2>1, <2>2
<1>6. CASE SendOne
  <2>1. hand # <<>> /\ Len(hand) = 1 /\ UNCHANGED <<rx, log>>
    BY <1>6 DEF SendOne, TypeOK
  <2>2. Range(hand) = {Head(hand)}
    <3>1. Tail(hand) \in Seq(Alerts) /\ Len(Tail(hand)) = 0
      BY <2>1, RangeTail DEF TypeOK
    <3> QED BY <1>h, <2>1, <3>1, EmptySeq, RangeSmall
  <2>3. CASE SendOk(cli, Head(hand)) /\ queue' = queue /\ cli' = cli
    <3>1. CASE conn[cli] = "open"
      <4>1. OnWire \cup {Head(hand)} \subseteq OnWire'
        BY <1>c, <2>1, <2>3, <3>1, SendKeeps DEF SendOk
      <4> QED BY <2>1, <2>2, <2>3, <4>1 DEF Costs, Kept, Underway, InAgent
    <3>2. CASE conn[cli] # "open"
      <4>1. wire' = wire /\ Unsent = Range(hand)
        BY <2>3, <3>2 DEF SendOk, Unsent
      <4> QED BY <2>1, <2>3, <4>1 DEF Costs, Kept, Underway, InAgent, OnWire
    <3> QED BY <3>1, <3>2
  <2>4. CASE queue' = Requeue(queue, Head(hand)) /\ wire' = wire
    <3>1. /\ Range(queue) \ Range(queue') \subseteq PushCost(queue)
          /\ Head(hand) \in Range(queue')
      BY <1>h, <2>1, <2>4, PushKeeps DEF Requeue, TypeOK
    <3> QED BY <2>1, <2>2, <2>4, <3>1 DEF Costs, Kept, Underway, InAgent, OnWire
  <2> QED BY <1>6, <2>3, <2>4 DEF SendOne
<1> QED BY <1>1, <1>2, <1>3, <1>4, <1>5, <1>6 DEF NetworkStep

(* A configuration that cannot be sent loses what was not read of its        *)
(* connection.                                                              *)
LEMMA PushConfigKeeps ==
  ASSUME TypeOK, NEW c \in Conns, PushConfig(c)
  PROVE  OnWire \subseteq OnWire' \cup Unread
<1>1. CASE conn[c] = "dead"
  <2>1. wire' = [wire EXCEPT ![c] = <<>>]
    BY <1>1 DEF PushConfig
  <2>2. \A d \in Conns \ {c} : wire'[d] = wire[d]
    BY <2>1 DEF TypeOK
  <2>3. Range(wire[c]) \subseteq Unread
    BY <1>1 DEF Unread
  <2> QED BY <2>2, <2>3 DEF OnWire
<1>2. CASE conn[c] # "dead"
  BY <1>2 DEF PushConfig, OnWire
<1> QED BY <1>1, <1>2

(* The server takes over whatever a connection brings and logs it, unless    *)
(* the connection is dead.                                                  *)
LEMMA ServerKeeps ==
  TypeOK /\ RxInv /\ faults' = faults /\ (ServerStep \/ ReloadConfig) => Kept \subseteq Kept' \cup Unread
<1> SUFFICES ASSUME TypeOK, RxInv, faults' = faults, ServerStep \/ ReloadConfig
             PROVE  Kept \subseteq Kept' \cup Unread
  OBVIOUS
<1> USE DEF agentVars, netVars
<1>c. srv # 0 => srv \in Conns
  BY BoundsAssumption DEF TypeOK, Conns
<1>f. faults' # faults + 1
  BY DEF TypeOK
<1>1. CASE Accept
  <2>1. accepted + 1 \in Conns /\ srv = 0 /\ UNCHANGED <<queue, hand, log>>
    BY <1>1 DEF Accept, TypeOK, Conns
  <2>2. OnWire \subseteq OnWire' \cup Unread
    BY <1>1, <2>1, PushConfigKeeps DEF Accept, OnWire
  <2>3. Range(rx) \subseteq Unread
    <3>1. CASE rx = <<>>
      BY <3>1, RangeSmall
    <3>2. CASE rx # <<>>
      <4>1. accepted # 0 /\ conn[accepted] = "dead"
        BY <2>1, <3>2 DEF RxInv
      <4> QED BY <4>1 DEF Unread
    <3> QED BY <3>1, <3>2
  <2> QED BY <2>1, <2>2, <2>3 DEF Kept, Underway, InAgent
<1>2. CASE ReloadConfig
  <2>1. UNCHANGED <<queue, hand, rx, log>> /\ srv \in Conns /\ PushConfig(srv)
    BY <1>c, <1>2 DEF ReloadConfig
  <2>2. OnWire \subseteq OnWire' \cup Unread
    BY <2>1, PushConfigKeeps
  <2> QED BY <2>1, <2>2 DEF Kept, Underway, InAgent
<1>3. CASE ServerDisconnect
  BY <1>3 DEF ServerDisconnect, Kept, Underway, InAgent, OnWire
<1>4. CASE TakeBuffered
  <2>1. /\ rx # <<>> /\ rx' = Tail(rx) /\ log' = Append(log, Head(rx))
        /\ UNCHANGED <<queue, hand, wire>>
    BY <1>4, <1>f DEF TakeBuffered, WriteAlertLog
  <2>2. Range(rx) = {Head(rx)} \cup Range(rx') /\ Head(rx) \in Alerts
    BY <2>1, RangeTail DEF TypeOK
  <2>3. Range(log') = Range(log) \cup {Head(rx)}
    BY <2>1, <2>2, RangeAppend DEF TypeOK
  <2> QED BY <2>1, <2>2, <2>3 DEF Kept, Underway, InAgent, OnWire
<1>5. CASE TakeChunk
  <2>1. srv \in Conns /\ wire[srv] \in Seq(Alerts) /\ rx = <<>> /\ UNCHANGED <<queue, hand>>
    BY <1>5, <1>c DEF TakeChunk, TypeOK
  <2>2. PICK k \in 1 .. Len(wire[srv]) :
          /\ rx' = SubSeq(wire[srv], 2, k)
          /\ WriteAlertLog(Head(wire[srv]))
          /\ wire' = [wire EXCEPT ![srv] = SubSeq(@, k + 1, Len(@))]
    BY <1>5 DEF TakeChunk
  <2> DEFINE e == Head(wire[srv])
             rest == SubSeq(wire[srv], k + 1, Len(wire[srv]))
  <2>3. log' = Append(log, e)
    BY <1>f, <2>2 DEF WriteAlertLog
  <2>4. /\ Range(wire[srv]) = {e} \cup Range(rx') \cup Range(rest)
        /\ e \in Alerts
    BY <2>1, <2>2, RangeChunk
  <2>5. Range(log') = Range(log) \cup {e}
    BY <2>3, <2>4, RangeAppend DEF TypeOK
  <2>6. wire'[srv] = rest /\ \A c \in Conns \ {srv} : wire'[c] = wire[c]
    BY <2>1, <2>2 DEF TypeOK
  <2>7. OnWire \subseteq OnWire' \cup {e} \cup Range(rx')
    <3>1. ASSUME NEW c \in Conns PROVE Range(wire[c]) \subseteq OnWire' \cup {e} \cup Range(rx')
      BY <2>1, <2>4, <2>6 DEF OnWire
    <3> QED BY <3>1 DEF OnWire
  <2>8. Range(rx) = {}
    BY <2>1, RangeSmall
  <2> QED BY <2>1, <2>5, <2>7, <2>8 DEF Kept, Underway, InAgent
<1> QED BY <1>1, <1>2, <1>3, <1>4, <1>5 DEF ServerStep

(* Between the faults, a step loses only the oldest alert of a full queue,  *)
(* what is handed to a broken connection and what is not read of a dead one; *)
(* an open path loses nothing.                                              *)
THEOREM LossIsExplained == Spec => LossNeedsBrokenPathOrOverflow
<1>1. Init => RxInv
  BY DEF Init, RxInv
<1>2. TypeOK /\ PathInv /\ RxInv /\ [Next]_vars => [faults' = faults => Gone \subseteq Overflow \cup Unread \cup Unsent]_vars
  <2> SUFFICES ASSUME TypeOK, PathInv, RxInv, Next, faults' = faults PROVE Costs
    BY DEF Gone, Costs, Kept, PushCost, Overflow
  <2>1. faults' # faults + 1
    BY DEF TypeOK
  <2>2. CASE Breaks \/ AgentStop \/ ServerStop
    BY <2>1, <2>2 DEF Breaks, Break, AgentStop, ServerStop, Fault
  <2>3. CASE AgentStart \/ ServerStart
    BY <2>3 DEF AgentStart, ServerStart, agentVars, netVars, serverVars, Costs, Kept, Underway, InAgent, OnWire
  <2>4. CASE ServerStep \/ ReloadConfig
    BY <2>4, ServerKeeps DEF Costs
  <2> QED BY <2>2, <2>3, <2>4, AgentKeeps DEF Next
<1> QED BY <1>1, <1>2, RxNext, PathNext, PathInit, TypeCorrect, PTL DEF Spec, LossNeedsBrokenPathOrOverflow, Unsent

-----------------------------------------------------------------------------
(* The runs the alerts are in *)

(* The broken connections a requeued alert may be due to: not the last one  *)
(* while the network thread may still come to requeue because of it.       *)
Pending == cli # 0 \/ pc \in {"receive", "pop", "send"}
Settled == IF Pending THEN Broken \ {conns} ELSE Broken

(* The alerts of the pipeline are in as many runs as that, and one more.   *)
Runs(run) == (\A x \in Alerts : run[x] <= Cardinality(Settled)) /\ Sorted(run, Pipeline)
RunInv    == \E run \in [Alerts -> Nat] : Runs(run)

(* What is where in the pipeline.                                          *)
Placed ==
  /\ DOMAIN Pipeline = 1 .. MaxConns + 4
  /\ Pipeline[1] = log /\ Pipeline[2] = rx
  /\ \A c \in Conns : Pipeline[c + 2] = wire[c]
  /\ Pipeline[MaxConns + 3] = hand /\ Pipeline[MaxConns + 4] = queue

(* The pipeline of a state of the right type is laid out like that.        *)
LEMMA PlacedNow == TypeOK => Placed
<1> SUFFICES ASSUME TypeOK PROVE Placed
  OBVIOUS
<1>1. /\ log \in Seq(Alerts) /\ rx \in Seq(Alerts) /\ wire \in [Conns -> Seq(Alerts)]
      /\ hand \in Seq(Alerts) /\ queue \in Seq(Alerts)
  BY DEF TypeOK
<1>2. Pipeline = Line(log, rx, wire, hand, queue)
  BY DEF Pipeline, Line
<1> QED BY <1>1, <1>2, LineIs DEF Placed

(* ... and after a step.                                                   *)
LEMMA PlacedNext == TypeOK' => Placed'
BY PlacedNow, PTL

(* There is no other place.                                                *)
LEMMA PlaceOf ==
  ASSUME NEW k \in 1 .. MaxConns + 4
  PROVE  k \in {1, 2, MaxConns + 3, MaxConns + 4} \/ \E c \in Conns : k = c + 2
<1>1. CASE k \in 3 .. MaxConns + 2
  <2>1. k - 2 \in Conns /\ k = (k - 2) + 2
    BY <1>1 DEF Conns
  <2> QED BY <2>1
<1>2. CASE k \notin 3 .. MaxConns + 2
  BY <1>2
<1> QED BY <1>1, <1>2

(* The connections are finitely many.                                      *)
LEMMA SettledFinite ==
  /\ IsFiniteSet(Settled) /\ Cardinality(Settled) \in Nat
  /\ IsFiniteSet(Settled') /\ Cardinality(Settled') \in Nat
  /\ IsFiniteSet(Broken) /\ IsFiniteSet(Broken')
<1>1. IsFiniteSet(Conns)
  BY FS_Interval DEF Conns
<1>2. Settled \subseteq Conns /\ Broken \subseteq Conns /\ Settled' \subseteq Conns /\ Broken' \subseteq Conns
  BY DEF Settled, Broken
<1>3. IsFiniteSet(Settled) /\ IsFiniteSet(Broken) /\ IsFiniteSet(Settled') /\ IsFiniteSet(Broken')
  BY <1>1, <1>2, FS_Subset
<1> QED BY <1>3, FS_CardinalityType

(* A broken connection stays broken.                                       *)
LEMMA BrokenGrows == TypeOK /\ PathInv /\ [Next]_vars => Broken \subseteq Broken'
<1> SUFFICES ASSUME TypeOK, PathInv, [Next]_vars, NEW c \in Conns, conn[c] \in {"halfopen", "dead"}
             PROVE  conn'[c] \in {"halfopen", "dead"}
  BY DEF Broken
<1> USE DEF agentVars, netVars, serverVars
<1>0. /\ conn \in [Conns -> ConnStates] /\ conns \in Nat /\ (conns < MaxConns => conns + 1 \in Conns)
      /\ c <= conns /\ c # conns + 1
  BY DEF TypeOK, PathInv, Conns
<1>1. CASE UNCHANGED conn
  BY <1>1
<1>2. CASE Connect
  BY <1>0, <1>2 DEF Connect
<1>3. CASE Accept \/ ReloadConfig
  <2>1. \E d : PushConfig(d) \/ UNCHANGED conn
    BY <1>3 DEF Accept, ReloadConfig
  <2> QED BY <1>0, <2>1 DEF PushConfig
<1>4. CASE Breaks
  BY <1>0, <1>4 DEF Breaks, Break
<1>5. CASE AgentStop
  BY <1>0, <1>5 DEF AgentStop
<1>6. CASE ServerStop
  BY <1>0, <1>6 DEF ServerStop
<1>7. CASE UNCHANGED vars \/ Raise \/ (NetworkStep /\ ~Connect)
  BY <1>1, <1>7 DEF vars, Raise, NetworkStep, StayConnected, ConnectRefused, BackoffOver, DrainAll, FlushOne,
                    ReceiveNothing, ReceiveBroken, Pop, SendOne
<1>8. CASE TakeBuffered \/ TakeChunk \/ ServerDisconnect \/ AgentStart \/ ServerStart
  BY <1>1, <1>8 DEF TakeBuffered, TakeChunk, ServerDisconnect, AgentStart, ServerStart
<1> QED BY <1>2, <1>3, <1>4, <1>5, <1>6, <1>7, <1>8 DEF Next, ServerStep, NetworkStep

(* ... so that there is ever more to put a requeued alert down to.         *)
LEMMA SettledGrows ==
  ASSUME TypeOK, PathInv, [Next]_vars
  PROVE  Settled \subseteq Settled' /\ Cardinality(Settled) <= Cardinality(Settled')
<1> USE DEF agentVars, netVars, serverVars, At, Goto
<1>1. Broken \subseteq Broken'
  BY BrokenGrows
<1>2. ~Connect => conns' = conns
  BY DEF vars, Next, NetworkStep, ServerStep, Raise, StayConnected, ConnectRefused, BackoffOver, DrainAll,
         FlushOne, ReceiveNothing, ReceiveBroken, Pop, SendOne, Accept, TakeBuffered, TakeChunk,
         ServerDisconnect, ReloadConfig, Breaks, Break, AgentStop, AgentStart, ServerStop, ServerStart
<1>3. ~Connect /\ Pending' => Pending
  BY DEF Pending, PathInv, vars, Next, NetworkStep, ServerStep, Raise, StayConnected, ConnectRefused, BackoffOver,
         DrainAll, FlushOne, ReceiveNothing, ReceiveBroken, Pop, SendOne, Accept, TakeBuffered, TakeChunk,
         ServerDisconnect, ReloadConfig, Breaks, Break, AgentStop, AgentStart, ServerStop, ServerStart
<1>4. ASSUME ~Connect PROVE Settled \subseteq Settled'
  BY <1>1, <1>2, <1>3, <1>4 DEF Settled
<1>5. ASSUME Connect PROVE Settled \subseteq Settled'
  <2>1. conns' = conns + 1 /\ conns + 1 \notin Broken
    BY <1>5 DEF Connect, TypeOK, PathInv, Broken
  <2>2. Settled \subseteq Broken
    BY DEF Settled
  <2> QED BY <1>1, <2>1, <2>2 DEF Settled
<1>6. Settled \subseteq Settled'
  BY <1>4, <1>5
<1> QED BY <1>6, SettledFinite, FS_Subset

(* A step after which every order there was is one still.                  *)
LEMMA RunsKept ==
  ASSUME TypeOK, PathInv, RunInv, [Next]_vars,
         \A run \in [Alerts -> Nat] : Sorted(run, Pipeline) => Sorted(run, Pipeline')
  PROVE  RunInv'
<1>1. PICK run \in [Alerts -> Nat] : Runs(run)
  BY DEF RunInv
<1>2. Cardinality(Settled) \in Nat /\ Cardinality(Settled') \in Nat /\ Cardinality(Settled) <= Cardinality(Settled')
  BY SettledGrows, SettledFinite
<1>3. \A x \in Alerts : run[x] <= Cardinality(Settled')
  BY <1>1, <1>2 DEF Runs
<1> QED BY <1>1, <1>3 DEF Runs, RunInv

(* An order of the pipeline is one of each of its places, and of two.      *)
LEMMA PlacesSorted ==
  ASSUME TypeOK, NEW run, Sorted(run, Pipeline)
  PROVE  /\ Rising(run, log) /\ Rising(run, rx) /\ Rising(run, hand) /\ Rising(run, queue)
         /\ \A c \in Conns : Rising(run, wire[c])
         /\ Below(run, Range(log), Range(rx)) /\ Below(run, Range(hand), Range(queue))
         /\ \A c \in Conns : Below(run, Range(wire[c]), Range(hand))
<1>1. Placed
  BY PlacedNow
<1>2. {1, 2, MaxConns + 3, MaxConns + 4} \subseteq 1 .. MaxConns + 4 /\ \A c \in Conns : c + 2 \in 1 .. MaxConns + 4
  BY DEF Conns
<1>3. 1 < 2 /\ MaxConns + 3 < MaxConns + 4 /\ \A c \in Conns : c + 2 < MaxConns + 3
  BY DEF Conns
<1>4. \A k, l \in DOMAIN Pipeline : k < l => Below(run, Range(Pipeline[k]), Range(Pipeline[l]))
  BY DEF Sorted
<1>5. \A k \in DOMAIN Pipeline : Rising(run, Pipeline[k])
  BY DEF Sorted
<1>6. Below(run, Range(log), Range(rx)) /\ Below(run, Range(hand), Range(queue))
  BY <1>1, <1>2, <1>3, <1>4 DEF Placed
<1>7. \A c \in Conns : Below(run, Range(wire[c]), Range(hand))
  BY <1>1, <1>2, <1>3, <1>4 DEF Placed
<1> QED BY <1>1, <1>2, <1>5, <1>6, <1>7 DEF Placed

(* Every place keeps some of its alerts, in order.                         *)
LEMMA OrderShrinks ==
  ASSUME TypeOK, TypeOK', NEW run, Sorted(run, Pipeline),
         Rising(run, log') /\ Range(log') \subseteq Range(log),
         Rising(run, rx') /\ Range(rx') \subseteq Range(rx),
         Rising(run, hand') /\ Range(hand') \subseteq Range(hand),
         Rising(run, queue') /\ Range(queue') \subseteq Range(queue),
         \A c \in Conns : Rising(run, wire'[c]) /\ Range(wire'[c]) \subseteq Range(wire[c])
  PROVE  Sorted(run, Pipeline')
<1>1. Placed /\ Placed'
  BY PlacedNow, PlacedNext
<1>2. \A k \in DOMAIN Pipeline : Range(Pipeline'[k]) \subseteq Range(Pipeline[k]) /\ Rising(run, Pipeline'[k])
  <2> SUFFICES ASSUME NEW k \in 1 .. MaxConns + 4
               PROVE  Range(Pipeline'[k]) \subseteq Range(Pipeline[k]) /\ Rising(run, Pipeline'[k])
    BY <1>1 DEF Placed
  <2> QED BY <1>1, PlaceOf DEF Placed
<1> QED BY <1>1, <1>2, Shrink DEF Placed

(* The network thread takes events out of the queue.                       *)
LEMMA OrderTaken ==
  ASSUME TypeOK, TypeOK', NEW run, Sorted(run, Pipeline), UNCHANGED <<log, rx, wire>>, hand = <<>>,
         Rising(run, hand'), Rising(run, queue'), Below(run, Range(hand'), Range(queue')),
         Range(hand') \subseteq Range(queue), Range(queue') \subseteq Range(queue)
  PROVE  Sorted(run, Pipeline')
<1> DEFINE a == MaxConns + 4
           b == MaxConns + 3
<1>1. Placed /\ Placed' /\ Range(hand) = {}
  BY PlacedNow, PlacedNext, RangeSmall
<1>2. \A k \in 1 .. MaxConns + 4 :
        /\ Rising(run, Pipeline'[k])
        /\ Range(Pipeline'[k]) \subseteq Range(Pipeline[k]) \cup (IF k = b THEN Range(Pipeline[a]) ELSE {})
  <2> SUFFICES ASSUME NEW k \in 1 .. MaxConns + 4
               PROVE  /\ Rising(run, Pipeline'[k])
                      /\ Range(Pipeline'[k]) \subseteq Range(Pipeline[k]) \cup (IF k = b THEN Range(Pipeline[a]) ELSE {})
    OBVIOUS
  <2>1. Rising(run, log) /\ Rising(run, rx) /\ \A c \in Conns : Rising(run, wire[c])
    BY PlacesSorted
  <2> QED BY <1>1, <2>1, PlaceOf DEF Placed
<1>3. a \in 1 .. MaxConns + 4 /\ b \in 1 .. MaxConns + 4 /\ b < a /\ \A k \in 1 .. MaxConns + 4 : ~(b < k /\ k < a)
  OBVIOUS
<1>4. Below(run, Range(Pipeline'[b]), Range(Pipeline'[a]))
  BY <1>1 DEF Placed
<1>5. DOMAIN Pipeline = 1 .. MaxConns + 4 /\ DOMAIN Pipeline' = 1 .. MaxConns + 4 /\ 1 .. MaxConns + 4 \subseteq Nat
  BY <1>1 DEF Placed
<1> HIDE DEF a, b
<1> QED BY <1>2, <1>3, <1>4, <1>5, Shift

(* The oldest one in the hand goes to the end of what the agent's           *)
(* connection carries: connections made later there are none.              *)
LEMMA OrderSent ==
  ASSUME TypeOK, TypeOK', PathInv, NEW run, Sorted(run, Pipeline), UNCHANGED <<log, rx, queue>>,
         cli # 0, hand # <<>>, wire' = [wire EXCEPT ![cli] = Append(wire[cli], Head(hand))],
         Rising(run, hand'), Range(hand') \subseteq Range(Tail(hand))
  PROVE  Sorted(run, Pipeline')
<1> DEFINE a == MaxConns + 3
           b == cli + 2
<1>1. Placed /\ Placed'
  BY PlacedNow, PlacedNext
<1>2. cli \in Conns /\ cli = conns /\ wire \in [Conns -> Seq(Alerts)] /\ hand \in Seq(Alerts)
  BY DEF TypeOK, PathInv, Conns
<1>3. /\ Head(hand) \in Alerts /\ Range(hand) = {Head(hand)} \cup Range(Tail(hand))
      /\ Range(wire'[cli]) = Range(wire[cli]) \cup {Head(hand)}
      /\ wire'[cli] = Append(wire[cli], Head(hand))
      /\ \A c \in Conns : c # cli => wire'[c] = wire[c]
  <2>1. Head(hand) \in Alerts /\ Range(hand) = {Head(hand)} \cup Range(Tail(hand))
    BY <1>2, RangeTail
  <2>2. wire'[cli] = Append(wire[cli], Head(hand)) /\ wire[cli] \in Seq(Alerts)
    BY <1>2
  <2>3. Range(Append(wire[cli], Head(hand))) = Range(wire[cli]) \cup {Head(hand)}
    BY <2>1, <2>2, RangeAppend
  <2> QED BY <1>2, <2>1, <2>2, <2>3
<1>4. /\ \A c \in Conns : Rising(run, wire[c]) /\ Below(run, Range(wire[c]), Range(hand))
      /\ Rising(run, log) /\ Rising(run, rx) /\ Rising(run, queue) /\ Rising(run, hand)
  BY PlacesSorted
<1>5. Rising(run, wire'[cli])
  <2>1. Below(run, Range(wire[cli]), {Head(hand)})
    BY <1>2, <1>3, <1>4 DEF Below
  <2> QED BY <1>2, <1>3, <1>4, <2>1, RisingParts
<1>6. Below(run, {Head(hand)}, Range(Tail(hand)))
  BY <1>2, <1>4, RisingParts
<1>7. \A k \in 1 .. MaxConns + 4 :
        /\ Rising(run, Pipeline'[k])
        /\ Range(Pipeline'[k]) \subseteq Range(Pipeline[k]) \cup (IF k = b THEN Range(Pipeline[a]) ELSE {})
  <2> SUFFICES ASSUME NEW k \in 1 .. MaxConns + 4
               PROVE  /\ Rising(run, Pipeline'[k])
                      /\ Range(Pipeline'[k]) \subseteq Range(Pipeline[k]) \cup (IF k = b THEN Range(Pipeline[a]) ELSE {})
    OBVIOUS
  <2>1. CASE k = b
    <3>1. Pipeline'[k] = wire'[cli] /\ Pipeline[k] = wire[cli] /\ Pipeline[a] = hand
      BY <1>1, <1>2, <2>1 DEF Placed
    <3> QED BY <1>3, <1>5, <2>1, <3>1
  <2>2. CASE \E c \in Conns \ {cli} : k = c + 2
    BY <1>1, <1>3, <1>4, <2>2 DEF Placed
  <2>3. CASE k \in {1, 2, MaxConns + 3, MaxConns + 4}
    BY <1>1, <1>3, <1>4, <2>3 DEF Placed
  <2> QED BY <2>1, <2>2, <2>3, PlaceOf
<1>8. Below(run, Range(Pipeline'[b]), Range(Pipeline'[a]))
  <2>1. Pipeline'[b] = wire'[cli] /\ Pipeline'[a] = hand'
    BY <1>1, <1>2 DEF Placed
  <2> QED BY <1>2, <1>3, <1>4, <1>6, <2>1 DEF Below
<1>9. \A k \in 1 .. MaxConns + 4 : b < k /\ k < a => Range(Pipeline[k]) = {}
  <2> SUFFICES ASSUME NEW k \in 1 .. MaxConns + 4, b < k, k < a PROVE Range(Pipeline[k]) = {}
    OBVIOUS
  <2>1. k - 2 \in Conns /\ k - 2 > conns /\ k = (k - 2) + 2
    BY <1>2 DEF Conns
  <2>2. Pipeline[k] = wire[k - 2]
    BY <1>1, <2>1 DEF Placed
  <2>3. wire[k - 2] = <<>>
    BY <2>1 DEF PathInv
  <2> QED BY <2>2, <2>3, RangeSmall
<1>10. a \in 1 .. MaxConns + 4 /\ b \in 1 .. MaxConns + 4 /\ b < a
  BY <1>2 DEF Conns
<1>11. DOMAIN Pipeline = 1 .. MaxConns + 4 /\ DOMAIN Pipeline' = 1 .. MaxConns + 4 /\ 1 .. MaxConns + 4 \subseteq Nat
  BY <1>1 DEF Placed
<1> HIDE DEF a, b
<1> QED BY <1>7, <1>8, <1>9, <1>10, <1>11, Shift

(* The server logs the first line it has, and keeps the others.  Lines it   *)
(* has just read come from its connection, and those accepted before carry  *)
(* nothing.                                                                *)
LEMMA OrderLogged ==
  ASSUME TypeOK, TypeOK', NEW run, NEW mid \in Seq(Alerts), NEW w \in [Conns -> Seq(Alerts)],
         Sorted(run, Line(log, mid, w, hand, queue)), UNCHANGED <<hand, queue>>,
         mid # <<>>, wire' = w,
         log' = Append(log, Head(mid)) \/ log' = log,
         Rising(run, rx'), Range(rx') \subseteq Range(Tail(mid))
  PROVE  Sorted(run, Pipeline')
<1> DEFINE f == Line(log, mid, w, hand, queue)
<1>1. /\ DOMAIN f = 1 .. MaxConns + 4 /\ f[1] = log /\ f[2] = mid
      /\ \A c \in Conns : f[c + 2] = w[c]
      /\ f[MaxConns + 3] = hand /\ f[MaxConns + 4] = queue
  <2>1. log \in Seq(Alerts) /\ hand \in Seq(Alerts) /\ queue \in Seq(Alerts)
    BY DEF TypeOK
  <2> QED BY <2>1, LineIs
<1> HIDE DEF f
<1>2. Sorted(run, f)
  BY DEF f
<1>3. Placed' /\ DOMAIN Pipeline' = 1 .. MaxConns + 4 /\ 1 .. MaxConns + 4 \subseteq Nat
  BY PlacedNext DEF Placed
<1>4. 1 \in 1 .. MaxConns + 4 /\ 2 \in 1 .. MaxConns + 4 /\ 1 < 2 /\ \A k \in 1 .. MaxConns + 4 : ~(1 < k /\ k < 2)
  OBVIOUS
<1>5. \A k \in 1 .. MaxConns + 4 : Rising(run, f[k])
  BY <1>1, <1>2 DEF Sorted
<1>6. Below(run, Range(log), Range(mid)) /\ Rising(run, log) /\ Rising(run, mid)
  BY <1>1, <1>2, <1>4 DEF Sorted
<1>7. Head(mid) \in Alerts /\ Range(mid) = {Head(mid)} \cup Range(Tail(mid))
  BY RangeTail
<1>8. Below(run, {Head(mid)}, Range(Tail(mid)))
  BY <1>6, RisingParts
<1>9. Rising(run, log') /\ Range(log') \subseteq Range(log) \cup {Head(mid)}
  <2>1. log \in Seq(Alerts)
    BY DEF TypeOK
  <2>2. Range(Append(log, Head(mid))) = Range(log) \cup {Head(mid)}
    BY <1>7, <2>1, RangeAppend
  <2>3. Below(run, Range(log), {Head(mid)})
    BY <1>6, <1>7 DEF Below
  <2>4. Rising(run, Append(log, Head(mid)))
    BY <1>6, <1>7, <2>1, <2>3, RisingParts
  <2> QED BY <1>6, <2>2, <2>4
<1>10. \A k \in 1 .. MaxConns + 4 :
         /\ Rising(run, Pipeline'[k])
         /\ Range(Pipeline'[k]) \subseteq Range(f[k]) \cup (IF k = 1 THEN Range(f[2]) ELSE {})
  <2> SUFFICES ASSUME NEW k \in 1 .. MaxConns + 4
               PROVE  /\ Rising(run, Pipeline'[k])
                      /\ Range(Pipeline'[k]) \subseteq Range(f[k]) \cup (IF k = 1 THEN Range(f[2]) ELSE {})
    OBVIOUS
  <2>1. CASE k = 1
    BY <1>1, <1>3, <1>7, <1>9, <2>1 DEF Placed
  <2>2. CASE k = 2
    BY <1>1, <1>3, <1>7, <2>2 DEF Placed
  <2>3. CASE k # 1 /\ k # 2
    <3>1. Pipeline'[k] = f[k]
      BY <1>1, <1>3, <2>3, PlaceOf DEF Placed
    <3> QED BY <1>5, <3>1
  <2> QED BY <2>1, <2>2, <2>3
<1>11. Below(run, Range(Pipeline'[1]), Range(Pipeline'[2]))
  <2>1. Pipeline'[1] = log' /\ Pipeline'[2] = rx'
    BY <1>3 DEF Placed
  <2> QED BY <1>6, <1>7, <1>8, <1>9, <2>1 DEF Below
<1> QED BY <1>1, <1>2, <1>3, <1>4, <1>10, <1>11, Shift

(* A chunk of k lines has been read and none of them taken yet.            *)
LEMMA OrderRead ==
  ASSUME TypeOK, PathInv, NEW run, Sorted(run, Pipeline), srv # 0, rx = <<>>,
         NEW k \in 1 .. Len(wire[srv])
  PROVE  Sorted(run, Line(log, SubSeq(wire[srv], 1, k),
                          [wire EXCEPT ![srv] = SubSeq(wire[srv], k + 1, Len(wire[srv]))], hand, queue))
<1> DEFINE s == wire[srv]
           rest == SubSeq(s, k + 1, Len(s))
           w == [wire EXCEPT ![srv] = rest]
           f == Line(log, SubSeq(s, 1, k), w, hand, queue)
           a == srv + 2
<1>1. /\ srv \in Conns /\ srv = accepted /\ wire \in [Conns -> Seq(Alerts)]
      /\ log \in Seq(Alerts) /\ hand \in Seq(Alerts) /\ queue \in Seq(Alerts)
  BY DEF TypeOK, PathInv, Conns
<1>2. s \in Seq(Alerts) /\ Len(s) \in Nat
  BY <1>1, LenProperties
<1>3. /\ SubSeq(s, 1, k) \in Seq(Alerts) /\ rest \in Seq(Alerts)
      /\ Range(SubSeq(s, 1, k)) = {s[i] : i \in 1 .. k} /\ Range(SubSeq(s, 1, k)) \subseteq Range(s)
      /\ Range(rest) = {s[i] : i \in k + 1 .. Len(s)} /\ Range(rest) \subseteq Range(s)
  <2>1. 1 \in Nat \ {0} /\ k \in Nat /\ k <= Len(s) /\ k + 1 \in Nat \ {0} /\ Len(s) <= Len(s)
    BY <1>2
  <2> HIDE DEF s
  <2> QED BY <1>2, <2>1, RangeSubSeq
<1>4. Rising(run, s)
  BY <1>1, PlacesSorted
<1>5. Rising(run, SubSeq(s, 1, k)) /\ Rising(run, rest)
  <2>1. 1 \in Nat \ {0} /\ k \in Nat /\ k <= Len(s) /\ k + 1 \in Nat \ {0} /\ Len(s) <= Len(s)
    BY <1>2
  <2> HIDE DEF s
  <2> QED BY <1>2, <1>4, <2>1, RisingParts
<1>6. Below(run, Range(SubSeq(s, 1, k)), Range(rest))
  <2>1. DOMAIN s = 1 .. Len(s)
    BY <1>2, LenProperties
  <2>2. \A i \in 1 .. k, j \in k + 1 .. Len(s) : i \in 1 .. Len(s) /\ j \in 1 .. Len(s) /\ i < j
    BY <1>2
  <2>3. \A i \in 1 .. k, j \in k + 1 .. Len(s) : Less(run, s[i], s[j])
    BY <1>4, <2>1, <2>2 DEF Rising
  <2> HIDE DEF s, rest
  <2> QED BY <1>3, <2>3 DEF Below
<1>7. w \in [Conns -> Seq(Alerts)] /\ w[srv] = rest /\ \A c \in Conns : c # srv => w[c] = wire[c]
  BY <1>1, <1>3
<1>8. /\ DOMAIN f = 1 .. MaxConns + 4 /\ f[1] = log /\ f[2] = SubSeq(s, 1, k)
      /\ \A c \in Conns : f[c + 2] = w[c]
      /\ f[MaxConns + 3] = hand /\ f[MaxConns + 4] = queue
  <2> DEFINE mid == SubSeq(s, 1, k)
  <2>1. /\ log \in Seq(Alerts) /\ hand \in Seq(Alerts) /\ queue \in Seq(Alerts)
        /\ mid \in Seq(Alerts) /\ w \in [Conns -> Seq(Alerts)]
    BY <1>1, <1>3, <1>7
  <2>2. f = Line(log, mid, w, hand, queue)
    OBVIOUS
  <2> HIDE DEF w, mid
  <2> DEFINE g == Line(log, mid, w, hand, queue)
  <2>3. /\ DOMAIN g = 1 .. MaxConns + 4 /\ g[1] = log /\ g[2] = mid
        /\ \A c \in Conns : g[c + 2] = w[c]
        /\ g[MaxConns + 3] = hand /\ g[MaxConns + 4] = queue
    BY <2>1, LineIs
  <2> HIDE DEF f, g
  <2>4. f = g
    BY <2>2 DEF g
  <2> QED BY <2>3, <2>4 DEF mid
<1>9. Placed /\ DOMAIN Pipeline = 1 .. MaxConns + 4 /\ 1 .. MaxConns + 4 \subseteq Nat
  BY PlacedNow DEF Placed
<1> HIDE DEF w, f, rest
<1>10. a \in 1 .. MaxConns + 4 /\ 2 \in 1 .. MaxConns + 4 /\ 2 < a
  BY <1>1 DEF Conns
<1>11. \A l \in 1 .. MaxConns + 4 : 2 < l /\ l < a => Range(Pipeline[l]) = {}
  <2> SUFFICES ASSUME NEW l \in 1 .. MaxConns + 4, 2 < l, l < a PROVE Range(Pipeline[l]) = {}
    OBVIOUS
  <2>1. l - 2 \in Conns /\ l - 2 < srv /\ l = (l - 2) + 2
    BY <1>1 DEF Conns
  <2>2. Pipeline[l] = wire[l - 2]
    BY <1>9, <2>1 DEF Placed
  <2>3. wire[l - 2] = <<>>
    <3>1. l - 2 <= accepted /\ l - 2 # srv
      BY <1>1, <2>1 DEF Conns
    <3> QED BY <2>1, <3>1 DEF PathInv
  <2> QED BY <2>2, <2>3, RangeSmall
<1>12. \A l \in 1 .. MaxConns + 4 :
         /\ Rising(run, f[l])
         /\ Range(f[l]) \subseteq Range(Pipeline[l]) \cup (IF l = 2 THEN Range(Pipeline[a]) ELSE {})
  <2> SUFFICES ASSUME NEW l \in 1 .. MaxConns + 4
               PROVE  /\ Rising(run, f[l])
                      /\ Range(f[l]) \subseteq Range(Pipeline[l]) \cup (IF l = 2 THEN Range(Pipeline[a]) ELSE {})
    OBVIOUS
  <2>0. Pipeline[a] = s
    BY <1>1, <1>9 DEF Placed
  <2>1. CASE l = 2
    BY <1>3, <1>5, <1>8, <2>0, <2>1
  <2>2. CASE l = a
    <3>1. f[l] = rest /\ l # 2
      BY <1>1, <1>7, <1>8, <1>10, <2>2
    <3> QED BY <1>3, <1>5, <2>0, <2>2, <3>1
  <2>3. CASE l # 2 /\ l # a
    <3>1. f[l] = Pipeline[l]
      <4>1. CASE l \in {1, MaxConns + 3, MaxConns + 4}
        BY <1>8, <1>9, <4>1 DEF Placed
      <4>2. CASE \E c \in Conns : l = c + 2
        <5>1. PICK c \in Conns : l = c + 2
          BY <4>2
        <5>2. c # srv
          BY <2>3, <5>1
        <5> QED BY <1>7, <1>8, <1>9, <5>1, <5>2 DEF Placed
      <4> QED BY <2>3, <4>1, <4>2, PlaceOf
    <3> QED BY <1>9, <3>1 DEF Sorted
  <2> QED BY <2>1, <2>2, <2>3
<1>13. Below(run, Range(f[2]), Range(f[a]))
  <2>1. f[a] = rest
    BY <1>1, <1>7, <1>8
  <2> QED BY <1>6, <1>8, <2>1
<1>14. Sorted(run, f)
  <2> HIDE DEF a
  <2> QED BY <1>8, <1>9, <1>10, <1>11, <1>12, <1>13, Shift
<1> QED BY <1>14 DEF f, w, rest

(* The first k elements of a sequence, and what follows the first of them. *)
LEMMA FirstOfChunk ==
  ASSUME NEW S, NEW s \in Seq(S), NEW k \in 1 .. Len(s)
  PROVE  /\ SubSeq(s, 1, k) \in Seq(S) /\ SubSeq(s, 1, k) # <<>> /\ Head(SubSeq(s, 1, k)) = Head(s)
         /\ Range(SubSeq(s, 2, k)) \subseteq Range(Tail(SubSeq(s, 1, k)))
<1> DEFINE mid == SubSeq(s, 1, k)
<1>0. Len(s) \in Nat /\ k \in Nat /\ 1 <= k /\ k <= Len(s) /\ \A i \in 1 .. k : s[i] \in S
  BY LenProperties
<1>1. mid \in Seq(S) /\ Len(mid) = k /\ \A i \in 1 .. k : mid[i] = s[i]
  BY <1>0, SubSeqProperties
<1> HIDE DEF mid
<1>2. mid # <<>> /\ Head(mid) = mid[1] /\ Head(s) = s[1]
  BY <1>0, <1>1, LenProperties
<1>3. /\ Tail(mid) \in Seq(S) /\ Len(Tail(mid)) = k - 1
      /\ \A i \in 1 .. Len(Tail(mid)) : Tail(mid)[i] = mid[i + 1]
  BY <1>1, <1>2, HeadTailProperties
<1>4. DOMAIN Tail(mid) = 1 .. k - 1
  BY <1>3, LenProperties
<1>5. Range(SubSeq(s, 2, k)) = {s[i] : i \in 2 .. k}
  BY <1>0, RangeSubSeq
<1>6. ASSUME NEW i \in 2 .. k PROVE s[i] \in Range(Tail(mid))
  <2>1. i - 1 \in 1 .. k - 1 /\ i \in 1 .. k /\ (i - 1) + 1 = i
    BY <1>0
  <2>2. Tail(mid)[i - 1] = s[i]
    BY <1>1, <1>3, <2>1
  <2> QED BY <1>4, <2>1, <2>2 DEF Range
<1> QED BY <1>0, <1>1, <1>2, <1>5, <1>6 DEF mid

(* The server reads a chunk of k lines, logs the first and keeps the others. *)
LEMMA OrderChunk ==
  ASSUME TypeOK, TypeOK', PathInv, NEW run, Sorted(run, Pipeline), srv # 0, rx = <<>>,
         NEW k \in 1 .. Len(wire[srv]), UNCHANGED <<hand, queue>>, rx' = SubSeq(wire[srv], 2, k),
         wire' = [wire EXCEPT ![srv] = SubSeq(wire[srv], k + 1, Len(wire[srv]))],
         log' = Append(log, Head(wire[srv])) \/ log' = log
  PROVE  Sorted(run, Pipeline')
<1> DEFINE mid == SubSeq(wire[srv], 1, k)
<1>1. wire[srv] \in Seq(Alerts) /\ wire' \in [Conns -> Seq(Alerts)] /\ Rising(run, wire[srv])
  <2>1. srv \in Conns
    BY DEF TypeOK, Conns
  <2> QED BY <2>1, PlacesSorted DEF TypeOK
<1>2. /\ mid \in Seq(Alerts) /\ mid # <<>> /\ Head(mid) = Head(wire[srv])
      /\ Range(rx') \subseteq Range(Tail(mid))
  BY <1>1, FirstOfChunk
<1>3. Rising(run, rx')
  <2>1. 2 \in Nat \ {0} /\ k \in Nat /\ k <= Len(wire[srv])
    BY <1>1, LenProperties
  <2> QED BY <1>1, <2>1, RisingParts
<1>4. Sorted(run, Line(log, mid, wire', hand, queue))
  BY OrderRead
<1> HIDE DEF mid
<1>5. log' = Append(log, Head(mid)) \/ log' = log
  BY <1>2
<1> QED BY <1>1, <1>2, <1>3, <1>4, <1>5, OrderLogged

(* A push of an alert that comes after all of a queue keeps its order.     *)
LEMMA RisingPush ==
  ASSUME NEW run, NEW q \in Seq(Alerts), NEW e \in Alerts, Len(q) <= Capacity,
         Rising(run, q), Below(run, Range(q), {e})
  PROVE  Rising(run, Push(q, e)) /\ Range(Push(q, e)) \subseteq Range(q) \cup {e}
<1>1. CASE IsFull(q)
  <2>1. q # <<>> /\ Range(Push(q, e)) = {e} \cup Range(Tail(q))
    BY <1>1, PushType
  <2>2. Tail(q) \in Seq(Alerts) /\ Range(Tail(q)) \subseteq Range(q)
    BY <2>1, RangeTail
  <2>3. Rising(run, Tail(q)) /\ Below(run, Range(Tail(q)), {e})
    BY <2>1, <2>2, RisingParts DEF Below
  <2>4. Rising(run, Append(Tail(q), e))
    BY <2>2, <2>3, RisingParts
  <2>5. Push(q, e) = Append(Tail(q), e)
    BY <1>1 DEF Push
  <2> QED BY <2>1, <2>2, <2>4, <2>5
<1>2. CASE ~IsFull(q)
  <2>1. Range(Push(q, e)) = {e} \cup Range(q)
    BY <1>2, PushType
  <2>2. Rising(run, Append(q, e))
    BY RisingParts
  <2>3. Push(q, e) = Append(q, e)
    BY <1>2 DEF Push
  <2> QED BY <2>1, <2>2, <2>3
<1> QED BY <1>1, <1>2

(* The pipeline once the network thread is done with what it held, and      *)
(* before the queue gets what it could not send.                           *)
LEMMA LineTaken ==
  ASSUME TypeOK, TypeOK'
  PROVE  LET f == Line(log, rx, wire, hand', queue)
         IN  /\ DOMAIN f = 1 .. MaxConns + 4 /\ f[1] = log /\ f[2] = rx
             /\ \A c \in Conns : f[c + 2] = wire[c]
             /\ f[MaxConns + 3] = hand' /\ f[MaxConns + 4] = queue
<1>1. /\ log \in Seq(Alerts) /\ rx \in Seq(Alerts) /\ wire \in [Conns -> Seq(Alerts)]
      /\ hand' \in Seq(Alerts) /\ queue \in Seq(Alerts)
  BY DEF TypeOK
<1> QED BY <1>1, LineIs

(* The same for the pipeline: the queue is its end.                        *)
LEMMA OrderPushed ==
  ASSUME TypeOK, TypeOK', NEW run, NEW e \in Alerts, UNCHANGED <<log, rx, wire>>,
         Sorted(run, Line(log, rx, wire, hand', queue)), queue' = Push(queue, e),
         \A k \in 1 .. MaxConns + 4 : \A x \in Range(Line(log, rx, wire, hand', queue)[k]) : Less(run, x, e)
  PROVE  Sorted(run, Pipeline')
<1> DEFINE f == Line(log, rx, wire, hand', queue)
           m == MaxConns + 4
<1>0. /\ log \in Seq(Alerts) /\ rx \in Seq(Alerts) /\ wire \in [Conns -> Seq(Alerts)]
      /\ hand' \in Seq(Alerts) /\ queue \in Seq(Alerts) /\ Len(queue) <= Capacity
  BY DEF TypeOK
<1>1. /\ DOMAIN f = 1 .. MaxConns + 4 /\ f[1] = log /\ f[2] = rx
      /\ \A c \in Conns : f[c + 2] = wire[c]
      /\ f[MaxConns + 3] = hand' /\ f[MaxConns + 4] = queue
  BY LineTaken
<1>2. Sorted(run, f) /\ \A k \in 1 .. MaxConns + 4 : \A x \in Range(f[k]) : Less(run, x, e)
  OBVIOUS
<1> HIDE DEF f
<1>3. Placed' /\ DOMAIN Pipeline' = 1 .. MaxConns + 4
  BY PlacedNext DEF Placed
<1>4. m \in 1 .. MaxConns + 4 /\ \A k \in 1 .. MaxConns + 4 : ~(m < k)
  OBVIOUS
<1>5. \A k \in 1 .. MaxConns + 4 : Rising(run, f[k])
  BY <1>1, <1>2 DEF Sorted
<1>6. Rising(run, queue') /\ Range(queue') \subseteq Range(queue) \cup {e}
  <2>1. Rising(run, queue) /\ Below(run, Range(queue), {e})
    BY <1>1, <1>2, <1>4, <1>5 DEF Below
  <2> QED BY <1>0, <2>1, RisingPush
<1>7. \A k \in 1 .. MaxConns + 4 :
        /\ Rising(run, Pipeline'[k])
        /\ Range(Pipeline'[k]) \subseteq Range(f[k]) \cup (IF k = m THEN {e} ELSE {})
  <2> SUFFICES ASSUME NEW k \in 1 .. MaxConns + 4
               PROVE  /\ Rising(run, Pipeline'[k])
                      /\ Range(Pipeline'[k]) \subseteq Range(f[k]) \cup (IF k = m THEN {e} ELSE {})
    OBVIOUS
  <2>1. CASE k = m
    BY <1>1, <1>3, <1>6, <2>1 DEF Placed
  <2>2. CASE k # m
    <3>1. Pipeline'[k] = f[k]
      BY <1>1, <1>3, <2>2, PlaceOf DEF Placed
    <3> QED BY <1>5, <3>1
  <2> QED BY <2>1, <2>2
<1> HIDE DEF m
<1>8. /\ DOMAIN Pipeline' = DOMAIN f /\ m \in DOMAIN f /\ \A k \in DOMAIN f : ~(m < k)
      /\ \A k \in DOMAIN f : \A x \in Range(f[k]) : Less(run, x, e)
      /\ \A k \in DOMAIN f : /\ Rising(run, Pipeline'[k])
                             /\ Range(Pipeline'[k]) \subseteq Range(f[k]) \cup (IF k = m THEN {e} ELSE {})
  BY <1>1, <1>2, <1>3, <1>4, <1>7
<1>9. Sorted(run, f)
  BY <1>2
<1> QED BY <1>8, <1>9, Extend

(* Every alert of the pipeline has been raised.                            *)
LEMMA Inside ==
  ASSUME TypeOK, NoDuplicates
  PROVE  /\ \A k \in 1 .. MaxConns + 4 : Range(Pipeline[k]) \subseteq 1 .. raised
         /\ 1 .. raised \subseteq Alerts /\ raised \in Nat
<1>1. Underway \cup Range(log) \subseteq 1 .. raised
  BY DEF NoDuplicates
<1>2. \A c \in Conns : Range(wire[c]) \subseteq Underway
  BY DEF Underway, OnWire
<1>3. Placed
  BY PlacedNow
<1>4. \A k \in 1 .. MaxConns + 4 : Range(Pipeline[k]) \subseteq 1 .. raised
  BY <1>1, <1>2, <1>3, PlaceOf DEF Placed, Underway, InAgent
<1>5. 1 .. raised \subseteq Alerts /\ raised \in Nat
  BY DEF TypeOK, Alerts
<1> QED BY <1>4, <1>5

(* A new alert is the youngest of the last run.                            *)
LEMMA RunsRaise == TypeOK /\ TypeOK' /\ NoDuplicates /\ RunInv /\ Raise => RunInv'
<1> SUFFICES ASSUME TypeOK, TypeOK', NoDuplicates, RunInv, Raise PROVE RunInv'
  OBVIOUS
<1> DEFINE n == raised + 1
           N == Cardinality(Settled)
<1>1. /\ n \in Alerts /\ queue' = Push(queue, n)
      /\ UNCHANGED <<hand, pc, cli, conns, conn, wire, rx, log>>
  BY DEF Raise, TypeOK, Alerts, netVars, serverVars
<1>2. PICK run \in [Alerts -> Nat] : Runs(run)
  BY DEF RunInv
<1>3. N \in Nat /\ \A x \in Alerts : run[x] \in Nat /\ run[x] <= N
  BY <1>2, SettledFinite DEF Runs
<1>4. Cardinality(Settled') = N
  BY <1>1 DEF Settled, Pending, Broken
<1> HIDE DEF N
<1> DEFINE new == [run EXCEPT ![n] = N]
<1>5. new \in [Alerts -> Nat] /\ new[n] = N /\ \A x \in Alerts : new[x] <= N /\ (x # n => new[x] = run[x])
  BY <1>1, <1>2, <1>3
<1>6. DOMAIN Pipeline = 1 .. MaxConns + 4
  BY PlacedNow DEF Placed
<1>7. \A k \in 1 .. MaxConns + 4 : \A x \in Range(Pipeline[k]) : x \in Alerts /\ x < n
  <2> SUFFICES ASSUME NEW k \in 1 .. MaxConns + 4, NEW x \in Range(Pipeline[k]) PROVE x \in Alerts /\ x < n
    OBVIOUS
  <2>1. x \in 1 .. raised /\ x \in Alerts /\ raised \in Nat
    BY Inside
  <2> QED BY <2>1
<1>8. Sorted(new, Pipeline)
  <2>1. \A k \in DOMAIN Pipeline : \A x \in Range(Pipeline[k]) : new[x] = run[x]
    <3>1. \A k \in 1 .. MaxConns + 4 : \A x \in Range(Pipeline[k]) : x \in Alerts /\ x # n
      BY <1>7 DEF Alerts
    <3> QED BY <1>5, <1>6, <3>1
  <2>2. Sorted(run, Pipeline)
    BY <1>2 DEF Runs
  <2> HIDE DEF new
  <2> QED BY <2>1, <2>2, Rerun
<1> HIDE DEF new
<1>9. \A k \in 1 .. MaxConns + 4 : \A x \in Range(Pipeline[k]) : Less(new, x, n)
  <2> SUFFICES ASSUME NEW k \in 1 .. MaxConns + 4, NEW x \in Range(Pipeline[k]) PROVE Less(new, x, n)
    OBVIOUS
  <2>1. new[x] \in Nat /\ new[x] <= N /\ x < n
    BY <1>5, <1>7
  <2> QED BY <1>3, <1>5, <2>1 DEF Less
<1>10. Pipeline = Line(log, rx, wire, hand', queue)
  BY <1>1 DEF Pipeline, Line
<1> HIDE DEF n
<1>11. Sorted(new, Pipeline')
  BY <1>1, <1>8, <1>9, <1>10, OrderPushed
<1> QED BY <1>4, <1>5, <1>11 DEF RunInv, Runs

(* A requeued alert begins a run, and there is one more connection to put   *)
(* it down to.                                                             *)
LEMMA RunsRequeue ==
  ASSUME TypeOK, TypeOK', NoDuplicates, PathInv, RunInv, [Next]_vars, pc = "send", SendFails(cli),
         queue' = Requeue(queue, Head(hand)), hand' = <<>>, cli' = 0, pc' = "top",
         UNCHANGED <<conns, conn, wire, rx, log>>
  PROVE  RunInv'
<1> DEFINE e == Head(hand)
           N == Cardinality(Settled)
           f == Line(log, rx, wire, hand', queue)
<1>1. /\ hand \in Seq(Alerts) /\ hand # <<>> /\ e \in Alerts /\ e \in Range(hand)
      /\ queue' = Push(queue, e)
  <2>1. hand \in Seq(Alerts) /\ hand # <<>>
    BY DEF TypeOK
  <2> QED BY <2>1, RangeTail DEF Requeue
<1>2. PICK run \in [Alerts -> Nat] : Runs(run)
  BY DEF RunInv
<1>3. N \in Nat /\ \A x \in Alerts : run[x] \in Nat /\ run[x] <= N
  BY <1>2, SettledFinite DEF Runs
<1>4. Cardinality(Settled') = N + 1
  <2>1. conns \in Broken
    <3>1. CASE cli # 0
      <4>1. cli = conns /\ conn[cli] \in {"halfopen", "dead"} /\ cli \in Conns
        BY <3>1 DEF SendFails, PathInv, TypeOK, Conns
      <4> QED BY <4>1 DEF Broken
    <3>2. CASE cli = 0
      BY <3>2 DEF PathInv
    <3> QED BY <3>1, <3>2
  <2>2. Settled = Broken \ {conns} /\ Settled' = Broken
    BY DEF Settled, Pending, Broken
  <2>3. Cardinality(Broken \ {conns}) = Cardinality(Broken) - 1
    BY <2>1, SettledFinite, FS_RemoveElement
  <2>4. Cardinality(Broken) \in Nat
    BY SettledFinite, FS_CardinalityType
  <2> QED BY <2>2, <2>3, <2>4
<1> HIDE DEF N
<1> DEFINE new == [run EXCEPT ![e] = N + 1]
<1>5. new \in [Alerts -> Nat] /\ new[e] = N + 1 /\ \A x \in Alerts : new[x] <= N + 1 /\ (x # e => new[x] = run[x])
  BY <1>1, <1>2, <1>3
<1>6. /\ DOMAIN f = 1 .. MaxConns + 4 /\ f[1] = log /\ f[2] = rx
      /\ \A c \in Conns : f[c + 2] = wire[c]
      /\ f[MaxConns + 3] = hand' /\ f[MaxConns + 4] = queue
  BY LineTaken
<1> HIDE DEF f
<1>7. Placed /\ DOMAIN Pipeline = 1 .. MaxConns + 4
  BY PlacedNow DEF Placed
<1>8. \A k \in 1 .. MaxConns + 4 : k # MaxConns + 3 => f[k] = Pipeline[k]
  BY <1>6, <1>7, PlaceOf DEF Placed
<1>9. Range(hand') = {} /\ MaxConns + 3 \in 1 .. MaxConns + 4
  BY RangeSmall
<1>10. Sorted(run, f)
  <2>1. Sorted(run, Pipeline)
    BY <1>2 DEF Runs
  <2>2. Rising(run, hand')
    BY DEF Rising
  <2>3. \A k \in 1 .. MaxConns + 4 : Range(f[k]) \subseteq Range(Pipeline[k]) /\ Rising(run, f[k])
    BY <1>6, <1>7, <1>8, <1>9, <2>1, <2>2 DEF Sorted
  <2> QED BY <1>6, <1>7, <2>1, <2>3, Shrink
<1>11. \A k \in 1 .. MaxConns + 4 : \A x \in Range(f[k]) : x \in Alerts /\ x # e
  <2> SUFFICES ASSUME NEW k \in 1 .. MaxConns + 4, NEW x \in Range(f[k]) PROVE x \in Alerts /\ x # e
    OBVIOUS
  <2>1. k # MaxConns + 3
    BY <1>6, <1>9
  <2>2. x \in Range(Pipeline[k])
    BY <1>8, <2>1
  <2>3. x \in Alerts
    BY <2>2, Inside
  <2>4. e \in InAgent /\ e \in Underway
    BY <1>1 DEF InAgent, Underway
  <2>5. CASE k \in {1, 2, MaxConns + 4}
    <3>1. /\ Range(queue) \cap Range(hand) = {} /\ (InAgent \cup OnWire) \cap Range(rx) = {}
          /\ Underway \cap Range(log) = {}
      BY DEF NoDuplicates
    <3> HIDE DEF e
    <3>2. x # e
      BY <1>1, <1>6, <2>4, <2>5, <3>1
    <3> QED BY <2>3, <3>2
  <2>6. CASE \E c \in Conns : k = c + 2
    <3>1. PICK c \in Conns : k = c + 2
      BY <2>6
    <3>2. x \in OnWire
      BY <1>6, <3>1 DEF OnWire
    <3> QED BY <2>3, <2>4, <3>2 DEF NoDuplicates
  <2> QED BY <2>1, <2>3, <2>5, <2>6, PlaceOf
<1>12. Sorted(new, f)
  <2>1. \A k \in DOMAIN f : \A x \in Range(f[k]) : new[x] = run[x]
    BY <1>5, <1>6, <1>11
  <2> HIDE DEF new
  <2> QED BY <1>10, <2>1, Rerun
<1> HIDE DEF new
<1>13. \A k \in 1 .. MaxConns + 4 : \A x \in Range(f[k]) : Less(new, x, e)
  <2> SUFFICES ASSUME NEW k \in 1 .. MaxConns + 4, NEW x \in Range(f[k]) PROVE Less(new, x, e)
    OBVIOUS
  <2>1. new[x] = run[x] /\ run[x] \in Nat /\ run[x] <= N
    BY <1>3, <1>5, <1>11
  <2> QED BY <1>3, <1>5, <2>1 DEF Less
<1>14. Sorted(new, Pipeline')
  <2> HIDE DEF e
  <2> QED BY <1>1, <1>12, <1>13, OrderPushed DEF f
<1> QED BY <1>4, <1>5, <1>14 DEF RunInv, Runs
(* What a step leaves where it is stays in order.                          *)
LEMMA RunsStay ==
  ASSUME TypeOK, PathInv, RunInv, [Next]_vars, UNCHANGED <<log, rx, wire, hand, queue>>
  PROVE  RunInv'
<1>1. Pipeline' = Pipeline
  BY DEF Pipeline
<1> QED BY <1>1, RunsKept

(* The agent's steps keep the runs; one begins one.                        *)
LEMMA RunsAgent ==
  TypeOK /\ TypeOK' /\ NoDuplicates /\ PathInv /\ RunInv /\ (Raise \/ NetworkStep) => RunInv'
<1> SUFFICES ASSUME TypeOK, TypeOK', NoDuplicates, PathInv, RunInv, Raise \/ NetworkStep PROVE RunInv'
  OBVIOUS
<1> USE DEF At, Goto, netVars, serverVars
<1>0. /\ [Next]_vars
      /\ queue \in Seq(Alerts) /\ hand \in Seq(Alerts) /\ wire \in [Conns -> Seq(Alerts)]
      /\ Range(<<>>) = {} /\ \A run : Rising(run, <<>>)
  BY RangeSmall DEF Next, TypeOK, Rising
<1>1. CASE StayConnected \/ Connect \/ ConnectRefused \/ BackoffOver \/ ReceiveNothing \/ ReceiveBroken
  <2>1. UNCHANGED <<log, rx, wire, hand, queue>>
    BY <1>1 DEF StayConnected, Connect, ConnectRefused, BackoffOver, ReceiveNothing, ReceiveBroken
  <2> QED BY <1>0, <2>1, RunsStay
<1>2. CASE DrainAll
  <2>1. hand = <<>> /\ hand' = queue /\ queue' = <<>> /\ UNCHANGED <<log, rx, wire>>
    BY <1>2 DEF DrainAll, Drained, AfterDrain, TypeOK
  <2>2. ASSUME NEW run, Sorted(run, Pipeline) PROVE Sorted(run, Pipeline')
    <3>1. Rising(run, queue)
      BY <2>2, PlacesSorted
    <3>2. Below(run, Range(hand'), Range(queue')) /\ Range(hand') = Range(queue) /\ Range(queue') \subseteq Range(queue)
      BY <1>0, <2>1 DEF Below
    <3>3. Rising(run, hand') /\ Rising(run, queue')
      BY <1>0, <2>1, <3>1
    <3> QED BY <2>1, <2>2, <3>2, <3>3, OrderTaken
  <2> QED BY <1>0, <2>2, RunsKept
<1>3. CASE FlushOne \/ SendOne
  <2>1. /\ hand # <<>> /\ UNCHANGED <<conns, conn, log, rx>>
        /\ hand' = <<>> \/ hand' = Tail(hand)
    BY <1>3 DEF FlushOne, SendOne, TypeOK
  <2>2. Range(hand') \subseteq Range(Tail(hand)) /\ Range(Tail(hand)) \subseteq Range(hand)
    BY <1>0, <2>1, RangeTail
  <2>3. ASSUME NEW run, Sorted(run, Pipeline)
        PROVE  /\ Rising(run, hand') /\ Rising(run, queue) /\ Rising(run, log) /\ Rising(run, rx)
               /\ \A c \in Conns : Rising(run, wire[c])
    <3>1. /\ Rising(run, hand) /\ Rising(run, queue) /\ Rising(run, log) /\ Rising(run, rx)
          /\ \A c \in Conns : Rising(run, wire[c])
      BY <2>3, PlacesSorted
    <3>2. Rising(run, Tail(hand))
      BY <1>0, <2>1, <3>1, RisingParts
    <3> QED BY <1>0, <2>1, <3>1, <3>2
  <2>4. CASE queue' = queue /\ wire' = wire
    <3>1. ASSUME NEW run, Sorted(run, Pipeline) PROVE Sorted(run, Pipeline')
      <4> QED BY <2>1, <2>2, <2>3, <2>4, <3>1, OrderShrinks
    <3> QED BY <1>0, <3>1, RunsKept
  <2>5. CASE queue' = queue /\ cli # 0 /\ wire' = [wire EXCEPT ![cli] = Append(wire[cli], Head(hand))]
    <3>1. ASSUME NEW run, Sorted(run, Pipeline) PROVE Sorted(run, Pipeline')
      <4> QED BY <2>1, <2>2, <2>3, <2>5, <3>1, OrderSent
    <3> QED BY <1>0, <3>1, RunsKept
  <2>6. CASE /\ pc = "send" /\ SendFails(cli) /\ queue' = Requeue(queue, Head(hand)) /\ hand' = <<>>
             /\ cli' = 0 /\ pc' = "top" /\ wire' = wire
    BY <1>0, <2>1, <2>6, RunsRequeue
  <2> QED BY <1>3, <2>4, <2>5, <2>6 DEF FlushOne, SendOne, SendOk
<1>4. CASE Pop
  <2>1. CASE UNCHANGED <<hand, queue>>
    <3>1. UNCHANGED <<log, rx, wire, hand, queue>>
      BY <1>4, <2>1 DEF Pop
    <3> QED BY <1>0, <3>1, RunsStay
  <2>2. CASE queue # <<>> /\ hand' = <<Head(queue)>> /\ queue' = Tail(queue)
    <3>1. hand = <<>> /\ UNCHANGED <<log, rx, wire>>
      BY <1>4 DEF Pop, TypeOK
    <3>2. /\ Range(hand') = {Head(queue)} /\ Range(hand') \subseteq Range(queue)
          /\ Range(queue') \subseteq Range(queue)
      BY <1>0, <2>2, RangeTail, RangeSmall
    <3>3. ASSUME NEW run, Sorted(run, Pipeline) PROVE Sorted(run, Pipeline')
      <4>1. Rising(run, queue)
        BY <3>3, PlacesSorted
      <4>2. Rising(run, <<Head(queue)>>) /\ Rising(run, Tail(queue)) /\ Below(run, {Head(queue)}, Range(Tail(queue)))
        BY <1>0, <2>2, <4>1, RisingParts
      <4>3. Rising(run, hand') /\ Rising(run, queue') /\ Below(run, Range(hand'), Range(queue'))
        BY <2>2, <3>2, <4>2
      <4> QED BY <3>1, <3>2, <3>3, <4>3, OrderTaken
    <3> QED BY <1>0, <3>3, RunsKept
  <2> QED BY <1>4, <2>1, <2>2 DEF Pop, CanPop, Oldest, AfterPop
<1>5. CASE Raise
  BY <1>5, RunsRaise
<1> QED BY <1>1, <1>2, <1>3, <1>4, <1>5 DEF NetworkStep

(* The server's steps keep them.                                           *)
LEMMA RunsServer ==
  TypeOK /\ TypeOK' /\ PathInv /\ RunInv /\ (ServerStep \/ ReloadConfig) => RunInv'
<1> SUFFICES ASSUME TypeOK, TypeOK', PathInv, RunInv, ServerStep \/ ReloadConfig PROVE RunInv'
  OBVIOUS
<1> USE DEF agentVars, netVars
<1>0. /\ [Next]_vars
      /\ rx \in Seq(Alerts) /\ wire \in [Conns -> Seq(Alerts)] /\ srv \in 0 .. MaxConns
      /\ Range(<<>>) = {} /\ \A run : Rising(run, <<>>)
  BY RangeSmall DEF Next, TypeOK, Rising
<1>1. CASE ServerDisconnect
  <2>1. UNCHANGED <<log, rx, wire, hand, queue>>
    BY <1>1 DEF ServerDisconnect
  <2> QED BY <1>0, <2>1, RunsStay
<1>2. CASE Accept \/ ReloadConfig
  <2>1. /\ UNCHANGED <<hand, queue, log>>
        /\ rx' = rx \/ rx' = <<>>
        /\ \A c \in Conns : wire'[c] = wire[c] \/ wire'[c] = <<>>
    BY <1>0, <1>2 DEF Accept, ReloadConfig, PushConfig
  <2>2. ASSUME NEW run, Sorted(run, Pipeline) PROVE Sorted(run, Pipeline')
    <3>1. /\ Rising(run, hand) /\ Rising(run, queue) /\ Rising(run, log) /\ Rising(run, rx)
          /\ \A c \in Conns : Rising(run, wire[c])
      BY <2>2, PlacesSorted
    <3>2. \A c \in Conns : Rising(run, wire'[c]) /\ Range(wire'[c]) \subseteq Range(wire[c])
      BY <1>0, <2>1, <3>1
    <3>3. Rising(run, rx') /\ Range(rx') \subseteq Range(rx)
      BY <1>0, <2>1, <3>1
    <3>4. /\ Rising(run, log') /\ Range(log') \subseteq Range(log)
          /\ Rising(run, hand') /\ Range(hand') \subseteq Range(hand)
          /\ Rising(run, queue') /\ Range(queue') \subseteq Range(queue)
      BY <2>1, <3>1
    <3> QED BY <2>2, <3>2, <3>3, <3>4, OrderShrinks
  <2> QED BY <1>0, <2>2, RunsKept
<1>3. CASE TakeBuffered
  <2>1. /\ rx # <<>> /\ rx' = Tail(rx) /\ UNCHANGED <<hand, queue, wire>>
        /\ log' = Append(log, Head(rx)) \/ log' = log
    BY <1>3 DEF TakeBuffered, WriteAlertLog
  <2>2. ASSUME NEW run, Sorted(run, Pipeline) PROVE Sorted(run, Pipeline')
    <3>1. Rising(run, rx')
      BY <1>0, <2>1, <2>2, PlacesSorted, RisingParts
    <3>2. Sorted(run, Line(log, rx, wire, hand, queue))
      BY <2>2 DEF Pipeline, Line
    <3> QED BY <1>0, <2>1, <3>1, <3>2, OrderLogged
  <2> QED BY <1>0, <2>2, RunsKept
<1>4. CASE TakeChunk
  <2>1. PICK k \in 1 .. Len(wire[srv]) :
          /\ rx' = SubSeq(wire[srv], 2, k)
          /\ log' = Append(log, Head(wire[srv])) \/ log' = log
          /\ wire' = [wire EXCEPT ![srv] = SubSeq(wire[srv], k + 1, Len(wire[srv]))]
    BY <1>4 DEF TakeChunk, WriteAlertLog
  <2>2. srv # 0 /\ rx = <<>> /\ UNCHANGED <<hand, queue>>
    BY <1>4 DEF TakeChunk
  <2>3. ASSUME NEW run, Sorted(run, Pipeline) PROVE Sorted(run, Pipeline')
    BY <2>1, <2>2, <2>3, OrderChunk
  <2> QED BY <1>0, <2>3, RunsKept
<1> QED BY <1>1, <1>2, <1>3, <1>4 DEF ServerStep

(* So do broken connections, crashes and restarts.                         *)
LEMMA RunsFaults ==
  /\ TypeOK /\ TypeOK' /\ PathInv /\ RunInv
  /\ (Breaks \/ AgentStop \/ AgentStart \/ ServerStop \/ ServerStart)
  => RunInv'
<1> SUFFICES ASSUME TypeOK, TypeOK', PathInv, RunInv,
                    Breaks \/ AgentStop \/ AgentStart \/ ServerStop \/ ServerStart
             PROVE  RunInv'
  OBVIOUS
<1> USE DEF agentVars, netVars, serverVars
<1>0. /\ [Next]_vars
      /\ wire \in [Conns -> Seq(Alerts)]
      /\ Range(<<>>) = {} /\ \A run : Rising(run, <<>>)
  BY RangeSmall DEF Next, TypeOK, Rising
<1>1. CASE AgentStart \/ ServerStart
  <2>1. UNCHANGED <<log, rx, wire, hand, queue>>
    BY <1>1 DEF AgentStart, ServerStart
  <2> QED BY <1>0, <2>1, RunsStay
<1>2. CASE AgentStop \/ ServerStop
  <2>1. /\ log' = log
        /\ hand' = hand \/ hand' = <<>>
        /\ queue' = queue \/ queue' = <<>>
        /\ rx' = rx \/ rx' = <<>>
        /\ \A c \in Conns : wire'[c] = wire[c] \/ wire'[c] = <<>>
    BY <1>2 DEF AgentStop, ServerStop
  <2>2. ASSUME NEW run, Sorted(run, Pipeline) PROVE Sorted(run, Pipeline')
    <3>1. /\ Rising(run, hand) /\ Rising(run, queue) /\ Rising(run, log) /\ Rising(run, rx)
          /\ \A c \in Conns : Rising(run, wire[c])
      BY <2>2, PlacesSorted
    <3>2. \A c \in Conns : Rising(run, wire'[c]) /\ Range(wire'[c]) \subseteq Range(wire[c])
      BY <1>0, <2>1, <3>1
    <3>3. /\ Rising(run, rx') /\ Range(rx') \subseteq Range(rx)
          /\ Rising(run, hand') /\ Range(hand') \subseteq Range(hand)
          /\ Rising(run, queue') /\ Range(queue') \subseteq Range(queue)
      BY <1>0, <2>1, <3>1
    <3> QED BY <2>1, <2>2, <3>1, <3>2, <3>3, OrderShrinks
  <2> QED BY <1>0, <2>2, RunsKept
<1>3. CASE Breaks
  <2>1. PICK c \in Conns : /\ \E k \in 0 .. Len(wire[c]) : wire' = [wire EXCEPT ![c] = SubSeq(wire[c], 1, k)]
                           /\ UNCHANGED <<log, rx, hand, queue>>
    BY <1>3 DEF Breaks, Break
  <2>2. PICK k \in 0 .. Len(wire[c]) : wire' = [wire EXCEPT ![c] = SubSeq(wire[c], 1, k)]
    BY <2>1
  <2>3. wire[c] \in Seq(Alerts) /\ 1 \in Nat \ {0} /\ k \in Nat /\ k <= Len(wire[c])
    BY <1>0, <2>2, LenProperties
  <2>4. ASSUME NEW run, Sorted(run, Pipeline) PROVE Sorted(run, Pipeline')
    <3>1. /\ Rising(run, hand) /\ Rising(run, queue) /\ Rising(run, log) /\ Rising(run, rx)
          /\ \A d \in Conns : Rising(run, wire[d])
      BY <2>4, PlacesSorted
    <3>2. Rising(run, SubSeq(wire[c], 1, k))
      BY <2>3, <3>1, RisingParts
    <3>3. Range(SubSeq(wire[c], 1, k)) \subseteq Range(wire[c])
      BY <2>3, RangeSubSeq
    <3>4. \A d \in Conns : Rising(run, wire'[d]) /\ Range(wire'[d]) \subseteq Range(wire[d])
      BY <1>0, <2>2, <3>1, <3>2, <3>3
    <3> QED BY <2>1, <2>4, <3>1, <3>4, OrderShrinks
  <2> QED BY <1>0, <2>4, RunsKept
<1> QED BY <1>1, <1>2, <1>3

(* Every step keeps the alerts in runs.                                    *)
LEMMA RunNext == TypeOK /\ TypeOK' /\ NoDuplicates /\ PathInv /\ RunInv /\ [Next]_vars => RunInv'
<1>1. TypeOK /\ PathInv /\ RunInv /\ UNCHANGED vars => RunInv'
  BY RunsStay DEF vars, agentVars, netVars, serverVars
<1> QED BY <1>1, RunsAgent, RunsServer, RunsFaults DEF Next
(* There is no alert at first.                                             *)
LEMMA RunInit == Init => RunInv
<1> SUFFICES ASSUME Init PROVE RunInv
  OBVIOUS
<1> DEFINE run == [x \in Alerts |-> 0]
<1>1. Placed
  BY TypeInit, PlacedNow
<1>2. \A k \in 1 .. MaxConns + 4 : Pipeline[k] = <<>>
  BY <1>1, PlaceOf DEF Placed, Init
<1>3. Range(<<>>) = {} /\ Rising(run, <<>>)
  BY RangeSmall DEF Rising
<1>4. Sorted(run, Pipeline)
  BY <1>1, <1>2, <1>3 DEF Placed, Sorted, Below
<1>5. \A x \in Alerts : run[x] <= Cardinality(Settled)
  BY SettledFinite
<1>6. run \in [Alerts -> Nat]
  OBVIOUS
<1> QED BY <1>4, <1>5, <1>6 DEF Runs, RunInv

(* What a slot is; of two of them one precedes the other.                  *)
LEMMA SlotIs ==
  ASSUME TypeOK, NEW s \in Slots
  PROVE  /\ s[1] \in 1 .. MaxConns + 4 /\ s[2] \in DOMAIN Pipeline[s[1]] /\ s[2] \in Nat
         /\ AlertAt(s) \in Range(Pipeline[s[1]]) /\ AlertAt(s) \in Alerts
         /\ \A t \in Slots : s # t => Precedes(s, t) \/ Precedes(t, s)
<1>1. Placed
  BY PlacedNow
<1>2. \A k \in 1 .. MaxConns + 4 : Pipeline[k] \in Seq(Alerts)
  <2>1. /\ log \in Seq(Alerts) /\ rx \in Seq(Alerts) /\ wire \in [Conns -> Seq(Alerts)]
        /\ hand \in Seq(Alerts) /\ queue \in Seq(Alerts)
    BY DEF TypeOK
  <2> SUFFICES ASSUME NEW k \in 1 .. MaxConns + 4 PROVE Pipeline[k] \in Seq(Alerts)
    OBVIOUS
  <2>2. CASE k \in {1, 2, MaxConns + 3, MaxConns + 4}
    BY <1>1, <2>1, <2>2 DEF Placed
  <2>3. CASE \E c \in Conns : k = c + 2
    BY <1>1, <2>1, <2>3 DEF Placed
  <2> QED BY <2>2, <2>3, PlaceOf
<1>3. \A t \in Slots : t[1] \in 1 .. MaxConns + 4 /\ t[2] \in DOMAIN Pipeline[t[1]] /\ t = <<t[1], t[2]>>
  BY <1>1 DEF Slots, Placed
<1>4. \A t \in Slots : t[2] \in Nat
  BY <1>2, <1>3
<1>5. \A t \in Slots : s # t => Precedes(s, t) \/ Precedes(t, s)
  BY <1>3, <1>4 DEF Precedes
<1>6. AlertAt(s) \in Range(Pipeline[s[1]])
  BY <1>3 DEF AlertAt, Range
<1>7. AlertAt(s) \in Alerts
  BY <1>2, <1>3 DEF AlertAt
<1> QED BY <1>3, <1>4, <1>5, <1>6, <1>7

(* Runs do not go back along the pipeline, and a descent begins a new one.  *)
LEMMA RunsAlong ==
  ASSUME TypeOK, NEW run \in [Alerts -> Nat], Sorted(run, Pipeline), NEW s \in Slots, NEW t \in Slots, Precedes(s, t)
  PROVE  /\ run[AlertAt(s)] \in Nat /\ run[AlertAt(t)] \in Nat
         /\ run[AlertAt(s)] <= run[AlertAt(t)]
         /\ AlertAt(s) > AlertAt(t) => run[AlertAt(s)] < run[AlertAt(t)]
<1>1. /\ DOMAIN Pipeline = 1 .. MaxConns + 4
      /\ s[1] \in 1 .. MaxConns + 4 /\ s[2] \in DOMAIN Pipeline[s[1]]
      /\ t[1] \in 1 .. MaxConns + 4 /\ t[2] \in DOMAIN Pipeline[t[1]]
      /\ AlertAt(s) \in Range(Pipeline[s[1]]) /\ AlertAt(t) \in Range(Pipeline[t[1]])
      /\ AlertAt(s) \in Alerts /\ AlertAt(t) \in Alerts
  BY SlotIs, PlacedNow DEF Placed
<1>2. Less(run, AlertAt(s), AlertAt(t))
  <2>1. CASE s[1] < t[1]
    BY <1>1, <2>1 DEF Sorted, Below
  <2>2. CASE s[1] = t[1] /\ s[2] < t[2]
    <3>1. Rising(run, Pipeline[s[1]])
      BY <1>1 DEF Sorted
    <3> QED BY <1>1, <2>2, <3>1 DEF Rising, AlertAt
  <2> QED BY <2>1, <2>2 DEF Precedes
<1>3. /\ run[AlertAt(s)] \in Nat /\ run[AlertAt(t)] \in Nat
      /\ AlertAt(s) \in Nat /\ AlertAt(t) \in Nat
  BY <1>1 DEF Alerts
<1> QED BY <1>2, <1>3 DEF Less

(* So the descents are no more than the runs but the first.                *)
LEMMA DescentsBounded == TypeOK /\ RunInv => OneInversionPerBrokenConnection
<1> SUFFICES ASSUME TypeOK, RunInv PROVE OneInversionPerBrokenConnection
  OBVIOUS
<1> DEFINE N == Cardinality(Settled)
<1>1. PICK run \in [Alerts -> Nat] : Runs(run)
  BY DEF RunInv
<1>2. N \in Nat /\ (\A x \in Alerts : run[x] <= N) /\ Sorted(run, Pipeline)
  BY <1>1, SettledFinite DEF Runs
<1> HIDE DEF N
<1> DEFINE R(t) == run[AlertAt(t)]
<1>3. ASSUME NEW t \in Descents
      PROVE  /\ t \in Slots /\ R(t) \in 1 .. N
             /\ \E s \in Slots : Neighbours(s, t) /\ R(s) < R(t)
  <2>1. PICK s \in Slots : t \in Slots /\ Neighbours(s, t) /\ AlertAt(s) > AlertAt(t)
    BY DEF Descents
  <2>2. R(s) \in Nat /\ R(t) \in Nat /\ R(s) < R(t)
    BY <1>2, <2>1, RunsAlong DEF Neighbours
  <2>3. R(t) <= N
    BY <1>2, <2>1, SlotIs
  <2> QED BY <1>2, <2>1, <2>2, <2>3
<1>4. ASSUME NEW t \in Descents, NEW u \in Descents, Precedes(t, u) PROVE R(t) < R(u)
  <2>1. PICK s \in Slots : Neighbours(s, u) /\ R(s) < R(u)
    BY <1>3
  <2>2. t \in Slots /\ u \in Slots /\ R(t) \in Nat /\ R(u) \in Nat
    BY <1>2, <1>3
  <2>3. s = t \/ Precedes(t, s)
    <3>1. ~Precedes(s, t)
      BY <1>4, <2>1, <2>2 DEF Neighbours
    <3> QED BY <2>2, <3>1, SlotIs
  <2>4. R(s) \in Nat
    BY SlotIs
  <2>5. R(t) <= R(s)
    <3>1. CASE s = t
      BY <2>4, <3>1
    <3>2. CASE Precedes(t, s)
      BY <1>2, <2>2, <3>2, RunsAlong
    <3> QED BY <2>3, <3>1, <3>2
  <2> QED BY <2>1, <2>2, <2>4, <2>5
<1>5. \A t, u \in Descents : R(t) = R(u) => t = u
  <2> SUFFICES ASSUME NEW t \in Descents, NEW u \in Descents, R(t) = R(u), t # u PROVE FALSE
    OBVIOUS
  <2>1. t \in Slots /\ u \in Slots /\ R(t) \in Nat
    BY <1>2, <1>3
  <2>2. Precedes(t, u) \/ Precedes(u, t)
    BY <2>1, SlotIs
  <2>3. R(t) < R(u) \/ R(u) < R(t)
    BY <1>4, <2>2
  <2> QED BY <2>1, <2>3
<1> DEFINE f == [t \in Descents |-> R(t)]
<1>6. f \in Injection(Descents, 1 .. N)
  BY <1>3, <1>5 DEF Injection, IsInjective
<1>7. IsFiniteSet(1 .. N) /\ Cardinality(1 .. N) = N
  BY <1>2, FS_Interval
<1>8. Cardinality(Descents) <= N /\ IsFiniteSet(Descents)
  <2> HIDE DEF f, R
  <2> QED BY <1>6, <1>7, FS_Injection
<1>9. N <= Cardinality(Broken)
  <2>1. Settled \subseteq Broken
    BY DEF Settled
  <2> QED BY <2>1, SettledFinite, FS_Subset DEF N
<1>10. Cardinality(Descents) \in Nat /\ Cardinality(Broken) \in Nat
  BY <1>8, SettledFinite, FS_CardinalityType
<1> QED BY <1>2, <1>8, <1>9, <1>10 DEF OneInversionPerBrokenConnection

(* The alerts under way and logged are out of order at no more places than  *)
(* there are broken connections, whatever is requeued (CTA.cpp:274-281).   *)
THEOREM OrderBreaksOncePerConnection == Spec => []OneInversionPerBrokenConnection
<1>1. Init => PathInv /\ RunInv
  BY PathInit, RunInit
<1>2. TypeOK /\ TypeOK' /\ NoDuplicates /\ PathInv /\ RunInv /\ [Next]_vars => PathInv' /\ RunInv'
  BY PathNext, RunNext
<1> QED BY <1>1, <1>2, TypeCorrect, AlertsApart, DescentsBounded, PTL DEF Spec
=============================================================================
