--------------------------- MODULE WfpDriverProofs ---------------------------
(***************************************************************************)
(* Proofs about WfpDriver: its type invariant, that every flow context has  *)
(* one owner, and what a stopped driver leaves behind.                      *)
(***************************************************************************)
EXTENDS WfpDriver, TLAPS

(* The place of a callout in Order.                                        *)
Rank(k) == CASE k = "ale" -> 1 [] k = "stream" -> 2 [] k = "datagram" -> 3

(* The callouts the driver has been through, and those it has before it.   *)
Behind == {k \in Callouts : Rank(k) < n}
Ahead  == {k \in Callouts : Rank(k) >= n}

(* CPU c is in the callout that has made the context of flow f.            *)
Makes(c, f) == call[c].fn = "ale" /\ call[c].flow = f

(* A context is live while the engine or the callout that made it has it.  *)
Owned == \A f \in Flows : ctx[f] = "live" <=> (f \in attached \/ \E c \in Cpus : Makes(c, f))

(* What is registered at each place of DriverEntry and DriverUnload.       *)
DriverAt ==
  /\ pc = "register" => /\ registered = Behind /\ ids = Behind
                        /\ filters = {} /\ list = {} /\ \A c \in Cpus : call[c] = Idle
  /\ pc = "filters" => filters \subseteq Ahead
  /\ pc = "callouts" => filters = {} /\ ids \subseteq Ahead
  /\ pc \in {"device", "stopped"} => filters = {} /\ ids = {}
  /\ pc \in {"device", "stopped"} /\ registered \cap Data = {} => list = {}
  /\ refused = registered \ ids

(* A flow is seen by the callouts only after it was established, and gets   *)
(* its context from one of them.                                            *)
FlowsAt ==
  /\ \A f \in Flows : flow[f].state = "new" =>
       /\ ctx[f] = "none" /\ f \notin attached
       /\ \A c \in Cpus : call[c].fn # "none" => call[c].flow # f
  /\ \A f \in Flows : flow[f].state # "new" => flow[f].pid \in Pids
  /\ \A f \in attached : flow[f].proto \in registered
  /\ \A f \in attached, c \in Cpus : ~Makes(c, f)
  /\ \A f \in Flows, c, d \in Cpus : Makes(c, f) /\ Makes(d, f) => c = d
  /\ \A c \in Cpus : call[c].arg = "ctx" => call[c].fn # "ale" /\ call[c].flow \in attached

IInv == TypeOK /\ DriverAt /\ FlowsAt /\ Owned

(* Order counts the callouts one by one.                                   *)
LEMMA OrderFacts ==
  /\ Done = 4
  /\ \A k \in Callouts : Rank(k) \in 1 .. 3
  /\ \A i \in 1 .. 3 : /\ Order[i] \in Callouts /\ Rank(Order[i]) = i
                       /\ \A k \in Callouts : Rank(k) = i => k = Order[i]
<1>1. Len(Order) = 3 /\ Order[1] = "ale" /\ Order[2] = "stream" /\ Order[3] = "datagram"
  BY DEF Order
<1>2. Done = 4
  BY <1>1 DEF Done
<1>3. Rank("ale") = 1 /\ Rank("stream") = 2 /\ Rank("datagram") = 3
  BY DEF Rank
<1>4. \A k \in Callouts : k = "ale" \/ k = "stream" \/ k = "datagram"
  BY DEF Callouts
<1>5. ASSUME NEW i \in 1 .. 3
      PROVE  /\ Order[i] \in Callouts /\ Rank(Order[i]) = i
             /\ \A k \in Callouts : Rank(k) = i => k = Order[i]
  <2>1. i = 1 \/ i = 2 \/ i = 3
    OBVIOUS
  <2> QED BY <2>1, <1>1, <1>3, <1>4 DEF Callouts
<1> QED BY <1>2, <1>3, <1>4, <1>5

(* The invariant holds at first.                                           *)
LEMMA IInvInit == Init => IInv
<1> SUFFICES ASSUME Init PROVE IInv
  OBVIOUS
<1>1. TypeOK
  BY OrderFacts DEF Init, TypeOK
<1>2. DriverAt
  BY OrderFacts DEF Init, DriverAt, Behind
<1>3. FlowsAt
  BY DEF Init, FlowsAt, Idle, Makes
<1>4. Owned
  BY DEF Init, Owned, Idle, Makes
<1> QED BY <1>1, <1>2, <1>3, <1>4 DEF IInv

(* A step of the driver leaves the flows, their contexts and the callouts   *)
(* that are running alone; only FreeList touches the list.                  *)
LEMMA DriverLeavesFlows ==
  IInv /\ (DriverStep \/ Unload) => UNCHANGED <<flow, ctx, attached, call>> /\ Owned'
<1> SUFFICES ASSUME IInv, DriverStep \/ Unload
             PROVE  UNCHANGED <<flow, ctx, attached, call>> /\ Owned'
  OBVIOUS
<1>1. UNCHANGED <<flow, ctx, attached, call>>
  BY DEF DriverStep, Unload, Register, Commit, OpenFails, RegisterFails, DeleteFilter,
         CloseEngine, Unregister, FreeList, DeleteDevice
<1> QED BY <1>1 DEF IInv, Owned, Makes

(* Registering, up to the commit or the first failure.                     *)
LEMMA IInvRegister == IInv /\ (Register \/ Commit \/ OpenFails \/ RegisterFails) => IInv'
<1> SUFFICES ASSUME IInv, Register \/ Commit \/ OpenFails \/ RegisterFails PROVE IInv'
  OBVIOUS
<1>0. UNCHANGED <<flow, ctx, attached, call>> /\ Owned'
  BY DriverLeavesFlows DEF DriverStep
<1> USE OrderFacts DEF IInv, Behind, Ahead
<1>1. CASE Register
  <2>1. n \in 1 .. 3 /\ registered' = registered \cup {Order[n]} /\ ids' = ids \cup {Order[n]}
    BY <1>1 DEF Register, TypeOK
  <2>2. TypeOK'
    BY <1>0, <1>1, <2>1 DEF Register, TypeOK, DriverAt
  <2>3. Behind' = Behind \cup {Order[n]}
    BY <1>1, <2>1 DEF Register
  <2>4. DriverAt'
    BY <1>0, <1>1, <2>1, <2>3 DEF Register, DriverAt
  <2>5. FlowsAt'
    BY <1>0, <2>1 DEF FlowsAt, Makes
  <2> QED BY <1>0, <2>2, <2>4, <2>5
<1>2. CASE Commit
  <2>1. registered = Callouts
    <3>1. \A k \in Callouts : Rank(k) < n
      BY <1>2 DEF Commit
    <3> QED BY <1>2, <3>1 DEF Commit, DriverAt
  <2>2. TypeOK' /\ DriverAt'
    BY <1>0, <1>2, <2>1 DEF Commit, TypeOK, DriverAt
  <2> QED BY <1>0, <1>2, <2>2 DEF Commit, FlowsAt, Makes
<1>3. CASE OpenFails
  <2>1. registered = {} /\ ids = {}
    BY <1>3 DEF OpenFails, TypeOK, DriverAt
  <2>2. TypeOK' /\ DriverAt'
    BY <1>0, <1>3, <2>1 DEF OpenFails, TypeOK, DriverAt
  <2> QED BY <1>0, <1>3, <2>2 DEF OpenFails, FlowsAt, Makes
<1>4. CASE RegisterFails
  <2>2. TypeOK' /\ DriverAt'
    BY <1>0, <1>4 DEF RegisterFails, TypeOK, DriverAt
  <2> QED BY <1>0, <1>4, <2>2 DEF RegisterFails, FlowsAt, Makes
<1> QED BY <1>1, <1>2, <1>3, <1>4

(* Unloading: the filters go first, so that nothing new can come in while   *)
(* the callouts are unregistered; one in use stays, and is refused.         *)
LEMMA IInvUnregister ==
  IInv /\ (Unload \/ DeleteFilter \/ CloseEngine \/ Unregister \/ FreeList \/ DeleteDevice) => IInv'
<1> SUFFICES ASSUME IInv, Unload \/ DeleteFilter \/ CloseEngine \/ Unregister \/ FreeList \/ DeleteDevice
             PROVE  IInv'
  OBVIOUS
<1>0. UNCHANGED <<flow, ctx, attached, call>> /\ Owned'
  BY DriverLeavesFlows DEF DriverStep
<1> USE OrderFacts DEF IInv, Behind, Ahead
<1>1. CASE Unload
  <2>1. TypeOK' /\ DriverAt'
    BY <1>0, <1>1 DEF Unload, TypeOK, DriverAt
  <2> QED BY <1>0, <1>1, <2>1 DEF Unload, FlowsAt, Makes
<1>2. CASE DeleteFilter
  <2>1. n \in 1 .. 3
    BY <1>2 DEF DeleteFilter, TypeOK
  <2>2. TypeOK' /\ DriverAt'
    BY <1>0, <1>2, <2>1 DEF DeleteFilter, TypeOK, DriverAt
  <2> QED BY <1>0, <1>2, <2>2 DEF DeleteFilter, FlowsAt, Makes
<1>3. CASE CloseEngine
  <2>1. TypeOK' /\ DriverAt'
    BY <1>0, <1>3 DEF CloseEngine, TypeOK, DriverAt
  <2> QED BY <1>0, <1>3, <2>1 DEF CloseEngine, FlowsAt, Makes
<1>4. CASE Unregister
  <2> DEFINE k == Order[n]
  <2>1. n \in 1 .. 3 /\ k \in Callouts /\ filters = {} /\ ids' = ids \ {k}
    BY <1>4 DEF Unregister, TypeOK, DriverAt
  <2>2. /\ registered' = IF k \in ids /\ ~InUse(k) THEN registered \ {k} ELSE registered
        /\ refused' = IF k \in ids /\ InUse(k) THEN refused \cup {k} ELSE refused
        /\ UNCHANGED <<pc, filters, list>> /\ n' = n + 1
    BY <1>4 DEF Unregister
  <2> HIDE DEF k
  <2>3. registered' = registered \/ (registered' = registered \ {k} /\ ~InUse(k))
    BY <2>2
  <2>4. \A c \in Cpus : call[c] # Idle => call[c].fn \in registered'
    BY <2>3 DEF InUse, TypeOK
  <2>5. \A f \in attached : flow[f].proto \in registered'
    BY <2>3 DEF InUse, FlowsAt
  <2>6. refused' = registered' \ ids' /\ ids' \subseteq registered'
    BY <2>1, <2>2 DEF DriverAt, TypeOK
  <2>7. registered' \subseteq Callouts
    BY <2>3 DEF TypeOK
  <2>8. call' \in [Cpus -> {Idle} \cup [fn : registered', flow : Flows, arg : {"none", "id", "ctx", "null"}]]
    BY <1>0, <2>4 DEF TypeOK
  <2>9. TypeOK'
    BY <1>0, <2>1, <2>2, <2>6, <2>7, <2>8 DEF TypeOK
  <2>10. DriverAt'
    BY <1>4, <2>1, <2>2, <2>6 DEF DriverAt, Unregister, k
  <2>11. FlowsAt'
    BY <1>0, <2>5 DEF FlowsAt, Makes
  <2> QED BY <1>0, <2>9, <2>10, <2>11
<1>5. CASE FreeList
  <2>1. ids = {}
    BY <1>5 DEF FreeList, TypeOK, DriverAt
  <2>2. TypeOK' /\ DriverAt'
    BY <1>0, <1>5, <2>1 DEF FreeList, TypeOK, DriverAt
  <2> QED BY <1>0, <1>5, <2>2 DEF FreeList, FlowsAt, Makes
<1>6. CASE DeleteDevice
  <2>1. TypeOK' /\ DriverAt'
    BY <1>0, <1>6 DEF DeleteDevice, TypeOK, DriverAt
  <2> QED BY <1>0, <1>6, <2>1 DEF DeleteDevice, FlowsAt, Makes
<1> QED BY <1>1, <1>2, <1>3, <1>4, <1>5, <1>6

-----------------------------------------------------------------------------
(* A step of a flow or of a callout leaves the driver where it is, and      *)
(* while that is registering nothing is called.                             *)
LEMMA DriverAtKept ==
  ASSUME IInv, UNCHANGED driverVars, list' = list \/ registered \cap Data # {},
         pc = "register" => UNCHANGED <<call, list>>
  PROVE  DriverAt'
<1>1. UNCHANGED <<pc, n, registered, ids, filters, refused, Behind, Ahead>>
  BY DEF driverVars, Behind, Ahead
<1> QED BY <1>1 DEF IInv, DriverAt

(* A flow is established: without a context, or with one in the hands of    *)
(* AleFlowEstablishedClassify.                                              *)
LEMMA IInvOpened ==
  ASSUME NEW f \in Flows PROVE IInv /\ (OpenUnwatched(f) \/ \E c \in Cpus : AleClassify(c, f)) => IInv'
<1> SUFFICES ASSUME IInv, OpenUnwatched(f) \/ \E c \in Cpus : AleClassify(c, f) PROVE IInv'
  OBVIOUS
<1>1. PICK k \in Data \cup {"other"}, p \in Pids :
        flow' = [flow EXCEPT ![f] = [state |-> "open", proto |-> k, pid |-> p]]
  BY DEF OpenUnwatched, AleClassify, Opened
<1>2. flow[f].state = "new" /\ UNCHANGED driverVars /\ UNCHANGED <<attached, list>>
  BY DEF OpenUnwatched, AleClassify, Opened
<1>3. /\ ctx[f] = "none" /\ f \notin attached
      /\ \A c \in Cpus : call[c].fn # "none" => call[c].flow # f
  BY <1>2 DEF Makes, IInv, FlowsAt
<1>4. /\ \A g \in Flows \ {f} : flow'[g] = flow[g]
      /\ flow'[f].state = "open" /\ flow'[f].pid \in Pids
      /\ flow' \in [Flows -> [state : {"new", "open", "closed"}, proto : Data \cup {"other"}, pid : Pids \cup {"none"}]]
  BY <1>1 DEF IInv, TypeOK
<1>5. CASE OpenUnwatched(f)
  <2>1. UNCHANGED <<ctx, call>>
    BY <1>5 DEF OpenUnwatched
  <2>2. TypeOK'
    BY <1>2, <1>4, <2>1 DEF IInv, TypeOK, driverVars
  <2>3. DriverAt'
    BY <1>2, <2>1, DriverAtKept
  <2>4. FlowsAt'
    <3>1. \A g \in Flows : flow'[g].state = "new" =>
            /\ ctx'[g] = "none" /\ g \notin attached'
            /\ \A d \in Cpus : call'[d].fn # "none" => call'[d].flow # g
      BY <1>2, <1>4, <2>1 DEF Makes, IInv, FlowsAt
    <3>2. \A g \in Flows : flow'[g].state # "new" => flow'[g].pid \in Pids
      BY <1>4 DEF Makes, IInv, FlowsAt
    <3>3. \A g \in attached' : flow'[g].proto \in registered'
      BY <1>2, <1>3, <1>4 DEF Makes, IInv, FlowsAt, TypeOK, driverVars
    <3>4. \A g \in attached', d \in Cpus : ~Makes(d, g)'
      BY <1>2, <2>1 DEF Makes, IInv, FlowsAt
    <3>5. \A g \in Flows, d, e \in Cpus : Makes(d, g)' /\ Makes(e, g)' => d = e
      BY <2>1 DEF Makes, IInv, FlowsAt
    <3>6. \A d \in Cpus : call'[d].arg = "ctx" => call'[d].fn # "ale" /\ call'[d].flow \in attached'
      BY <1>2, <2>1 DEF IInv, FlowsAt, Idle
    <3> QED BY <3>1, <3>2, <3>3, <3>4, <3>5, <3>6 DEF FlowsAt
  <2>5. Owned'
    BY <1>2, <2>1 DEF Makes, IInv, Owned
  <2> QED BY <2>2, <2>3, <2>4, <2>5 DEF IInv
<1>6. ASSUME NEW c \in Cpus, AleClassify(c, f) PROVE IInv'
  <2> DEFINE mine == [fn |-> "ale", flow |-> f, arg |-> "none"]
  <2>1. /\ "ale" \in filters /\ call[c] = Idle
        /\ ctx' = [ctx EXCEPT ![f] = "live"] /\ call' = [call EXCEPT ![c] = mine]
    BY <1>6 DEF AleClassify
  <2>2. "ale" \in registered /\ pc # "register"
    BY <2>1 DEF IInv, TypeOK, DriverAt
  <2>3. /\ call'[c] = mine /\ \A d \in Cpus \ {c} : call'[d] = call[d]
        /\ ctx'[f] = "live" /\ \A g \in Flows \ {f} : ctx'[g] = ctx[g]
    BY <2>1 DEF IInv, TypeOK
  <2>4. TypeOK'
    BY <1>2, <1>4, <2>1, <2>2 DEF IInv, TypeOK, driverVars
  <2>5. DriverAt'
    BY <1>2, <2>2, DriverAtKept
  <2>6. \A d \in Cpus \ {c} : ~Makes(d, f)
    BY <1>3 DEF Makes
  <2>7. FlowsAt'
    <3>1. \A g \in Flows : flow'[g].state = "new" =>
            /\ ctx'[g] = "none" /\ g \notin attached'
            /\ \A d \in Cpus : call'[d].fn # "none" => call'[d].flow # g
      BY <1>2, <1>4, <2>3 DEF Makes, IInv, FlowsAt
    <3>2. \A g \in Flows : flow'[g].state # "new" => flow'[g].pid \in Pids
      BY <1>4 DEF Makes, IInv, FlowsAt
    <3>3. \A g \in attached' : flow'[g].proto \in registered'
      BY <1>2, <1>3, <1>4 DEF Makes, IInv, FlowsAt, TypeOK, driverVars
    <3>4. ASSUME NEW g \in attached', NEW d \in Cpus PROVE ~Makes(d, g)'
      <4>1. g \in attached /\ g # f
        BY <1>2, <1>3
      <4>2. CASE d = c
        BY <4>1, <4>2, <2>3 DEF Makes
      <4>3. CASE d # c
        BY <4>1, <4>3, <2>3 DEF Makes, IInv, FlowsAt
      <4> QED BY <4>2, <4>3
    <3>5. \A g \in Flows, d, e \in Cpus : Makes(d, g)' /\ Makes(e, g)' => d = e
      BY <2>3, <2>6 DEF Makes, IInv, FlowsAt
    <3>6. \A d \in Cpus : call'[d].arg = "ctx" => call'[d].fn # "ale" /\ call'[d].flow \in attached'
      BY <1>2, <2>3 DEF IInv, FlowsAt, Idle
    <3> QED BY <3>1, <3>2, <3>3, <3>4, <3>5, <3>6 DEF FlowsAt
  <2>8. Owned'
    <3>1. ASSUME NEW g \in Flows
          PROVE  ctx'[g] = "live" <=> (g \in attached' \/ \E d \in Cpus : Makes(d, g)')
      <4>1. CASE g = f
        BY <4>1, <2>3 DEF Makes
      <4>2. CASE g # f
        <5>1. ~Makes(c, g) /\ ~Makes(c, g)'
          BY <4>2, <2>1, <2>3 DEF Makes, Idle
        <5>2. (\E d \in Cpus : Makes(d, g)')
                <=> (\E d \in Cpus : Makes(d, g))
          BY <5>1, <2>3 DEF Makes
        <5> QED BY <4>2, <5>2, <1>2, <2>3 DEF Makes, IInv, Owned
      <4> QED BY <4>1, <4>2
    <3> QED BY <3>1 DEF Owned
  <2> QED BY <2>4, <2>5, <2>7, <2>8 DEF IInv
<1> QED BY <1>5, <1>6

(* The callout that has made a context reads an id.                        *)
LEMMA IInvReadId == ASSUME NEW c \in Cpus PROVE IInv /\ ReadId(c) => IInv'
<1> SUFFICES ASSUME IInv, ReadId(c) PROVE IInv'
  OBVIOUS
<1>1. PICK id \in {"id", "null"} : call' = [call EXCEPT ![c].arg = id]
  BY DEF ReadId
<1>2. call[c].fn = "ale" /\ UNCHANGED driverVars /\ UNCHANGED <<flow, ctx, attached, list>>
  BY DEF ReadId
<1>3. /\ call'[c].fn = call[c].fn /\ call'[c].flow = call[c].flow /\ call'[c].arg = id
      /\ \A d \in Cpus \ {c} : call'[d] = call[d]
  BY <1>1 DEF IInv, TypeOK
<1>4. \A d \in Cpus : call'[d].fn = call[d].fn /\ call'[d].flow = call[d].flow
  BY <1>3
<1>5. TypeOK'
  <2>1. call[c] # Idle /\ call[c] \in [fn : registered, flow : Flows, arg : {"none", "id", "ctx", "null"}]
    BY <1>2 DEF IInv, TypeOK, Idle
  <2> QED BY <1>1, <1>2, <2>1 DEF IInv, TypeOK, driverVars
<1>6. DriverAt'
  <2>1. pc # "register"
    BY <1>2 DEF IInv, DriverAt, Idle
  <2> QED BY <1>2, <2>1, DriverAtKept
<1>7. FlowsAt'
  BY <1>2, <1>3, <1>4 DEF Makes, IInv, FlowsAt, driverVars
<1>8. Owned'
  BY <1>2, <1>4 DEF Makes, IInv, Owned
<1> QED BY <1>5, <1>6, <1>7, <1>8 DEF IInv

(* A context changes hands, or is freed by the one who holds it.           *)
LEMMA IInvAssociate == ASSUME NEW c \in Cpus PROVE IInv /\ Associate(c) => IInv'
<1> SUFFICES ASSUME IInv, Associate(c) PROVE IInv'
  OBVIOUS
<1>0. call[c].fn = "ale" /\ UNCHANGED driverVars /\ UNCHANGED <<flow, list>>
  BY DEF Associate
<1> PICK f \in Flows : f = call[c].flow
  BY <1>0 DEF IInv, TypeOK, Idle
<1> DEFINE ok == Takes(c)
<1>1. /\ call[c].fn = "ale" /\ UNCHANGED driverVars /\ UNCHANGED <<flow, list>>
      /\ attached' = IF ok THEN attached \cup {f} ELSE attached
      /\ ctx' = IF ok THEN ctx ELSE [ctx EXCEPT ![f] = "freed"]
      /\ call' = [call EXCEPT ![c] = Idle]
  BY <1>0 DEF Associate
<1>2. /\ f \in Flows /\ Makes(c, f)
      /\ call'[c] = Idle /\ \A d \in Cpus \ {c} : call'[d] = call[d]
  BY <1>1 DEF Makes, IInv, TypeOK, Idle
<1>3. /\ f \notin attached /\ ctx[f] = "live" /\ flow[f].state # "new"
      /\ \A d \in Cpus \ {c} : ~Makes(d, f)
  BY <1>1, <1>2 DEF Makes, IInv, FlowsAt, Owned
<1>4. pc # "register"
  BY <1>1 DEF IInv, DriverAt, Idle
<1>5. TypeOK'
  BY <1>1, <1>2 DEF IInv, TypeOK, driverVars
<1>6. DriverAt'
  BY <1>1, <1>4, DriverAtKept
<1>7. /\ \A d \in Cpus : ~Makes(d, f)'
      /\ ctx'[f] = IF ok THEN "live" ELSE "freed"
      /\ f \in attached' <=> ok
      /\ \A g \in Flows \ {f} : ctx'[g] = ctx[g] /\ (g \in attached' <=> g \in attached)
  <2>1. \A d \in Cpus : ~Makes(d, f)'
    BY <1>2, <1>3 DEF Makes, Idle
  <2>2. f \in attached' <=> ok
    BY <1>1, <1>3
  <2> QED BY <2>1, <2>2, <1>1, <1>3 DEF IInv, TypeOK
<1>8. FlowsAt'
  <2>1. \A g \in Flows : flow'[g].state = "new" =>
          /\ ctx'[g] = "none" /\ g \notin attached'
          /\ \A d \in Cpus : call'[d].fn # "none" => call'[d].flow # g
    BY <1>1, <1>2, <1>3, <1>7 DEF Makes, IInv, FlowsAt, Idle
  <2>2. \A g \in Flows : flow'[g].state # "new" => flow'[g].pid \in Pids
    BY <1>1 DEF Makes, IInv, FlowsAt
  <2>3. \A g \in attached' : flow'[g].proto \in registered'
    BY <1>1 DEF Takes, IInv, FlowsAt, TypeOK, driverVars
  <2>4. \A g \in attached', d \in Cpus : ~Makes(d, g)'
    BY <1>1, <1>2, <1>7 DEF Makes, IInv, FlowsAt, TypeOK, Idle
  <2>5. \A g \in Flows, d, e \in Cpus : Makes(d, g)' /\ Makes(e, g)' => d = e
    BY <1>1, <1>2 DEF Makes, IInv, FlowsAt, Idle
  <2>6. \A d \in Cpus : call'[d].arg = "ctx" => call'[d].fn # "ale" /\ call'[d].flow \in attached'
    BY <1>1, <1>2, <1>7 DEF IInv, FlowsAt, Idle
  <2> QED BY <2>1, <2>2, <2>3, <2>4, <2>5, <2>6 DEF FlowsAt
<1>9. Owned'
  <2>1. ASSUME NEW g \in Flows
        PROVE  ctx'[g] = "live" <=> (g \in attached' \/ \E d \in Cpus : Makes(d, g)')
    <3>1. CASE g = f
      BY <3>1, <1>3, <1>7
    <3>2. CASE g # f
      <4>1. ~Makes(c, g) /\ ~Makes(c, g)'
        BY <3>2, <1>2 DEF Makes, Idle
      <4>2. (\E d \in Cpus : Makes(d, g)')
              <=> (\E d \in Cpus : Makes(d, g))
        BY <4>1, <1>2 DEF Makes
      <4> QED BY <3>2, <4>2, <1>7 DEF Makes, IInv, Owned
    <3> QED BY <3>1, <3>2
  <2> QED BY <2>1 DEF Owned
<1> QED BY <1>5, <1>6, <1>8, <1>9 DEF IInv

(* A CPU enters the callout of a flow's protocol.                          *)
LEMMA IInvDataClassify ==
  ASSUME NEW c \in Cpus, NEW f \in Flows PROVE IInv /\ DataClassify(c, f) => IInv'
<1> SUFFICES ASSUME IInv, DataClassify(c, f) PROVE IInv'
  OBVIOUS
<1> DEFINE entered == [fn |-> flow[f].proto, flow |-> f, arg |-> IF f \in attached THEN "ctx" ELSE "null"]
<1>1. /\ call[c] = Idle /\ flow[f].state = "open" /\ flow[f].proto \in filters
      /\ call' = [call EXCEPT ![c] = entered]
      /\ UNCHANGED driverVars /\ UNCHANGED <<flow, ctx, attached, list>>
  BY DEF DataClassify
<1>2. /\ flow[f].proto \in registered /\ flow[f].proto # "ale" /\ pc # "register"
      /\ call'[c] = entered
      /\ \A d \in Cpus \ {c} : call'[d] = call[d]
  BY <1>1 DEF IInv, TypeOK, DriverAt, Data
<1>3. TypeOK'
  BY <1>1, <1>2 DEF IInv, TypeOK, driverVars
<1>4. DriverAt'
  BY <1>1, <1>2, DriverAtKept
<1>5. \A g \in Flows, d \in Cpus :
        Makes(d, g)' <=> Makes(d, g)
  BY <1>1, <1>2 DEF Makes, Idle
<1>6. FlowsAt'
  <2>1. \A g \in Flows : flow'[g].state = "new" =>
          /\ ctx'[g] = "none" /\ g \notin attached'
          /\ \A d \in Cpus : call'[d].fn # "none" => call'[d].flow # g
    BY <1>1, <1>2 DEF Makes, IInv, FlowsAt
  <2>2. \A g \in Flows : flow'[g].state # "new" => flow'[g].pid \in Pids
    BY <1>1 DEF Makes, IInv, FlowsAt
  <2>3. \A g \in attached' : flow'[g].proto \in registered'
    BY <1>1 DEF Makes, IInv, FlowsAt, driverVars
  <2>4. \A g \in attached', d \in Cpus : ~Makes(d, g)'
    BY <1>1, <1>5 DEF Makes, IInv, FlowsAt, TypeOK
  <2>5. \A g \in Flows, d, e \in Cpus : Makes(d, g)' /\ Makes(e, g)' => d = e
    BY <1>2 DEF Makes, IInv, FlowsAt
  <2>6. \A d \in Cpus : call'[d].arg = "ctx" => call'[d].fn # "ale" /\ call'[d].flow \in attached'
    BY <1>1, <1>2 DEF IInv, FlowsAt, Idle
  <2> QED BY <2>1, <2>2, <2>3, <2>4, <2>5, <2>6 DEF FlowsAt
<1>7. Owned'
  BY <1>1, <1>5 DEF Makes, IInv, Owned
<1> QED BY <1>3, <1>4, <1>6, <1>7 DEF IInv

(* ... and leaves it, having added to the list.                            *)
LEMMA IInvAddNetStats == ASSUME NEW c \in Cpus PROVE IInv /\ AddNetStats(c) => IInv'
<1> SUFFICES ASSUME IInv, AddNetStats(c) PROVE IInv'
  OBVIOUS
<1>1. /\ call[c].fn \in Data
      /\ list' \in {list, list \cup {flow[call[c].flow].pid}}
      /\ call' = [call EXCEPT ![c] = Idle]
      /\ UNCHANGED driverVars /\ UNCHANGED <<flow, ctx, attached>>
  BY DEF AddNetStats
<1>2. /\ call[c] # Idle /\ call[c].fn # "ale" /\ call[c].fn # "none"
      /\ call'[c] = Idle /\ \A d \in Cpus \ {c} : call'[d] = call[d]
  BY <1>1 DEF IInv, TypeOK, Data, Idle
<1>3. call[c].flow \in Flows /\ registered \cap Data # {} /\ pc # "register"
  BY <1>1, <1>2 DEF IInv, TypeOK, DriverAt, Idle
<1>4. flow[call[c].flow].pid \in Pids
  BY <1>2, <1>3 DEF Makes, IInv, FlowsAt
<1>5. TypeOK'
  BY <1>1, <1>2, <1>4 DEF IInv, TypeOK, driverVars
<1>6. DriverAt'
  BY <1>1, <1>3, DriverAtKept
<1>7. \A g \in Flows, d \in Cpus :
        Makes(d, g)' <=> Makes(d, g)
  BY <1>2 DEF Makes, Idle
<1>8. FlowsAt'
  <2>1. \A g \in Flows : flow'[g].state = "new" =>
          /\ ctx'[g] = "none" /\ g \notin attached'
          /\ \A d \in Cpus : call'[d].fn # "none" => call'[d].flow # g
    BY <1>1, <1>2 DEF Makes, IInv, FlowsAt, Idle
  <2>2. \A g \in Flows : flow'[g].state # "new" => flow'[g].pid \in Pids
    BY <1>1 DEF Makes, IInv, FlowsAt
  <2>3. \A g \in attached' : flow'[g].proto \in registered'
    BY <1>1 DEF Makes, IInv, FlowsAt, driverVars
  <2>4. ASSUME NEW g \in attached', NEW d \in Cpus PROVE ~Makes(d, g)'
    <3>1. g \in attached /\ g \in Flows
      BY <1>1 DEF IInv, TypeOK
    <3>2. ~Makes(d, g)
      BY <3>1 DEF Makes, IInv, FlowsAt
    <3> QED BY <3>1, <3>2, <1>7
  <2>5. \A g \in Flows, d, e \in Cpus : Makes(d, g)' /\ Makes(e, g)' => d = e
    BY <1>2 DEF Makes, IInv, FlowsAt, Idle
  <2>6. \A d \in Cpus : call'[d].arg = "ctx" => call'[d].fn # "ale" /\ call'[d].flow \in attached'
    BY <1>1, <1>2 DEF IInv, FlowsAt, Idle
  <2> QED BY <2>1, <2>2, <2>3, <2>4, <2>5, <2>6 DEF FlowsAt
<1>9. Owned'
  BY <1>1, <1>7 DEF Makes, IInv, Owned
<1> QED BY <1>5, <1>6, <1>8, <1>9 DEF IInv

(* A flow ends.                                                            *)
LEMMA IInvClose == ASSUME NEW f \in Flows PROVE IInv /\ Close(f) => IInv'
<1> SUFFICES ASSUME IInv, Close(f) PROVE IInv'
  OBVIOUS
<1>1. /\ flow[f].state = "open" /\ flow' = [flow EXCEPT ![f].state = "closed"]
      /\ UNCHANGED driverVars /\ UNCHANGED <<ctx, attached, call, list>>
  BY DEF Close
<1>2. \A g \in Flows : /\ flow'[g].proto = flow[g].proto /\ flow'[g].pid = flow[g].pid
                       /\ flow'[g].state = "new" <=> flow[g].state = "new"
  BY <1>1 DEF IInv, TypeOK
<1>3. TypeOK'
  BY <1>1 DEF IInv, TypeOK, driverVars
<1>4. DriverAt'
  BY <1>1, DriverAtKept
<1>5. FlowsAt'
  BY <1>1, <1>2 DEF Makes, IInv, FlowsAt, TypeOK, driverVars
<1>6. Owned'
  BY <1>1 DEF Makes, IInv, Owned
<1> QED BY <1>3, <1>4, <1>5, <1>6 DEF IInv

(* Its context is given back.                                              *)
LEMMA IInvFlowDelete == ASSUME NEW f \in Flows PROVE IInv /\ FlowDeleteNotify(f) => IInv'
<1> SUFFICES ASSUME IInv, FlowDeleteNotify(f) PROVE IInv'
  OBVIOUS
<1>1. /\ f \in attached /\ flow[f].state = "closed"
      /\ attached' = attached \ {f} /\ ctx' = [ctx EXCEPT ![f] = "freed"]
      /\ UNCHANGED driverVars /\ UNCHANGED <<flow, call, list>>
  BY DEF FlowDeleteNotify
<1>2. \A c \in Cpus : ~Makes(c, f)
  BY <1>1 DEF Makes, IInv, FlowsAt
<1>3. ctx'[f] = "freed" /\ \A g \in Flows \ {f} : ctx'[g] = ctx[g]
  BY <1>1 DEF IInv, TypeOK
<1>4. TypeOK'
  BY <1>1 DEF IInv, TypeOK, driverVars
<1>5. DriverAt'
  BY <1>1, DriverAtKept
<1>6. FlowsAt'
  <2>1. \A c \in Cpus : call[c].flow # f
    BY DEF FlowDeleteNotify
  <2>2. \A c \in Cpus : call[c].arg = "ctx" => call[c].flow \in attached'
    BY <1>1, <2>1 DEF IInv, FlowsAt
  <2> QED BY <1>1, <1>3, <2>2 DEF Makes, IInv, TypeOK, FlowsAt, driverVars
<1>7. Owned'
  BY <1>1, <1>2, <1>3 DEF Makes, IInv, Owned
<1> QED BY <1>4, <1>5, <1>6, <1>7 DEF IInv

(* The invariant holds in every reachable state.                           *)
LEMMA IInvHolds == Spec => []IInv
<1>1. IInv /\ UNCHANGED vars => IInv'
  <2> SUFFICES ASSUME IInv, UNCHANGED vars PROVE IInv'
    OBVIOUS
  <2>1. UNCHANGED driverVars /\ UNCHANGED <<flow, ctx, attached, call, list>>
    BY DEF vars
  <2>2. TypeOK' /\ Owned' /\ FlowsAt'
    BY <2>1 DEF Makes, IInv, TypeOK, Owned, FlowsAt, driverVars
  <2> QED BY <2>1, <2>2, DriverAtKept DEF IInv
<1>2. IInv /\ [Next]_vars => IInv'
  BY <1>1, IInvRegister, IInvUnregister, IInvOpened, IInvReadId, IInvAssociate, IInvDataClassify,
     IInvAddNetStats, IInvClose, IInvFlowDelete DEF Next, DriverStep, CalloutStep
<1> QED BY IInvInit, <1>2, PTL DEF Spec

(* Every variable keeps its type; a callout the engine may call, or a CPU   *)
(* is in, is registered at every moment of starting and unloading.          *)
THEOREM TypeCorrect == Spec => []TypeOK
<1>1. IInv => TypeOK
  BY DEF IInv
<1> QED BY IInvHolds, <1>1, PTL

(* Every context has one owner, and no callout is in for one that was freed. *)
THEOREM ContextsHaveOwners == Spec => []ContextsOwned
<1>1. IInv => ContextsOwned
  <2> SUFFICES ASSUME IInv PROVE ContextsOwned
    OBVIOUS
  <2>1. ASSUME NEW c \in Cpus, call[c].arg = "ctx" PROVE ctx[call[c].flow] = "live"
    <3>1. call[c].flow \in attached /\ call[c].flow \in Flows
      BY <2>1 DEF IInv, FlowsAt, TypeOK
    <3> QED BY <3>1 DEF IInv, Owned
  <2> QED BY <2>1 DEF IInv, Owned, Makes, ContextsOwned
<1> QED BY IInvHolds, <1>1, PTL

(* A stopped driver leaves behind only callouts that were in use when it    *)
(* unregistered them, and what those have left.                             *)
THEOREM StopsClean == Spec => []StopIsClean
<1>1. IInv => StopIsClean
  <2> SUFFICES ASSUME IInv, pc = "stopped"
               PROVE  /\ filters = {} /\ registered \subseteq refused
                      /\ list # {} => refused \cap Data # {}
                      /\ \A f \in Flows : ctx[f] = "live" => Abandoned(f)
                      /\ \A c \in Cpus : call[c] # Idle => call[c].fn \in refused
    BY DEF StopIsClean
  <2>1. filters = {} /\ registered = refused /\ (registered \cap Data = {} => list = {})
    BY DEF IInv, DriverAt, TypeOK
  <2>2. \A c \in Cpus : call[c] # Idle => call[c].fn \in refused
    BY <2>1 DEF IInv, TypeOK
  <2>3. ASSUME NEW f \in Flows, ctx[f] = "live" PROVE Abandoned(f)
    <3>1. CASE f \in attached
      BY <2>1, <3>1 DEF IInv, FlowsAt, Abandoned
    <3>2. CASE \E c \in Cpus : Makes(c, f)
      BY <2>2, <3>2 DEF Makes, Idle, Abandoned
    <3> QED BY <2>3, <3>1, <3>2 DEF IInv, Owned
  <2> QED BY <2>1, <2>2, <2>3
<1> QED BY IInvHolds, <1>1, PTL
=============================================================================
