------------------------- MODULE AgentThreadsProofs -------------------------
(***************************************************************************)
(* Proofs about AgentThreads, for every number of configurations and        *)
(* signals.                                                                 *)
(***************************************************************************)
EXTENDS AgentThreads, TLAPS

USE ThreadsAssumption

(* How a step of one process changes pc.                                   *)
LEMMA StepChanges ==
  ASSUME DOMAIN pc = Processes, NEW p \in Processes, NEW from, NEW to, Step(p, from, to)
  PROVE  /\ Alive /\ pc[p] = from /\ pc'[p] = to
         /\ DOMAIN pc' = Processes /\ \A q \in Processes \ {p} : pc'[q] = pc[q]
BY DEF Step

(* A notification moves only threads that wait.                            *)
LEMMA NotifyChanges ==
  ASSUME DOMAIN pc = Processes, NEW p \in Processes, NEW from, NEW to, from # "wait",
         NotifyAll(p, from, to)
  PROVE  /\ Alive /\ pc[p] = from /\ pc'[p] = to
         /\ UNCHANGED <<platform, host, running, updated, config, snapshot, connected, mutex, joined,
                        signals, stoppedAt>>
         /\ DOMAIN pc' = Processes
         /\ \A q \in Processes \ {p} :
              pc'[q] = pc[q] \/ (pc[q] = "wait" /\ pc'[q] = "woken")
<1>1. /\ Alive /\ pc[p] = from
      /\ pc' = [q \in Processes |-> IF q = p THEN to
                                    ELSE IF pc[q] = "wait" THEN "woken" ELSE pc[q]]
  BY DEF NotifyAll
<1>2. UNCHANGED <<platform, host, running, updated, config, snapshot, connected, mutex, joined,
                  signals, stoppedAt>>
  BY DEF NotifyAll, data
<1>3. pc'[p] = to /\ DOMAIN pc' = Processes
  BY <1>1
<1>4. ASSUME NEW q \in Processes \ {p}
      PROVE  pc'[q] = pc[q] \/ (pc[q] = "wait" /\ pc'[q] = "woken")
  <2>1. pc'[q] = IF pc[q] = "wait" THEN "woken" ELSE pc[q]
    BY <1>1
  <2> QED BY <2>1
<1> QED BY <1>1, <1>2, <1>3, <1>4

(* The type invariant by process, and when the threads exist.              *)
PCOK ==
  /\ DOMAIN pc = Processes
  /\ pc["main"] \in {"boot", "start", "spawnSampler", "spawnNetwork", "poll", "destroy",
                     "done", "aborted"}
  /\ pc["handler"] \in {"idle", "exchange", "notify", "disconnect", "joinSampler", "joinNetwork"}
  /\ pc["second"] \in {"idle", "notify", "disconnect", "joinSampler", "joinSelf"}
  /\ pc["sampler"] \in Waiting \cup {"none", "top", "copy", "done"}
  /\ pc["network"] \in Waiting \cup {"none", "top", "test", "connect", "receive", "applyFlag",
                                     "applyNotify", "done"}

Created ==
  pc["main"] # "aborted" =>
    /\ pc["sampler"] = "none" <=> pc["main"] \in {"boot", "start", "spawnSampler"}
    /\ pc["network"] = "none" <=> pc["main"] \in {"boot", "start", "spawnSampler", "spawnNetwork"}

Locked ==
  /\ pc["sampler"] \in Holding <=> mutex = "sampler"
  /\ pc["network"] \in Holding <=> mutex = "network"

DataOK ==
  /\ platform \in Platforms
  /\ running \in BOOLEAN /\ updated \in BOOLEAN /\ connected \in BOOLEAN
  /\ config \in 0 .. MaxConfigs /\ snapshot \in 0 .. config
  /\ mutex \in Threads \cup {"free"}
  /\ joined \subseteq Threads
  /\ signals \in 0 .. MaxSignals
  /\ stoppedAt \in {"never", "worker", "spawnSampler", "spawnNetwork", "poll"}
  /\ host \in Threads \cup {"none"}

(* Only a started agent runs.                                              *)
Started == running => pc["main"] \in {"spawnSampler", "spawnNetwork", "poll"}

(* The second handler has stopped a started agent.                         *)
Second ==
  pc["second"] # "idle" => ~running /\ stoppedAt = "worker" /\ pc["main"] \notin {"boot", "start"}

IInv == PCOK /\ Created /\ Locked /\ DataOK /\ Started /\ Second

(* The inductive invariant gives the types.                                *)
LEMMA TypeFromIInv == IInv => TypeOK
<1> SUFFICES ASSUME IInv PROVE TypeOK
  OBVIOUS
<1>1. \A p \in Processes : pc[p] \in Points(p)
  BY DEF IInv, PCOK, Points, Processes
<1>2. DOMAIN pc = Processes
  BY DEF IInv, PCOK
<1>3. stoppedAt \in Points("main") \cup {"never", "worker"}
  BY DEF IInv, DataOK, Points
<1>4. \A t \in Threads : pc[t] \in Holding <=> mutex = t
  BY DEF IInv, Locked, Threads
<1> QED BY <1>1, <1>2, <1>3, <1>4 DEF IInv, DataOK, TypeOK

(* It holds at first.                                                      *)
LEMMA IInvInit == Init => IInv
<1> SUFFICES ASSUME Init PROVE IInv
  OBVIOUS
<1>1. /\ DOMAIN pc = Processes /\ pc["main"] = "boot" /\ pc["handler"] = "idle"
      /\ pc["second"] = "idle" /\ pc["sampler"] = "none" /\ pc["network"] = "none"
  BY DEF Init, Processes
<1>2. PCOK /\ Created
  BY <1>1 DEF PCOK, Created
<1>3. Locked
  BY <1>1 DEF Init, Locked, Holding
<1>4. DataOK
  <2>1. /\ platform \in Platforms /\ running = FALSE /\ updated = FALSE /\ connected = FALSE
        /\ config = 0 /\ snapshot = 0 /\ mutex = "free" /\ joined = {} /\ signals = 0
        /\ stoppedAt = "never" /\ host = "none"
    BY DEF Init
  <2>2. config \in 0 .. MaxConfigs /\ snapshot \in 0 .. config /\ signals \in 0 .. MaxSignals
    <3>1. MaxConfigs \in Nat /\ MaxSignals \in Nat
      BY ThreadsAssumption
    <3> QED BY <2>1, <3>1
  <2>3. mutex \in Threads \cup {"free"} /\ joined \subseteq Threads
    BY <2>1
  <2> QED BY <2>1, <2>2, <2>3 DEF DataOK
<1>5. Started /\ Second
  BY <1>1 DEF Init, Started, Second
<1> QED BY <1>2, <1>3, <1>4, <1>5 DEF IInv

(* What a step changes besides pc; the facts the steps of IInv start from. *)
LEMMA IInvMain == IInv /\ MainStep => IInv'
<1> SUFFICES ASSUME IInv, MainStep PROVE IInv'
  OBVIOUS
<1> USE DEF Processes
<1>1. UNCHANGED <<platform, host, updated, config, snapshot, connected, mutex, joined, signals,
                  stoppedAt>>
      /\ running' \in BOOLEAN
  BY DEF MainStep, SetInstance, SetRunning, SpawnSampler, SpawnNetwork, Spawn, SeeStopped, Destroy,
         data, IInv, DataOK
<1>2. DataOK'
  BY <1>1 DEF IInv, DataOK
<1>3. CASE SetInstance \/ SetRunning \/ SeeStopped \/ Destroy
  BY <1>1, <1>2, <1>3 DEF SetInstance, SetRunning, SeeStopped, Destroy, Step, data, IInv, PCOK, Created,
                          Locked, Started, Second
<1>4. CASE SpawnSampler
  <2>1. /\ pc["main"] = "spawnSampler" /\ pc["sampler"] = "none"
        /\ pc'["main"] = "spawnNetwork" /\ pc'["sampler"] = "top" /\ DOMAIN pc' = Processes
        /\ pc'["handler"] = pc["handler"] /\ pc'["network"] = pc["network"] /\ running' = running
        /\ pc'["second"] = pc["second"]
    BY <1>4 DEF SpawnSampler, Spawn, data, IInv, PCOK, Created
  <2> QED BY <1>1, <1>2, <2>1 DEF IInv, PCOK, Created, Locked, Holding, Started, Second
<1>5. CASE SpawnNetwork
  <2>1. /\ pc["main"] = "spawnNetwork" /\ pc["network"] = "none"
        /\ pc'["main"] = "poll" /\ pc'["network"] = "top" /\ DOMAIN pc' = Processes
        /\ pc'["handler"] = pc["handler"] /\ pc'["sampler"] = pc["sampler"] /\ running' = running
        /\ pc'["second"] = pc["second"]
    BY <1>5 DEF SpawnNetwork, Spawn, data, IInv, PCOK, Created
  <2> QED BY <1>1, <1>2, <2>1 DEF IInv, PCOK, Created, Locked, Holding, Started, Second
<1> QED BY <1>3, <1>4, <1>5 DEF MainStep

(* Waking up leaves Holding and Created as they are.                       *)
LEMMA NotifyKeepsIInv ==
  ASSUME IInv, NEW p \in {"handler", "second", "network"}, NEW from, NEW to, from # "wait",
         NotifyAll(p, from, to), to # "none", pc[p] # "none",
         p \in {"handler", "second"} => to = "disconnect" /\ from = "notify", p = "network" => to = "top" /\ from = "applyNotify"
  PROVE  IInv'
<1> USE DEF Processes
<1>1. /\ pc'[p] = to /\ pc[p] = from /\ DOMAIN pc' = Processes
      /\ UNCHANGED <<platform, host, running, updated, config, snapshot, connected, mutex, joined,
                     signals, stoppedAt>>
      /\ \A q \in Processes \ {p} : pc'[q] = pc[q] \/ (pc[q] = "wait" /\ pc'[q] = "woken")
  BY NotifyChanges DEF IInv, PCOK
<1>2. DataOK'
  BY <1>1 DEF IInv, DataOK
<1>3. PCOK' /\ Created' /\ Started' /\ Second'
  BY <1>1 DEF IInv, PCOK, Created, Waiting, Started, Second
<1>4. Locked'
  BY <1>1 DEF IInv, PCOK, Locked, Holding
<1> QED BY <1>2, <1>3, <1>4 DEF IInv

(* A signal and the steps of stop() keep it.                               *)
LEMMA IInvHandler == IInv /\ (Signal \/ HandlerStep) => IInv'
<1> SUFFICES ASSUME IInv, Signal \/ HandlerStep PROVE IInv'
  OBVIOUS
<1> USE DEF Processes
<1>1. CASE StopNotify
  BY <1>1, NotifyKeepsIInv DEF StopNotify, NotifyAll, IInv, PCOK
<1>2. CASE ~StopNotify
  <2>1. /\ pc'["handler"] \in {"idle", "exchange", "notify", "disconnect", "joinSampler", "joinNetwork"}
        /\ DOMAIN pc' = Processes
        /\ pc'["main"] = pc["main"] /\ pc'["sampler"] = pc["sampler"] /\ pc'["network"] = pc["network"]
        /\ pc'["second"] = pc["second"]
    BY <1>2 DEF Signal, HandlerStep, StopExchange, StopDisconnect, StopJoin, Step, IInv, PCOK
  <2>2. UNCHANGED <<platform, host, updated, config, snapshot, mutex>>
    BY <1>2 DEF Signal, HandlerStep, StopExchange, StopDisconnect, StopJoin
  <2>3. DataOK'
    <3>1. CASE Signal
      BY <3>1 DEF Signal, IInv, DataOK
    <3>2. CASE StopExchange
      <4>1. running' \in BOOLEAN /\ UNCHANGED <<connected, joined, signals>>
        BY <3>2 DEF StopExchange, IInv, DataOK
      <4>2. stoppedAt' \in {"never", "worker", "spawnSampler", "spawnNetwork", "poll"}
        BY <3>2 DEF StopExchange, IInv, DataOK, Started
      <4> QED BY <2>2, <4>1, <4>2 DEF IInv, DataOK
    <3>3. CASE StopDisconnect
      BY <3>3 DEF StopDisconnect, IInv, DataOK
    <3>4. CASE StopJoin("sampler", "joinSampler", "joinNetwork") \/ StopJoin("network", "joinNetwork", "idle")
      BY <3>4 DEF StopJoin, IInv, DataOK, Threads
    <3> QED BY <1>2, <3>1, <3>2, <3>3, <3>4 DEF HandlerStep
  <2>4. running' => running
    BY <1>2 DEF Signal, HandlerStep, StopExchange, StopDisconnect, StopJoin
  <2>5. stoppedAt' = stoppedAt \/ running
    BY <1>2 DEF Signal, HandlerStep, StopExchange, StopDisconnect, StopJoin
  <2> QED BY <2>1, <2>2, <2>3, <2>4, <2>5 DEF IInv, PCOK, Created, Locked, Started, Second
<1> QED BY <1>1, <1>2

(* The wait of either thread.                                              *)
LEMMA IInvWait == ASSUME NEW t \in Threads PROVE IInv /\ WaitStep(t) => IInv'
<1> SUFFICES ASSUME IInv, WaitStep(t) PROVE IInv'
  OBVIOUS
<1> USE DEF Processes, Threads
<1>1. /\ pc[t] \in Waiting /\ pc'[t] \in Waiting /\ DOMAIN pc' = Processes
      /\ \A q \in Processes \ {t} : pc'[q] = pc[q]
  BY DEF WaitStep, Lock, Check, Block, TimeOut, Relock, Step, IInv, PCOK, Waiting
<1>2. UNCHANGED data
  BY DEF WaitStep, Lock, Check, Block, TimeOut, Relock
<1>3. /\ mutex' \in {t, "free", mutex}
      /\ pc'[t] \in Holding <=> mutex' = t
      /\ mutex \in Threads \ {t} => mutex' = mutex
      /\ mutex' \in Threads \ {t} => mutex' = mutex
  BY DEF WaitStep, Lock, Check, Block, TimeOut, Relock, Step, IInv, PCOK, Locked, Holding, DataOK
<1>4. PCOK' /\ Created'
  BY <1>1 DEF IInv, PCOK, Created, Waiting
<1>5. Locked'
  BY <1>1, <1>3 DEF IInv, Locked, DataOK
<1>6. DataOK' /\ Started' /\ Second'
  BY <1>1, <1>2, <1>3 DEF IInv, DataOK, Started, Second, data
<1> QED BY <1>4, <1>5, <1>6 DEF IInv

(* The sampling thread.                                                    *)
LEMMA IInvSampler == IInv /\ SamplerStep => IInv'
<1> SUFFICES ASSUME IInv, SamplerStep PROVE IInv'
  OBVIOUS
<1> USE DEF Processes
<1>1. CASE WaitStep("sampler")
  BY <1>1, IInvWait DEF Threads
<1>2. CASE SamplerTop \/ SamplerCopy \/ SamplerLeave
  <2>1. /\ pc["sampler"] \in {"top", "copy", "leave"} /\ pc'["sampler"] \in {"copy", "done", "lock", "top"}
        /\ DOMAIN pc' = Processes /\ \A q \in Processes \ {"sampler"} : pc'[q] = pc[q]
    BY <1>2 DEF SamplerTop, SamplerCopy, SamplerLeave, Step, IInv, PCOK
  <2>2. UNCHANGED <<platform, host, running, config, connected, joined, signals, stoppedAt>>
    BY <1>2 DEF SamplerTop, SamplerCopy, SamplerLeave, data
  <2>3. /\ updated' \in BOOLEAN /\ snapshot' \in 0 .. config
        /\ mutex' = IF pc["sampler"] = "leave" THEN "free" ELSE mutex
    <3>1. config \in 0 .. config /\ updated \in BOOLEAN /\ snapshot \in 0 .. config
      BY ThreadsAssumption DEF IInv, DataOK
    <3> QED BY <1>2, <3>1 DEF SamplerTop, SamplerCopy, SamplerLeave, Step, data
  <2>4. PCOK' /\ Created' /\ Started' /\ Second'
    BY <2>1, <2>2 DEF IInv, PCOK, Created, Started, Second, Waiting
  <2>5. Locked'
    BY <2>1, <2>3 DEF IInv, Locked, Holding, DataOK
  <2>6. DataOK'
    BY <2>2, <2>3 DEF IInv, DataOK
  <2> QED BY <2>4, <2>5, <2>6 DEF IInv
<1> QED BY <1>1, <1>2 DEF SamplerStep

(* The network thread.                                                     *)
LEMMA IInvNetwork == IInv /\ NetworkStep => IInv'
<1> SUFFICES ASSUME IInv, NetworkStep PROVE IInv'
  OBVIOUS
<1> USE DEF Processes
<1>1. CASE WaitStep("network")
  BY <1>1, IInvWait DEF Threads
<1>2. CASE ApplyNotify
  BY <1>2, NotifyKeepsIInv DEF ApplyNotify, NotifyAll
<1>3. CASE NetworkTop \/ NetworkTest \/ NetworkConnect \/ NetworkLeave \/ ReceiveNoConfig \/ ApplySet \/ ApplyFlag
  <2>1. /\ pc["network"] \in {"top", "test", "connect", "leave", "receive", "applyFlag"}
        /\ pc'["network"] \in {"top", "test", "connect", "done", "lock", "receive", "applyFlag", "applyNotify"}
        /\ DOMAIN pc' = Processes /\ \A q \in Processes \ {"network"} : pc'[q] = pc[q]
    BY <1>3 DEF NetworkTop, NetworkTest, NetworkConnect, NetworkLeave, ReceiveNoConfig, ApplySet, ApplyFlag, Step,
                IInv, PCOK
  <2>2. UNCHANGED <<platform, host, running, snapshot, joined, signals, stoppedAt>>
    BY <1>3 DEF NetworkTop, NetworkTest, NetworkConnect, NetworkLeave, ReceiveNoConfig, ApplySet, ApplyFlag, data
  <2>3. updated' \in BOOLEAN /\ connected' \in BOOLEAN
    BY <1>3 DEF NetworkTop, NetworkTest, NetworkConnect, NetworkLeave, ReceiveNoConfig, ApplySet, ApplyFlag, data,
                IInv, DataOK
  <2>4. config' \in {config, config + 1} /\ config' \in 0 .. MaxConfigs
    <3>1. config \in 0 .. MaxConfigs /\ MaxConfigs \in Nat
      BY ThreadsAssumption DEF IInv, DataOK
    <3>2. config' = config \/ (config < MaxConfigs /\ config' = config + 1)
      BY <1>3 DEF NetworkTop, NetworkTest, NetworkConnect, NetworkLeave, ReceiveNoConfig, ApplySet, ApplyFlag, data
    <3> QED BY <3>1, <3>2
  <2>5. mutex' = IF pc["network"] = "leave" THEN "free" ELSE mutex
    BY <1>3 DEF NetworkTop, NetworkTest, NetworkConnect, NetworkLeave, ReceiveNoConfig, ApplySet, ApplyFlag, data,
                Step
  <2>6. PCOK' /\ Created' /\ Started' /\ Second'
    BY <2>1, <2>2 DEF IInv, PCOK, Created, Started, Second, Waiting
  <2>7. Locked'
    BY <2>1, <2>5 DEF IInv, Locked, Holding, DataOK
  <2>8. snapshot' \in 0 .. config'
    BY <2>2, <2>4 DEF IInv, DataOK
  <2>9. DataOK'
    BY <2>2, <2>3, <2>4, <2>5, <2>8 DEF IInv, DataOK
  <2> QED BY <2>6, <2>7, <2>9 DEF IInv
<1> QED BY <1>1, <1>2, <1>3 DEF NetworkStep

(* stop() on top of a worker thread.                                       *)
LEMMA IInvWorker == IInv /\ (WorkerStops \/ WorkerStep) => IInv'
<1> SUFFICES ASSUME IInv, WorkerStops \/ WorkerStep PROVE IInv'
  OBVIOUS
<1> USE DEF Processes
<1>1. CASE WorkerNotify
  BY <1>1, NotifyKeepsIInv DEF WorkerNotify, NotifyAll, IInv, PCOK
<1>2. CASE WorkerStops
  <2>1. /\ pc["second"] = "idle" /\ pc'["second"] = "notify" /\ DOMAIN pc' = Processes
        /\ \A q \in Processes \ {"second"} : pc'[q] = pc[q]
    BY <1>2 DEF WorkerStops, Step, IInv, PCOK
  <2>2. /\ UNCHANGED <<platform, updated, config, snapshot, connected, mutex, joined>>
        /\ running /\ running' = FALSE /\ stoppedAt' = "worker" /\ host' \in Threads
    BY <1>2 DEF WorkerStops
  <2>3. signals' \in 0 .. MaxSignals
    BY <1>2, ThreadsAssumption DEF WorkerStops, IInv, DataOK
  <2>4. DataOK'
    BY <2>2, <2>3 DEF IInv, DataOK
  <2>5. Started' /\ Second'
    BY <2>1, <2>2 DEF IInv, Started, Second
  <2>6. PCOK' /\ Created' /\ Locked'
    BY <2>1, <2>2 DEF IInv, PCOK, Created, Locked
  <2> QED BY <2>4, <2>5, <2>6 DEF IInv
<1>3. CASE WorkerDisconnect \/ WorkerJoin
  <2>1. /\ pc["second"] # "idle" /\ pc'["second"] \in {"joinSampler", "joinSelf"}
        /\ DOMAIN pc' = Processes /\ \A q \in Processes \ {"second"} : pc'[q] = pc[q]
    BY <1>3 DEF WorkerDisconnect, WorkerJoin, Step, IInv, PCOK
  <2>2. /\ UNCHANGED <<platform, host, running, updated, config, snapshot, mutex, signals,
                        stoppedAt>>
        /\ connected' \in {connected, FALSE} /\ joined' \in {joined, joined \cup {"sampler"}}
    BY <1>3 DEF WorkerDisconnect, WorkerJoin
  <2>3. DataOK'
    BY <2>2 DEF IInv, DataOK, Threads
  <2>4. Started' /\ Second'
    BY <2>1, <2>2 DEF IInv, Started, Second
  <2>5. PCOK' /\ Created' /\ Locked'
    BY <2>1, <2>2 DEF IInv, PCOK, Created, Locked
  <2> QED BY <2>3, <2>4, <2>5 DEF IInv
<1>4. CASE WorkerJoinsItself
  <2>1. /\ pc["second"] = "joinSelf" /\ pc'["main"] = "aborted" /\ DOMAIN pc' = Processes
        /\ \A q \in Processes \ {"main"} : pc'[q] = pc[q]
    BY <1>4 DEF WorkerJoinsItself, IInv, PCOK
  <2>2. UNCHANGED data /\ UNCHANGED mutex
    BY <1>4 DEF WorkerJoinsItself
  <2>3. DataOK'
    BY <2>2 DEF IInv, DataOK, data
  <2>4. Started' /\ Second'
    BY <2>1, <2>2 DEF IInv, Started, Second, data
  <2>5. PCOK' /\ Created' /\ Locked'
    BY <2>1, <2>2 DEF IInv, PCOK, Created, Locked
  <2> QED BY <2>3, <2>4, <2>5 DEF IInv
<1> QED BY <1>1, <1>2, <1>3, <1>4 DEF WorkerStep

(* Every step keeps it.                                                    *)
LEMMA IInvStep == IInv /\ [Next]_vars => IInv'
<1>1. IInv /\ UNCHANGED vars => IInv'
  BY DEF IInv, PCOK, Created, Locked, DataOK, Started, Second, vars
<1> QED BY <1>1, IInvMain, IInvHandler, IInvWorker, IInvSampler, IInvNetwork DEF Next, Ended

(* It holds in every reachable state.                                      *)
LEMMA IInvHolds == Spec => []IInv
BY IInvInit, IInvStep, PTL DEF Spec

(* Every variable keeps its type, and stop_mutex_ is held by exactly the    *)
(* thread that stands inside it.                                            *)
THEOREM TypeCorrect == Spec => []TypeOK
BY IInvHolds, TypeFromIInv, PTL

-----------------------------------------------------------------------------
(* No update wiped out *)

(* Three steps matter: the sampler copies before it waits, clears only when *)
(* it goes back to copy, and the flag is raised right after the value set.  *)
LEMMA NoUpdateStep == IInv /\ NoUpdateWipedOut /\ [Next]_vars => NoUpdateWipedOut'
<1> SUFFICES ASSUME IInv, NoUpdateWipedOut, [Next]_vars PROVE NoUpdateWipedOut'
  OBVIOUS
<1> USE DEF Processes, Waiting, NoUpdateWipedOut
<1>1. CASE MainStep
  BY <1>1 DEF MainStep, SetInstance, SetRunning, SpawnSampler, SpawnNetwork, Spawn, SeeStopped, Destroy,
              Step, data, IInv, PCOK, Created
<1>2. CASE Signal \/ HandlerStep
  <2>1. CASE StopNotify
    BY <2>1, NotifyChanges DEF StopNotify, IInv, PCOK
  <2>2. CASE ~StopNotify
    <3>1. pc'["sampler"] = pc["sampler"] /\ pc'["network"] = pc["network"]
      BY <1>2, <2>2 DEF Signal, HandlerStep, StopExchange, StopDisconnect, StopJoin, Step, IInv, PCOK
    <3>2. UNCHANGED <<updated, config, snapshot>>
      BY <1>2, <2>2 DEF Signal, HandlerStep, StopExchange, StopDisconnect, StopJoin
    <3> QED BY <3>1, <3>2
  <2> QED BY <2>1, <2>2
<1>3. CASE SamplerStep
  BY <1>3 DEF SamplerStep, SamplerTop, SamplerCopy, SamplerLeave, WaitStep, Lock, Check, Block, TimeOut,
              Relock, Step, data, IInv, PCOK
<1>4. CASE NetworkStep
  <2>1. CASE ApplyNotify
    BY <2>1, NotifyChanges DEF ApplyNotify, IInv, PCOK
  <2>2. CASE ApplySet
    BY <2>2 DEF ApplySet, Step, IInv, PCOK
  <2>3. CASE ApplyFlag
    BY <2>3 DEF ApplyFlag, Step, IInv, PCOK
  <2>4. CASE ~ApplyNotify /\ ~ApplySet /\ ~ApplyFlag
    BY <1>4, <2>4 DEF NetworkStep, NetworkTop, NetworkTest, NetworkConnect, NetworkLeave, ReceiveNoConfig, WaitStep,
                      Lock, Check, Block, TimeOut, Relock, Step, data, IInv, PCOK
  <2> QED BY <2>1, <2>2, <2>3, <2>4
<1>5. CASE WorkerStops \/ WorkerStep
  <2>1. CASE WorkerNotify
    BY <2>1, NotifyChanges DEF WorkerNotify, IInv, PCOK
  <2>2. CASE WorkerStops \/ WorkerDisconnect \/ WorkerJoin \/ WorkerJoinsItself
    BY <2>2 DEF WorkerStops, WorkerDisconnect, WorkerJoin, WorkerJoinsItself, Step, data, IInv, PCOK
  <2> QED BY <1>5, <2>1, <2>2 DEF WorkerStep
<1>6. CASE UNCHANGED vars
  BY <1>6 DEF vars
<1> QED BY <1>1, <1>2, <1>3, <1>4, <1>5, <1>6 DEF Next, Ended

(* Clearing config_updated_ never discards an update that was not sampled. *)
THEOREM UpdatesSurvive == Spec => []NoUpdateWipedOut
<1>1. Init => NoUpdateWipedOut
  BY DEF Init, NoUpdateWipedOut
<1> QED BY <1>1, NoUpdateStep, IInvHolds, PTL DEF Spec

-----------------------------------------------------------------------------
(* The end of the process *)

(* stop() has run exactly when a started agent does not run any more; and   *)
(* on POSIX, where main stands still until the handler returns, a stop()    *)
(* that found both threads there has joined both when main goes on.         *)
Stopped ==
  /\ running => stoppedAt = "never"
  /\ pc["main"] \in {"boot", "start"} => stoppedAt = "never"
  /\ ~running => pc["main"] \in {"boot", "start"} \/ stoppedAt # "never"

JoinedDone == \A t \in joined : pc[t] = "done"

BothJoined ==
  platform = "posix" /\ stoppedAt = "poll" =>
    /\ pc["main"] \in {"poll", "destroy", "done", "aborted"}
    /\ pc["handler"] = "joinNetwork" => "sampler" \in joined
    /\ pc["handler"] \in {"idle", "exchange"} => joined = Threads
    /\ pc["handler"] \notin {"idle", "exchange"} => pc["main"] = "poll"

EndInv == Stopped /\ JoinedDone /\ BothJoined /\ NoThreadOutlivesAgent /\ AbortNeedsWindow

(* What the steps of the two threads leave alone.                          *)
LEMMA ThreadsKeep ==
  ASSUME IInv, SamplerStep \/ NetworkStep
  PROVE  /\ Alive
         /\ UNCHANGED <<platform, running, joined, stoppedAt>>
         /\ pc'["main"] = pc["main"] /\ pc'["handler"] = pc["handler"]
         /\ \A t \in Threads : pc[t] = "done" => pc'[t] = "done"
<1> USE DEF Processes, Threads
<1>1. CASE SamplerStep
  BY <1>1 DEF SamplerStep, SamplerTop, SamplerCopy, SamplerLeave, WaitStep, Lock, Check, Block, TimeOut,
              Relock, Step, data, IInv, PCOK
<1>2. CASE ApplyNotify
  BY <1>2, NotifyChanges DEF ApplyNotify, IInv, PCOK
<1>3. CASE NetworkStep /\ ~ApplyNotify
  BY <1>3 DEF NetworkStep, NetworkTop, NetworkTest, NetworkConnect, NetworkLeave, ReceiveNoConfig, ApplySet, ApplyFlag,
              WaitStep, Lock, Check, Block, TimeOut, Relock, Step, data, IInv, PCOK
<1> QED BY <1>1, <1>2, <1>3

(* The two threads cannot disturb what stop() has established.             *)
LEMMA EndInvThreads == IInv /\ EndInv /\ (SamplerStep \/ NetworkStep) => EndInv'
<1> SUFFICES ASSUME IInv, EndInv, SamplerStep \/ NetworkStep PROVE EndInv'
  OBVIOUS
<1>1. /\ Alive
      /\ UNCHANGED <<platform, running, joined, stoppedAt>>
      /\ pc'["main"] = pc["main"] /\ pc'["handler"] = pc["handler"]
      /\ \A t \in Threads : pc[t] = "done" => pc'[t] = "done"
  BY ThreadsKeep
<1>2. joined \subseteq Threads
  BY DEF IInv, DataOK
<1> QED BY <1>1, <1>2 DEF EndInv, Stopped, JoinedDone, BothJoined, NoThreadOutlivesAgent, AbortNeedsWindow,
                          Alive

(* main: only Destroy decides between the two ends.                        *)
LEMMA EndInvMain == IInv /\ EndInv /\ MainStep => EndInv'
<1> SUFFICES ASSUME IInv, EndInv, MainStep PROVE EndInv'
  OBVIOUS
<1> USE DEF Processes, Threads
<1>1. UNCHANGED <<platform, joined, stoppedAt>> /\ MainFree /\ Alive
  BY DEF MainStep, SetInstance, SetRunning, SpawnSampler, SpawnNetwork, Spawn, SeeStopped, Destroy, data,
         Step
<1>2. JoinedDone'
  <2>1. joined \subseteq Threads /\ JoinedDone
    BY DEF IInv, DataOK, EndInv
  <2>2. ASSUME NEW t \in joined PROVE pc'[t] = "done"
    BY <2>1, <2>2 DEF MainStep, SetInstance, SetRunning, SpawnSampler, SpawnNetwork, Spawn, SeeStopped,
                      Destroy, Step, JoinedDone, IInv, PCOK, Created
  <2> QED BY <1>1, <2>2 DEF JoinedDone
<1>3. CASE Destroy
  <2>1. /\ pc["main"] = "destroy" /\ pc'["handler"] = pc["handler"] /\ UNCHANGED running
        /\ pc'["main"] = IF \E t \in Threads : Joinable(t) THEN "aborted" ELSE "done"
        /\ pc'["sampler"] = pc["sampler"] /\ pc'["network"] = pc["network"]
    BY <1>3 DEF Destroy, Step, data, IInv, PCOK
  <2>2. pc["sampler"] # "none" /\ pc["network"] # "none"
    BY <2>1 DEF IInv, Created
  <2>3. Stopped'
    BY <1>1, <2>1 DEF EndInv, Stopped
  <2>4. BothJoined'
    BY <1>1, <2>1 DEF EndInv, BothJoined, MainFree
  <2>5. NoThreadOutlivesAgent'
    BY <1>1, <1>2, <2>1, <2>2 DEF NoThreadOutlivesAgent, Joinable, JoinedDone
  <2>6. stoppedAt \in {"worker", "spawnSampler", "spawnNetwork", "poll"}
    BY <2>1 DEF IInv, DataOK, EndInv, Stopped, Started
  <2>7. platform = "posix" /\ stoppedAt = "poll" => joined = Threads
    BY <1>1 DEF EndInv, BothJoined, MainFree
  <2>8. platform \in {"posix", "windows"}
    BY ThreadsAssumption DEF IInv, DataOK
  <2>9. AbortNeedsWindow'
    BY <1>1, <2>1, <2>6, <2>7, <2>8 DEF AbortNeedsWindow, Joinable
  <2> QED BY <1>2, <2>3, <2>4, <2>5, <2>9 DEF EndInv
<1>4. CASE ~Destroy
  <2>1. /\ pc'["handler"] = pc["handler"]
        /\ \/ pc["main"] = "boot" /\ pc'["main"] = "start" /\ UNCHANGED running
           \/ pc["main"] = "start" /\ pc'["main"] = "spawnSampler" /\ running'
           \/ pc["main"] = "spawnSampler" /\ pc'["main"] = "spawnNetwork" /\ UNCHANGED running
           \/ pc["main"] = "spawnNetwork" /\ pc'["main"] = "poll" /\ UNCHANGED running
           \/ pc["main"] = "poll" /\ pc'["main"] = "destroy" /\ ~running /\ UNCHANGED running
    BY <1>4 DEF MainStep, SetInstance, SetRunning, SpawnSampler, SpawnNetwork, Spawn, SeeStopped, Step, data,
                IInv, PCOK
  <2>2. Stopped'
    BY <1>1, <2>1 DEF EndInv, Stopped
  <2>3. BothJoined'
    BY <1>1, <2>1 DEF EndInv, BothJoined, Stopped, MainFree
  <2>4. NoThreadOutlivesAgent' /\ AbortNeedsWindow'
    BY <2>1 DEF NoThreadOutlivesAgent, AbortNeedsWindow
  <2> QED BY <1>2, <2>2, <2>3, <2>4 DEF EndInv
<1> QED BY <1>3, <1>4

(* The handler: the joins, in order.                                       *)
LEMMA EndInvHandler == IInv /\ EndInv /\ (Signal \/ HandlerStep) => EndInv'
<1> SUFFICES ASSUME IInv, EndInv, Signal \/ HandlerStep PROVE EndInv'
  OBVIOUS
<1> USE DEF Processes, Threads
<1>1. /\ pc'["main"] = pc["main"] /\ pc["main"] \notin {"done", "aborted"} /\ UNCHANGED platform
      /\ \A t \in Threads : pc[t] = "done" => pc'[t] = "done"
  <2>1. CASE StopNotify
    BY <2>1, NotifyChanges DEF StopNotify, IInv, PCOK, Alive
  <2>2. CASE ~StopNotify
    BY <2>2 DEF Signal, HandlerStep, StopExchange, StopDisconnect, StopJoin, Step, IInv, PCOK, Alive
  <2> QED BY <2>1, <2>2
<1>2. NoThreadOutlivesAgent' /\ AbortNeedsWindow'
  BY <1>1 DEF NoThreadOutlivesAgent, AbortNeedsWindow
<1>3. JoinedDone /\ joined \subseteq Threads /\ Stopped /\ BothJoined
  BY DEF IInv, DataOK, EndInv
<1>4. CASE StopJoin("sampler", "joinSampler", "joinNetwork") \/ StopJoin("network", "joinNetwork", "idle")
  <2>1. PICK t \in Threads :
          /\ Joinable(t) => pc[t] = "done"
          /\ joined' = IF Joinable(t) THEN joined \cup {t} ELSE joined
          /\ UNCHANGED <<running, stoppedAt>>
          /\ t = "sampler" => pc["handler"] = "joinSampler" /\ pc'["handler"] = "joinNetwork"
          /\ t = "network" => pc["handler"] = "joinNetwork" /\ pc'["handler"] = "idle"
    BY <1>4 DEF StopJoin, Step, IInv, PCOK
  <2>2. JoinedDone'
    BY <1>1, <1>3, <2>1 DEF JoinedDone
  <2>3. Stopped'
    BY <1>1, <1>3, <2>1 DEF Stopped
  <2>4. pc["main"] = "poll" => pc[t] # "none"
    BY DEF IInv, Created
  <2>5. pc["main"] = "poll" => t \in joined'
    BY <2>1, <2>4 DEF Joinable
  <2>6. BothJoined'
    BY <1>1, <1>3, <2>1, <2>5 DEF BothJoined
  <2> QED BY <1>2, <2>2, <2>3, <2>6 DEF EndInv
<1>5. CASE StopExchange
  <2>1. /\ pc["handler"] = "exchange" /\ UNCHANGED joined
        /\ \/ ~running /\ pc'["handler"] = "idle" /\ UNCHANGED <<running, stoppedAt>>
           \/ running /\ ~running' /\ pc'["handler"] = "notify" /\ stoppedAt' = pc["main"]
    BY <1>5 DEF StopExchange, Step, IInv, PCOK, DataOK, Started
  <2>2. JoinedDone'
    BY <1>1, <1>3, <2>1 DEF JoinedDone
  <2>3. Stopped'
    BY <1>1, <1>3, <2>1 DEF Stopped, IInv, Started
  <2>4. BothJoined'
    BY <1>1, <1>3, <2>1 DEF BothJoined
  <2> QED BY <1>2, <2>2, <2>3, <2>4 DEF EndInv
<1>6. CASE Signal \/ StopNotify \/ StopDisconnect
  <2>1. /\ UNCHANGED <<running, joined, stoppedAt>>
        /\ \/ pc["handler"] = "idle" /\ pc'["handler"] = "exchange"
           \/ pc["handler"] \in {"notify", "disconnect"} /\ pc'["handler"] \in {"disconnect", "joinSampler"}
    <3>1. CASE StopNotify
      BY <3>1, NotifyChanges DEF StopNotify, IInv, PCOK
    <3>2. CASE Signal \/ StopDisconnect
      BY <3>2 DEF Signal, StopDisconnect, Step, IInv, PCOK
    <3> QED BY <1>6, <3>1, <3>2
  <2>2. JoinedDone'
    BY <1>1, <1>3, <2>1 DEF JoinedDone
  <2>3. Stopped' /\ BothJoined'
    BY <1>1, <1>3, <2>1 DEF Stopped, BothJoined
  <2> QED BY <1>2, <2>2, <2>3 DEF EndInv
<1> QED BY <1>4, <1>5, <1>6 DEF HandlerStep

(* stop() on top of a worker thread joins at most the sampling thread.     *)
LEMMA EndInvWorker == IInv /\ EndInv /\ (WorkerStops \/ WorkerStep) => EndInv'
<1> SUFFICES ASSUME IInv, EndInv, WorkerStops \/ WorkerStep PROVE EndInv'
  OBVIOUS
<1> USE DEF Processes, Threads
<1>1. /\ pc["main"] \notin {"done", "aborted"} /\ UNCHANGED platform
      /\ pc'["handler"] = pc["handler"]
      /\ \A t \in Threads : pc[t] = "done" => pc'[t] = "done"
  <2>1. CASE WorkerNotify
    BY <2>1, NotifyChanges DEF WorkerNotify, IInv, PCOK, Alive
  <2>2. CASE WorkerStops \/ WorkerDisconnect \/ WorkerJoin \/ WorkerJoinsItself
    BY <2>2 DEF WorkerStops, WorkerDisconnect, WorkerJoin, WorkerJoinsItself, Step, data, IInv, PCOK,
                Alive
  <2> QED BY <2>1, <2>2 DEF WorkerStep
<1>2. pc'["main"] = pc["main"] \/ pc'["main"] = "aborted"
  <2>1. CASE WorkerNotify
    BY <2>1, NotifyChanges DEF WorkerNotify, IInv, PCOK
  <2>2. CASE WorkerStops \/ WorkerDisconnect \/ WorkerJoin \/ WorkerJoinsItself
    BY <2>2 DEF WorkerStops, WorkerDisconnect, WorkerJoin, WorkerJoinsItself, Step, IInv, PCOK
  <2> QED BY <2>1, <2>2 DEF WorkerStep
<1>3. stoppedAt' = "worker" /\ ~running' /\ pc["main"] \notin {"boot", "start"}
  <2>1. CASE WorkerStops
    BY <2>1 DEF WorkerStops, IInv, Started
  <2>2. CASE WorkerStep
    <3>1. pc["second"] # "idle" /\ UNCHANGED <<running, stoppedAt>>
      BY <2>2 DEF WorkerStep, WorkerNotify, NotifyAll, WorkerDisconnect, WorkerJoin,
                  WorkerJoinsItself, Step, data
    <3> QED BY <3>1 DEF IInv, Second
  <2> QED BY <2>1, <2>2
<1>4. JoinedDone'
  <2>1. JoinedDone /\ joined \subseteq Threads
    BY DEF EndInv, IInv, DataOK
  <2>2. CASE WorkerJoin
    <3>1. /\ joined' = IF Joinable("sampler") THEN joined \cup {"sampler"} ELSE joined
          /\ Joinable("sampler") => pc["sampler"] = "done"
      BY <2>2 DEF WorkerJoin
    <3> QED BY <1>1, <2>1, <3>1 DEF JoinedDone
  <2>3. CASE ~WorkerJoin
    <3>1. joined' = joined
      BY <2>3 DEF WorkerStops, WorkerStep, WorkerNotify, NotifyAll, WorkerDisconnect,
                  WorkerJoinsItself, data
    <3> QED BY <1>1, <2>1, <3>1 DEF JoinedDone
  <2> QED BY <2>2, <2>3
<1> QED BY <1>1, <1>2, <1>3, <1>4 DEF EndInv, Stopped, BothJoined, NoThreadOutlivesAgent,
                                      AbortNeedsWindow

(* Nothing has ended at first.                                             *)
LEMMA EndInvInit == Init => EndInv
<1> SUFFICES ASSUME Init PROVE EndInv
  OBVIOUS
<1>1. pc["main"] = "boot" /\ running = FALSE /\ joined = {} /\ stoppedAt = "never"
  BY DEF Init, Processes
<1> QED BY <1>1 DEF EndInv, Stopped, JoinedDone, BothJoined, NoThreadOutlivesAgent, AbortNeedsWindow

(* What is said of the end of the process holds in every state.            *)
LEMMA EndInvHolds == Spec => []EndInv
<1>1. IInv /\ EndInv /\ UNCHANGED vars => EndInv'
  BY DEF EndInv, Stopped, JoinedDone, BothJoined, NoThreadOutlivesAgent, AbortNeedsWindow, vars
<1>2. IInv /\ EndInv /\ [Next]_vars => EndInv'
  BY <1>1, EndInvMain, EndInvHandler, EndInvWorker, EndInvThreads DEF Next, Ended
<1> QED BY <1>2, EndInvInit, IInvHolds, PTL DEF Spec

(* An agent that ends normally has joined both its threads.                *)
THEOREM ThreadsEndFirst == Spec => []NoThreadOutlivesAgent
BY EndInvHolds, PTL DEF EndInv

(* Only a signal in the middle of start(), a second one that a thread of   *)
(* the agent takes, or Windows, lets it abort.                              *)
THEOREM AbortsAreExplained == Spec => []AbortNeedsWindow
BY EndInvHolds, PTL DEF EndInv
=============================================================================
