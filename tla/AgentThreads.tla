---------------------------- MODULE AgentThreads ----------------------------
(***************************************************************************)
(* The threads of one agent process: main (main_cta.cpp), the handler of    *)
(* SIGINT and SIGTERM, which runs CTA::stop, and the two threads CTA::start *)
(* creates, samplingLoop and networkLoop, with the flags, the mutex and the *)
(* condition variable they share.  A configuration is its version number.   *)
(* The alerts are left to AlertPipeline, the bytes to the socket.           *)
(***************************************************************************)
EXTENDS Naturals, FiniteSets

CONSTANTS MaxConfigs,  \* bound on the configurations the server sends
          MaxSignals,  \* bound on the signals the process gets
          Platforms    \* a subset of {"posix", "windows"}

ASSUME ThreadsAssumption ==
  MaxConfigs \in Nat /\ MaxSignals \in Nat /\ Platforms \subseteq {"posix", "windows"}

VARIABLES
  platform,   \* "posix": a signal interrupts main; "windows": it gets a thread
  pc,         \* where main, its handler, a second one and the two threads stand
  host,       \* the thread that the second handler has interrupted, or "none"
  running,    \* is_running_
  updated,    \* config_updated_
  config,     \* current_config_
  snapshot,   \* the configuration the sampling thread last copied
  connected,  \* socket_channel_->isConnected()
  mutex,      \* the thread that holds stop_mutex_, or "free"
  joined,     \* the threads stop() has joined
  signals,    \* signals delivered so far
  stoppedAt   \* where main was when stop() cleared is_running_, or "never",
              \* or "worker" when one of the two threads cleared it

vars == <<platform, pc, host, running, updated, config, snapshot, connected, mutex, joined,
          signals, stoppedAt>>
data == <<platform, host, running, updated, config, snapshot, connected, joined, signals,
          stoppedAt>>

Processes == {"main", "handler", "second", "sampler", "network"}
Threads   == {"sampler", "network"}

Waiting == {"lock", "check", "block", "wait", "woken", "timedout", "leave"}

Init ==
  /\ platform \in Platforms
  /\ pc = [p \in Processes |->
             CASE p = "main" -> "boot" [] p \in {"handler", "second"} -> "idle" [] OTHER -> "none"]
  /\ host = "none"
  /\ running = FALSE /\ updated = FALSE
  /\ config = 0 /\ snapshot = 0
  /\ connected = FALSE /\ mutex = "free" /\ joined = {}
  /\ signals = 0 /\ stoppedAt = "never"

(* The process ends when main returns, or in std::terminate.               *)
Alive == pc["main"] \notin {"done", "aborted"}

(* A thread stands still while a handler runs on top of it.                *)
Step(p, from, to) ==
  /\ Alive /\ p # host
  /\ pc[p] = from
  /\ pc' = [pc EXCEPT ![p] = to]

-----------------------------------------------------------------------------
(* main.  On POSIX it stands still while the handler runs on top of it.     *)

MainFree == platform = "posix" => pc["handler"] = "idle"

(* g_cta_instance is set: from here the handler calls stop().              *)
SetInstance ==
  /\ MainFree /\ Step("main", "boot", "start")
  /\ UNCHANGED <<data, mutex>>

(* start(): the flag first, then one thread, then the other.               *)
SetRunning ==
  /\ MainFree /\ Step("main", "start", "spawnSampler")
  /\ running' = TRUE
  /\ UNCHANGED <<platform, host, updated, config, snapshot, connected, mutex, joined,
                 signals, stoppedAt>>

Spawn(t, from, to) ==
  /\ MainFree /\ Alive
  /\ pc["main"] = from
  /\ pc' = [pc EXCEPT !["main"] = to, ![t] = "top"]
  /\ UNCHANGED <<data, mutex>>

SpawnSampler == Spawn("sampler", "spawnSampler", "spawnNetwork")
SpawnNetwork == Spawn("network", "spawnNetwork", "poll")

(* while (cta.isRunning()) sleep; then g_cta_instance = nullptr.           *)
SeeStopped ==
  /\ MainFree /\ ~running /\ Step("main", "poll", "destroy")
  /\ UNCHANGED <<data, mutex>>

Joinable(t) == pc[t] # "none" /\ t \notin joined

(* ~CTA: stop() returns at once, is_running_ being false; destroying a      *)
(* std::thread that is still joinable calls std::terminate.                 *)
Destroy ==
  /\ MainFree
  /\ Step("main", "destroy", IF \E t \in Threads : Joinable(t) THEN "aborted" ELSE "done")
  /\ UNCHANGED <<data, mutex>>

MainStep == SetInstance \/ SetRunning \/ SpawnSampler \/ SpawnNetwork \/ SeeStopped \/ Destroy

-----------------------------------------------------------------------------
(* The signal handler and stop() *)

(* A signal.  Windows resets the disposition, so that only the first one    *)
(* reaches the handler.                                                     *)
Signal ==
  /\ signals < MaxSignals
  /\ platform = "windows" => signals = 0
  /\ Step("handler", "idle", "exchange")
  /\ signals' = signals + 1
  /\ UNCHANGED <<platform, host, running, updated, config, snapshot, connected, mutex,
                 joined, stoppedAt>>

(* is_running_.exchange(false); nothing to do without an instance or when  *)
(* the agent is not running.                                                *)
StopExchange ==
  LET stops == running /\ pc["main"] # "destroy"
  IN  /\ Step("handler", "exchange", IF stops THEN "notify" ELSE "idle")
      /\ running' = (running /\ ~stops)
      /\ stoppedAt' = IF stops THEN pc["main"] ELSE stoppedAt
      /\ UNCHANGED <<platform, host, updated, config, snapshot, connected, mutex, joined, signals>>

(* cv_stop_.notify_all(), by a caller that moves on to pc `to`.            *)
NotifyAll(p, from, to) ==
  /\ Alive /\ p # host
  /\ pc[p] = from
  /\ pc' = [q \in Processes |-> IF q = p THEN to
                                ELSE IF pc[q] = "wait" THEN "woken" ELSE pc[q]]
  /\ UNCHANGED <<data, mutex>>

StopNotify == NotifyAll("handler", "notify", "disconnect")

StopDisconnect ==
  /\ Step("handler", "disconnect", "joinSampler")
  /\ connected' = FALSE
  /\ UNCHANGED <<platform, host, running, updated, config, snapshot, mutex, joined,
                 signals, stoppedAt>>

(* Mutant of StopJoin: the threads are detached.                           *)
StopDetach(t, from, to) ==
  /\ Step("handler", from, to)
  /\ joined' = IF Joinable(t) THEN joined \cup {t} ELSE joined
  /\ UNCHANGED <<platform, host, running, updated, config, snapshot, connected, mutex,
                 signals, stoppedAt>>

(* if (t.joinable()) t.join()                                              *)
StopJoin(t, from, to) ==
  /\ Joinable(t) => pc[t] = "done"
  /\ Step("handler", from, to)
  /\ joined' = IF Joinable(t) THEN joined \cup {t} ELSE joined
  /\ UNCHANGED <<platform, host, running, updated, config, snapshot, connected, mutex,
                 signals, stoppedAt>>

(* Mutant of HandlerStep: stop() forgets the network thread.               *)
HandlerJoinsOne ==
  \/ StopExchange \/ StopNotify \/ StopDisconnect
  \/ StopJoin("sampler", "joinSampler", "idle")

HandlerStep ==
  \/ StopExchange \/ StopNotify \/ StopDisconnect
  \/ StopJoin("sampler", "joinSampler", "joinNetwork")
  \/ StopJoin("network", "joinNetwork", "idle")

-----------------------------------------------------------------------------
(* On POSIX main's handler blocks its own signal for main alone: until it   *)
(* has reached stop(), the same signal once more may run the handler, and   *)
(* stop() as a whole, on top of one of the two threads.                     *)

WorkerStops ==
  /\ platform = "posix" /\ signals < MaxSignals
  /\ pc["handler"] = "exchange" /\ running
  /\ \E t \in Threads : pc[t] \notin {"none", "done"} /\ host' = t
  /\ Step("second", "idle", "notify")
  /\ signals' = signals + 1
  /\ running' = FALSE /\ stoppedAt' = "worker"
  /\ UNCHANGED <<platform, updated, config, snapshot, connected, mutex, joined>>

WorkerNotify == NotifyAll("second", "notify", "disconnect")

WorkerDisconnect ==
  /\ Step("second", "disconnect", IF host = "network" THEN "joinSampler" ELSE "joinSelf")
  /\ connected' = FALSE
  /\ UNCHANGED <<platform, host, running, updated, config, snapshot, mutex, joined, signals,
                 stoppedAt>>

WorkerJoin ==
  /\ Joinable("sampler") => pc["sampler"] = "done"
  /\ Step("second", "joinSampler", "joinSelf")
  /\ joined' = IF Joinable("sampler") THEN joined \cup {"sampler"} ELSE joined
  /\ UNCHANGED <<platform, host, running, updated, config, snapshot, connected, mutex, signals,
                 stoppedAt>>

(* join() of the calling thread throws, out of a signal handler.           *)
WorkerJoinsItself ==
  /\ Alive /\ pc["second"] = "joinSelf"
  /\ pc' = [pc EXCEPT !["main"] = "aborted"]
  /\ UNCHANGED <<data, mutex>>

WorkerStep == WorkerNotify \/ WorkerDisconnect \/ WorkerJoin \/ WorkerJoinsItself

-----------------------------------------------------------------------------
(* cv_stop_.wait_for(lock, duration, predicate) under stop_mutex_, for both *)
(* threads.  Neither stop() nor applyConfigFromJson takes stop_mutex_ to set *)
(* its flag or to notify, so both may fall between Check and Block.         *)

Lock(t) ==
  /\ mutex = "free"
  /\ Step(t, "lock", "check")
  /\ mutex' = t
  /\ UNCHANGED data

Predicate(t) == ~running \/ (t = "sampler" /\ updated)

Check(t) ==
  /\ Step(t, "check", IF Predicate(t) THEN "leave" ELSE "block")
  /\ UNCHANGED <<data, mutex>>

Block(t) ==
  /\ Step(t, "block", "wait")
  /\ mutex' = "free"
  /\ UNCHANGED data

(* Mutant of TimeOut: wait() in place of wait_for().                       *)
NoTimeOut(t) == FALSE /\ Step(t, "wait", "timedout") /\ UNCHANGED <<data, mutex>>

(* sampling_interval_ms, or the second networkLoop waits, has passed.      *)
TimeOut(t) ==
  /\ Step(t, "wait", "timedout")
  /\ UNCHANGED <<data, mutex>>

(* Mutant of Relock: a notified thread does not take the mutex again.      *)
RelockNot(t) ==
  /\ Step(t, "woken", "check") \/ Step(t, "timedout", "leave")
  /\ UNCHANGED <<data, mutex>>

(* Awake, the mutex is taken again; a notified thread looks once more.     *)
Relock(t) ==
  /\ mutex = "free"
  /\ Step(t, "woken", "check") \/ Step(t, "timedout", "leave")
  /\ mutex' = t
  /\ UNCHANGED data

WaitStep(t) == Lock(t) \/ Check(t) \/ Block(t) \/ TimeOut(t) \/ Relock(t)

-----------------------------------------------------------------------------
(* samplingLoop *)

SamplerTop ==
  /\ Step("sampler", "top", IF running THEN "copy" ELSE "done")
  /\ UNCHANGED <<data, mutex>>

(* Copy the configuration under config_mutex_, then sample with it.        *)
SamplerCopy ==
  /\ Step("sampler", "copy", "lock")
  /\ snapshot' = config
  /\ UNCHANGED <<platform, host, running, updated, config, connected, mutex, joined,
                 signals, stoppedAt>>

(* Mutant of SamplerLeave: the configuration is copied before the loop.    *)
SamplerLeaveToSample ==
  /\ Step("sampler", "leave", "lock")
  /\ updated' = FALSE
  /\ mutex' = "free"
  /\ UNCHANGED <<platform, host, running, config, snapshot, connected, joined,
                 signals, stoppedAt>>

(* The wait is over: config_updated_.store(false), whoever set it when.    *)
SamplerLeave ==
  /\ Step("sampler", "leave", "top")
  /\ updated' = FALSE
  /\ mutex' = "free"
  /\ UNCHANGED <<platform, host, running, config, snapshot, connected, joined,
                 signals, stoppedAt>>

SamplerStep == SamplerTop \/ SamplerCopy \/ SamplerLeave \/ WaitStep("sampler")

-----------------------------------------------------------------------------
(* networkLoop and applyConfigFromJson *)

NetworkTop ==
  /\ Step("network", "top", IF running THEN "test" ELSE "done")
  /\ UNCHANGED <<data, mutex>>

NetworkTest ==
  /\ Step("network", "test", IF connected THEN "receive" ELSE "connect")
  /\ UNCHANGED <<data, mutex>>

NetworkConnect ==
  /\ \/ connected' = TRUE /\ Step("network", "connect", "receive")
     \/ connected' = FALSE /\ Step("network", "connect", "lock")
  /\ UNCHANGED <<platform, host, running, updated, config, snapshot, mutex, joined,
                 signals, stoppedAt>>

NetworkLeave ==
  /\ Step("network", "leave", "top")
  /\ mutex' = "free"
  /\ UNCHANGED data

(* receiveMessage and the alerts: nothing, or the connection is lost.      *)
ReceiveNoConfig ==
  /\ connected' \in {connected, FALSE}
  /\ Step("network", "receive", "top")
  /\ UNCHANGED <<platform, host, running, updated, config, snapshot, mutex, joined,
                 signals, stoppedAt>>

(* A configuration arrives and parses: set it under config_mutex_ ...      *)
ApplySet ==
  /\ connected
  /\ config < MaxConfigs
  /\ config' = config + 1
  /\ Step("network", "receive", "applyFlag")
  /\ UNCHANGED <<platform, host, running, updated, snapshot, connected, mutex, joined,
                 signals, stoppedAt>>

(* ... save it, raise the flag ...                                         *)
ApplyFlag ==
  /\ Step("network", "applyFlag", "applyNotify")
  /\ updated' = TRUE
  /\ UNCHANGED <<platform, host, running, config, snapshot, connected, mutex, joined,
                 signals, stoppedAt>>

(* ... and notify.                                                         *)
ApplyNotify == NotifyAll("network", "applyNotify", "top")

NetworkStep ==
  \/ NetworkTop \/ NetworkTest \/ NetworkConnect \/ NetworkLeave \/ WaitStep("network")
  \/ ReceiveNoConfig \/ ApplySet \/ ApplyFlag \/ ApplyNotify

(* The end of the process.                                                 *)
Ended == ~Alive /\ UNCHANGED vars

Next ==
  \/ MainStep \/ Signal \/ HandlerStep \/ WorkerStops \/ WorkerStep
  \/ SamplerStep \/ NetworkStep \/ Ended

(* The system schedules every thread and grants stop_mutex_ to one that     *)
(* keeps asking for it; the waits end by their timeouts.                    *)
Fairness ==
  /\ WF_vars(MainStep) /\ WF_vars(HandlerStep) /\ WF_vars(WorkerStep)
  /\ SF_vars(SamplerStep) /\ SF_vars(NetworkStep)

Spec     == Init /\ [][Next]_vars
FairSpec == Spec /\ Fairness

-----------------------------------------------------------------------------
(* Properties *)

Points(p) ==
  CASE p = "main"    -> {"boot", "start", "spawnSampler", "spawnNetwork", "poll", "destroy",
                         "done", "aborted"}
    [] p = "handler" -> {"idle", "exchange", "notify", "disconnect", "joinSampler", "joinNetwork"}
    [] p = "second"  -> {"idle", "notify", "disconnect", "joinSampler", "joinSelf"}
    [] p = "sampler" -> Waiting \cup {"none", "top", "copy", "done"}
    [] p = "network" -> Waiting \cup {"none", "top", "test", "connect", "receive", "applyFlag",
                                      "applyNotify", "done"}

Holding == {"check", "block", "leave"}

(* Type invariant; stop_mutex_ is held by the thread that stands inside it. *)
TypeOK ==
  /\ platform \in Platforms
  /\ DOMAIN pc = Processes
  /\ \A p \in Processes : pc[p] \in Points(p)
  /\ running \in BOOLEAN /\ updated \in BOOLEAN /\ connected \in BOOLEAN
  /\ config \in 0 .. MaxConfigs /\ snapshot \in 0 .. config
  /\ mutex \in Threads \cup {"free"}
  /\ \A t \in Threads : pc[t] \in Holding <=> mutex = t
  /\ joined \subseteq Threads
  /\ signals \in 0 .. MaxSignals
  /\ stoppedAt \in Points("main") \cup {"never", "worker"}
  /\ host \in Threads \cup {"none"}

(* The sampling thread clears config_updated_ without knowing who set it    *)
(* (CTA.cpp:194), and still a configuration newer than the one it samples   *)
(* with always has its flag up, or about to be set (CTA.cpp:126-137): no     *)
(* update is wiped out unseen.                                              *)
NoUpdateWipedOut ==
  pc["sampler"] \in Waiting /\ snapshot # config => updated \/ pc["network"] = "applyFlag"

(* CTA is destroyed normally only when every thread it created has ended   *)
(* and was joined: none is left running on the members of a dead object.    *)
NoThreadOutlivesAgent ==
  pc["main"] = "done" => \A t \in Threads : pc[t] = "done" /\ t \in joined

(* The process dies in std::terminate only when the signal came between     *)
(* is_running_.store(true) and the creation of the second thread            *)
(* (CTA.cpp:73-77), when it came twice before main's handler had reached     *)
(* is_running_.exchange (CTA.cpp:85) and one of the threads took it, or on   *)
(* Windows, where main does not wait for the handler.                       *)
AbortNeedsWindow ==
  pc["main"] = "aborted" =>
    platform = "windows" \/ stoppedAt \in {"spawnSampler", "spawnNetwork", "worker"}

(* Every configuration the server sends comes to be sampled with, at the    *)
(* latest after one interval, unless the agent stops.                       *)
ConfigIsSampledWith ==
  \A n \in 1 .. MaxConfigs : config = n ~> snapshot >= n \/ ~running

(* A signal that finds a started agent ends the process, whatever else      *)
(* happens: neither join waits for ever, whichever notification was lost.   *)
(* Only one that comes before is_running_.store(true) is swallowed          *)
(* (main_cta.cpp:47-73, CTA.cpp:73).                                        *)
SignalEndsProcess ==
  pc["handler"] = "exchange" /\ pc["main"] \notin {"boot", "start"} ~> ~Alive

(* CTA.cpp:136: a new configuration wakes the sampling thread so that it is *)
(* applied at once.  It does not sleep once the notification is over.       *)
ConfigWakesSampler ==
  ~(pc["sampler"] = "wait" /\ updated /\ pc["network"] # "applyNotify")
=============================================================================
