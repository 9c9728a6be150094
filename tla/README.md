# Agent_CTA in TLA+

This directory is a verification development of Agent_CTA, the process monitor
made of an agent (CTA), a controller (CTB), and the kernel parts that count
network bytes (an eBPF program on Linux, a WFP callout driver on Windows). It
holds TLA+ modules translated from the source, the TLC configurations that
check them on small instances, and proofs, checked by TLAPS, of what holds for
every value of the constants. Paths are relative to the root of the repository.

## 1. The system

| Part | State | Operations | Module |
|---|---|---|---|
| `EventQueue` | a bounded deque under one mutex | `push`, `pop`, `drainAll` | `EventQueue` |
| `CTA::networkLoop`, `CTB::runReceiveLoop`, `ISocketChannel` | the backlog and the event in hand, the connection at each end, what the kernels buffer, `rx_buffer_`, the log file | connect, drain, flush, receive, pop, send, requeue; accept, receive, log, push | `AlertPipeline` |
| `main_cta`, `CTA::start`, `CTA::stop`, `samplingLoop`, `networkLoop` as threads | `is_running_`, `config_updated_`, `current_config_`, `stop_mutex_`, `cv_stop_`, the thread objects | start, signal, stop, sample, wait, apply | `AgentThreads` |
| `ISocketChannel` as an object of two threads of the agent | `client_fd_`, `is_connected_`, the descriptors of the process | connect, send, receive, disconnect, destroy | `SocketChannel` |
| The way of a configuration: `config.json`, `CTB`, the connection, `CTA`, `LinuxFileStorage`, `WindowsRegistryStorage` | the file and its time, `current_config_json_`, `last_config_time_`, `current_config_`, the stored copy | load, poll, reload, greet, push; apply, save, load offline | `ConfigSync` |
| `process_net.bpf.c`, `BPFNetTracker`, `LinuxProcessMonitor` | a BPF hash map, the per-pid history | the probes; scan, measure, prune | `NetAccounting` |
| `WindowsProcessMonitor`, `WFPNetTracker`, the disk and CPU counters of `LinuxProcessMonitor`, `checkThresholds` | the totals of the system, of EStats and of the driver; the per-pid history | read, compare, alert | `ResourceSampling` |
| `WfpCallouts.c`, `Driver.c` | callout ids, filters, flow contexts, a list under a spin lock | register, unregister, the callouts | `WfpDriver` |
| `ConfigModel.h` | records | conversion to and from JSON | `ConfigSync`: converts or not |
| `main_ctb` | | start, stop | `ServerStart` and `ServerStop` of `AlertPipeline`, `ServerCrash` of `ConfigSync` |

**Who talks to whom.** The sampling thread of the agent reads the processes
through the monitor, compares them with the thresholds of `current_config_` and
pushes an event for each violation into the queue. The network thread connects
to the server, flushes the queue, and then alternates between receiving a
configuration (100 ms) and sending what the queue holds. The server is one
thread: it accepts one client, sends it the current configuration, and then
alternates between polling `config.json` and receiving lines for its log
(200 ms). `stop()` runs in a signal handler and talks to the two threads through
an atomic flag and a condition variable.

**What is hard here.**

- Nothing is acknowledged. What `send` reports as sent may never arrive, and what
  failed may have to be sent again, so an alert can be lost, reordered or, in a
  careless change, duplicated.
- An event leaves the queue before it is sent. Whatever fails between the two has
  to put it back.
- Flags are set and notifications sent without the mutex of the waiter.
- `stop()` runs on top of an arbitrary instruction of `main`, or of one of the threads it
  is going to join.
- `stop()` closes the descriptor the network thread is using, in a process that opens
  other files all the time; `client_fd_` has no lock.
- A total that cannot be read is taken for 0; totals come from two sources that count
  different things, and pids are used again.
- A file is read and its time is read: two reads, and an editor writes in between.
- The only copy of the agent's configuration is emptied before it is written.
- Probes run on every CPU at once and update a map in which looking up, inserting
  and adding are separate steps, while the monitor removes entries from it.
- The driver is unloaded while the engine may be in its callouts and flows still
  carry its contexts.

**What makes each part correct.** The queue keeps within its capacity and gives up
only its oldest element. An alert is never in two places and never logged twice;
it is lost only where the code means it or something failed; what survives reaches
the log when both ends stay up. A configuration that was saved comes to be used,
never an older one after it, and is there again after a restart. `stop()` ends, with
both threads joined. The channel closes nothing but its own. No traffic is reported that
the probes were not called for, and no alert raised for a process within its threshold. A
context has one owner who frees it, and an unloaded driver leaves nothing behind. Where the code
falls short of one of these, section 4 shows it.

## 2. The modules and the code

`PROJECT.json` maps every definition to its lines; here is the correspondence in
outline. An action is one step between two points at which another thread,
process or the network can act.

**EventQueue** gives the value the deque has after each method. Every method holds
the mutex from its first line to its last, so each is one atomic step of the caller.

**AlertPipeline** extends it. `pc` is the place of the network thread in
`networkLoop`: `top` (is there a connection?), `backoff` (one second on `cv_stop_`),
`drain` and `flush` (`drainAll` and the loop over `pending_events`), `receive`,
`pop`, `send`. `hand` is what the thread has taken out of the queue and not yet
sent. A connection is a number; `conn` is its state as TCP keeps it: `open`, `fin`
(closed by the agent, its bytes still arrive), `halfopen` (the agent's end is gone,
the server has not been told), `dead` (both ends get an error). `wire[c]` is what it
carries. The server accepts in order of connection (`accepted`), clears `rx` when it
does, and takes one line per round, from the buffer or from a new chunk of any
number of lines. `Raise` is all of sampling that matters to an alert. Faults are
broken connections, a stop or death of either program, and a log file that cannot be
opened.

**AlertDelivery** is the abstract specification: alerts are issued, get lost, or are
delivered once. `AlertPipeline` implements it with `issued <- raised`,
`underway <- ` every place an alert can be in, `delivered <- log`.

**AgentThreads** follows `main`, the handler and both threads line by line where they
touch shared state. `Lock`, `Check`, `Block`, `TimeOut`, `Relock` are
`cv_stop_.wait_for(lock, time, predicate)` of either thread: the predicate is tested
and the thread goes to sleep in two steps, because neither `stop()` nor
`applyConfigFromJson` holds `stop_mutex_` when it sets its flag or notifies. On POSIX
`main` stands still while the handler runs; on Windows the handler has a thread of its
own and the disposition is reset, so that one signal is handled. The kernel may deliver
one more signal to a worker thread: `WorkerStops` and the `Worker...` actions are
`stop()` on top of that thread, which cannot go on before it returns.

**SocketChannel** has `ISocketChannel` statement by statement where it touches
`client_fd_` or `is_connected_`, called by `networkLoop` and by `stop()`. A descriptor is
an index into `table`, the lowest free one is given out next, and 0 stands for -1.
`pc` of a user is where it is, `ret` where it goes on after `disconnect()` or
`closeSocketHandle()`, which are `ClearFlag`, `Load` (is there a descriptor?), `Close`
and `Clear`. A blocking call is two steps, `CallConnect` and `ConnectReturns`, `CallSend`
and `SendReturns`, with the descriptor it was called with in `arg`. `networkLoop`
looks at `is_running_` (`LoopTop`) and at `isConnected()` (`TestConnected`) one after the
other. The sampling thread is there for the files it opens. `FD_SET` with -1 is undefined: the step `Select` aborts
or waits on nothing.

**ConfigSync** numbers the edits. A save in place truncates and writes, a save by renaming is
one step, and the coarse clock of a file system may give any of these the time of the one
before (`Ticks`).
`LoadRead` and `LoadTime` are the two halves of `loadConfigFromFile`, `PollChanged` and
`ReloadRead` those of `checkAndReloadConfigFile`. `SaveOpen` empties the stored file,
`SaveWrite` fills it; either may fail and nobody looks. `SaveSet` is the registry, which
replaces the value as a whole or not at all.

**ConfigRegister** is the abstract specification: a register that only gets newer, and a
copy that follows it forward, stores itself, and goes back to what it has stored, or to
nothing, when it restarts. Only a copy kept in a file can lose what it has stored.
`ConfigSync` implements it with `newest <- file.edit`, `running <- mem`,
`saved <- stored`, `kind <- storage`.

**NetAccounting** has one event per byte the probes are called to count. `Lookup` is `bpf_map_lookup_elem`; what
follows is `Add` through the pointer or `Insert` with `BPF_ANY`. An entry that is
unlinked while a probe points to it becomes `free`, and the next new entry, of any pid,
may take its memory: preallocated hash maps do so. `Open`, `Skip`, `Visit`, `Measure`,
`Forget`, `Close` are the parts of `collectMetrics`; a target whose name cannot be read is
skipped like any other pid. `watching` says whether the configuration names any process.
While it names none, `samplingLoop` does not call `collectMetrics`, and when `/proc` cannot be
opened that returns at once: `PassBy` is such a round, in which nothing is pruned. `reported`, `moved`, `due` and
`lossy` are history variables.

**ResourceSampling** is the comparison of totals both monitors make for CPU time and the
disk, and that of Windows makes for the network. `EStats` is the sum over the rows of the table of
connections that could be read, `DriverReplies` the answer to the IOCTL, `NetReadings`
the rule that prefers the one to the other. `Measure` reads, compares with the last
reading, and raises alerts; a reading that fails is 0 and is remembered as if it were one. `Skip` is a pid
the configuration does not name, or one whose name, or the list it is in, cannot be read:
its history is dropped.
Linux reads the ticks of the whole system with those of each process: when that fails the
share of the CPU is 0, and the next one too small (`Shares`). `used` counts what was used
since the last measurement, `spoilt` and `causes` say why a reading may differ from it.

**WfpDriver** has the six callouts as three (IPv4 and IPv6 are alike). `pc` and `n` are
the place in `WfpRegisterCallouts` and `WfpUnregisterCallouts`. A CPU in
`AleFlowEstablishedClassify` holds a context it has allocated, reads the id of the callout
from its global variable (`ReadId`), and gives the context to the engine under it
(`Associate`), which takes it if the flow is open and the callout still registered (`Takes`);
otherwise it is freed. The other callouts are entered with the context of a flow or without
(`arg`). `Unregister` is refused while the callout is in use, and its status is ignored.
`DeleteDevice` is the end of `DriverUnload`, or of a `DriverEntry` that failed: afterwards no
code of the driver runs (`Loaded`), whatever the engine still keeps of it.

## 3. The runs

| Run | Bounds | States | What it shows |
|---|---|---|---|
| `pipeline` | 4 alerts, queue of 2, 3 connections, 2 faults | 107,701 | `TypeOK`, `NoDuplicates`, `OneInversionPerBrokenConnection`, `LossNeedsBrokenPathOrOverflow`, `OutageKeepsAlerts`, `BacklogIsLogged`, and that the path implements `AlertDelivery` |
| `threads` | 2 configurations, 2 signals, both platforms | 57,564 | `TypeOK`, `NoUpdateWipedOut`, `NoThreadOutlivesAgent`, `AbortNeedsWindow`, `ConfigIsSampledWith`, `SignalEndsProcess` |
| `channel` | 3 descriptors, 2 alerts | 34,810 | `TypeOK`, `SafeWhileRunning`, `NoSocketIsLost`, `LateConnectOnce`, `StopEnds` |
| `config` | 3 edits of which one does not convert, 3 faults, both storages | 221,725 | `TypeOK`, `StaleOnlyByRace`, `RunsForward`, `Converges`, and that the whole implements `ConfigRegister` |
| `net` | 2 pids, 2 CPUs, a map of 1 entry, 3 events, 3 births or changes of name or configuration | 717,001 | `TypeOK`, `NeverOverreports`, `ExactUnlessLossy`, `HistoryIsPruned` |
| `sampling` | 1 pid that lives twice, 2 connections, 3 bytes or ticks, a threshold of 1 | 4,025,114 | `TypeOK`, `FalseAlertNeedsFailedRead`, `MissedAlertHasCause` |
| `wfp` | 2 flows, 2 CPUs | 98,052 | `TypeOK`, `ContextsOwned`, `StopIsClean`, `ContextsAreFreed` |
| `pipeline_backlog`, `pipeline_stuck`, `threads_wakeup`, `config_offline`, `net_map` | as small as the counterexample allows | | see section 4 |

**Why the bounds are enough.** A queue of two with four alerts overflows, by the
sampler as well as by a requeue, while the network thread holds one or two more. Three
connections and two faults allow a connection to break during the flush, the next one
to break as well, and the backlog of the second to be served by the third. Two
configurations let one arrive while the first is still being applied; two signals let
the second arrive before, during and after `stop()`. With three edits one can be half
written, one unusable and one the repair of it, and three faults are enough for a crash
of either program on each side of a broken connection. A map of one entry is full as
soon as two processes talk, and two CPUs race for it; a run with two entries gives the
same results. Three descriptors are one for the socket, one for the file of the sampling
thread, and one more so that a number is given out again while another is in use; they
also run out. Three bytes are enough to be measured with one and then exceed a threshold of
1, on one connection or spread over both; a process's figures depend on its own pid alone,
so that one pid, used twice, shows all there is, and indeed each of the causes
`MissedAlertHasCause` lists is needed within these bounds. Two CPUs and two flows let a flow be established, one be closed and the
driver be unloaded in any order. Every property of these runs is also known to be
violated by a plausible error in the code it is about: `PROJECT.json` lists one such
change per property.

**Deadlock** is checked everywhere but in `wfp`, where an unloaded driver without flows
has nothing left to do, in `sampling`, which states no fairness and may stop at the
bounds, and in the two `pipeline_*` runs, whose small bounds leave a server
without clients idle. In the other models servers and samplers go round for ever, and
`AgentThreads` and `SocketChannel` have an explicit step for a process that has ended.

**Fairness.**

- `AlertPipeline`: weak fairness of the network thread and of the server, because each
  wait in their loops has a timeout (100 ms, 200 ms, 1 s). Strong fairness of
  `ReceiveBroken`: the end of a stream is found behind a finite number of buffered
  configurations. Nothing is assumed of faults or restarts; `BacklogIsLogged` says
  itself when both programs must stay up.
- `AgentThreads`: weak fairness of `main` and the handler; strong fairness of the two
  threads, as a mutex that is free again and again is granted at some time. `TimeOut`
  is part of their steps: `wait_for` has a duration. Calls of the network are taken as
  returning; what one that does not return means for `stop()` is in `SocketChannel`.
  The worker that got a signal is scheduled like any thread (weak fairness of `WorkerStep`).
- `SocketChannel`: weak fairness of the network thread, of `stop()` and of the sampling
  thread. A `connect()` that blocks returns at some time: the kernel gives up an address that
  does not answer. A `send()` that blocks returns when the connection breaks and need not
  otherwise (`Blocked`): the system of a server that does not read answers for it, and closing
  the descriptor does not wake the thread. `StopEnds` excuses a `send()` that never returns.
  Strong fairness of `SampleDone`: a round of sampling opens a finite number of files.
- `ConfigSync`: weak fairness of the server and of the agent. Nothing says that a
  program that crashed is started again; the properties excuse a program that is down.
- `NetAccounting`: weak fairness of a scan that has begun and of a probe, which the kernel
  runs to its end. That another scan begins is not assumed, as the configuration may name no
  process; it is the premise (`ScansGoOn`) of `HistoryIsPruned` and of `DeadLeaveMap`.
- `WfpDriver`: weak fairness of the driver's own routines and of the callouts, and that
  connections are closed at some time, after which the engine calls `flowDeleteFn`; all of it
  only while the driver is loaded.

## 4. Where code and documentation disagree

Each is a run in which TLC finds a behaviour of the code that a sentence of the
repository excludes.

| Run | Property | What happens |
|---|---|---|
| `pipeline_backlog` | `RamKeepsBacklog` | A send fails while the backlog is flushed. The `break` at `src_CTA/CTA.cpp:255` destroys the rest of `pending_events`, although the connection's loss is just what the queue is for (`README.md:59`). |
| `pipeline_stuck` | `ReconnectionIsServed` | The agent's end of a connection vanishes silently. The server waits on it for ever, and never accepts the new connection; the agent believes its alerts were sent (`README.md:59`). |
| `threads_wakeup` | `ConfigWakesSampler` | The flag and the notification of a new configuration fall between the test and the sleep of the sampling thread. It sleeps through the old interval (`src_CTA/CTA.cpp:136`). `ConfigIsSampledWith` shows that it is only a delay. |
| `config_offline` | `OfflineConfigKept` | The agent dies between emptying and writing its stored configuration, and starts with none (`README.md:60`). |
| `net_map` | `DeadLeaveMap` | The probes count every process, and only those the monitor has watched are removed from the map, however often it scans: it fills with the entries of dead processes (`include/BPFNetTracker.h:31`). |

Some weaknesses contradict no sentence of the repository, or one that is too vague to
hold the code to. Properties that hold name them as the only exceptions there are:

- A signal between `is_running_.store(true)` and the creation of the second thread:
  `stop()` finds less to join than there will be, and the destructor a joinable thread.
  A second signal before the first has reached `exchange`, delivered to a worker thread:
  that thread joins itself. On Windows `main` may destroy the agent while the handler
  still joins. `AbortNeedsWindow` says that the process aborts in no other way.
- An edit between reading `config.json` and reading its time when the server starts is
  not pushed before the next edit; nor is one in the same tick of the clock as the edit the
  server has loaded. `StaleOnlyByRace` and `Converges` say that these are the only ways to
  miss one.
- After `stop()` has disconnected, `client_fd_` belongs to two threads: the number may be
  -1, closed, or that of another file when the network thread uses it. `SafeWhileRunning`
  and `NoSocketIsLost` say that nothing of the kind happens before, and `StopEnds` that
  the process ends all the same, with one exception: a network thread in a `send()` to a
  server that does not read, as that of `pipeline_stuck`, holds up the `join` in `stop()` for
  as long as the connection lasts.
- While the configuration names no process, or `/proc` cannot be opened, nothing is pruned:
  what `history_` and the map hold then stays. `HistoryIsPruned` says that it goes as long
  as scans keep beginning.
- A reading that fails is taken for a total of 0, and the next one for the bytes of one
  interval: `FalseAlertNeedsFailedRead` says that there is no other way to a false alert.
- The totals forget what a closed connection had counted, and the driver's replace those
  of EStats as soon as there are any: `MissedAlertHasCause` lists what hides a process
  that exceeds its threshold.
- A callout whose flows are still open cannot be unregistered, and
  `WfpUnregisterCallouts` neither removes the contexts nor looks at the status.
  What such a callout leaves outlives the driver: the contexts of its flows are never freed,
  and the engine, or a CPU, still has addresses in an image that is gone. `StopIsClean` and
  `ContextsAreFreed` say that this is the only way in which something stays behind.

## 5. What is proved

Checked by TLAPS, for all values of the constants that meet their assumptions
(`CapacityAssumption`: the queue has room for at least one; `ChannelAssumption`: the
process can open a descriptor; `NetAssumption`: the CPUs are finitely many and no pid is
one of the two marks `none` and `free`; `SamplingAssumption`: pids and connections are
finitely many and no pid is the mark `none`; `BoundsAssumption`, `ThreadsAssumption`,
`EditsAssumption`: the bounds are numbers, and platforms and storages known).

| Theorem | Statement |
|---|---|
| `AlertPipelineProofs!TypeCorrect` | `Spec => []TypeOK` |
| `AlertPipelineProofs!AlertsApart` | `Spec => []NoDuplicates` |
| `AlertPipelineProofs!OrderBreaksOncePerConnection` | `Spec => []OneInversionPerBrokenConnection` |
| `AlertPipelineProofs!OutageIsHarmless` | `Spec => OutageKeepsAlerts` |
| `AlertPipelineProofs!LossIsExplained` | `Spec => LossNeedsBrokenPathOrOverflow` |
| `AlertPipelineProofs!PipelineDelivers` | `Spec => ImplementsDelivery` |
| `AgentThreadsProofs!TypeCorrect` | `Spec => []TypeOK` |
| `AgentThreadsProofs!UpdatesSurvive` | `Spec => []NoUpdateWipedOut` |
| `AgentThreadsProofs!ThreadsEndFirst` | `Spec => []NoThreadOutlivesAgent` |
| `AgentThreadsProofs!AbortsAreExplained` | `Spec => []AbortNeedsWindow` |
| `SocketChannelProofs!ChannelTypes` | `Spec => []TypeOK` |
| `SocketChannelProofs!ChannelIsSafeWhileRunning` | `Spec => []SafeWhileRunning` |
| `SocketChannelProofs!ChannelKeepsItsSocket` | `Spec => []NoSocketIsLost` |
| `SocketChannelProofs!OneLateConnection` | `Spec => []LateConnectOnce` |
| `ConfigSyncProofs!ConfigTypes` | `Spec => []TypeOK` |
| `ConfigSyncProofs!StalenessIsExplained` | `Spec => []StaleOnlyByRace` |
| `ConfigSyncProofs!AgentRunsForward` | `Spec => RunsForward` |
| `ConfigSyncProofs!ConfigFollowsRegister` | `Spec => FollowsRegister` |
| `NetAccountingProofs!AccountingTypes` | `Spec => []TypeOK` |
| `NetAccountingProofs!ReportsAreBacked` | `Spec => []NeverOverreports` |
| `NetAccountingProofs!MeasurementsAreExact` | `Spec => ExactUnlessLossy` |
| `ResourceSamplingProofs!SamplingTypes` | `Spec => []TypeOK` |
| `ResourceSamplingProofs!FalseAlertsExplained` | `Spec => FalseAlertNeedsFailedRead` |
| `ResourceSamplingProofs!MissedAlertsExplained` | `Spec => MissedAlertHasCause` |
| `WfpDriverProofs!TypeCorrect` | `Spec => []TypeOK` |
| `WfpDriverProofs!ContextsHaveOwners` | `Spec => []ContextsOwned` |
| `WfpDriverProofs!StopsClean` | `Spec => []StopIsClean` |

**Alerts.** `TypeOK` is inductive: it ties `hand` to the place of the network thread,
without which popping and sending could not be typed. `NoDuplicates` is inductive as well,
and more than that no alert is logged twice, which would not be: it says of every place that it repeats nothing and shares nothing with another,
and that what was not raised is nowhere. Each step then either moves one alert, loses
some, or issues one; three lemmas (`SendKeepsApart`, `MoveInAgentKeepsApart`,
`LogKeepsApart`) cover the moves and `LossKeepsApart` the rest. `SeqLemmas` has the
facts about the ranges of sequences they need. `OutageIsHarmless` needs
`FlushConnected`, that the backlog is only out of the queue while there is a connection
to flush it to. `LossIsExplained` needs `PathInv`, below: the agent sends on the last
connection made and the server reads the last one accepted, those accepted before carry
nothing, so no step but a fault can cost a line on another connection. It also needs `RxInv`:
when the server accepts and clears `rx_buffer_`, lines are only left in it of an accepted
connection that is dead. `Costs` is the property as a predicate of one step; `AgentKeeps`
and `ServerKeeps` prove it action by action. The refinement reuses the same case split: a step issues, loses or
delivers, and `NoDuplicates` gives that what is delivered is under way no more.

**The order of the alerts.** `OneInversionPerBrokenConnection` counts, and a count over all
places at once says nothing a step could be followed with. Its invariant gives every alert
a run instead, a number from 0 to the number of connections a requeued alert can be put
down to (`Settled`): from the log to the queue the runs never go back, and in one run the
alerts rise (`RunInv`). A descent then begins a new run, so there are no more descents than
broken connections (`DescentsBounded`). A new alert is the youngest of the last run; a
requeued one begins a run, and the connection its send failed on, until then not in
`Settled`, pays for it (`RunsRequeue`). Every other step keeps the runs: `Shrink` covers the
places that lose alerts, `Shift` those that pass the first of theirs on to the end of one
before them with nothing in between. That there is nothing in between, when the agent
sends and when the server reads, is `PathInv`: the agent's connection is the last one made,
the server's the last one accepted, those accepted before carry nothing and those not yet
made neither. It also says that a thread about to requeue without a connection has just
lost the last one, which is what makes the connection pay once only.

**Threads.** `IInv` strengthens `TypeOK` with when the threads exist (`Created`), who
holds the mutex (`Locked`) and that only a started agent runs (`Started`).
`NoUpdateWipedOut` is inductive relative to it: the sampler copies before it waits, it
clears the flag only when it goes back to copy, and the flag follows the new value at
once. For the end of the process, `EndInv` adds that `is_running_` is false exactly when
`stop()` has cleared it, that what is joined has ended, and that on POSIX a `stop()`
that found `main` in its polling loop has joined both threads when `main` goes on.

**Channel.** `TypeOK` is not quite inductive: a `send()` that blocks has an alert to send.
`RunInv` says what is owned while nobody else uses the channel: the socket in `client_fd_`
is the only one, except between closing it and resetting the field; what is about to be
closed is what is in the field; the number of the sampling thread is a file's. As it is
about running alone, the steps of `stop()` need no case, and `SafeWhileRunning` and
`NoSocketIsLost` follow. `LateInv` says that a thread that has connected after `stop()`
is past the test of `is_running_` that could make it connect again.

**Configuration.** `TypeInv` adds to `TypeOK` when the file is whole. `FreshInv` ties
`last_config_time_` to what was read with it. `RunsForward` compares the agent with
what is on the wire, and that depends on what the server sent and will send, so
`OrderInv` orders all of it: what the agent runs with and has stored, then the wire from
front to back, then what the server has. Three lemmas say what the wire keeps when it
loses its end, its head, or gets one more. With `OrderInv` every step is an edit, an
adoption, a save, a loss or a restart of the register, or nothing.

**Network accounting.** Counts stay within their bounds only if the events not yet counted
are bounded with those that are: `CountInv` adds the CPUs that are in a probe to the
events done, whence `IsFiniteSet(Cpus)`. `ExactInv` says that the counter of a pid no race
has touched has grown by what moved since the last look; `ExactUnlessLossy` follows when
the monitor looks again. `NeverOverreports` adds up over the pids. Its invariant,
`ReportInv`, takes the counts a known pid is ahead of its last measurement by for the
elements of one set: what was reported and the cardinality of that set together never
exceed what moved. An event adds one element at most, a removal or a new entry takes
elements away, and a measurement reports exactly those of its pid and takes them away.

**Totals and alerts.** `BoundInv` says that neither a total nor all EStats has counted
exceeds the units used, but for the two at most that the driver may have counted for a pid
before the agent started; the sum over the rows of a process is the cardinality of the set of
these units (`Counts`), so that a connection that comes, counts or goes changes it by a known
amount. `RateInv` compares the total a measurement would read with the last reading and
what was used since: it is not ahead unless the last reading failed, and not behind unless
there is one of the `causes` besides. For the CPU it is never ahead: a process whose ticks
cannot be read is not measured, so that no wrong total of it is ever remembered. Both
properties are about the step that measures and follow from `RateInv` there.

**Driver.** `DriverAt` says what is registered and filtered at each place of starting and
unloading, and that a callout whose id is cleared but which is still registered is one
that was refused. `FlowsAt` says that the callouts see a flow only once it is
established, that the context of a flow belongs to a registered callout, that no two
CPUs hold the same new context, and that a CPU that was entered with a context is in for a
flow the engine keeps one of. `Owned` is the first half of `ContextsOwned`; the second follows
from it and `FlowsAt`. With `TypeOK` these are inductive, and `StopIsClean` follows: a live
context belongs to the engine, hence to a callout that is still registered and so was
refused, or to a CPU in the first callout, which was refused for that.

**Only model-checked.** Liveness under fairness (`BacklogIsLogged`,
`ConfigIsSampledWith`, `SignalEndsProcess`, `StopEnds`, `Converges`, `HistoryIsPruned`,
`ContextsAreFreed`) is out of reach of the prover, and `ENABLED` with it, so that nothing
is proved about the absence of deadlock. The safety properties of the passing runs are all
proved. The five runs of section 4 show behaviours, which a proof could not add to. A fact
about a sum or a count whose proof is an induction over data is out of reach too: the
invariants above speak of the cardinalities of sets, or of injections into an interval,
where the properties count.

## 6. Abstractions

- A line of the protocol is one element: it is sent, received and lost as a whole. The
  code's `sendMessage` returns true only when all of a line was taken, and
  `receiveMessage` keeps an incomplete one in `rx_buffer_`; the rest of a line that was
  cut off by a broken connection is cleared on the next accept.
- Time is not modelled. A timeout may fall at any moment.
- The signal that is being handled is blocked in the thread that handles it and nowhere
  else: a second one waits, or is handled by a worker thread, once at most.
- A call of the kernel that finds a closed descriptor fails; one that is blocked goes on
  with what it was called with, as on Linux.
- `AlertPipeline` has the half-open server; in `ConfigSync` the server notices every
  broken connection at some time. What would follow otherwise is `pipeline_stuck`.
- `config.json` stays where the server found it. The search in `../` and `../../`, which
  `checkAndReloadConfigFile` repeats whenever the file is missing at the moment of a poll,
  is left out of `ConfigSync`: an editor either writes in place or renames.
- `ResourceSampling` keeps `rx` and `tx` in one total, and the memory of EStats and of the
  driver as one count per connection and per pid.
- Received and sent bytes are one counter, and a rate is the difference it is computed
  from. In `NetAccounting` the bytes that moved are those the probes are called to count: a
  probe runs when the kernel function it is attached to is entered and counts what was asked
  for, also when the call fails, and a datagram that `udpv6_sendmsg` hands to `udp_sendmsg`
  calls it twice. What a network card would count is no part of the model.
- `ResourceSampling` takes the figures of one measurement, its ticks, its totals and its time
  stamp, at one instant. The code reads them one after the other, so that a rate may be off by
  what a process does in between; the differences of totals are not.
- The list of the driver and its totals grow until it is unloaded. That is in the models as
  totals that outlive a process; how long the list gets is not a question the finite set of
  pids of an instance can answer.
- In `WfpDriver` the list keeps only its pids. The spin lock makes each update one
  step. The engine is modelled by what the driver relies on: it refuses to unregister
  a callout in use and gives a context back when its flow is over and no CPU is in a
  callout for it.

## 7. Not modelled

- The memory figure of a process: it is read, compared with a threshold, and forgotten.
  Matching names of processes with those
  of the configuration: a pid is one the configuration names or it is not.
- A Linux agent without the eBPF tracker: its network totals are 0.
- Numbers: `sampling_interval_ms` and the thresholds are taken as they come from JSON; a
  model without time cannot tell a bad interval from a good one.
- `main_ctb.cpp`: arguments, and what a signal does in the middle of a call of the
  server's only thread. Its `stop()` joins nobody, and `disconnect()` by the handler is the
  one of `SocketChannel`.
- The descriptor of the listening socket and the server's side of the channel: one thread
  uses them.
- Loading and attaching the eBPF skeleton; the two halves, IPv4 and IPv6, of each callout.
- `wfp_driver.c` (a stub of the KMDF template), build files, `json.hpp`, `vmlinux.h` and
  the generated skeleton: no behaviour of the system, third-party or generated. The last
  two are 208,000 of the 212,000 lines of the repository.

## 8. The order of the work, and what could follow

The path of an alert with its abstract specification came first; then the threads of the
agent, the way of a configuration, network accounting, the driver; then the channel as a
shared object, the second signal, the registry with the abstract register, and the totals
of Windows; proofs followed each.

What could follow:

1. The composition of `SocketChannel` with `AlertPipeline`: today the first has descriptors
   and no messages, the second messages and one step per call.
2. The server's search for `config.json`, with an editor that deletes and creates.
