-------------------------- MODULE ResourceSampling --------------------------
(***************************************************************************)
(* The rates the monitors compute from totals: collectMetrics and           *)
(* getMetricsForPid of both platforms for CPU time and the bytes of disk    *)
(* I/O, and those of Windows, with WFPNetTracker, for the bytes of the      *)
(* network; then checkThresholds.  The network of Linux is the subject of   *)
(* NetAccounting.                                                           *)
(*                                                                          *)
(* A rate is the difference it is computed from: the time between two       *)
(* measurements of a process is the same for what it used and for what is   *)
(* reported.  So is a share of the CPU, unless the ticks of the system could *)
(* not be read.  A unit is a byte, or a tick of CPU time; rx and tx are one  *)
(* total, as in getProcessNetworkBytes.                                     *)
(***************************************************************************)
EXTENDS Naturals, FiniteSets

CONSTANTS Pids,
          Conns,     \* the TCP connections there may be at a time
          Limit,     \* the threshold of every metric, 0 for none
          MaxUsed,   \* bound on the units used, by all processes
          MaxLives   \* bound on the births of processes

ASSUME SamplingAssumption ==
  /\ IsFiniteSet(Pids) /\ IsFiniteSet(Conns) /\ "none" \notin Pids
  /\ Limit \in Nat /\ MaxUsed \in Nat /\ MaxLives \in Nat

VARIABLES
  alive,    \* the pids of processes the configuration names
  total,    \* the ticks of a process and the bytes of its disk I/O
  conn,     \* connections: whose, whether EStats counts it, and the count
  handle,   \* driver_handle_ is open
  driver,   \* the driver's total for a pid, whatever processes had it
  phase,    \* "sleep", or "scan": collectMetrics runs
  todo,     \* the processes of the system it has not come to
  active,   \* current_active_pids
  known,    \* the pids in history_
  last,     \* last_proc_ticks, last_disk_bytes and last_net_bytes of a pid
  raised,   \* the metrics of the process just measured that raised an alert
  used,     \* history: units used under a known pid since it was measured
  spoilt,   \* metrics of a pid whose last reading had failed: history, but
            \* for "cpu", where it says that last_sys_ticks is 0
  causes,   \* history: why units of `used` may be missing in a reading
  moved, lives  \* units used and processes born so far

system  == <<alive, total, conn, handle, driver>>
sampler == <<phase, todo, active, known, last, raised>>
history == <<used, spoilt, causes>>
vars    == <<system, sampler, history, moved, lives>>

Own     == {"cpu", "disk"}
Metrics == Own \cup {"net"}
NoConn  == [pid |-> "none", on |-> FALSE, bytes |-> 0]

(* The driver may have counted before the agent started; a CreateFile that  *)
(* fails leaves the agent without it (initialize).                          *)
Init ==
  /\ alive = {} /\ total = [m \in Own |-> [p \in Pids |-> 0]]
  /\ conn = [c \in Conns |-> NoConn]
  /\ handle \in BOOLEAN
  /\ driver \in [Pids -> IF handle THEN 0 .. 2 ELSE {0}]
  /\ phase = "sleep" /\ todo = {} /\ active = {} /\ known = {}
  /\ last = [m \in Metrics |-> [p \in Pids |-> 0]] /\ raised = {}
  /\ used = [m \in Metrics |-> [p \in Pids |-> 0]]
  /\ spoilt = {} /\ causes = [p \in Pids |-> {}]
  /\ moved = 0 /\ lives = 0

-----------------------------------------------------------------------------
(* Processes and their traffic *)

Because(p, S) == causes' = [causes EXCEPT ![p] = @ \cup S]

(* The driver keeps its totals when a pid is used again, the system starts  *)
(* those of the process anew.                                               *)
Born(p) ==
  /\ p \notin alive /\ lives < MaxLives
  /\ alive' = alive \cup {p} /\ lives' = lives + 1
  /\ total' = [m \in Own |-> [total[m] EXCEPT ![p] = 0]]
  /\ Because(p, {"reborn"})
  /\ UNCHANGED <<conn, handle, driver, sampler, used, spoilt, moved>>

Die(p) ==
  /\ p \in alive
  /\ alive' = alive \ {p}
  /\ conn' = [c \in Conns |-> IF conn[c].pid = p THEN NoConn ELSE conn[c]]
  /\ Because(p, {"closed"})
  /\ UNCHANGED <<total, handle, driver, sampler, used, spoilt, moved, lives>>

(* Another program may have had its bytes counted from the start.          *)
Connect(p, c) ==
  /\ p \in alive /\ conn[c] = NoConn
  /\ \E on \in BOOLEAN : conn' = [conn EXCEPT ![c] = [pid |-> p, on |-> on, bytes |-> 0]]
  /\ UNCHANGED <<alive, total, handle, driver, sampler, history, moved, lives>>

(* What EStats had counted of it leaves the sum.                           *)
Disconnect(c) ==
  /\ conn[c] # NoConn
  /\ conn' = [conn EXCEPT ![c] = NoConn]
  /\ Because(conn[c].pid, IF conn[c].bytes > 0 THEN {"closed"} ELSE {})
  /\ UNCHANGED <<alive, total, handle, driver, sampler, used, spoilt, moved, lives>>

Use(m, p) ==
  /\ moved < MaxUsed
  /\ moved' = moved + 1
  /\ used' = [used EXCEPT ![m][p] = @ + IF p \in known THEN 1 ELSE 0]

Run(m, p) ==
  /\ p \in alive
  /\ Use(m, p)
  /\ total' = [total EXCEPT ![m][p] = @ + 1]
  /\ UNCHANGED <<alive, conn, handle, driver, sampler, spoilt, causes, lives>>

(* EStats has, or had when it was read, a count for p.                     *)
Counted(p) == last["net"][p] > 0 \/ \E c \in Conns : conn[c].pid = p /\ conn[c].bytes > 0

(* A byte on the network, seen by the driver or not, on a connection or in  *)
(* a datagram, which EStats does not know.                                  *)
Traffic(p, c) ==
  /\ p \in alive
  /\ c \in Conns => conn[c].pid = p
  /\ Use("net", p)
  /\ LET on == c \in Conns /\ conn[c].on
     IN  \E seen \in IF handle THEN {0, 1} ELSE {0} :
           /\ driver' = [driver EXCEPT ![p] = @ + seen]
           /\ conn' = IF on THEN [conn EXCEPT ![c] = [pid |-> p, on |-> TRUE, bytes |-> conn[c].bytes + 1]]
                            ELSE conn
           /\ Because(p, (IF seen = 1 \/ (driver[p] = 0 /\ on) THEN {} ELSE {"uncounted"})
                           \cup IF seen = 1 /\ driver[p] = 0 /\ Counted(p) THEN {"switched"} ELSE {})
  /\ UNCHANGED <<alive, total, handle, sampler, spoilt, lives>>

-----------------------------------------------------------------------------
(* Readings: a value, whether something failed, and the rows of the table   *)
(* of connections that could be read, which EStats counts from then on.     *)

DiskReadings(p) ==
  {[value |-> total["disk"][p], failed |-> FALSE], [value |-> 0, failed |-> TRUE]}

(* Without the ticks of the process it is not measured; without those of    *)
(* the system Linux goes on, with 0 of them.                                *)
CpuReadings(p) ==
  {[value |-> total["cpu"][p], failed |-> f] : f \in BOOLEAN}

Rows(p) == {c \in Conns : conn[c].pid = p}

(* The units EStats has counted on connections S: the i-th of c is <<c, i>>. *)
Counts(S) == UNION {{c} \X (1 .. conn[c].bytes) : c \in S}

(* The sum over the connections the table shows.  No row at all is read     *)
(* when the table has grown since its size was asked for.                   *)
EStats(p) ==
  {[value |-> Cardinality(Counts(S)), failed |-> S # Rows(p), rows |-> S] : S \in SUBSET Rows(p)}

(* DispatchDeviceControl: the total of the pid, 0 when it has none.  The    *)
(* request may fail, under both of its codes.                               *)
DriverReplies(p) ==
  {[value |-> driver[p], failed |-> FALSE], [value |-> 0, failed |-> driver[p] > 0]}

(* The driver's total, unless it is 0 or there is no driver; else EStats.  *)
NetReadings(p) ==
  UNION {IF r.value > 0
           THEN {[value |-> r.value, failed |-> FALSE, rows |-> {}]}
           ELSE {[e EXCEPT !.failed = @ \/ r.failed] : e \in EStats(p)} : r \in DriverReplies(p)}

-----------------------------------------------------------------------------
(* collectMetrics *)

Open ==
  /\ phase = "sleep"
  /\ phase' = "scan" /\ todo' = Pids /\ active' = {}
  /\ UNCHANGED <<system, known, last, raised, history, moved, lives>>

(* No process under this pid that the configuration names, or its name, or  *)
(* the list of the processes, could not be read: it leaves the history.     *)
Skip(p) ==
  /\ phase = "scan" /\ p \in todo \ active
  /\ todo' = todo \ {p}
  /\ UNCHANGED <<system, phase, active, known, last, raised, history, moved, lives>>

Visit(p) ==
  /\ phase = "scan" /\ p \in (todo \ active) \cap alive
  /\ active' = active \cup {p}
  /\ UNCHANGED <<system, phase, todo, known, last, raised, history, moved, lives>>

(* It has ended meanwhile, or its times cannot be read.                    *)
NotMeasured(p) ==
  /\ phase = "scan" /\ p \in todo \cap active
  /\ todo' = todo \ {p}
  /\ raised' = {}
  /\ UNCHANGED <<system, phase, active, known, last, history, moved, lives>>

(* Mutant of Rate: without the test, the unsigned difference wraps around.  *)
RateUnguarded(cur, old) == IF cur < old THEN cur + MaxUsed + 2 ELSE cur - old

(* The difference a rate is computed from.                                 *)
Rate(cur, old) == IF cur >= old THEN cur - old ELSE 0

(* Mutant of Difference: a total of 0 is taken for no history.             *)
DifferenceNotFromZero(p, m, cur) ==
  IF p \in known /\ last[m][p] > 0 THEN Rate(cur, last[m][p]) ELSE 0

(* Nothing is reported the first time.                                     *)
Difference(p, m, cur) == IF p \in known THEN Rate(cur, last[m][p]) ELSE 0

(* The share of p is 0 when there were no more ticks of the system than the *)
(* time before, and as small as may be when they are all counted as new.    *)
Shares(p, c) ==
  LET d == Difference(p, "cpu", c.value)
  IN  IF c.failed THEN {0} ELSE IF <<"cpu", p>> \in spoilt THEN 0 .. d ELSE {d}

(* checkThresholds: a limit that is not set raises nothing.                *)
Alerts(rates) == {m \in Metrics : Limit > 0 /\ rates[m] > Limit}

(* getMetricsForPid, and checkThresholds with the result.                  *)
Measure(p) ==
  /\ phase = "scan" /\ p \in todo \cap active \cap alive
  /\ \E c \in CpuReadings(p), d \in DiskReadings(p), n \in NetReadings(p) :
       LET cur == [cpu |-> c, disk |-> d, net |-> n]
       IN  /\ \E s \in Shares(p, c) :
                raised' = Alerts([cpu  |-> s, disk |-> Difference(p, "disk", d.value),
                                  net  |-> Difference(p, "net", n.value)])
           /\ last' = [m \in Metrics |-> [last[m] EXCEPT ![p] = cur[m].value]]
           /\ conn' = [e \in Conns |-> IF e \in n.rows THEN [conn[e] EXCEPT !.on = TRUE] ELSE conn[e]]
           /\ spoilt' = {s \in spoilt : s[2] # p} \cup {<<m, p>> : m \in {k \in Metrics : cur[k].failed}}
  /\ known' = known \cup {p}
  /\ used' = [m \in Metrics |-> [used[m] EXCEPT ![p] = 0]]
  /\ causes' = [causes EXCEPT ![p] = {}]
  /\ todo' = todo \ {p}
  /\ UNCHANGED <<alive, total, handle, driver, phase, active, moved, lives>>

(* Mutant of Close: the cache is not cleaned.                              *)
CloseUnpruned ==
  /\ phase = "scan" /\ todo = {}
  /\ phase' = "sleep"
  /\ UNCHANGED <<system, todo, active, known, last, raised, history, moved, lives>>

(* Pids that were not found are dropped from the history.                  *)
Close ==
  /\ phase = "scan" /\ todo = {}
  /\ phase' = "sleep"
  /\ known' = known \cap active
  /\ used' = [m \in Metrics |-> [p \in Pids |-> IF p \in active THEN used[m][p] ELSE 0]]
  /\ UNCHANGED <<system, todo, active, last, raised, spoilt, causes, moved, lives>>

Next ==
  \/ \E p \in Pids : Born(p) \/ Die(p) \/ \E m \in Own : Run(m, p)
  \/ \E p \in Pids, c \in Conns : Connect(p, c)
  \/ \E c \in Conns : Disconnect(c)
  \/ \E p \in Pids, c \in Conns \cup {"datagram"} : Traffic(p, c)
  \/ Open \/ Close
  \/ \E p \in Pids : Skip(p) \/ Visit(p) \/ NotMeasured(p) \/ Measure(p)

Spec == Init /\ [][Next]_vars

-----------------------------------------------------------------------------
(* Properties *)

Causes(m) == IF m \in Own THEN {"reborn"} ELSE {"closed", "uncounted", "switched"}

(* Type invariant; between two rounds the history holds only processes that *)
(* were found in the last one.                                              *)
TypeOK ==
  /\ alive \subseteq Pids /\ total \in [Own -> [Pids -> 0 .. MaxUsed]]
  /\ conn \in [Conns -> [pid : Pids \cup {"none"}, on : BOOLEAN, bytes : 0 .. MaxUsed]]
  /\ \A c \in Conns : conn[c] = NoConn \/ conn[c].pid \in alive
  /\ handle \in BOOLEAN /\ driver \in [Pids -> 0 .. MaxUsed + 2]
  /\ phase \in {"sleep", "scan"} /\ todo \subseteq Pids /\ active \subseteq Pids
  /\ known \subseteq Pids /\ last \in [Metrics -> [Pids -> 0 .. MaxUsed + 2]]
  /\ raised \subseteq Metrics
  /\ used \in [Metrics -> [Pids -> 0 .. MaxUsed]]
  /\ \A m \in Metrics, p \in Pids : used[m][p] > 0 => p \in known
  /\ spoilt \subseteq Metrics \X Pids /\ causes \in [Pids -> SUBSET UNION {Causes(m) : m \in Metrics}]
  /\ phase = "sleep" => todo = {} /\ known \subseteq active
  /\ moved \in 0 .. MaxUsed /\ lives \in 0 .. MaxLives

(* An alert for a process that stayed within its threshold needs a reading  *)
(* that failed, now or the time before: a failed one counts as 0, and the   *)
(* next difference is the whole total (LinuxProcessMonitor.cpp:128-131,      *)
(* WFPNetTracker.cpp:170-172).  No reuse of a pid, no connection that comes  *)
(* or goes, no change between driver and EStats and no total from before    *)
(* the agent started raises one, and none is raised for the CPU.            *)
FalseAlertNeedsFailedRead ==
  [][\A p \in Pids, m \in Metrics :
       p \in todo \ todo' /\ p \in active /\ m \in raised' /\ used[m][p] <= Limit
         => m # "cpu" /\ <<m, p>> \in spoilt \cup spoilt']_vars

(* A process that exceeded its threshold raises the alert unless a reading  *)
(* failed, or the totals themselves lost it: the pid got a new process, a   *)
(* connection closed, its bytes were counted by neither the driver nor      *)
(* EStats, or WFPNetTracker went over from EStats to a driver whose total   *)
(* is behind (WFPNetTracker.cpp:157-163, 213-217).                          *)
MissedAlertHasCause ==
  [][\A p \in Pids, m \in Metrics :
       Limit > 0 /\ p \in todo \ todo' /\ p \in known /\ used[m][p] > Limit /\ used'[m][p] = 0
         => m \in raised' \/ <<m, p>> \in spoilt \cup spoilt' \/ causes[p] \cap Causes(m) # {}]_vars
=============================================================================
