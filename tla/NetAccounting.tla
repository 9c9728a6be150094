--------------------------- MODULE NetAccounting ----------------------------
(***************************************************************************)
(* The network bytes of processes: counted by the probes of                 *)
(* process_net.bpf.c in a BPF hash map keyed by pid, on every CPU at once,  *)
(* and sampled by LinuxProcessMonitor::collectMetrics, which turns the      *)
(* totals into rates and removes what it does not watch any more.           *)
(*                                                                          *)
(* One event is one byte the probes are called to count: what a call asks   *)
(* for, on entry, whether or not it succeeds.  rx and tx are one counter     *)
(* here: they are only ever added up.  A rate is the difference it is        *)
(* computed from.                                                           *)
(***************************************************************************)
EXTENDS Naturals, FiniteSets

CONSTANTS Pids, Cpus,
          MaxEntries,  \* max_entries of proc_net_map
          MaxMoves,    \* bound on the events
          MaxLives     \* bound on the births and changes of name or configuration

ASSUME NetAssumption ==
  /\ IsFiniteSet(Pids) /\ IsFiniteSet(Cpus) /\ {"none", "free"} \cap Pids = {}
  /\ MaxEntries \in Nat \ {0} /\ MaxMoves \in Nat /\ MaxLives \in Nat

VARIABLES
  proc,      \* what runs under a pid: "dead", or a process the configuration
             \* names ("target") or does not ("other")
  watching,  \* whether the configuration names any process at all
  entries,   \* the keys of proc_net_map
  bytes,     \* its values; 0 for a pid without an entry
  probe,     \* the pid each CPU is counting for, and the entry it looked up
  moved,     \* history: events so far
  phase,     \* where collectMetrics stands
  todo,      \* the directories of /proc it has not come to
  active,    \* current_active_pids
  known,     \* the pids in history_
  last,      \* their last_net_bytes
  reported,  \* history: the sum of all differences reported
  due,       \* history: events of a pid since it was last measured
  lossy,     \* history: pids of which an event was lost or gained since then
  lives      \* births and changes of name or configuration so far

kernelVars  == <<entries, bytes, probe, moved>>
samplerVars == <<phase, todo, active, known, last, reported>>
vars == <<proc, kernelVars, samplerVars, due, lossy, lives, watching>>

Idle == [pid |-> "none", entry |-> "none"]

Init ==
  /\ proc = [p \in Pids |-> "dead"]
  /\ entries = {} /\ bytes = [p \in Pids |-> 0]
  /\ probe = [c \in Cpus |-> Idle]
  /\ phase = "sleep" /\ todo = {} /\ active = {} /\ known = {}
  /\ last = [p \in Pids |-> 0]
  /\ moved = 0 /\ reported = 0
  /\ due = [p \in Pids |-> 0] /\ lossy = {}
  /\ lives = 0 /\ watching \in BOOLEAN

-----------------------------------------------------------------------------
(* Processes.  A pid is used again; exec or a new configuration makes a     *)
(* process one that is watched, or one that is not.                         *)

Become(p, from, to) ==
  /\ lives < MaxLives
  /\ proc[p] \in from
  /\ proc' = [proc EXCEPT ![p] = to]
  /\ lives' = lives + 1
  /\ UNCHANGED <<kernelVars, samplerVars, due, lossy, watching>>

Born(p)   == \E to \in {"target", "other"} : Become(p, {"dead"}, to)
Rename(p) == Become(p, {"target"}, "other") \/ Become(p, {"other"}, "target")

(* A configuration without thresholds comes into force, or goes again: the  *)
(* sampling thread samples nothing then, whatever it knows.                 *)
Reconfigure ==
  /\ lives < MaxLives
  /\ watching' = ~watching /\ lives' = lives + 1
  /\ UNCHANGED <<proc, kernelVars, samplerVars, due, lossy>>

(* Its threads have left the kernel.                                       *)
Die(p) ==
  /\ proc[p] # "dead" /\ \A c \in Cpus : probe[c].pid # p
  /\ proc' = [proc EXCEPT ![p] = "dead"]
  /\ UNCHANGED <<kernelVars, samplerVars, due, lossy, lives, watching>>

-----------------------------------------------------------------------------
(* add_net_stats on CPU c, in the context of process p *)

(* bpf_map_lookup_elem                                                     *)
Lookup(c, p) ==
  /\ probe[c] = Idle /\ proc[p] # "dead"
  /\ moved + Cardinality({d \in Cpus : probe[d] # Idle}) < MaxMoves
  /\ probe' = [probe EXCEPT ![c] = [pid |-> p, entry |-> IF p \in entries THEN p ELSE "none"]]
  /\ UNCHANGED <<proc, entries, bytes, moved, samplerVars, due, lossy, lives, watching>>

(* An entry is unlinked: who still points to it points to free memory ...  *)
Unlinked(p) == [c \in Cpus |-> IF probe[c].entry = p THEN [probe[c] EXCEPT !.entry = "free"] ELSE probe[c]]

(* ... which the next new entry, of any pid, may take: not that of the     *)
(* entry it replaces, which is given back after it.                        *)
Reused(p) ==
  {[c \in Cpus |-> IF c \in S THEN [probe[c] EXCEPT !.entry = p] ELSE Unlinked(p)[c]] :
     S \in SUBSET {c \in Cpus : probe[c].entry = "free"}}

Moved(p) == moved' = moved + 1 /\ due' = [due EXCEPT ![p] = @ + 1]

(* Mutant of Added: the value is stored, not added.                        *)
Stored(b) == 1

(* __sync_fetch_and_add: no increment is lost.                             *)
Added(b) == b + 1

(* The entry is there: add to it, whosever it is by now.                   *)
Add(c) ==
  LET p == probe[c].pid
      e == probe[c].entry
  IN  /\ p # "none" /\ e # "none"
      /\ Moved(p)
      /\ bytes' = IF e = "free" THEN bytes ELSE [bytes EXCEPT ![e] = Added(@)]
      /\ lossy' = IF e = p THEN lossy ELSE lossy \cup ({p, e} \cap Pids)
      /\ probe' = [probe EXCEPT ![c] = Idle]
      /\ UNCHANGED <<proc, entries, samplerVars, lives, watching>>

(* It was not: bpf_map_update_elem(BPF_ANY) with a first value, which       *)
(* replaces an entry another CPU has made meanwhile, and fails, unheard,    *)
(* when the map is full.                                                    *)
Insert(c) ==
  LET p == probe[c].pid
      full == p \notin entries /\ Cardinality(entries) >= MaxEntries
  IN  /\ p # "none" /\ probe[c].entry = "none"
      /\ Moved(p)
      /\ entries' = IF full THEN entries ELSE entries \cup {p}
      /\ bytes' = IF full THEN bytes ELSE [bytes EXCEPT ![p] = 1]
      /\ lossy' = IF full \/ p \in entries THEN lossy \cup {p} ELSE lossy
      /\ \E pr \in IF full THEN {probe} ELSE Reused(p) :
           probe' = [pr EXCEPT ![c] = Idle]
      /\ UNCHANGED <<proc, samplerVars, lives, watching>>

ProbeStep(c) == Add(c) \/ Insert(c)

-----------------------------------------------------------------------------
(* collectMetrics *)

(* A round of the sampling thread without a scan: there are no thresholds,  *)
(* or /proc cannot be opened.  Nothing is looked at, nothing is pruned.     *)
PassBy ==
  /\ phase = "sleep"
  /\ UNCHANGED vars

Open ==
  /\ phase = "sleep" /\ watching
  /\ phase' = "scan" /\ todo' = Pids /\ active' = {}
  /\ UNCHANGED <<proc, kernelVars, known, last, reported, due, lossy, lives, watching>>

(* readdir: no directory, a name that is not one of the targets, or a comm  *)
(* that cannot be read, be it that of a target.                             *)
Skip(p) ==
  /\ phase = "scan" /\ p \in todo
  /\ todo' = todo \ {p}
  /\ UNCHANGED <<proc, kernelVars, phase, active, known, last, reported, due, lossy, lives, watching>>

(* Mutant of Visit: the pid is not noted as active.                        *)
VisitUnlisted(p) ==
  /\ phase = "scan" /\ p \in todo \ active
  /\ proc[p] = "target"
  /\ phase' = "measure"
  /\ UNCHANGED <<proc, kernelVars, todo, active, known, last, reported, due, lossy, lives, watching>>

(* A target: anything may happen before getMetricsForPid looks at it.      *)
Visit(p) ==
  /\ phase = "scan" /\ p \in todo \ active
  /\ proc[p] = "target"
  /\ active' = active \cup {p}
  /\ phase' = "measure"
  /\ UNCHANGED <<proc, kernelVars, todo, known, last, reported, due, lossy, lives, watching>>

(* Mutant of Rate: without the test, the unsigned difference wraps around.  *)
RateUnguarded(cur, old) == IF cur < old THEN cur + MaxMoves ELSE cur - old

(* The difference a rate is computed from.                                 *)
Rate(cur, old) == IF cur >= old THEN cur - old ELSE 0

(* The total of a pid; 0 without an entry.                                 *)
NetworkBytes(p) == IF p \in entries THEN bytes[p] ELSE 0

(* getMetricsForPid: nothing when the process has ended meanwhile; the      *)
(* first time the totals are only remembered.                               *)
Measure(p) ==
  /\ phase = "measure" /\ p \in active \cap todo
  /\ phase' = "scan" /\ todo' = todo \ {p}
  /\ IF proc[p] = "dead"
       THEN UNCHANGED <<known, last, reported, due, lossy>>
       ELSE /\ reported' = reported + IF p \in known THEN Rate(NetworkBytes(p), last[p]) ELSE 0
            /\ known' = known \cup {p}
            /\ last' = [last EXCEPT ![p] = NetworkBytes(p)]
            /\ due' = [due EXCEPT ![p] = 0] /\ lossy' = lossy \ {p}
  /\ UNCHANGED <<proc, kernelVars, active, lives, watching>>

(* bpf_map_delete_elem                                                     *)
RemoveProcess(p) ==
  /\ entries' = entries \ {p} /\ bytes' = [bytes EXCEPT ![p] = 0]
  /\ probe' = Unlinked(p)

(* A pid that was not found active goes, from the map and from history_.   *)
Forget(p) ==
  /\ phase = "scan" /\ todo = {} /\ p \in known \ active
  /\ RemoveProcess(p)
  /\ known' = known \ {p}
  /\ UNCHANGED <<proc, moved, phase, todo, active, last, reported, due, lossy, lives, watching>>

(* Mutant of Close: the cache is not cleaned.                              *)
CloseUnpruned ==
  /\ phase = "scan" /\ todo = {}
  /\ phase' = "sleep"
  /\ UNCHANGED <<proc, kernelVars, todo, active, known, last, reported, due, lossy, lives, watching>>

Close ==
  /\ phase = "scan" /\ todo = {} /\ known \subseteq active
  /\ phase' = "sleep"
  /\ UNCHANGED <<proc, kernelVars, todo, active, known, last, reported, due, lossy, lives, watching>>

ScanStep ==
  \/ Close
  \/ \E p \in Pids : Skip(p) \/ Visit(p) \/ Measure(p) \/ Forget(p)

Next ==
  \/ \E p \in Pids : Born(p) \/ Rename(p) \/ Die(p)
  \/ Reconfigure
  \/ \E c \in Cpus, p \in Pids : Lookup(c, p)
  \/ \E c \in Cpus : ProbeStep(c)
  \/ PassBy \/ Open \/ ScanStep

(* A scan that has begun and a probe run to their ends.  That another scan  *)
(* begins is not assumed: that is for the configuration and /proc to say.   *)
Fairness == WF_vars(ScanStep) /\ \A c \in Cpus : WF_vars(ProbeStep(c))

Spec     == Init /\ [][Next]_vars
FairSpec == Spec /\ Fairness

-----------------------------------------------------------------------------
(* Properties *)

(* Type invariant; no probe points to an entry that is not in the map.     *)
TypeOK ==
  /\ proc \in [Pids -> {"dead", "target", "other"}]
  /\ entries \subseteq Pids /\ Cardinality(entries) <= MaxEntries
  /\ bytes \in [Pids -> 0 .. MaxMoves]
  /\ \A p \in Pids : bytes[p] > 0 <=> p \in entries
  /\ probe \in [Cpus -> [pid : Pids \cup {"none"}, entry : entries \cup {"none", "free"}]]
  /\ \A c \in Cpus : probe[c].pid # "none" => proc[probe[c].pid] # "dead"
  /\ moved \in 0 .. MaxMoves
  /\ phase \in {"sleep", "scan", "measure"}
  /\ todo \subseteq Pids /\ active \subseteq Pids
  /\ phase = "measure" <=> todo \cap active # {}
  /\ known \subseteq Pids /\ last \in [Pids -> 0 .. MaxMoves]
  /\ reported \in Nat /\ due \in [Pids -> 0 .. MaxMoves] /\ lossy \subseteq Pids
  /\ lives \in 0 .. MaxLives /\ watching \in BOOLEAN

(* Whatever races in the map, is pruned, or is counted for a pid that is    *)
(* used again: the monitor never reports more traffic than the probes were  *)
(* called for.                                                              *)
NeverOverreports == reported <= moved

(* Between two measurements of a pid the monitor reports exactly what moved *)
(* under it, unless one of the three known races or a full map cost or gave *)
(* it an event (process_net.bpf.c:26-37).                                   *)
ExactUnlessLossy ==
  [][\A p \in known : p \in todo \ todo' /\ proc[p] # "dead" /\ phase = "measure" /\ p \in active
                        => p \in lossy \/ reported' - reported = due[p]]_vars

(* /proc is scanned again and again.                                       *)
ScansGoOn == []<>(phase = "scan")

(* As long as scans keep beginning, the history does not grow with the      *)
(* processes that came and went: a pid that stays dead is dropped from it   *)
(* (LinuxProcessMonitor.cpp:276-288).  Under a configuration that names no   *)
(* process no scan begins, and what is known then stays (CTA.cpp:166).       *)
HistoryIsPruned ==
  ScansGoOn => \A p \in Pids : <>[](proc[p] = "dead") => <>[](p \notin known)

(* BPFNetTracker.h:31: the counters of a pid are removed when its process   *)
(* ends, so that the map does not fill up; at the latest by the scans.       *)
DeadLeaveMap ==
  ScansGoOn => \A p \in Pids : <>[](proc[p] = "dead") => <>[](p \notin entries)
=============================================================================
