------------------------ MODULE NetAccountingProofs -------------------------
(***************************************************************************)
(* Theorems about NetAccounting: its type invariant, that a measurement is  *)
(* exact unless one of the races in the map, or a full map, touched it, and  *)
(* that never more is reported than was moved.                              *)
(***************************************************************************)
EXTENDS NetAccounting, FiniteSetTheorems, TLAPS

-----------------------------------------------------------------------------
(* The inductive invariants *)

(* The CPUs that are in a probe.                                           *)
Busy == {c \in Cpus : probe[c].pid # "none"}

(* Events are bounded by the events begun, and every count by the events;  *)
(* a CPU in no probe points nowhere; one process is measured at a time.     *)
CountInv ==
  /\ moved + Cardinality(Busy) <= MaxMoves
  /\ \A p \in Pids : bytes[p] <= moved /\ due[p] <= moved /\ last[p] <= moved
  /\ \A c \in Cpus : probe[c].pid = "none" => probe[c].entry = "none"
  /\ \A p, q \in todo \cap active : p = q

TypeInv == TypeOK /\ CountInv

(* The counter of a pid that no race has touched has grown, since it was    *)
(* last looked at, by the events since then.                                *)
ExactInv == \A p \in known \ lossy : bytes[p] = last[p] + due[p]

-----------------------------------------------------------------------------
(* Lemmas on probes *)

Probes(E) == [Cpus -> [pid : Pids \cup {"none"}, entry : E \cup {"none", "free"}]]

(* New pointers: those of q differ from those of probe in entries only, and *)
(* a CPU that points nowhere in one points nowhere in the other.            *)
SameWork(q) ==
  \A c \in Cpus : /\ q[c].pid = probe[c].pid
                  /\ q[c].entry = "none" <=> probe[c].entry = "none"

(* An idle CPU is one in no probe.                                         *)
LEMMA IdleIsNoPid ==
  ASSUME TypeInv, NEW c \in Cpus
  PROVE  probe[c] = Idle <=> probe[c].pid = "none"
<1>1. probe[c] \in [pid : Pids \cup {"none"}, entry : entries \cup {"none", "free"}]
  BY DEF TypeInv, TypeOK
<1>2. probe[c].pid = "none" => probe[c].entry = "none"
  BY DEF TypeInv, CountInv
<1> QED BY <1>1, <1>2 DEF Idle

(* Unlinking an entry takes the pointers to it and touches nothing else.   *)
LEMMA UnlinkedWorks ==
  ASSUME TypeInv, NEW p \in Pids
  PROVE  Unlinked(p) \in Probes(entries \ {p}) /\ SameWork(Unlinked(p))
<1> USE NetAssumption
<1>1. ASSUME NEW c \in Cpus
      PROVE  /\ Unlinked(p)[c] \in [pid : Pids \cup {"none"}, entry : (entries \ {p}) \cup {"none", "free"}]
             /\ Unlinked(p)[c].pid = probe[c].pid
             /\ Unlinked(p)[c].entry = "none" <=> probe[c].entry = "none"
  <2>1. probe[c] \in [pid : Pids \cup {"none"}, entry : entries \cup {"none", "free"}]
    BY DEF TypeInv, TypeOK
  <2>2. CASE probe[c].entry = p
    <3>1. Unlinked(p)[c] = [pid |-> probe[c].pid, entry |-> "free"]
      BY <2>1, <2>2 DEF Unlinked
    <3> QED BY <2>1, <2>2, <3>1
  <2>3. CASE probe[c].entry # p
    <3>1. Unlinked(p)[c] = probe[c]
      BY <2>3 DEF Unlinked
    <3> QED BY <2>1, <2>3, <3>1
  <2> QED BY <2>2, <2>3
<1>2. Unlinked(p) = [c \in Cpus |-> Unlinked(p)[c]]
  BY DEF Unlinked
<1> QED BY <1>1, <1>2 DEF Probes, SameWork

(* A new entry for p may take in pointers to free memory, no others.       *)
LEMMA ReusedWorks ==
  ASSUME TypeInv, NEW p \in Pids, NEW q \in Reused(p)
  PROVE  q \in Probes(entries \cup {p}) /\ SameWork(q)
<1> USE NetAssumption
<1>1. PICK S \in SUBSET {c \in Cpus : probe[c].entry = "free"} :
        q = [c \in Cpus |-> IF c \in S THEN [probe[c] EXCEPT !.entry = p] ELSE Unlinked(p)[c]]
  BY DEF Reused
<1>2. ASSUME NEW c \in Cpus
      PROVE  /\ q[c] \in [pid : Pids \cup {"none"}, entry : (entries \cup {p}) \cup {"none", "free"}]
             /\ q[c].pid = probe[c].pid
             /\ q[c].entry = "none" <=> probe[c].entry = "none"
  <2>1. probe[c] \in [pid : Pids \cup {"none"}, entry : entries \cup {"none", "free"}]
    BY DEF TypeInv, TypeOK
  <2>2. CASE c \in S
    <3>1. q[c] = [pid |-> probe[c].pid, entry |-> p] /\ probe[c].entry = "free"
      BY <1>1, <2>1, <2>2
    <3> QED BY <2>1, <3>1
  <2>3. CASE c \notin S
    <3>1. q[c] = Unlinked(p)[c]
      BY <1>1, <2>3
    <3>2. /\ Unlinked(p)[c] \in [pid : Pids \cup {"none"}, entry : (entries \ {p}) \cup {"none", "free"}]
          /\ Unlinked(p)[c].pid = probe[c].pid
          /\ Unlinked(p)[c].entry = "none" <=> probe[c].entry = "none"
      BY UnlinkedWorks DEF Probes, SameWork
    <3> QED BY <3>1, <3>2
  <2> QED BY <2>2, <2>3
<1>3. q \in [Cpus -> [pid : Pids \cup {"none"}, entry : (entries \cup {p}) \cup {"none", "free"}]]
  BY <1>1, <1>2
<1> QED BY <1>2, <1>3 DEF Probes, SameWork

(* CPU c leaves its probe, the others stay in theirs.                      *)
LEMMA ProbeDone ==
  ASSUME TypeInv, NEW c \in Cpus, probe[c].pid # "none", NEW E, NEW q \in Probes(E),
         SameWork(q), probe' = [q EXCEPT ![c] = Idle], moved' = moved + 1
  PROVE  /\ probe' \in Probes(E)
         /\ moved' + Cardinality(Busy') <= MaxMoves
         /\ \A d \in Cpus : probe'[d].pid = "none" => probe'[d].entry = "none"
         /\ \A d \in Cpus : probe'[d].pid \in {probe[d].pid, "none"}
<1> USE NetAssumption
<1>1. Idle \in [pid : Pids \cup {"none"}, entry : E \cup {"none", "free"}]
  BY DEF Idle
<1>2. probe' \in Probes(E)
  BY <1>1 DEF Probes
<1>3. /\ probe'[c].pid = "none" /\ probe'[c].entry = "none"
      /\ \A d \in Cpus \ {c} : probe'[d].pid = probe[d].pid
                               /\ (probe'[d].entry = "none" <=> probe[d].entry = "none")
  BY DEF Probes, SameWork, Idle
<1>4. Busy' = Busy \ {c} /\ c \in Busy /\ IsFiniteSet(Busy)
  <2>1. IsFiniteSet(Busy)
    BY FS_Subset DEF Busy
  <2> QED BY <1>3, <2>1 DEF Busy
<1>5. Cardinality(Busy') = Cardinality(Busy) - 1 /\ Cardinality(Busy) \in Nat
  BY <1>4, FS_RemoveElement, FS_CardinalityType
<1>6. moved \in Nat /\ moved + Cardinality(Busy) <= MaxMoves
  BY DEF TypeInv, TypeOK, CountInv
<1>7. \A d \in Cpus : probe[d].pid = "none" => probe[d].entry = "none"
  BY DEF TypeInv, CountInv
<1> QED BY <1>2, <1>3, <1>5, <1>6, <1>7

-----------------------------------------------------------------------------
(* Types *)

(* The initial states are typed.                                           *)
LEMMA TypeInit == Init => TypeInv
<1> SUFFICES ASSUME Init PROVE TypeInv
  OBVIOUS
<1> USE NetAssumption
<1>1. Busy = {}
  BY DEF Init, Busy, Idle
<1>2. Cardinality(Busy) = 0 /\ Cardinality(entries) = 0
  BY <1>1, FS_EmptySet DEF Init
<1>3. CountInv
  BY <1>2 DEF Init, CountInv, Idle
<1>4. probe \in [Cpus -> [pid : Pids \cup {"none"}, entry : entries \cup {"none", "free"}]]
      /\ \A c \in Cpus : probe[c].pid = "none"
  BY DEF Init, Idle
<1>5. TypeOK
  BY <1>2, <1>4 DEF Init, TypeOK
<1> QED BY <1>3, <1>5 DEF TypeInv

(* A step of the monitor that leaves the map and the counters alone keeps   *)
(* the types.                                                               *)
LEMMA ScanTypes ==
  ASSUME TypeInv, Open \/ Close \/ \E p \in Pids : Skip(p) \/ Visit(p)
  PROVE  TypeInv'
<1>1. UNCHANGED <<proc, entries, bytes, probe, moved, known, last, reported, due, lossy, lives, watching>>
  BY DEF Open, Close, Skip, Visit, kernelVars
<1>2. /\ phase' \in {"sleep", "scan", "measure"} /\ todo' \subseteq Pids /\ active' \subseteq Pids
      /\ phase' = "measure" <=> todo' \cap active' # {}
      /\ \A p, q \in todo' \cap active' : p = q
  BY DEF TypeInv, TypeOK, CountInv, Open, Close, Skip, Visit
<1>3. Busy' = Busy
  BY <1>1 DEF Busy
<1> QED BY <1>1, <1>2, <1>3 DEF TypeInv, TypeOK, CountInv

(* Every step keeps the types.                                             *)
LEMMA TypeNext == TypeInv /\ [Next]_vars => TypeInv'
<1> SUFFICES ASSUME TypeInv, [Next]_vars PROVE TypeInv'
  OBVIOUS
<1> USE NetAssumption DEF samplerVars, kernelVars
<1>0. /\ \A p \in Pids : bytes[p] \in 0 .. MaxMoves /\ due[p] \in 0 .. MaxMoves /\ last[p] \in 0 .. MaxMoves
      /\ moved \in Nat /\ entries \subseteq Pids /\ IsFiniteSet(entries)
      /\ probe \in Probes(entries)
  BY FS_Subset DEF TypeInv, TypeOK, Probes
<1>1. ASSUME NEW p \in Pids, Born(p) \/ Rename(p) PROVE TypeInv'
  <2>1. UNCHANGED <<entries, bytes, probe, moved, phase, todo, active, known, last, reported, due, lossy, watching>>
    BY <1>1 DEF Born, Rename, Become
  <2>2. PICK to \in {"target", "other"} : proc' = [proc EXCEPT ![p] = to]
    BY <1>1 DEF Born, Rename, Become
  <2>3. lives < MaxLives /\ lives' = lives + 1
    BY <1>1 DEF Born, Rename, Become
  <2>4. Busy' = Busy
    BY <2>1 DEF Busy
  <2>5. /\ proc' \in [Pids -> {"dead", "target", "other"}]
        /\ \A c \in Cpus : probe[c].pid # "none" => proc'[probe[c].pid] # "dead"
    BY <1>0, <2>2 DEF TypeInv, TypeOK, Probes
  <2> QED BY <2>1, <2>3, <2>4, <2>5 DEF TypeInv, TypeOK, CountInv
<1>2. ASSUME NEW p \in Pids, Die(p) PROVE TypeInv'
  <2>1. UNCHANGED <<entries, bytes, probe, moved, phase, todo, active, known, last, reported, due, lossy, lives, watching>>
    BY <1>2 DEF Die
  <2>2. Busy' = Busy
    BY <2>1 DEF Busy
  <2>3. /\ proc' \in [Pids -> {"dead", "target", "other"}]
        /\ \A c \in Cpus : probe[c].pid # "none" => proc'[probe[c].pid] # "dead"
    BY <1>0, <1>2 DEF Die, TypeInv, TypeOK, Probes
  <2> QED BY <2>1, <2>2, <2>3 DEF TypeInv, TypeOK, CountInv
<1>3. ASSUME NEW c \in Cpus, NEW p \in Pids, Lookup(c, p) PROVE TypeInv'
  <2>1. UNCHANGED <<proc, entries, bytes, moved, phase, todo, active, known, last, reported, due, lossy, lives, watching>>
    BY <1>3 DEF Lookup
  <2>2. /\ probe' = [probe EXCEPT ![c] = [pid |-> p, entry |-> IF p \in entries THEN p ELSE "none"]]
        /\ proc[p] # "dead" /\ probe[c].pid = "none"
    BY <1>3, IdleIsNoPid DEF Lookup
  <2>3. /\ probe' \in Probes(entries)
        /\ probe'[c].pid = p /\ \A d \in Cpus \ {c} : probe'[d] = probe[d]
    BY <1>0, <2>2 DEF Probes
  <2>4. {d \in Cpus : probe[d] # Idle} = Busy
    BY IdleIsNoPid DEF Busy
  <2>5. Busy' = Busy \cup {c} /\ c \notin Busy /\ IsFiniteSet(Busy)
    <3>1. IsFiniteSet(Busy)
      BY FS_Subset DEF Busy
    <3> QED BY <2>2, <2>3, <3>1 DEF Busy
  <2>6. Cardinality(Busy') = Cardinality(Busy) + 1 /\ Cardinality(Busy) \in Nat
    BY <2>5, FS_AddElement, FS_CardinalityType
  <2>7. moved' + Cardinality(Busy') <= MaxMoves
    <3>1. moved + Cardinality({d \in Cpus : probe[d] # Idle}) < MaxMoves
      BY <1>3 DEF Lookup
    <3>2. moved + Cardinality(Busy) < MaxMoves
      BY <2>4, <3>1, Zenon
    <3> QED BY <1>0, <2>1, <2>6, <3>2
  <2>8. \A d \in Cpus : /\ probe'[d].pid = "none" => probe'[d].entry = "none"
                        /\ probe'[d].pid # "none" => proc[probe'[d].pid] # "dead"
    BY <2>2, <2>3 DEF TypeInv, TypeOK, CountInv
  <2>9. TypeOK'
    BY <2>1, <2>3, <2>8 DEF TypeInv, TypeOK, Probes
  <2>10. CountInv'
    BY <2>1, <2>7, <2>8 DEF TypeInv, CountInv
  <2> QED BY <2>9, <2>10 DEF TypeInv
<1>4. ASSUME NEW c \in Cpus, probe[c].pid # "none", moved' = moved + 1
      PROVE  moved' \in 0 .. MaxMoves
  <2>1. IsFiniteSet(Busy) /\ c \in Busy
    BY <1>4, FS_Subset DEF Busy
  <2>2. Cardinality(Busy) \in Nat /\ Cardinality(Busy) # 0
    BY <2>1, FS_EmptySet, FS_CardinalityType
  <2> QED BY <1>0, <1>4, <2>2 DEF TypeInv, CountInv
<1>5. ASSUME NEW p \in Pids, moved' \in 0 .. MaxMoves, Moved(p)
      PROVE  due' \in [Pids -> 0 .. MaxMoves] /\ \A r \in Pids : due'[r] <= moved'
  <2>1. \A r \in Pids : due[r] <= moved /\ due \in [Pids -> 0 .. MaxMoves]
    BY DEF TypeInv, TypeOK, CountInv
  <2>2. \A r \in Pids : due'[r] = (IF r = p THEN due[r] + 1 ELSE due[r])
    BY <1>5, <2>1 DEF Moved
  <2>3. \A r \in Pids : due'[r] <= moved' /\ due'[r] \in 0 .. MaxMoves
    BY <1>0, <1>5, <2>1, <2>2 DEF Moved
  <2> QED BY <1>5, <2>1, <2>3 DEF Moved
<1>6. ASSUME NEW c \in Cpus, Add(c) PROVE TypeInv'
  <2> DEFINE p == probe[c].pid
             e == probe[c].entry
  <2>1. /\ p \in Pids /\ e \in entries \cup {"free"} /\ Moved(p)
        /\ bytes' = (IF e = "free" THEN bytes ELSE [bytes EXCEPT ![e] = Added(@)])
        /\ lossy' = (IF e = p THEN lossy ELSE lossy \cup ({p, e} \cap Pids))
        /\ probe' = [probe EXCEPT ![c] = Idle]
        /\ UNCHANGED <<proc, entries, phase, todo, active, known, last, reported, lives, watching>>
    BY <1>0, <1>6 DEF Add, Probes
  <2>2. p # "none" /\ moved' = moved + 1 /\ SameWork(probe)
    BY <2>1 DEF Moved, SameWork
  <2>3. /\ probe' \in Probes(entries) /\ moved' + Cardinality(Busy') <= MaxMoves
        /\ \A d \in Cpus : probe'[d].pid = "none" => probe'[d].entry = "none"
        /\ \A d \in Cpus : probe'[d].pid \in {probe[d].pid, "none"}
    BY <1>0, <2>1, <2>2, ProbeDone
  <2>4. moved' \in 0 .. MaxMoves
    BY <1>4, <2>2
  <2>5. due' \in [Pids -> 0 .. MaxMoves] /\ \A r \in Pids : due'[r] <= moved'
    BY <1>5, <2>1, <2>4
  <2>6. bytes' \in [Pids -> Nat] /\ \A r \in Pids : (bytes'[r] > 0 <=> r \in entries) /\ bytes'[r] <= moved'
    <3>1. \A r \in Pids : (bytes[r] > 0 <=> r \in entries) /\ bytes[r] <= moved
      BY DEF TypeInv, TypeOK, CountInv
    <3>2. bytes \in [Pids -> Nat]
      BY DEF TypeInv, TypeOK
    <3>3. CASE e = "free"
      BY <1>0, <2>1, <2>2, <3>1, <3>2, <3>3
    <3>4. CASE e \in entries
      <4>1. e # "free" /\ e \in Pids
        BY <1>0, <3>4
      <4>2. bytes' = [bytes EXCEPT ![e] = bytes[e] + 1]
        BY <2>1, <4>1 DEF Added
      <4> QED BY <1>0, <2>2, <3>1, <3>2, <3>4, <4>1, <4>2
    <3> QED BY <2>1, <3>3, <3>4
  <2>7. bytes' \in [Pids -> 0 .. MaxMoves]
    BY <2>4, <2>6
  <2>8. \A d \in Cpus : probe'[d].pid # "none" => proc'[probe'[d].pid] # "dead"
    BY <2>1, <2>3 DEF TypeInv, TypeOK
  <2>9. \A r \in Pids : last[r] <= moved'
    BY <1>0, <2>2 DEF TypeInv, CountInv
  <2>10. lossy' \subseteq Pids
    BY <2>1 DEF TypeInv, TypeOK
  <2>11. TypeOK'
    BY <2>1, <2>3, <2>4, <2>5, <2>6, <2>7, <2>8, <2>10 DEF TypeInv, TypeOK, Probes
  <2>12. CountInv'
    BY <2>1, <2>3, <2>5, <2>6, <2>9 DEF TypeInv, CountInv
  <2> QED BY <2>11, <2>12 DEF TypeInv
<1>7. ASSUME NEW c \in Cpus, Insert(c) PROVE TypeInv'
  <2> DEFINE p == probe[c].pid
             full == p \notin entries /\ Cardinality(entries) >= MaxEntries
  <2>1. /\ p \in Pids /\ Moved(p)
        /\ entries' = (IF full THEN entries ELSE entries \cup {p})
        /\ bytes' = (IF full THEN bytes ELSE [bytes EXCEPT ![p] = 1])
        /\ lossy' = (IF full \/ p \in entries THEN lossy \cup {p} ELSE lossy)
        /\ UNCHANGED <<proc, phase, todo, active, known, last, reported, lives, watching>>
    BY <1>0, <1>7 DEF Insert, Probes
  <2>2. PICK q \in (IF full THEN {probe} ELSE Reused(p)) : probe' = [q EXCEPT ![c] = Idle]
    BY <1>7 DEF Insert
  <2>3. q \in Probes(entries') /\ SameWork(q)
    <3>1. CASE full
      BY <1>0, <2>1, <2>2, <3>1 DEF SameWork
    <3>2. CASE ~full
      BY <2>1, <2>2, <3>2, ReusedWorks
    <3> QED BY <3>1, <3>2
  <2>4. p # "none" /\ moved' = moved + 1
    BY <2>1 DEF Moved
  <2>5. /\ probe' \in Probes(entries') /\ moved' + Cardinality(Busy') <= MaxMoves
        /\ \A d \in Cpus : probe'[d].pid = "none" => probe'[d].entry = "none"
        /\ \A d \in Cpus : probe'[d].pid \in {probe[d].pid, "none"}
    BY <2>2, <2>3, <2>4, ProbeDone
  <2>6. moved' \in 0 .. MaxMoves
    BY <1>4, <2>4
  <2>7. due' \in [Pids -> 0 .. MaxMoves] /\ \A r \in Pids : due'[r] <= moved'
    BY <1>5, <2>1, <2>6
  <2>8. entries' \subseteq Pids /\ Cardinality(entries') <= MaxEntries
    <3>1. Cardinality(entries) <= MaxEntries /\ Cardinality(entries) \in Nat
      BY <1>0, FS_CardinalityType DEF TypeInv, TypeOK
    <3>2. CASE full \/ p \in entries
      <4>1. entries' = entries
        BY <2>1, <3>2
      <4> QED BY <1>0, <3>1, <4>1
    <3>3. CASE ~full /\ p \notin entries
      <4>1. Cardinality(entries \cup {p}) = Cardinality(entries) + 1
        BY <1>0, <3>3, FS_AddElement
      <4> QED BY <1>0, <2>1, <3>1, <3>3, <4>1
    <3> QED BY <3>2, <3>3
  <2>9. bytes' \in [Pids -> Nat] /\ \A r \in Pids : (bytes'[r] > 0 <=> r \in entries') /\ bytes'[r] <= moved'
    <3>1. \A r \in Pids : (bytes[r] > 0 <=> r \in entries) /\ bytes[r] <= moved
      BY DEF TypeInv, TypeOK, CountInv
    <3>2. bytes \in [Pids -> Nat]
      BY DEF TypeInv, TypeOK
    <3> QED BY <1>0, <2>1, <2>4, <3>1, <3>2
  <2>10. bytes' \in [Pids -> 0 .. MaxMoves]
    BY <2>6, <2>9
  <2>11. \A d \in Cpus : probe'[d].pid # "none" => proc'[probe'[d].pid] # "dead"
    BY <2>1, <2>5 DEF TypeInv, TypeOK
  <2>12. \A r \in Pids : last[r] <= moved'
    BY <1>0, <2>4 DEF TypeInv, CountInv
  <2>13. lossy' \subseteq Pids
    BY <2>1 DEF TypeInv, TypeOK
  <2>14. TypeOK'
    BY <2>1, <2>5, <2>6, <2>7, <2>8, <2>9, <2>10, <2>11, <2>13 DEF TypeInv, TypeOK, Probes
  <2>15. CountInv'
    BY <2>1, <2>5, <2>7, <2>9, <2>12 DEF TypeInv, CountInv
  <2> QED BY <2>14, <2>15 DEF TypeInv
<1>8. CASE Open \/ Close \/ \E p \in Pids : Skip(p) \/ Visit(p)
  BY <1>8, ScanTypes
<1>9. ASSUME NEW p \in Pids, Measure(p) PROVE TypeInv'
  <2>1. /\ UNCHANGED <<proc, entries, bytes, probe, moved, active, lives, watching>>
        /\ p \in active \cap todo /\ phase' = "scan" /\ todo' = todo \ {p}
    BY <1>9 DEF Measure
  <2>2. Busy' = Busy
    BY <2>1 DEF Busy
  <2>3. todo' \cap active' = {}
    BY <2>1 DEF TypeInv, CountInv
  <2>4. NetworkBytes(p) \in 0 .. MaxMoves /\ NetworkBytes(p) <= moved
    BY <1>0 DEF NetworkBytes, TypeInv, CountInv
  <2>5. Rate(NetworkBytes(p), last[p]) \in Nat
    BY <1>0, <2>4 DEF Rate
  <2>6. /\ known' \subseteq Pids /\ lossy' \subseteq Pids /\ reported' \in Nat
        /\ last' \in [Pids -> 0 .. MaxMoves] /\ due' \in [Pids -> 0 .. MaxMoves]
        /\ \A r \in Pids : last'[r] <= moved /\ due'[r] <= moved
    <3>1. CASE proc[p] = "dead"
      BY <1>9, <3>1 DEF Measure, TypeInv, TypeOK, CountInv
    <3>2. CASE proc[p] # "dead"
      <4>1. /\ reported' = reported + (IF p \in known THEN Rate(NetworkBytes(p), last[p]) ELSE 0)
            /\ known' = known \cup {p} /\ lossy' = lossy \ {p}
            /\ last' = [last EXCEPT ![p] = NetworkBytes(p)]
            /\ due' = [due EXCEPT ![p] = 0]
        BY <1>9, <3>2 DEF Measure
      <4>2. reported' \in Nat
        BY <2>5, <4>1 DEF TypeInv, TypeOK
      <4>3. 0 \in 0 .. MaxMoves /\ 0 <= moved
        BY <1>0
      <4> QED BY <2>4, <4>1, <4>2, <4>3 DEF TypeInv, TypeOK, CountInv
    <3> QED BY <3>1, <3>2
  <2>7. todo' \subseteq Pids
    BY <2>1 DEF TypeInv, TypeOK
  <2>8. TypeOK'
    BY <2>1, <2>3, <2>6, <2>7 DEF TypeInv, TypeOK
  <2>9. CountInv'
    BY <2>1, <2>2, <2>3, <2>6 DEF TypeInv, CountInv
  <2> QED BY <2>8, <2>9 DEF TypeInv
<1>10. ASSUME NEW p \in Pids, Forget(p) PROVE TypeInv'
  <2>1. /\ UNCHANGED <<proc, moved, phase, todo, active, last, reported, due, lossy, lives, watching>>
        /\ entries' = entries \ {p} /\ bytes' = [bytes EXCEPT ![p] = 0]
        /\ probe' = Unlinked(p) /\ known' = known \ {p}
    BY <1>10 DEF Forget, RemoveProcess
  <2>2. probe' \in Probes(entries') /\ SameWork(probe')
    BY <2>1, UnlinkedWorks
  <2>3. Busy' = Busy
    BY <2>2 DEF Busy, SameWork
  <2>4. entries' \subseteq Pids /\ Cardinality(entries') <= MaxEntries
    <3>1. Cardinality(entries') <= Cardinality(entries)
      BY <1>0, <2>1, FS_Subset
    <3>2. Cardinality(entries') \in Nat /\ Cardinality(entries) \in Nat
      BY <1>0, <2>1, FS_Subset, FS_CardinalityType
    <3> QED BY <1>0, <2>1, <3>1, <3>2 DEF TypeInv, TypeOK
  <2>5. bytes' \in [Pids -> 0 .. MaxMoves] /\ \A r \in Pids : (bytes'[r] > 0 <=> r \in entries') /\ bytes'[r] <= moved
    BY <1>0, <2>1 DEF TypeInv, TypeOK, CountInv
  <2>6. \A d \in Cpus : /\ probe'[d].pid # "none" => proc'[probe'[d].pid] # "dead"
                        /\ probe'[d].pid = "none" => probe'[d].entry = "none"
    BY <2>1, <2>2 DEF SameWork, TypeInv, TypeOK, CountInv
  <2>7. TypeOK'
    BY <2>1, <2>2, <2>4, <2>5, <2>6 DEF TypeInv, TypeOK, Probes
  <2>8. CountInv'
    BY <2>1, <2>3, <2>5, <2>6 DEF TypeInv, CountInv
  <2> QED BY <2>7, <2>8 DEF TypeInv
<1>11. ASSUME UNCHANGED <<proc, entries, bytes, probe, moved, phase, todo, active, known, last, reported, due, lossy>>,
              lives' \in 0 .. MaxLives, watching' \in BOOLEAN
       PROVE  TypeInv'
  <2>1. Busy' = Busy
    BY <1>11 DEF Busy
  <2> QED BY <1>11, <2>1 DEF TypeInv, TypeOK, CountInv
<1>12. CASE UNCHANGED vars \/ PassBy
  BY <1>11, <1>12 DEF vars, PassBy, TypeInv, TypeOK
<1>13. CASE Reconfigure
  <2>1. lives' \in 0 .. MaxLives /\ watching' \in BOOLEAN
    BY <1>13 DEF Reconfigure, TypeInv, TypeOK
  <2> QED BY <1>11, <1>13, <2>1 DEF Reconfigure
<1> QED BY <1>1, <1>2, <1>3, <1>6, <1>7, <1>8, <1>9, <1>10, <1>12, <1>13 DEF Next, ProbeStep, ScanStep

(* So every state is typed.                                                *)
LEMMA TypeAlways == Spec => []TypeInv
<1> QED BY TypeInit, TypeNext, PTL DEF Spec

(* Every variable keeps its type, no probe points to an entry that is not   *)
(* in the map, and at most one process is being measured.                   *)
THEOREM AccountingTypes == Spec => []TypeOK
<1>1. TypeInv => TypeOK
  BY DEF TypeInv
<1> QED BY <1>1, TypeAlways, PTL

-----------------------------------------------------------------------------
(* Exactness *)

(* An event of a pid that no race touches is added to its entry.           *)
LEMMA ProbeExact ==
  ASSUME TypeInv, ExactInv, NEW c \in Cpus, ProbeStep(c)
  PROVE  ExactInv'
<1> USE NetAssumption
<1>0. /\ probe \in Probes(entries) /\ entries \subseteq Pids
      /\ bytes \in [Pids -> Nat] /\ due \in [Pids -> Nat] /\ last \in [Pids -> Nat]
      /\ known \subseteq Pids /\ \A p \in Pids : bytes[p] > 0 <=> p \in entries
  BY DEF TypeInv, TypeOK, Probes
<1> DEFINE p == probe[c].pid
           e == probe[c].entry
<1>1. CASE Add(c)
  <2>1. /\ p \in Pids /\ e \in entries \cup {"free"}
        /\ due' = [due EXCEPT ![p] = due[p] + 1] /\ known' = known /\ last' = last
        /\ bytes' = (IF e = "free" THEN bytes ELSE [bytes EXCEPT ![e] = bytes[e] + 1])
        /\ lossy' = (IF e = p THEN lossy ELSE lossy \cup ({p, e} \cap Pids))
    BY <1>0, <1>1 DEF Add, Added, Moved, Probes, samplerVars
  <2>2. CASE e = p
    BY <1>0, <2>1, <2>2 DEF ExactInv
  <2>3. CASE e # p
    <3>1. \A r \in known \ lossy' : bytes'[r] = bytes[r] /\ due'[r] = due[r] /\ r \notin lossy
      BY <1>0, <2>1, <2>3
    <3> QED BY <2>1, <3>1 DEF ExactInv
  <2> QED BY <2>2, <2>3
<1>2. CASE Insert(c)
  <2>1. /\ p \in Pids /\ due' = [due EXCEPT ![p] = due[p] + 1] /\ known' = known /\ last' = last
        /\ bytes' \in {bytes, [bytes EXCEPT ![p] = 1]}
        /\ lossy' \in {lossy, lossy \cup {p}}
        /\ p \notin lossy' => p \notin entries /\ bytes' = [bytes EXCEPT ![p] = 1]
    BY <1>0, <1>2 DEF Insert, Moved, Probes, samplerVars
  <2>2. ASSUME NEW r \in known \ lossy', r # p PROVE bytes'[r] = last'[r] + due'[r]
    BY <1>0, <2>1, <2>2 DEF ExactInv
  <2>3. ASSUME p \in known \ lossy' PROVE bytes'[p] = last'[p] + due'[p]
    <3>1. bytes[p] = 0 /\ last[p] \in Nat /\ due[p] \in Nat
      BY <1>0, <2>1, <2>3
    <3>2. bytes[p] = last[p] + due[p]
      BY <2>1, <2>3 DEF ExactInv
    <3> QED BY <1>0, <2>1, <2>3, <3>1, <3>2
  <2> QED BY <2>1, <2>2, <2>3 DEF ExactInv
<1> QED BY <1>1, <1>2 DEF ProbeStep

(* Every step keeps the counters of the untouched pids exact.              *)
LEMMA ExactNext == TypeInv /\ ExactInv /\ [Next]_vars => ExactInv'
<1> SUFFICES ASSUME TypeInv, ExactInv, [Next]_vars PROVE ExactInv'
  OBVIOUS
<1> USE DEF samplerVars, kernelVars
<1>0. /\ bytes \in [Pids -> Nat] /\ due \in [Pids -> Nat] /\ last \in [Pids -> Nat]
      /\ known \subseteq Pids /\ \A p \in Pids : bytes[p] > 0 <=> p \in entries
  BY DEF TypeInv, TypeOK
<1>1. ASSUME UNCHANGED <<known, lossy, bytes, last, due>> PROVE ExactInv'
  BY <1>1 DEF ExactInv
<1>2. CASE Reconfigure \/ \E p \in Pids : Born(p) \/ Rename(p) \/ Die(p)
  BY <1>1, <1>2 DEF Born, Rename, Become, Die, Reconfigure
<1>3. CASE \E c \in Cpus, p \in Pids : Lookup(c, p)
  BY <1>1, <1>3 DEF Lookup
<1>4. CASE \E c \in Cpus : ProbeStep(c)
  BY <1>4, ProbeExact
<1>5. CASE Open \/ Close \/ \E p \in Pids : Skip(p) \/ Visit(p)
  BY <1>1, <1>5 DEF Open, Close, Skip, Visit
<1>6. ASSUME NEW p \in Pids, Measure(p) PROVE ExactInv'
  <2>1. CASE proc[p] = "dead"
    BY <1>1, <1>6, <2>1 DEF Measure
  <2>2. CASE proc[p] # "dead"
    <3>1. /\ known' = known \cup {p} /\ lossy' = lossy \ {p} /\ bytes' = bytes
          /\ last' = [last EXCEPT ![p] = NetworkBytes(p)] /\ due' = [due EXCEPT ![p] = 0]
      BY <1>6, <2>2 DEF Measure
    <3>2. NetworkBytes(p) = bytes[p]
      BY <1>0 DEF NetworkBytes
    <3> QED BY <1>0, <3>1, <3>2 DEF ExactInv
  <2> QED BY <2>1, <2>2
<1>7. ASSUME NEW p \in Pids, Forget(p) PROVE ExactInv'
  BY <1>0, <1>7 DEF Forget, RemoveProcess, ExactInv
<1>8. CASE UNCHANGED vars \/ PassBy
  BY <1>1, <1>8 DEF vars, PassBy
<1> QED BY <1>2, <1>3, <1>4, <1>5, <1>6, <1>7, <1>8 DEF Next, ScanStep

(* Between two measurements of a pid the monitor reports exactly what moved *)
(* under it, unless a race in the map or a full map touched its counter.    *)
THEOREM MeasurementsAreExact == Spec => ExactUnlessLossy
<1> DEFINE Exact == \A p \in known : p \in todo \ todo' /\ proc[p] # "dead" /\ phase = "measure" /\ p \in active
                        => p \in lossy \/ reported' - reported = due[p]
<1>1. TypeInv /\ ExactInv /\ [Next]_vars => [Exact]_vars
  <2> SUFFICES ASSUME TypeInv, ExactInv, Next,
                      NEW p \in known, p \in todo \ todo', proc[p] # "dead", phase = "measure", p \in active,
                      p \notin lossy
               PROVE  reported' - reported = due[p]
    BY DEF vars
  <2>1. PICK q \in Pids : Measure(q)
    BY DEF Next, Born, Rename, Become, Die, Reconfigure, PassBy, vars, Lookup, ProbeStep, Add, Insert, ScanStep, Open, Close,
           Skip, Visit, Forget, samplerVars
  <2>2. q = p
    BY <2>1 DEF Measure
  <2>3. /\ bytes[p] \in Nat /\ due[p] \in Nat /\ last[p] \in Nat /\ reported \in Nat
        /\ bytes[p] > 0 <=> p \in entries
    BY DEF TypeInv, TypeOK
  <2>4. bytes[p] = last[p] + due[p] /\ NetworkBytes(p) = bytes[p]
    BY <2>3 DEF ExactInv, NetworkBytes
  <2>5. reported' = reported + Rate(NetworkBytes(p), last[p])
    BY <2>1, <2>2 DEF Measure
  <2> QED BY <2>3, <2>4, <2>5 DEF Rate
<1>2. Init => ExactInv
  BY DEF Init, ExactInv
<1> QED BY <1>1, <1>2, ExactNext, TypeAlways, PTL DEF Spec, ExactUnlessLossy

-----------------------------------------------------------------------------
(* Never more than there was *)

(* What the counters of the known pids hold beyond what was last seen of    *)
(* them: the i-th count of p is <<p, i>>.                                   *)
Ahead(p)   == {p} \X (last[p] + 1 .. bytes[p])
Unreported == UNION {Ahead(p) : p \in known}

(* Each of these counts, and each reported, stands for an event of its own. *)
ReportInv == reported + Cardinality(Unreported) <= moved

(* There are finitely many counts.                                         *)
LEMMA AheadFinite ==
  ASSUME TypeInv
  PROVE  /\ IsFiniteSet(Unreported) /\ Cardinality(Unreported) \in Nat
         /\ \A p \in Pids : /\ IsFiniteSet(Ahead(p))
                            /\ Cardinality(Ahead(p)) = Rate(bytes[p], last[p])
<1> USE NetAssumption
<1>1. /\ bytes \in [Pids -> Nat] /\ last \in [Pids -> Nat] /\ known \subseteq Pids
      /\ \A p \in Pids : bytes[p] \in 0 .. MaxMoves
  BY DEF TypeInv, TypeOK
<1>2. ASSUME NEW p \in Pids
      PROVE  IsFiniteSet(Ahead(p)) /\ Cardinality(Ahead(p)) = Rate(bytes[p], last[p])
  <2> DEFINE I == last[p] + 1 .. bytes[p]
  <2>1. bytes[p] \in Nat /\ last[p] \in Nat
    BY <1>1
  <2>2. IsFiniteSet(I) /\ Cardinality(I) = Rate(bytes[p], last[p])
    <3>1. last[p] + 1 \in Int /\ bytes[p] \in Int
      BY <2>1
    <3>2. /\ IsFiniteSet(I)
          /\ Cardinality(I) = IF last[p] + 1 > bytes[p] THEN 0 ELSE bytes[p] - (last[p] + 1) + 1
      BY <3>1, FS_Interval
    <3> QED BY <2>1, <3>2 DEF Rate
  <2>3. IsFiniteSet({p}) /\ Cardinality({p}) = 1
    BY FS_Singleton
  <2>4. /\ IsFiniteSet({p} \X I)
        /\ Cardinality({p} \X I) = Cardinality({p}) * Cardinality(I)
    BY <2>2, <2>3, FS_Product
  <2>5. Rate(bytes[p], last[p]) \in Nat
    BY <2>1 DEF Rate
  <2> HIDE DEF I
  <2>6. Cardinality({p} \X I) = Rate(bytes[p], last[p])
    BY <2>2, <2>3, <2>4, <2>5
  <2> QED BY <2>4, <2>6 DEF Ahead, I
<1>3. Unreported \subseteq Pids \X (1 .. MaxMoves)
  <2>1. \A p \in known : Ahead(p) \subseteq Pids \X (1 .. MaxMoves)
    BY <1>1 DEF Ahead
  <2> QED BY <2>1 DEF Unreported
<1>4. IsFiniteSet(Pids \X (1 .. MaxMoves))
  <2>1. IsFiniteSet(1 .. MaxMoves)
    BY FS_Interval
  <2> QED BY <2>1, FS_Product
<1>5. IsFiniteSet(Unreported)
  BY <1>3, <1>4, FS_Subset
<1> QED BY <1>2, <1>5, FS_CardinalityType

(* An event adds one to one counter at most, and so one to the counts.     *)
LEMMA ProbeReports ==
  ASSUME TypeInv, ReportInv, NEW c \in Cpus, ProbeStep(c)
  PROVE  ReportInv'
<1> USE NetAssumption
<1>0. /\ probe \in Probes(entries) /\ entries \subseteq Pids
      /\ bytes \in [Pids -> Nat] /\ last \in [Pids -> Nat] /\ known \subseteq Pids
      /\ moved \in Nat /\ reported \in Nat
  BY DEF TypeInv, TypeOK, Probes
<1>1. /\ moved' = moved + 1 /\ UNCHANGED <<known, last, reported>>
      /\ \E q \in Pids : \E b \in Nat : bytes' = [bytes EXCEPT ![q] = b] /\ b <= bytes[q] + 1
  <2> DEFINE p == probe[c].pid
             e == probe[c].entry
  <2>1. CASE Add(c)
    <3>1. /\ p \in Pids /\ e \in entries \cup {"free"}
          /\ moved' = moved + 1 /\ UNCHANGED <<known, last, reported>>
          /\ bytes' = (IF e = "free" THEN bytes ELSE [bytes EXCEPT ![e] = bytes[e] + 1])
      BY <1>0, <2>1 DEF Add, Added, Moved, Probes, samplerVars
    <3>2. CASE e = "free"
      <4>1. bytes' = [bytes EXCEPT ![p] = bytes[p]] /\ bytes[p] \in Nat
        BY <1>0, <3>1, <3>2
      <4>2. bytes[p] <= bytes[p] + 1
        BY <4>1
      <4> QED BY <3>1, <4>1, <4>2, Zenon
    <3>3. CASE e # "free"
      <4>1. e \in Pids /\ bytes[e] + 1 \in Nat /\ bytes[e] + 1 <= bytes[e] + 1
        BY <1>0, <3>1, <3>3
      <4>2. bytes' = [bytes EXCEPT ![e] = bytes[e] + 1]
        BY <3>1, <3>3
      <4> QED BY <3>1, <4>1, <4>2, Zenon
    <3> QED BY <3>2, <3>3
  <2>2. CASE Insert(c)
    <3>1. /\ p \in Pids /\ bytes[p] \in Nat
          /\ moved' = moved + 1 /\ UNCHANGED <<known, last, reported>>
          /\ bytes' = bytes \/ bytes' = [bytes EXCEPT ![p] = 1]
      BY <1>0, <2>2 DEF Insert, Moved, Probes, samplerVars
    <3>2. bytes = [bytes EXCEPT ![p] = bytes[p]]
      BY <1>0, <3>1
    <3> QED BY <3>1, <3>2
  <2> QED BY <2>1, <2>2 DEF ProbeStep
<1>2. PICK q \in Pids, b \in Nat : bytes' = [bytes EXCEPT ![q] = b] /\ b <= bytes[q] + 1
  BY <1>1
<1> DEFINE new == <<q, bytes[q] + 1>>
<1>3. Unreported' \subseteq Unreported \cup {new}
  <2>1. ASSUME NEW p \in known PROVE Ahead(p)' \subseteq Ahead(p) \cup {new}
    <3>1. CASE p = q
      <4>1. last'[p] = last[p] /\ last[p] \in Nat /\ bytes[q] \in Nat /\ bytes'[p] = b
        BY <1>0, <1>1, <1>2, <3>1
      <4>2. \A i \in last[p] + 1 .. b : i \in last[p] + 1 .. bytes[p] \/ i = bytes[q] + 1
        BY <1>2, <3>1, <4>1
      <4> QED BY <3>1, <4>1, <4>2 DEF Ahead
    <3>2. CASE p # q
      BY <1>0, <1>1, <1>2, <3>2 DEF Ahead
    <3> QED BY <3>1, <3>2
  <2> QED BY <1>1, <2>1 DEF Unreported
<1>4. /\ IsFiniteSet(Unreported \cup {new})
      /\ Cardinality(Unreported \cup {new}) <= Cardinality(Unreported) + 1
  <2>1. IsFiniteSet(Unreported) /\ Cardinality(Unreported) \in Nat
    BY AheadFinite
  <2>2. /\ IsFiniteSet(Unreported \cup {new})
        /\ Cardinality(Unreported \cup {new})
             = IF new \in Unreported THEN Cardinality(Unreported) ELSE Cardinality(Unreported) + 1
    BY <2>1, FS_AddElement
  <2> QED BY <2>1, <2>2
<1>5. Cardinality(Unreported') <= Cardinality(Unreported \cup {new}) /\ Cardinality(Unreported') \in Nat
  BY <1>3, <1>4, FS_Subset, FS_CardinalityType
<1> HIDE DEF new
<1>6. Cardinality(Unreported \cup {new}) \in Nat /\ Cardinality(Unreported) \in Nat
  BY <1>4, AheadFinite, FS_CardinalityType
<1> QED BY <1>0, <1>1, <1>4, <1>5, <1>6 DEF ReportInv

(* A measurement reports the counts of the pid and takes them away.        *)
LEMMA MeasureReports ==
  ASSUME TypeInv, ReportInv, NEW p \in Pids, Measure(p)
  PROVE  ReportInv'
<1>0. /\ bytes \in [Pids -> Nat] /\ last \in [Pids -> Nat] /\ known \subseteq Pids
      /\ \A q \in Pids : bytes[q] > 0 <=> q \in entries
      /\ moved \in Nat /\ reported \in Nat
  BY DEF TypeInv, TypeOK
<1>1. CASE proc[p] = "dead"
  BY <1>1 DEF Measure, ReportInv, Unreported, Ahead, kernelVars
<1>2. CASE proc[p] # "dead"
  <2>1. /\ reported' = reported + (IF p \in known THEN Rate(bytes[p], last[p]) ELSE 0)
        /\ known' = known \cup {p} /\ last' = [last EXCEPT ![p] = bytes[p]]
        /\ UNCHANGED <<bytes, moved>>
    <3>1. NetworkBytes(p) = bytes[p]
      BY <1>0 DEF NetworkBytes
    <3> QED BY <1>2, <3>1 DEF Measure, kernelVars
  <2>2. Ahead(p)' = {}
    BY <1>0, <2>1 DEF Ahead
  <2>3. \A q \in known \ {p} : Ahead(q)' = Ahead(q)
    BY <1>0, <2>1 DEF Ahead
  <2>4. Unreported' = UNION {Ahead(q) : q \in known \ {p}}
    BY <2>1, <2>2, <2>3 DEF Unreported
  <2>5. CASE p \notin known
    <3>1. Unreported' = Unreported
      BY <2>4, <2>5 DEF Unreported
    <3> QED BY <1>0, <2>1, <2>5, <3>1, AheadFinite DEF ReportInv
  <2>6. CASE p \in known
    <3>1. Unreported' = Unreported \ Ahead(p)
      <4>1. \A q \in known \ {p} : Ahead(q) \cap Ahead(p) = {}
        BY DEF Ahead
      <4> QED BY <2>4, <2>6, <4>1 DEF Unreported
    <3>2. Unreported \cap Ahead(p) = Ahead(p)
      BY <2>6 DEF Unreported
    <3>3. Cardinality(Unreported') = Cardinality(Unreported) - Cardinality(Ahead(p))
      <4>1. IsFiniteSet(Unreported)
        BY AheadFinite
      <4>2. Cardinality(Unreported \ Ahead(p))
              = Cardinality(Unreported) - Cardinality(Unreported \cap Ahead(p))
        BY <4>1, FS_Difference
      <4> QED BY <3>1, <3>2, <4>2
    <3>4. /\ Cardinality(Ahead(p)) = Rate(bytes[p], last[p]) /\ Cardinality(Unreported) \in Nat
          /\ Rate(bytes[p], last[p]) \in Nat
      BY <1>0, AheadFinite DEF Rate
    <3> QED BY <1>0, <2>1, <2>6, <3>3, <3>4 DEF ReportInv
  <2> QED BY <2>5, <2>6
<1> QED BY <1>1, <1>2

(* Every step keeps an event behind every count.                           *)
LEMMA ReportNext == TypeInv /\ ReportInv /\ [Next]_vars => ReportInv'
<1> SUFFICES ASSUME TypeInv, ReportInv, [Next]_vars PROVE ReportInv'
  OBVIOUS
<1> USE DEF samplerVars, kernelVars
<1>1. ASSUME UNCHANGED <<known, bytes, last, reported, moved>> PROVE ReportInv'
  BY <1>1 DEF ReportInv, Unreported, Ahead
<1>2. CASE Reconfigure \/ \E p \in Pids : Born(p) \/ Rename(p) \/ Die(p)
  BY <1>1, <1>2 DEF Born, Rename, Become, Die, Reconfigure
<1>3. CASE \E c \in Cpus, p \in Pids : Lookup(c, p)
  BY <1>1, <1>3 DEF Lookup
<1>4. CASE \E c \in Cpus : ProbeStep(c)
  BY <1>4, ProbeReports
<1>5. CASE Open \/ Close \/ \E p \in Pids : Skip(p) \/ Visit(p)
  BY <1>1, <1>5 DEF Open, Close, Skip, Visit
<1>6. CASE \E p \in Pids : Measure(p)
  BY <1>6, MeasureReports
<1>7. ASSUME NEW p \in Pids, Forget(p) PROVE ReportInv'
  <2>1. /\ known' = known \ {p} /\ bytes' = [bytes EXCEPT ![p] = 0]
        /\ UNCHANGED <<last, reported, moved>>
    BY <1>7 DEF Forget, RemoveProcess
  <2>2. \A q \in known' : Ahead(q)' = Ahead(q)
    BY <2>1 DEF Ahead, TypeInv, TypeOK
  <2>3. Unreported' \subseteq Unreported
    BY <2>1, <2>2 DEF Unreported
  <2>4. Cardinality(Unreported') <= Cardinality(Unreported) /\ Cardinality(Unreported') \in Nat
    BY <2>3, AheadFinite, FS_Subset, FS_CardinalityType
  <2> QED BY <2>1, <2>4, AheadFinite DEF ReportInv, TypeInv, TypeOK
<1>8. CASE UNCHANGED vars \/ PassBy
  BY <1>1, <1>8 DEF vars, PassBy
<1> QED BY <1>2, <1>3, <1>4, <1>5, <1>6, <1>7, <1>8 DEF Next, ScanStep

(* Whatever races in the map, is pruned, or is counted for a pid that is    *)
(* used again: the monitor never reports more traffic than there was.       *)
THEOREM ReportsAreBacked == Spec => []NeverOverreports
<1>1. Init => ReportInv
  <2> SUFFICES ASSUME Init PROVE ReportInv
    OBVIOUS
  <2>1. Unreported = {}
    BY DEF Init, Unreported
  <2> QED BY <2>1, FS_EmptySet DEF Init, ReportInv
<1>2. TypeInv /\ ReportInv => NeverOverreports
  BY AheadFinite DEF ReportInv, NeverOverreports, TypeInv, TypeOK
<1> QED BY <1>1, <1>2, ReportNext, TypeAlways, PTL DEF Spec
=============================================================================
