----------------------- MODULE ResourceSamplingProofs ------------------------
(***************************************************************************)
(* Theorems about ResourceSampling: its type invariant, and what is behind  *)
(* an alert raised for nothing and one that is missed.                      *)
(***************************************************************************)
EXTENDS ResourceSampling, FiniteSetTheorems, TLAPS

-----------------------------------------------------------------------------
(* The inductive invariants *)

(* No count exceeds the units used, nor does what EStats counts in all.    *)
BoundInv ==
  /\ \A p \in Pids : /\ driver[p] <= moved + 2
                     /\ \A m \in Own : total[m][p] <= moved
                     /\ \A m \in Metrics : used[m][p] <= moved
  /\ \A c \in Conns : conn[c].bytes <= moved
  /\ Cardinality(Counts(Conns)) <= moved

TypeInv == TypeOK /\ BoundInv

(* What a measurement of p reads when nothing fails.                       *)
Sum(p)   == Cardinality(Counts(Rows(p)))
Shown(p) == IF driver[p] > 0 THEN driver[p] ELSE Sum(p)
Total(m, p) == IF m \in Own THEN total[m][p] ELSE Shown(p)

(* A known total is not ahead of what it was and what was used since, and   *)
(* not behind unless there is a cause.  Where the last reading failed       *)
(* nothing is known of it, but for the CPU, of which no value is wrong.     *)
Fair(p, m) ==
  /\ m = "cpu" \/ <<m, p>> \notin spoilt => Total(m, p) <= last[m][p] + used[m][p]
  /\ <<m, p>> \notin spoilt /\ causes[p] \cap Causes(m) = {}
       => Total(m, p) >= last[m][p] + used[m][p]

RateInv == \A p \in known, m \in Metrics : Fair(p, m)

-----------------------------------------------------------------------------
(* What EStats counts *)

(* The same for any table of connections f, so that two can be compared.   *)
Block(f, c)    == {c} \X (1 .. f[c].bytes)
CountsOf(f, S) == UNION {Block(f, c) : c \in S}
RowsOf(f, p)   == {c \in Conns : f[c].pid = p}
SumOf(f, p)    == Cardinality(CountsOf(f, RowsOf(f, p)))
AllOf(f)       == Cardinality(CountsOf(f, Conns))

Tables == [Conns -> [pid : Pids \cup {"none"}, on : BOOLEAN, bytes : Nat]]

(* Now and after the step they are those of the table.                     *)
LEMMA CountsAre ==
  /\ \A S : Counts(S) = CountsOf(conn, S)
  /\ \A p : Rows(p) = RowsOf(conn, p) /\ Sum(p) = SumOf(conn, p)
  /\ \A p : Sum(p)' = SumOf(conn', p)
  /\ Cardinality(Counts(Conns)) = AllOf(conn) /\ Cardinality(Counts(Conns))' = AllOf(conn')
BY DEF Counts, CountsOf, Block, Rows, RowsOf, Sum, SumOf, AllOf

(* They are finitely many, and no more on fewer connections.               *)
LEMMA CountsFinite ==
  ASSUME NEW f \in Tables, NEW n \in Nat, \A c \in Conns : f[c].bytes <= n,
         NEW S \in SUBSET Conns, NEW T \in SUBSET S
  PROVE  /\ IsFiniteSet(CountsOf(f, S)) /\ Cardinality(CountsOf(f, S)) \in Nat
         /\ IsFiniteSet(CountsOf(f, T)) /\ Cardinality(CountsOf(f, T)) \in Nat
         /\ Cardinality(CountsOf(f, T)) <= Cardinality(CountsOf(f, S))
<1> USE SamplingAssumption
<1>1. \A c \in Conns : f[c].bytes \in 0 .. n
  BY DEF Tables
<1>2. CountsOf(f, S) \subseteq Conns \X (1 .. n)
  <2>1. \A c \in S : Block(f, c) \subseteq Conns \X (1 .. n)
    BY <1>1 DEF Block
  <2> QED BY <2>1 DEF CountsOf
<1>3. IsFiniteSet(Conns \X (1 .. n))
  <2>1. IsFiniteSet(1 .. n)
    BY FS_Interval
  <2> QED BY <2>1, FS_Product
<1>4. IsFiniteSet(CountsOf(f, S))
  BY <1>2, <1>3, FS_Subset
<1>5. CountsOf(f, T) \subseteq CountsOf(f, S)
  BY DEF CountsOf
<1>6. IsFiniteSet(CountsOf(f, T)) /\ Cardinality(CountsOf(f, T)) <= Cardinality(CountsOf(f, S))
  BY <1>4, <1>5, FS_Subset
<1> QED BY <1>4, <1>6, FS_CardinalityType

(* They depend on the counts only; a connection without any adds nothing.  *)
LEMMA CountsSame ==
  ASSUME NEW f, NEW g, NEW S, NEW T,
         \A c \in S \cap T : g[c].bytes = f[c].bytes,
         \A c \in S \ T : g[c].bytes = 0,
         \A c \in T \ S : f[c].bytes = 0
  PROVE  CountsOf(g, S) = CountsOf(f, T)
<1>1. \A c \in S \cap T : Block(g, c) = Block(f, c)
  BY DEF Block
<1>2. \A c \in S \ T : Block(g, c) = {}
  BY DEF Block
<1>3. \A c \in T \ S : Block(f, c) = {}
  BY DEF Block
<1> QED BY <1>1, <1>2, <1>3 DEF CountsOf

(* One unit more on c is one more in all.                                  *)
LEMMA CountsGrow ==
  ASSUME NEW f, NEW g, NEW S, NEW c \in S, IsFiniteSet(CountsOf(f, S)),
         f[c].bytes \in Nat, g[c].bytes = f[c].bytes + 1,
         \A d \in S \ {c} : g[d].bytes = f[d].bytes
  PROVE  Cardinality(CountsOf(g, S)) = Cardinality(CountsOf(f, S)) + 1
<1> DEFINE new == <<c, f[c].bytes + 1>>
<1>1. Block(g, c) = Block(f, c) \cup {new}
  <2>1. 1 .. g[c].bytes = (1 .. f[c].bytes) \cup {f[c].bytes + 1}
    OBVIOUS
  <2> QED BY <2>1 DEF Block
<1>2. \A d \in S \ {c} : Block(g, d) = Block(f, d)
  BY DEF Block
<1>3. CountsOf(g, S) = CountsOf(f, S) \cup {new}
  BY <1>1, <1>2 DEF CountsOf
<1>4. new \notin CountsOf(f, S)
  <2>1. \A d \in S : new \notin Block(f, d)
    BY DEF Block
  <2> QED BY <2>1 DEF CountsOf
<1> HIDE DEF new
<1>5. Cardinality(CountsOf(f, S) \cup {new})
        = IF new \in CountsOf(f, S) THEN Cardinality(CountsOf(f, S)) ELSE Cardinality(CountsOf(f, S)) + 1
  BY FS_AddElement
<1> QED BY <1>3, <1>4, <1>5

(* Connections that end change no other's sum.                             *)
LEMMA ConnsEnd ==
  ASSUME NEW f \in Tables, NEW n \in Nat, \A c \in Conns : f[c].bytes <= n,
         NEW g, \A c \in Conns : g[c] = f[c] \/ g[c] = NoConn
  PROVE  /\ AllOf(g) \in Nat /\ AllOf(g) <= AllOf(f)
         /\ \A p \in Pids : /\ SumOf(g, p) \in Nat /\ SumOf(g, p) <= SumOf(f, p)
                            /\ (\A c \in RowsOf(f, p) : g[c] = f[c] \/ f[c].bytes = 0)
                                 => SumOf(g, p) = SumOf(f, p)
<1> DEFINE Kept == {c \in Conns : g[c] = f[c]}
<1>1. \A c \in Conns \ Kept : g[c] = NoConn /\ g[c].bytes = 0 /\ g[c].pid = "none"
  BY DEF NoConn
<1>2. CountsOf(g, Conns) = CountsOf(f, Kept)
  BY <1>1, CountsSame
<1>3. ASSUME NEW p \in Pids
      PROVE  /\ SumOf(g, p) \in Nat /\ SumOf(g, p) <= SumOf(f, p)
             /\ (\A c \in RowsOf(f, p) : g[c] = f[c] \/ f[c].bytes = 0)
                  => SumOf(g, p) = SumOf(f, p)
  <2> DEFINE R == RowsOf(f, p) \cap Kept
  <2>1. RowsOf(g, p) = R
    BY <1>1, SamplingAssumption DEF RowsOf
  <2>2. R \in SUBSET RowsOf(f, p) /\ RowsOf(f, p) \in SUBSET Conns
    BY DEF RowsOf
  <2>3. CountsOf(g, R) = CountsOf(f, R)
    BY <2>2, CountsSame
  <2>4. SumOf(g, p) = Cardinality(CountsOf(f, R))
    BY <2>1, <2>3 DEF SumOf
  <2>5. ASSUME \A c \in RowsOf(f, p) : g[c] = f[c] \/ f[c].bytes = 0
        PROVE  CountsOf(g, R) = CountsOf(f, RowsOf(f, p))
    <3>1. \A c \in RowsOf(f, p) \ R : f[c].bytes = 0
      BY <2>2, <2>5
    <3> QED BY <2>2, <3>1, CountsSame
  <2>6. Cardinality(CountsOf(f, R)) \in Nat /\ Cardinality(CountsOf(f, R)) <= SumOf(f, p)
    BY <2>2, CountsFinite DEF SumOf
  <2> QED BY <2>1, <2>4, <2>5, <2>6 DEF SumOf
<1>4. Cardinality(CountsOf(f, Kept)) \in Nat /\ Cardinality(CountsOf(f, Kept)) <= AllOf(f)
  BY CountsFinite DEF AllOf
<1> QED BY <1>2, <1>3, <1>4 DEF AllOf

(* A new connection, or the start of its counting, changes no sum.         *)
LEMMA ConnsStart ==
  ASSUME NEW f, NEW g, \A c \in Conns : g[c].bytes = f[c].bytes,
         \A c \in Conns : g[c].pid = f[c].pid \/ g[c].bytes = 0
  PROVE  AllOf(g) = AllOf(f) /\ \A p : SumOf(g, p) = SumOf(f, p)
<1>1. CountsOf(g, Conns) = CountsOf(f, Conns)
  BY CountsSame
<1>2. ASSUME NEW p PROVE CountsOf(g, RowsOf(g, p)) = CountsOf(f, RowsOf(f, p))
  <2>1. /\ \A c \in RowsOf(g, p) \cap RowsOf(f, p) : g[c].bytes = f[c].bytes
        /\ \A c \in RowsOf(g, p) \ RowsOf(f, p) : g[c].bytes = 0
        /\ \A c \in RowsOf(f, p) \ RowsOf(g, p) : f[c].bytes = 0
    BY DEF RowsOf
  <2> QED BY <2>1, CountsSame
<1> QED BY <1>1, <1>2 DEF AllOf, SumOf

(* One unit more on a connection of p is one more for p, and in all.       *)
LEMMA ConnsGrow ==
  ASSUME NEW f \in Tables, NEW n \in Nat, \A c \in Conns : f[c].bytes <= n,
         NEW g, NEW c \in Conns, g[c].bytes = f[c].bytes + 1,
         \A d \in Conns \ {c} : g[d] = f[d], g[c].pid = f[c].pid
  PROVE  /\ AllOf(g) = AllOf(f) + 1
         /\ \A p : SumOf(g, p) = SumOf(f, p) + IF f[c].pid = p THEN 1 ELSE 0
<1>1. \A S \in SUBSET Conns : IsFiniteSet(CountsOf(f, S)) /\ Cardinality(CountsOf(f, S)) \in Nat
  BY CountsFinite
<1>2. f[c].bytes \in Nat
  BY DEF Tables
<1>3. AllOf(g) = AllOf(f) + 1
  BY <1>1, <1>2, CountsGrow DEF AllOf
<1>4. ASSUME NEW p PROVE SumOf(g, p) = SumOf(f, p) + IF f[c].pid = p THEN 1 ELSE 0
  <2>1. RowsOf(g, p) = RowsOf(f, p) /\ RowsOf(f, p) \in SUBSET Conns
    BY DEF RowsOf
  <2>2. CASE f[c].pid = p
    <3>1. c \in RowsOf(f, p)
      BY <2>2 DEF RowsOf
    <3>2. Cardinality(CountsOf(g, RowsOf(f, p))) = Cardinality(CountsOf(f, RowsOf(f, p))) + 1
      BY <1>1, <1>2, <2>1, <3>1, CountsGrow
    <3> QED BY <2>1, <2>2, <3>2 DEF SumOf
  <2>3. CASE f[c].pid # p
    <3>1. c \notin RowsOf(f, p)
      BY <2>3 DEF RowsOf
    <3>2. CountsOf(g, RowsOf(f, p)) = CountsOf(f, RowsOf(f, p))
      BY <2>1, <3>1, CountsSame
    <3>3. SumOf(f, p) \in Nat
      BY <1>1, <2>1 DEF SumOf
    <3> QED BY <2>1, <2>3, <3>2, <3>3 DEF SumOf
  <2> QED BY <2>2, <2>3
<1> QED BY <1>3, <1>4

-----------------------------------------------------------------------------
(* Types *)

(* What the steps need of the types.                                       *)
LEMMA Known ==
  ASSUME TypeInv
  PROVE  /\ conn \in Tables /\ moved \in Nat /\ moved <= MaxUsed
         /\ \A c \in Conns : conn[c].bytes <= moved
         /\ \A c \in Conns : conn[c].pid # "none" => conn[c].pid \in Pids /\ conn[c].pid \in alive
         /\ \A c \in Conns : conn[c] # NoConn => conn[c].pid # "none"
         /\ AllOf(conn) <= moved /\ AllOf(conn) \in Nat
         /\ \A p \in Pids : Sum(p) = SumOf(conn, p) /\ Sum(p) \in Nat /\ Sum(p) <= AllOf(conn)
         /\ \A m \in Own : \A p \in Pids : total[m][p] \in Nat /\ total[m][p] <= moved
         /\ \A p \in Pids : driver[p] \in Nat /\ driver[p] <= moved + 2
         /\ \A m \in Metrics : \A p \in Pids :
              used[m][p] \in Nat /\ used[m][p] <= moved /\ last[m][p] \in Nat
<1> USE SamplingAssumption
<1>1. /\ conn \in [Conns -> [pid : Pids \cup {"none"}, on : BOOLEAN, bytes : 0 .. MaxUsed]]
      /\ moved \in 0 .. MaxUsed /\ alive \subseteq Pids
      /\ \A c \in Conns : conn[c] = NoConn \/ conn[c].pid \in alive
  BY DEF TypeInv, TypeOK
<1>2. /\ conn \in Tables /\ moved \in Nat /\ moved <= MaxUsed
      /\ \A c \in Conns : conn[c].bytes <= moved
  BY <1>1 DEF TypeInv, BoundInv, Tables
<1>3. \A c \in Conns : conn[c].pid # "none" => conn[c].pid \in Pids /\ conn[c].pid \in alive
  BY <1>1 DEF NoConn
<1>4. \A c \in Conns : conn[c] # NoConn => conn[c].pid # "none"
  BY <1>1
<1>5. AllOf(conn) <= moved /\ AllOf(conn) \in Nat
  BY <1>2, CountsAre, CountsFinite DEF TypeInv, BoundInv, AllOf
<1>6. \A p \in Pids : Sum(p) = SumOf(conn, p) /\ Sum(p) \in Nat /\ Sum(p) <= AllOf(conn)
  <2> SUFFICES ASSUME NEW p \in Pids
               PROVE  Sum(p) = SumOf(conn, p) /\ Sum(p) \in Nat /\ Sum(p) <= AllOf(conn)
    OBVIOUS
  <2>1. RowsOf(conn, p) \in SUBSET Conns
    BY DEF RowsOf
  <2> QED BY <1>2, <2>1, CountsAre, CountsFinite DEF SumOf, AllOf
<1>7. \A m \in Own : \A p \in Pids : total[m][p] \in Nat /\ total[m][p] <= moved
  BY DEF TypeInv, TypeOK, BoundInv
<1>8. \A p \in Pids : driver[p] \in Nat /\ driver[p] <= moved + 2
  BY DEF TypeInv, TypeOK, BoundInv
<1>9. \A m \in Metrics : \A p \in Pids :
        used[m][p] \in Nat /\ used[m][p] <= moved /\ last[m][p] \in Nat
  BY DEF TypeInv, TypeOK, BoundInv
<1> QED BY <1>2, <1>3, <1>4, <1>5, <1>6, <1>7, <1>8, <1>9

(* A step of a process or a connection keeps what is said of the table.    *)
TableOK ==
  /\ conn \in [Conns -> [pid : Pids \cup {"none"}, on : BOOLEAN, bytes : 0 .. MaxUsed]]
  /\ \A c \in Conns : conn[c] = NoConn \/ conn[c].pid \in alive
  /\ \A c \in Conns : conn[c].bytes <= moved
  /\ Cardinality(Counts(Conns)) <= moved

(* ... and what is said of the causes.                                     *)
AllCauses == UNION {Causes(m) : m \in Metrics}

LEMMA CausesAre ==
  AllCauses = {"reborn", "closed", "uncounted", "switched"} /\ Metrics = {"cpu", "disk", "net"}
BY DEF AllCauses, Causes, Own, Metrics

(* Connections that end, all of those whose process ends among them.       *)
LEMMA TableEnds ==
  ASSUME TypeInv, conn' \in [Conns -> [pid : Pids \cup {"none"}, on : BOOLEAN, bytes : 0 .. MaxUsed]],
         \A c \in Conns : conn'[c] = NoConn \/ (conn'[c] = conn[c] /\ (conn[c].pid \in alive => conn[c].pid \in alive')),
         moved' = moved
  PROVE  TableOK'
<1>1. AllOf(conn') \in Nat /\ AllOf(conn') <= AllOf(conn)
  BY Known, ConnsEnd
<1>2. Cardinality(Counts(Conns))' <= moved'
  <2>1. AllOf(conn) <= moved /\ AllOf(conn) \in Nat /\ moved \in Nat
    BY Known
  <2>2. Cardinality(Counts(Conns))' = AllOf(conn')
    BY CountsAre
  <2> QED BY <1>1, <2>1, <2>2
<1>3. \A c \in Conns : conn'[c].bytes <= moved'
  BY Known DEF NoConn
<1>4. \A c \in Conns : conn'[c] = NoConn \/ conn'[c].pid \in alive'
  BY DEF TypeInv, TypeOK
<1> QED BY <1>2, <1>3, <1>4 DEF TableOK

(* What the steps of the system leave alone.                               *)
LEMMA TypeFrame ==
  ASSUME TypeInv, UNCHANGED sampler, TableOK',
         alive' \subseteq Pids, total' \in [Own -> [Pids -> 0 .. MaxUsed]], handle' \in BOOLEAN,
         driver' \in [Pids -> 0 .. MaxUsed + 2], used' \in [Metrics -> [Pids -> 0 .. MaxUsed]],
         spoilt' = spoilt, causes' \in [Pids -> SUBSET AllCauses],
         moved' \in 0 .. MaxUsed, lives' \in 0 .. MaxLives,
         \A p \in Pids : /\ driver'[p] <= moved' + 2
                         /\ \A m \in Own : total'[m][p] <= moved'
                         /\ \A m \in Metrics : used'[m][p] <= moved' /\ (used'[m][p] > 0 => p \in known)
  PROVE  TypeInv'
<1>1. TypeOK'
  BY DEF TypeInv, TypeOK, TableOK, sampler, AllCauses
<1>2. BoundInv'
  BY DEF BoundInv, TableOK
<1> QED BY <1>1, <1>2 DEF TypeInv

(* The steps of processes and connections that use nothing keep the types. *)
LEMMA TypeSystem ==
  ASSUME TypeInv,
         \/ \E p \in Pids : Born(p) \/ Die(p)
         \/ \E p \in Pids, c \in Conns : Connect(p, c)
         \/ \E c \in Conns : Disconnect(c)
  PROVE  TypeInv'
<1> USE SamplingAssumption
<1>0. /\ conn \in [Conns -> [pid : Pids \cup {"none"}, on : BOOLEAN, bytes : 0 .. MaxUsed]]
      /\ alive \subseteq Pids /\ total \in [Own -> [Pids -> 0 .. MaxUsed]]
      /\ causes \in [Pids -> SUBSET AllCauses] /\ lives \in 0 .. MaxLives
      /\ 0 \in 0 .. MaxUsed /\ NoConn \in [pid : Pids \cup {"none"}, on : BOOLEAN, bytes : 0 .. MaxUsed]
  BY DEF TypeInv, TypeOK, AllCauses, NoConn
<1>1. ASSUME NEW p \in Pids, NEW S \in SUBSET AllCauses, Because(p, S)
      PROVE  causes' \in [Pids -> SUBSET AllCauses]
  BY <1>0, <1>1 DEF Because
<1>2. ASSUME UNCHANGED <<alive, total, handle, driver, sampler, used, spoilt, moved, lives>>,
             TableOK', causes' \in [Pids -> SUBSET AllCauses]
      PROVE  TypeInv'
  BY <1>2, TypeFrame DEF TypeInv, TypeOK, BoundInv
<1>3. ASSUME NEW p \in Pids, Born(p) PROVE TypeInv'
  <2>1. /\ alive' = alive \cup {p} /\ lives' = lives + 1 /\ lives < MaxLives
        /\ total' = [m \in Own |-> [total[m] EXCEPT ![p] = 0]]
        /\ UNCHANGED <<conn, handle, driver, sampler, used, spoilt, moved>>
    BY <1>3 DEF Born
  <2>2. causes' \in [Pids -> SUBSET AllCauses]
    BY <1>1, <1>3, CausesAre DEF Born
  <2>3. TableOK'
    BY <2>1 DEF TypeInv, TypeOK, BoundInv, TableOK, Counts
  <2>4. /\ total' \in [Own -> [Pids -> 0 .. MaxUsed]]
        /\ \A m \in Own : \A q \in Pids : total'[m][q] <= moved
    BY <1>0, <2>1, Known
  <2>5. alive' \subseteq Pids /\ lives' \in 0 .. MaxLives
    BY <1>0, <2>1
  <2> QED BY <2>1, <2>2, <2>3, <2>4, <2>5, TypeFrame DEF TypeInv, TypeOK, BoundInv
<1>4. ASSUME NEW p \in Pids, Die(p) PROVE TypeInv'
  <2>1. /\ alive' = alive \ {p}
        /\ conn' = [c \in Conns |-> IF conn[c].pid = p THEN NoConn ELSE conn[c]]
        /\ UNCHANGED <<total, handle, driver, sampler, used, spoilt, moved, lives>>
    BY <1>4 DEF Die
  <2>2. causes' \in [Pids -> SUBSET AllCauses]
    BY <1>1, <1>4, CausesAre DEF Die
  <2>3. conn' \in [Conns -> [pid : Pids \cup {"none"}, on : BOOLEAN, bytes : 0 .. MaxUsed]]
    BY <1>0, <2>1
  <2>4. TableOK'
    BY <2>1, <2>3, TableEnds
  <2>5. alive' \subseteq Pids
    BY <1>0, <2>1
  <2> QED BY <2>1, <2>2, <2>4, <2>5, TypeFrame DEF TypeInv, TypeOK, BoundInv
<1>5. ASSUME NEW p \in Pids, NEW c \in Conns, Connect(p, c) PROVE TypeInv'
  <2>1. PICK on \in BOOLEAN : conn' = [conn EXCEPT ![c] = [pid |-> p, on |-> on, bytes |-> 0]]
    BY <1>5 DEF Connect
  <2>2. /\ p \in alive /\ conn[c] = NoConn
        /\ UNCHANGED <<alive, total, handle, driver, sampler, history, moved, lives>>
    BY <1>5 DEF Connect
  <2>3. conn' \in [Conns -> [pid : Pids \cup {"none"}, on : BOOLEAN, bytes : 0 .. MaxUsed]]
    BY <1>0, <2>1
  <2>4. \A d \in Conns : /\ conn'[d].bytes = conn[d].bytes
                         /\ conn'[d].pid = conn[d].pid \/ conn'[d].bytes = 0
                         /\ conn'[d] = NoConn \/ conn'[d].pid \in alive'
    <3> SUFFICES ASSUME NEW d \in Conns
                 PROVE  /\ conn'[d].bytes = conn[d].bytes
                        /\ conn'[d].pid = conn[d].pid \/ conn'[d].bytes = 0
                        /\ conn'[d] = NoConn \/ conn'[d].pid \in alive'
      OBVIOUS
    <3>1. CASE d = c
      <4>1. conn'[d] = [pid |-> p, on |-> on, bytes |-> 0] /\ conn[d] = NoConn
        BY <1>0, <2>1, <2>2, <3>1
      <4> QED BY <2>2, <4>1 DEF NoConn
    <3>2. CASE d # c
      <4>1. conn'[d] = conn[d]
        BY <1>0, <2>1, <3>2
      <4> QED BY <2>2, <4>1 DEF TypeInv, TypeOK
    <3> QED BY <3>1, <3>2
  <2>5. Cardinality(Counts(Conns))' <= moved'
    BY <2>2, <2>4, CountsAre, ConnsStart, Known
  <2>6. TableOK'
    BY <2>2, <2>3, <2>4, <2>5, Known DEF TableOK
  <2> QED BY <1>0, <1>2, <2>2, <2>6 DEF history
<1>6. ASSUME NEW c \in Conns, Disconnect(c) PROVE TypeInv'
  <2>1. /\ conn[c] # NoConn /\ conn' = [conn EXCEPT ![c] = NoConn]
        /\ UNCHANGED <<alive, total, handle, driver, sampler, used, spoilt, moved, lives>>
    BY <1>6 DEF Disconnect
  <2>2. conn[c].pid \in Pids
    BY <2>1, Known
  <2>3. causes' \in [Pids -> SUBSET AllCauses]
    BY <1>1, <1>6, <2>2, CausesAre DEF Disconnect
  <2>4. conn' \in [Conns -> [pid : Pids \cup {"none"}, on : BOOLEAN, bytes : 0 .. MaxUsed]]
    BY <1>0, <2>1
  <2>5. TableOK'
    BY <1>0, <2>1, <2>4, TableEnds
  <2> QED BY <1>2, <2>1, <2>3, <2>5
<1> QED BY <1>3, <1>4, <1>5, <1>6

(* What is used is one unit more, of one metric and one process.           *)
LEMMA UseTypes ==
  ASSUME TypeInv, NEW m \in Metrics, NEW p \in Pids, Use(m, p)
  PROVE  /\ moved' = moved + 1 /\ moved' \in 0 .. MaxUsed
         /\ used' \in [Metrics -> [Pids -> 0 .. MaxUsed]]
         /\ \A k \in Metrics : \A q \in Pids :
              /\ used'[k][q] = used[k][q] + IF k = m /\ q = p /\ p \in known THEN 1 ELSE 0
              /\ used'[k][q] <= moved' /\ (used'[k][q] > 0 => q \in known)
<1>1. used \in [Metrics -> [Pids -> 0 .. MaxUsed]] /\ MaxUsed \in Nat
  BY SamplingAssumption DEF TypeInv, TypeOK
<1>2. moved' = moved + 1 /\ moved' \in 0 .. MaxUsed
  BY <1>1 DEF Use, TypeInv, TypeOK
<1>3. /\ used' = [used EXCEPT ![m] = [used[m] EXCEPT ![p] = used[m][p] + IF p \in known THEN 1 ELSE 0]]
  BY DEF Use
<1>4. \A k \in Metrics : \A q \in Pids :
        used'[k][q] = used[k][q] + IF k = m /\ q = p /\ p \in known THEN 1 ELSE 0
  BY <1>1, <1>3
<1>5. \A k \in Metrics : \A q \in Pids : used[k][q] > 0 => q \in known
  BY DEF TypeInv, TypeOK
<1>6. \A k \in Metrics : \A q \in Pids :
        used'[k][q] \in 0 .. MaxUsed /\ used'[k][q] <= moved' /\ (used'[k][q] > 0 => q \in known)
  <2> SUFFICES ASSUME NEW k \in Metrics, NEW q \in Pids
               PROVE  used'[k][q] \in 0 .. MaxUsed /\ used'[k][q] <= moved' /\ (used'[k][q] > 0 => q \in known)
    OBVIOUS
  <2>1. used[k][q] \in Nat /\ used[k][q] <= moved /\ moved \in Nat
    BY Known
  <2>2. used'[k][q] \in Nat /\ used'[k][q] <= moved' /\ (used'[k][q] > 0 => q \in known)
    <3>1. CASE k = m /\ q = p /\ p \in known
      BY <1>2, <1>4, <2>1, <3>1
    <3>2. CASE ~(k = m /\ q = p /\ p \in known)
      BY <1>2, <1>4, <1>5, <2>1, <3>2
    <3> QED BY <3>1, <3>2
  <2> QED BY <1>1, <1>2, <2>2
<1>7. used' \in [Metrics -> [Pids -> 0 .. MaxUsed]]
  <2>1. DOMAIN used' = Metrics /\ used' = [k \in Metrics |-> used'[k]]
    BY <1>1, <1>3
  <2>2. \A k \in Metrics : used'[k] \in [Pids -> 0 .. MaxUsed]
    <3> SUFFICES ASSUME NEW k \in Metrics PROVE used'[k] \in [Pids -> 0 .. MaxUsed]
      OBVIOUS
    <3>1. used'[k] = IF k = m THEN [used[m] EXCEPT ![p] = used[m][p] + IF p \in known THEN 1 ELSE 0]
                     ELSE used[k]
      BY <1>1, <1>3
    <3>2. used'[k] = [q \in Pids |-> used'[k][q]]
      BY <1>1, <3>1
    <3> QED BY <1>6, <3>2
  <2> QED BY <2>1, <2>2
<1> QED BY <1>2, <1>4, <1>6, <1>7

(* Use of the CPU and the disk keeps the types.                            *)
LEMMA TypeRun ==
  ASSUME TypeInv, NEW m \in Own, NEW p \in Pids, Run(m, p)
  PROVE  TypeInv'
<1> USE SamplingAssumption
<1>0. m \in Metrics /\ total \in [Own -> [Pids -> 0 .. MaxUsed]]
  BY DEF TypeInv, TypeOK, Metrics
<1>1. Use(m, p) /\ UNCHANGED <<alive, conn, handle, driver, sampler, spoilt, causes, lives>>
  BY DEF Run
<1>2. /\ moved' = moved + 1 /\ moved' \in 0 .. MaxUsed
      /\ used' \in [Metrics -> [Pids -> 0 .. MaxUsed]]
      /\ \A k \in Metrics : \A q \in Pids :
           used'[k][q] <= moved' /\ (used'[k][q] > 0 => q \in known)
  BY <1>0, <1>1, UseTypes
<1>3. total' = [total EXCEPT ![m] = [total[m] EXCEPT ![p] = total[m][p] + 1]]
  BY DEF Run
<1>4. ASSUME NEW k \in Own, NEW q \in Pids
      PROVE  total'[k][q] \in 0 .. MaxUsed /\ total'[k][q] <= moved'
  <2>1. total[k][q] \in Nat /\ total[k][q] <= moved /\ moved \in Nat
    BY Known
  <2>2. total'[k][q] \in {total[k][q], total[k][q] + 1}
    BY <1>0, <1>3
  <2> QED BY <1>2, <2>1, <2>2
<1>5. total' \in [Own -> [Pids -> 0 .. MaxUsed]]
  <2>1. total' = [k \in Own |-> total'[k]] /\ \A k \in Own : total'[k] = [q \in Pids |-> total'[k][q]]
    <3>1. \A k \in Own : total'[k] = IF k = m THEN [total[m] EXCEPT ![p] = total[m][p] + 1] ELSE total[k]
      BY <1>0, <1>3
    <3>2. \A k \in Own : total'[k] = [q \in Pids |-> total'[k][q]]
      BY <1>0, <3>1
    <3> QED BY <1>0, <1>3, <3>2
  <2>2. \A k \in Own : total'[k] \in [Pids -> 0 .. MaxUsed]
    BY <1>4, <2>1
  <2> QED BY <2>1, <2>2
<1>6. TableOK'
  <2>1. moved \in Nat /\ moved <= moved' /\ \A c \in Conns : conn[c].bytes \in Nat /\ conn[c].bytes <= moved
    BY <1>2, Known DEF Tables
  <2>2. AllOf(conn) \in Nat /\ AllOf(conn) <= moved
    BY Known
  <2>3. Cardinality(Counts(Conns))' = AllOf(conn)
    BY <1>1, CountsAre
  <2> QED BY <1>1, <1>2, <2>1, <2>2, <2>3 DEF TableOK, TypeInv, TypeOK
<1>7. /\ driver' = driver /\ driver \in [Pids -> 0 .. MaxUsed + 2]
      /\ \A q \in Pids : driver'[q] <= moved' + 2
  <2>1. \A q \in Pids : driver[q] \in Nat /\ driver[q] <= moved + 2 /\ moved \in Nat
    BY Known
  <2> QED BY <1>1, <1>2, <2>1 DEF TypeInv, TypeOK
<1>8. alive' \subseteq Pids /\ handle' \in BOOLEAN /\ causes' \in [Pids -> SUBSET AllCauses] /\ lives' \in 0 .. MaxLives
  BY <1>1 DEF TypeInv, TypeOK, AllCauses
<1> QED BY <1>1, <1>2, <1>4, <1>5, <1>6, <1>7, <1>8, TypeFrame

(* What a unit on the network does to the driver and the connections.      *)
LEMMA TrafficStep ==
  ASSUME TypeInv, NEW p \in Pids, NEW c \in Conns \cup {"datagram"}, Traffic(p, c)
  PROVE  /\ Use("net", p) /\ "net" \in Metrics
         /\ UNCHANGED <<alive, total, handle, sampler, spoilt, lives>>
         /\ \E seen \in {0, 1}, on \in BOOLEAN :
              /\ driver' = [driver EXCEPT ![p] = driver[p] + seen]
              /\ on => c \in Conns /\ conn[c].pid = p
              /\ conn' = IF on THEN [conn EXCEPT ![c] = [pid |-> p, on |-> TRUE, bytes |-> conn[c].bytes + 1]]
                               ELSE conn
              /\ Because(p, (IF seen = 1 \/ (driver[p] = 0 /\ on) THEN {} ELSE {"uncounted"})
                              \cup IF seen = 1 /\ driver[p] = 0 /\ Counted(p) THEN {"switched"} ELSE {})
<1> DEFINE on == c \in Conns /\ conn[c].on
<1>1. /\ Use("net", p) /\ UNCHANGED <<alive, total, handle, sampler, spoilt, lives>>
      /\ c \in Conns => conn[c].pid = p
  BY DEF Traffic
<1>2. PICK seen \in {0, 1} :
        /\ driver' = [driver EXCEPT ![p] = driver[p] + seen]
        /\ conn' = IF on THEN [conn EXCEPT ![c] = [pid |-> p, on |-> TRUE, bytes |-> conn[c].bytes + 1]]
                         ELSE conn
        /\ Because(p, (IF seen = 1 \/ (driver[p] = 0 /\ on) THEN {} ELSE {"uncounted"})
                        \cup IF seen = 1 /\ driver[p] = 0 /\ Counted(p) THEN {"switched"} ELSE {})
  BY DEF Traffic
<1>4. on \in BOOLEAN
  <2>1. c \in Conns => conn[c].on \in BOOLEAN
    BY Known DEF Tables
  <2> QED BY <2>1
<1>5. on => c \in Conns /\ conn[c].pid = p
  BY <1>1
<1>6. "net" \in Metrics
  BY DEF Metrics
<1> HIDE DEF on
<1> QED BY <1>1, <1>2, <1>4, <1>5, <1>6

(* Use of the network keeps the types.                                     *)
LEMMA TypeTraffic ==
  ASSUME TypeInv, NEW p \in Pids, NEW c \in Conns \cup {"datagram"}, Traffic(p, c)
  PROVE  TypeInv'
<1> USE SamplingAssumption
<1>1. Use("net", p) /\ "net" \in Metrics /\ UNCHANGED <<alive, total, handle, sampler, spoilt, lives>>
  BY TrafficStep
<1>2. PICK seen \in {0, 1}, on \in BOOLEAN :
        /\ driver' = [driver EXCEPT ![p] = driver[p] + seen]
        /\ on => c \in Conns /\ conn[c].pid = p
        /\ conn' = IF on THEN [conn EXCEPT ![c] = [pid |-> p, on |-> TRUE, bytes |-> conn[c].bytes + 1]]
                         ELSE conn
        /\ Because(p, (IF seen = 1 \/ (driver[p] = 0 /\ on) THEN {} ELSE {"uncounted"})
                        \cup IF seen = 1 /\ driver[p] = 0 /\ Counted(p) THEN {"switched"} ELSE {})
  BY TrafficStep
<1>3. /\ moved' = moved + 1 /\ moved' \in 0 .. MaxUsed /\ moved \in Nat
      /\ used' \in [Metrics -> [Pids -> 0 .. MaxUsed]]
      /\ \A k \in Metrics : \A q \in Pids :
           used'[k][q] <= moved' /\ (used'[k][q] > 0 => q \in known)
  BY <1>1, UseTypes, Known
<1>4. driver' \in [Pids -> 0 .. MaxUsed + 2] /\ \A q \in Pids : driver'[q] <= moved' + 2
  <2>1. \A q \in Pids : driver[q] \in Nat /\ driver[q] <= moved + 2
    BY Known
  <2>2. driver \in [Pids -> 0 .. MaxUsed + 2]
    BY DEF TypeInv, TypeOK
  <2>3. \A q \in Pids : driver'[q] \in {driver[q], driver[q] + 1}
    BY <1>2, <2>1, <2>2
  <2>4. \A q \in Pids : driver'[q] \in 0 .. MaxUsed + 2 /\ driver'[q] <= moved' + 2
    BY <1>3, <2>1, <2>3
  <2> QED BY <1>2, <2>2, <2>4
<1>5. causes' \in [Pids -> SUBSET AllCauses]
  <2>1. causes \in [Pids -> SUBSET AllCauses]
    BY DEF TypeInv, TypeOK, AllCauses
  <2>2. {"uncounted", "switched"} \subseteq AllCauses
    BY CausesAre
  <2> QED BY <1>2, <2>1, <2>2 DEF Because
<1>6. TableOK'
  <2>1. /\ conn \in Tables /\ AllOf(conn) \in Nat /\ AllOf(conn) <= moved
        /\ \A d \in Conns : conn[d].bytes \in Nat /\ conn[d].bytes <= moved
    BY Known DEF Tables
  <2>2. \A d \in Conns : conn[d] = NoConn \/ conn[d].pid \in alive
    BY DEF TypeInv, TypeOK
  <2>3. conn \in [Conns -> [pid : Pids \cup {"none"}, on : BOOLEAN, bytes : 0 .. MaxUsed]]
    BY DEF TypeInv, TypeOK
  <2>4. CASE ~on
    <3>1. Cardinality(Counts(Conns))' = AllOf(conn)
      BY <1>2, <2>4, CountsAre
    <3>2. conn' = conn /\ alive' = alive
      BY <1>1, <1>2, <2>4
    <3> QED BY <1>3, <2>1, <2>2, <2>3, <3>1, <3>2 DEF TableOK
  <2>5. CASE on
    <3>1. c \in Conns /\ conn[c].pid = p /\ conn' = [conn EXCEPT ![c] = [pid |-> p, on |-> TRUE, bytes |-> conn[c].bytes + 1]]
      BY <1>2, <2>5
    <3>2. /\ conn'[c] = [pid |-> p, on |-> TRUE, bytes |-> conn[c].bytes + 1]
          /\ \A d \in Conns \ {c} : conn'[d] = conn[d]
      BY <2>1, <3>1 DEF Tables
    <3>3. AllOf(conn') = AllOf(conn) + 1
      <4>1. conn'[c].bytes = conn[c].bytes + 1 /\ conn'[c].pid = conn[c].pid
        BY <3>1, <3>2
      <4>2. \A d \in Conns : conn[d].bytes <= moved
        BY <2>1
      <4>3. \A d \in Conns \ {c} : conn'[d] = conn[d]
        BY <3>2
      <4>4. conn \in Tables /\ moved \in Nat /\ c \in Conns
        BY <1>3, <2>1, <3>1
      <4> QED BY <4>1, <4>2, <4>3, <4>4, ConnsGrow
    <3>4. Cardinality(Counts(Conns))' = AllOf(conn')
      BY CountsAre
    <3>5. \A d \in Conns : conn'[d].bytes <= moved'
      BY <1>3, <2>1, <3>1, <3>2
    <3>6. conn[c].pid \in alive
      BY <2>2, <3>1 DEF NoConn
    <3>7. \A d \in Conns : conn'[d] = NoConn \/ conn'[d].pid \in alive'
      BY <1>1, <2>2, <3>1, <3>2, <3>6
    <3>8. conn[c].bytes + 1 \in 0 .. MaxUsed
      BY <1>3, <2>1, <3>1
    <3>9. conn' \in [Conns -> [pid : Pids \cup {"none"}, on : BOOLEAN, bytes : 0 .. MaxUsed]]
      BY <2>3, <3>1, <3>8
    <3> QED BY <1>3, <2>1, <3>3, <3>4, <3>5, <3>7, <3>9 DEF TableOK
  <2> QED BY <2>4, <2>5
<1>7. \A q \in Pids, m \in Own : total'[m][q] <= moved'
  <2>1. \A q \in Pids, m \in Own : total[m][q] \in Nat /\ total[m][q] <= moved
    BY Known
  <2> QED BY <1>1, <1>3, <2>1
<1>8. alive' \subseteq Pids /\ handle' \in BOOLEAN /\ total' \in [Own -> [Pids -> 0 .. MaxUsed]] /\ lives' \in 0 .. MaxLives
  BY <1>1 DEF TypeInv, TypeOK
<1> QED BY <1>1, <1>3, <1>4, <1>5, <1>6, <1>7, <1>8, TypeFrame

(* The steps of a scan that measure nothing keep the types.                *)
LEMMA TypeScan ==
  ASSUME TypeInv, Open \/ Close \/ \E p \in Pids : Skip(p) \/ Visit(p) \/ NotMeasured(p)
  PROVE  TypeInv'
<1> USE SamplingAssumption
<1>1. ASSUME UNCHANGED <<system, last, spoilt, causes, moved, lives>>,
             todo' \subseteq Pids, active' \subseteq Pids, known' \subseteq Pids, raised' \subseteq Metrics,
             phase' \in {"sleep", "scan"}, phase' = "sleep" => todo' = {} /\ known' \subseteq active',
             used' \in [Metrics -> [Pids -> 0 .. MaxUsed]],
             \A m \in Metrics : \A q \in Pids : used'[m][q] <= moved /\ (used'[m][q] > 0 => q \in known')
      PROVE  TypeInv'
  <2>1. TypeOK'
    BY <1>1 DEF TypeInv, TypeOK, system
  <2>2. BoundInv'
    BY <1>1 DEF TypeInv, BoundInv, system, Counts
  <2> QED BY <2>1, <2>2 DEF TypeInv
<1>2. /\ todo \subseteq Pids /\ active \subseteq Pids /\ known \subseteq Pids /\ raised \subseteq Metrics
      /\ phase \in {"sleep", "scan"} /\ (phase = "sleep" => todo = {} /\ known \subseteq active)
      /\ used \in [Metrics -> [Pids -> 0 .. MaxUsed]]
      /\ \A m \in Metrics : \A q \in Pids : used[m][q] <= moved /\ (used[m][q] > 0 => q \in known)
  BY DEF TypeInv, TypeOK, BoundInv
<1>3. ASSUME UNCHANGED <<system, known, last, history, moved, lives>>, phase' = "scan",
             todo' \subseteq Pids, active' \subseteq Pids, raised' \subseteq Metrics
      PROVE  TypeInv'
  BY <1>1, <1>2, <1>3 DEF history
<1>4. CASE Open
  BY <1>2, <1>3, <1>4 DEF Open
<1>5. ASSUME NEW p \in Pids, Skip(p) \/ Visit(p) \/ NotMeasured(p) PROVE TypeInv'
  BY <1>2, <1>3, <1>5 DEF Skip, Visit, NotMeasured
<1>6. CASE Close
  <2>1. /\ phase' = "sleep" /\ todo = {} /\ known' = known \cap active
        /\ used' = [m \in Metrics |-> [q \in Pids |-> IF q \in active THEN used[m][q] ELSE 0]]
        /\ UNCHANGED <<system, todo, active, last, raised, spoilt, causes, moved, lives>>
    BY <1>6 DEF Close
  <2>2. used' \in [Metrics -> [Pids -> 0 .. MaxUsed]]
    BY <1>2, <2>1
  <2>3. \A m \in Metrics : \A q \in Pids : used'[m][q] <= moved /\ (used'[m][q] > 0 => q \in known')
    <3>1. \A m \in Metrics : \A q \in Pids : used'[m][q] = IF q \in active THEN used[m][q] ELSE 0
      BY <2>1
    <3>2. moved \in Nat
      BY Known
    <3> QED BY <1>2, <2>1, <3>1, <3>2
  <2> QED BY <1>1, <1>2, <2>1, <2>2, <2>3
<1> QED BY <1>4, <1>5, <1>6

-----------------------------------------------------------------------------
(* Measurements *)

(* A reading of the network that did not fail is what there is to show, and *)
(* none exceeds what can have been used.                                   *)
LEMMA NetReading ==
  ASSUME TypeInv, NEW p \in Pids, NEW n \in NetReadings(p)
  PROVE  /\ n.value \in Nat /\ n.value <= moved + 2 /\ n.failed \in BOOLEAN
         /\ ~n.failed => n.value = Total("net", p)
         /\ n.rows \in SUBSET Rows(p)
<1>1. driver[p] \in Nat /\ driver[p] <= moved + 2 /\ moved \in Nat
  BY Known
<1>2. PICK r \in DriverReplies(p) :
        n \in IF r.value > 0 THEN {[value |-> r.value, failed |-> FALSE, rows |-> {}]}
              ELSE {[e EXCEPT !.failed = e.failed \/ r.failed] : e \in EStats(p)}
  BY DEF NetReadings
<1>3. \/ r.value = driver[p] /\ r.failed = FALSE
      \/ r.value = 0 /\ r.failed = (driver[p] > 0)
  BY DEF DriverReplies
<1>4. Total("net", p) = Shown(p)
  BY DEF Total, Own
<1>5. CASE r.value > 0
  <2>1. n.value = r.value /\ n.failed = FALSE /\ n.rows = {}
    BY <1>2, <1>5
  <2>2. r.value = driver[p] /\ driver[p] > 0
    BY <1>3, <1>5
  <2>3. Shown(p) = driver[p]
    BY <2>2 DEF Shown
  <2> QED BY <1>1, <1>4, <2>1, <2>2, <2>3
<1>6. CASE ~(r.value > 0)
  <2>1. PICK e \in EStats(p) : n = [e EXCEPT !.failed = e.failed \/ r.failed]
    BY <1>2, <1>6
  <2>2. PICK S \in SUBSET Rows(p) :
          e = [value |-> Cardinality(Counts(S)), failed |-> S # Rows(p), rows |-> S]
    BY <2>1 DEF EStats
  <2>3. n.value = Cardinality(Counts(S)) /\ n.failed = ((S # Rows(p)) \/ r.failed) /\ n.rows = S
    BY <2>1, <2>2
  <2>4. Cardinality(Counts(S)) \in Nat /\ Cardinality(Counts(S)) <= AllOf(conn)
    <3>1. S \in SUBSET Conns /\ Conns \in SUBSET Conns
      BY DEF Rows
    <3>2. conn \in Tables /\ moved \in Nat /\ \A c \in Conns : conn[c].bytes <= moved
      BY Known
    <3> QED BY <3>1, <3>2, CountsAre, CountsFinite DEF AllOf
  <2>5. AllOf(conn) \in Nat /\ AllOf(conn) <= moved
    BY Known
  <2>6. n.value \in Nat /\ n.value <= moved + 2
    BY <1>1, <2>3, <2>4, <2>5
  <2>7. n.failed \in BOOLEAN
    BY <1>1, <1>3, <2>3
  <2>8. ASSUME ~n.failed PROVE n.value = Total("net", p)
    BY <1>1, <1>3, <1>4, <1>6, <2>3, <2>8 DEF Shown, Sum
  <2> QED BY <2>2, <2>3, <2>6, <2>7, <2>8
<1> QED BY <1>5, <1>6

(* A measurement in terms of the value read of every metric, whether the    *)
(* reading failed, and the difference reported.                            *)
Reads(p, val, bad, rate) ==
  /\ last' = [m \in Metrics |-> [last[m] EXCEPT ![p] = val[m]]]
  /\ spoilt' = {s \in spoilt : s[2] # p} \cup {<<m, p>> : m \in {k \in Metrics : bad[k]}}
  /\ raised' = {m \in Metrics : Limit > 0 /\ rate[m] > Limit}
  /\ val["cpu"] = total["cpu"][p]
  /\ \A m \in Metrics :
       /\ val[m] \in Nat /\ val[m] <= moved + 2
       /\ ~bad[m] => val[m] = Total(m, p)
       /\ rate[m] \in Nat /\ rate[m] <= Difference(p, m, val[m])
       /\ rate[m] = Difference(p, m, val[m]) \/ bad[m] \/ <<m, p>> \in spoilt

(* Every measurement is of this form, and changes no connection but by      *)
(* letting EStats count it.                                                *)
LEMMA MeasureStep ==
  ASSUME TypeInv, NEW p \in Pids, Measure(p)
  PROVE  /\ p \in todo \cap active \cap alive /\ phase = "scan" /\ todo' = todo \ {p}
         /\ known' = known \cup {p} /\ causes' = [causes EXCEPT ![p] = {}]
         /\ used' = [m \in Metrics |-> [used[m] EXCEPT ![p] = 0]]
         /\ UNCHANGED <<alive, total, handle, driver, phase, active, moved, lives>>
         /\ \E rows \in SUBSET Conns :
              conn' = [e \in Conns |-> IF e \in rows THEN [conn[e] EXCEPT !.on = TRUE] ELSE conn[e]]
              /\ \A e \in rows : conn[e].pid = p
         /\ \E val \in [Metrics -> Nat], bad \in [Metrics -> BOOLEAN], rate \in [Metrics -> Nat] :
              Reads(p, val, bad, rate)
<1>1. PICK c \in CpuReadings(p), d \in DiskReadings(p), n \in NetReadings(p) :
        LET cur == [cpu |-> c, disk |-> d, net |-> n]
        IN  /\ \E s \in Shares(p, c) :
                 raised' = Alerts([cpu  |-> s, disk |-> Difference(p, "disk", d.value),
                                   net  |-> Difference(p, "net", n.value)])
            /\ last' = [m \in Metrics |-> [last[m] EXCEPT ![p] = cur[m].value]]
            /\ conn' = [e \in Conns |-> IF e \in n.rows THEN [conn[e] EXCEPT !.on = TRUE] ELSE conn[e]]
            /\ spoilt' = {s \in spoilt : s[2] # p} \cup {<<m, p>> : m \in {k \in Metrics : cur[k].failed}}
  BY DEF Measure
<1> DEFINE val  == [m \in Metrics |-> IF m = "cpu" THEN c.value ELSE IF m = "disk" THEN d.value ELSE n.value]
           bad  == [m \in Metrics |-> IF m = "cpu" THEN c.failed ELSE IF m = "disk" THEN d.failed ELSE n.failed]
<1>2. PICK s \in Shares(p, c) :
        raised' = Alerts([cpu  |-> s, disk |-> Difference(p, "disk", d.value),
                          net  |-> Difference(p, "net", n.value)])
  BY <1>1
<1> DEFINE rate == [m \in Metrics |-> IF m = "cpu" THEN s ELSE Difference(p, m, val[m])]
<1>3. \A m \in Metrics : /\ [cpu |-> c, disk |-> d, net |-> n][m].value = val[m]
                         /\ [cpu |-> c, disk |-> d, net |-> n][m].failed = bad[m]
  BY CausesAre
<1>4. last' = [m \in Metrics |-> [last[m] EXCEPT ![p] = val[m]]]
  BY <1>1, <1>3
<1>5. spoilt' = {t \in spoilt : t[2] # p} \cup {<<m, p>> : m \in {k \in Metrics : bad[k]}}
  BY <1>1, <1>3
<1>6. raised' = {m \in Metrics : Limit > 0 /\ rate[m] > Limit}
  <2>1. \A m \in Metrics : rate[m] = [cpu  |-> s, disk |-> Difference(p, "disk", d.value),
                                     net  |-> Difference(p, "net", n.value)][m]
    BY CausesAre
  <2> QED BY <1>2, <2>1 DEF Alerts
<1>7. /\ total["cpu"][p] \in Nat /\ total["cpu"][p] <= moved /\ total["disk"][p] \in Nat /\ total["disk"][p] <= moved
      /\ moved \in Nat /\ Total("cpu", p) = total["cpu"][p] /\ Total("disk", p) = total["disk"][p]
  BY Known DEF Total, Own
<1>8. /\ c.value = total["cpu"][p] /\ c.failed \in BOOLEAN
      /\ d.value \in Nat /\ d.value <= moved /\ d.failed \in BOOLEAN /\ (~d.failed => d.value = total["disk"][p])
  <2>1. PICK f \in BOOLEAN : c = [value |-> total["cpu"][p], failed |-> f]
    BY DEF CpuReadings
  <2>2. \/ d = [value |-> total["disk"][p], failed |-> FALSE]
        \/ d = [value |-> 0, failed |-> TRUE]
    BY DEF DiskReadings
  <2>3. c.value = total["cpu"][p] /\ c.failed \in BOOLEAN
    BY <2>1
  <2>4. d.value \in Nat /\ d.value <= moved /\ d.failed \in BOOLEAN /\ (~d.failed => d.value = total["disk"][p])
    <3>1. CASE d = [value |-> total["disk"][p], failed |-> FALSE]
      BY <1>7, <3>1
    <3>2. CASE d = [value |-> 0, failed |-> TRUE]
      BY <1>7, <3>2
    <3> QED BY <2>2, <3>1, <3>2
  <2> QED BY <2>3, <2>4
<1>9. /\ n.value \in Nat /\ n.value <= moved + 2 /\ n.failed \in BOOLEAN
      /\ (~n.failed => n.value = Total("net", p)) /\ n.rows \in SUBSET Rows(p)
  BY NetReading
<1>10. \A m \in Metrics : /\ val[m] \in Nat /\ val[m] <= moved + 2 /\ bad[m] \in BOOLEAN
                          /\ ~bad[m] => val[m] = Total(m, p)
  BY <1>7, <1>8, <1>9, CausesAre
<1>11. \A m \in Metrics : Difference(p, m, val[m]) \in Nat
  <2>1. \A m \in Metrics : last[m][p] \in Nat
    BY Known
  <2> QED BY <1>10, <2>1 DEF Difference, Rate
<1>12. /\ s \in Nat /\ s <= Difference(p, "cpu", c.value)
       /\ s = Difference(p, "cpu", c.value) \/ c.failed \/ <<"cpu", p>> \in spoilt
  <2>1. Difference(p, "cpu", c.value) \in Nat
    BY <1>11, CausesAre
  <2> QED BY <1>2, <1>8, <2>1 DEF Shares
<1>13. \A m \in Metrics : /\ rate[m] \in Nat /\ rate[m] <= Difference(p, m, val[m])
                          /\ rate[m] = Difference(p, m, val[m]) \/ bad[m] \/ <<m, p>> \in spoilt
  <2> SUFFICES ASSUME NEW m \in Metrics
               PROVE  /\ rate[m] \in Nat /\ rate[m] <= Difference(p, m, val[m])
                      /\ rate[m] = Difference(p, m, val[m]) \/ bad[m] \/ <<m, p>> \in spoilt
    OBVIOUS
  <2>1. CASE m = "cpu"
    BY <1>12, <2>1
  <2>2. CASE m # "cpu"
    BY <1>11, <2>2
  <2> QED BY <2>1, <2>2
<1>14. val \in [Metrics -> Nat] /\ bad \in [Metrics -> BOOLEAN] /\ rate \in [Metrics -> Nat]
  BY <1>10, <1>13
<1>15. val["cpu"] = total["cpu"][p]
  BY <1>8, CausesAre
<1>16. conn' = [e \in Conns |-> IF e \in n.rows THEN [conn[e] EXCEPT !.on = TRUE] ELSE conn[e]]
  BY <1>1
<1>17. n.rows \in SUBSET Conns /\ \A e \in n.rows : conn[e].pid = p
  BY <1>9 DEF Rows
<1>18. /\ p \in todo \cap active \cap alive /\ phase = "scan" /\ todo' = todo \ {p}
       /\ known' = known \cup {p} /\ causes' = [causes EXCEPT ![p] = {}]
       /\ used' = [m \in Metrics |-> [used[m] EXCEPT ![p] = 0]]
       /\ UNCHANGED <<alive, total, handle, driver, phase, active, moved, lives>>
  BY DEF Measure
<1> HIDE DEF val, bad, rate
<1>19. Reads(p, val, bad, rate)
  BY <1>4, <1>5, <1>6, <1>10, <1>13, <1>15 DEF Reads
<1> QED BY <1>14, <1>16, <1>17, <1>18, <1>19

(* A measurement keeps the table of connections, and every sum.            *)
LEMMA MeasureTable ==
  ASSUME TypeInv, NEW p \in Pids, Measure(p)
  PROVE  /\ TableOK' /\ \A q \in Pids : Sum(q)' = Sum(q)
         /\ \A m \in Metrics, q \in Pids : Total(m, q)' = Total(m, q)
<1>1. PICK rows \in SUBSET Conns :
        /\ conn' = [e \in Conns |-> IF e \in rows THEN [conn[e] EXCEPT !.on = TRUE] ELSE conn[e]]
        /\ \A e \in rows : conn[e].pid = p
  BY MeasureStep
<1>2. UNCHANGED <<alive, total, driver, moved>>
  BY MeasureStep
<1>3. conn \in [Conns -> [pid : Pids \cup {"none"}, on : BOOLEAN, bytes : 0 .. MaxUsed]]
  BY DEF TypeInv, TypeOK
<1>4. \A e \in Conns : /\ conn'[e].bytes = conn[e].bytes /\ conn'[e].pid = conn[e].pid
                       /\ conn'[e] \in [pid : Pids \cup {"none"}, on : BOOLEAN, bytes : 0 .. MaxUsed]
                       /\ conn'[e] = conn[e] \/ conn[e].pid = p
  BY <1>1, <1>3
<1>5. conn' \in [Conns -> [pid : Pids \cup {"none"}, on : BOOLEAN, bytes : 0 .. MaxUsed]]
  BY <1>1, <1>4
<1>6. AllOf(conn') = AllOf(conn) /\ \A q : SumOf(conn', q) = SumOf(conn, q)
  BY <1>4, ConnsStart
<1>7. \A q : Sum(q)' = Sum(q)
  BY <1>6, CountsAre
<1>8. p # "none"
  BY SamplingAssumption
<1>9. \A e \in Conns : conn'[e] = NoConn \/ conn'[e].pid \in alive'
  <2>1. \A e \in Conns : conn[e] = NoConn \/ conn[e].pid \in alive
    BY DEF TypeInv, TypeOK
  <2> QED BY <1>2, <1>4, <1>8, <2>1 DEF NoConn
<1>10. Cardinality(Counts(Conns))' <= moved' /\ \A e \in Conns : conn'[e].bytes <= moved'
  BY <1>2, <1>4, <1>6, CountsAre, Known
<1>11. \A m \in Metrics, q \in Pids : Total(m, q)' = Total(m, q)
  BY <1>2, <1>7 DEF Total, Shown
<1> QED BY <1>5, <1>7, <1>9, <1>10, <1>11 DEF TableOK

(* A measurement keeps the types.                                          *)
LEMMA TypeMeasure ==
  ASSUME TypeInv, NEW p \in Pids, Measure(p)
  PROVE  TypeInv'
<1> USE SamplingAssumption
<1>1. /\ p \in todo \cap active \cap alive /\ phase = "scan" /\ todo' = todo \ {p}
      /\ known' = known \cup {p} /\ causes' = [causes EXCEPT ![p] = {}]
      /\ used' = [m \in Metrics |-> [used[m] EXCEPT ![p] = 0]]
      /\ UNCHANGED <<alive, total, handle, driver, phase, active, moved, lives>>
  BY MeasureStep
<1>2. PICK val \in [Metrics -> Nat], bad \in [Metrics -> BOOLEAN], rate \in [Metrics -> Nat] :
        Reads(p, val, bad, rate)
  BY MeasureStep
<1>3. TableOK'
  BY MeasureTable
<1>4. /\ last \in [Metrics -> [Pids -> 0 .. MaxUsed + 2]] /\ used \in [Metrics -> [Pids -> 0 .. MaxUsed]]
      /\ causes \in [Pids -> SUBSET AllCauses] /\ spoilt \subseteq Metrics \X Pids
      /\ moved \in 0 .. MaxUsed
  BY DEF TypeInv, TypeOK, AllCauses
<1>5. last' \in [Metrics -> [Pids -> 0 .. MaxUsed + 2]]
  <2>1. \A m \in Metrics : val[m] \in 0 .. MaxUsed + 2
    <3>1. \A m \in Metrics : val[m] \in Nat /\ val[m] <= moved + 2
      BY <1>2 DEF Reads
    <3>2. MaxUsed \in Nat /\ moved \in Nat /\ moved <= MaxUsed
      BY <1>4
    <3> HIDE DEF TypeInv
    <3> QED BY <3>1, <3>2
  <2>2. last' = [m \in Metrics |-> [last[m] EXCEPT ![p] = val[m]]]
    BY <1>2 DEF Reads
  <2> QED BY <1>4, <2>1, <2>2
<1>6. spoilt' \subseteq Metrics \X Pids
  BY <1>2, <1>4 DEF Reads
<1>7. raised' \subseteq Metrics
  BY <1>2 DEF Reads
<1>8. /\ used' \in [Metrics -> [Pids -> 0 .. MaxUsed]]
      /\ \A m \in Metrics : \A q \in Pids : used'[m][q] = IF q = p THEN 0 ELSE used[m][q]
  BY <1>1, <1>4
<1>9. \A m \in Metrics : \A q \in Pids : used'[m][q] <= moved' /\ (used'[m][q] > 0 => q \in known')
  <2>1. \A m \in Metrics : \A q \in Pids : used[m][q] <= moved /\ (used[m][q] > 0 => q \in known)
    BY DEF TypeInv, TypeOK, BoundInv
  <2> QED BY <1>1, <1>4, <1>8, <2>1
<1>10. causes' \in [Pids -> SUBSET AllCauses]
  BY <1>1, <1>4
<1>11. TypeOK'
  BY <1>1, <1>3, <1>5, <1>6, <1>7, <1>8, <1>9, <1>10 DEF TypeInv, TypeOK, TableOK, AllCauses
<1>12. BoundInv'
  <2>1. \A q \in Pids : /\ driver'[q] <= moved' + 2
                        /\ \A m \in Own : total'[m][q] <= moved'
                        /\ \A m \in Metrics : used'[m][q] <= moved'
    BY <1>1, <1>9 DEF TypeInv, BoundInv
  <2> QED BY <1>3, <2>1 DEF BoundInv, TableOK
<1> QED BY <1>11, <1>12 DEF TypeInv

(* The types hold initially: nothing is counted yet.                       *)
LEMMA TypeInit == Init => TypeInv
<1> SUFFICES ASSUME Init PROVE TypeInv
  OBVIOUS
<1> USE SamplingAssumption
<1>1. Counts(Conns) = {}
  <2>1. conn = [c \in Conns |-> NoConn]
    BY DEF Init
  <2>2. \A c \in Conns : {c} \X (1 .. conn[c].bytes) = {}
    BY <2>1 DEF NoConn
  <2> QED BY <2>2 DEF Counts
<1>2. Cardinality(Counts(Conns)) <= moved
  BY <1>1, FS_EmptySet DEF Init
<1>3. BoundInv
  BY <1>2 DEF Init, BoundInv, NoConn, Metrics, Own
<1>4. TypeOK
  BY DEF Init, TypeOK, NoConn
<1> QED BY <1>3, <1>4 DEF TypeInv

(* Every step keeps the types.                                             *)
LEMMA TypeNext == TypeInv /\ [Next]_vars => TypeInv'
<1> SUFFICES ASSUME TypeInv, [Next]_vars PROVE TypeInv'
  OBVIOUS
<1>1. CASE UNCHANGED vars
  BY <1>1 DEF vars, system, sampler, history, TypeInv, TypeOK, BoundInv, Counts
<1>2. CASE Next
  BY <1>2, TypeSystem, TypeRun, TypeTraffic, TypeScan, TypeMeasure DEF Next
<1> QED BY <1>1, <1>2

(* The types, and that between two rounds the history holds only processes  *)
(* found in the last one.                                                  *)
THEOREM SamplingTypes == Spec => []TypeOK
<1>1. TypeInv => TypeOK
  BY DEF TypeInv
<1> QED BY <1>1, TypeInit, TypeNext, PTL DEF Spec

-----------------------------------------------------------------------------
(* What the totals say of what was used *)

(* Totals are numbers, and change only with what they are made of.         *)
LEMMA TotalsAre ==
  ASSUME TypeInv
  PROVE  /\ \A m \in Metrics, q \in Pids : Total(m, q) \in Nat
         /\ \A m \in Own, q \in Pids : Total(m, q) = total[m][q] /\ Total(m, q)' = total'[m][q]
         /\ \A q \in Pids : Total("net", q) = Shown(q) /\ Total("net", q)' = Shown(q)'
         /\ UNCHANGED <<total, driver, conn>> => \A m \in Metrics, q \in Pids : Total(m, q)' = Total(m, q)
<1>1. \A m \in Own, q \in Pids : Total(m, q) = total[m][q] /\ Total(m, q)' = total'[m][q]
  BY DEF Total
<1>2. \A q \in Pids : Total("net", q) = Shown(q) /\ Total("net", q)' = Shown(q)'
  BY DEF Total, Own
<1>3. \A q \in Pids : Shown(q) \in Nat
  BY Known DEF Shown
<1>4. \A m \in Metrics, q \in Pids : Total(m, q) \in Nat
  BY <1>1, <1>2, <1>3, Known DEF Metrics
<1>5. UNCHANGED <<total, driver, conn>> => \A m \in Metrics, q \in Pids : Total(m, q)' = Total(m, q)
  BY DEF Total, Shown, Sum, Counts, Rows
<1> QED BY <1>1, <1>2, <1>4, <1>5

(* The sums are numbers, now and after a step.                             *)
Numbers ==
  /\ \A m \in Metrics, q \in Pids : Total(m, q) \in Nat /\ used[m][q] \in Nat /\ last[m][q] \in Nat
  /\ \A q \in Pids : Sum(q) \in Nat /\ driver[q] \in Nat

(* The types say so.                                                       *)
LEMMA NumbersNow == TypeInv => Numbers
BY TotalsAre, Known DEF Numbers

(* The same of the next state.                                             *)
LEMMA NumbersNext == TypeInv' => Numbers'
BY NumbersNow, PTL

(* A pair stays fair when the total grows by what is used, or by less for a *)
(* cause.                                                                  *)
LEMMA FairStep ==
  ASSUME TypeInv, TypeInv', NEW p \in Pids, NEW m \in Metrics, Fair(p, m), NEW u \in Nat,
         last'[m][p] = last[m][p], <<m, p>> \in spoilt' <=> <<m, p>> \in spoilt,
         causes[p] \subseteq causes'[p], used'[m][p] = used[m][p] + u,
         Total(m, p)' \in Nat, Total(m, p)' <= Total(m, p) + u,
         Total(m, p)' >= Total(m, p) + u \/ causes'[p] \cap Causes(m) # {}
  PROVE  Fair(p, m)'
<1>1. Total(m, p) \in Nat /\ last[m][p] \in Nat /\ used[m][p] \in Nat
  BY TotalsAre, Known
<1>2. (m = "cpu" \/ <<m, p>> \notin spoilt) => Total(m, p)' <= last'[m][p] + used'[m][p]
  <2>1. (m = "cpu" \/ <<m, p>> \notin spoilt) => Total(m, p) <= last[m][p] + used[m][p]
    BY DEF Fair
  <2> QED BY <1>1, <2>1
<1>3. <<m, p>> \notin spoilt /\ causes'[p] \cap Causes(m) = {} => Total(m, p)' >= last'[m][p] + used'[m][p]
  <2>1. <<m, p>> \notin spoilt /\ causes[p] \cap Causes(m) = {} => Total(m, p) >= last[m][p] + used[m][p]
    BY DEF Fair
  <2>2. causes'[p] \cap Causes(m) = {} => causes[p] \cap Causes(m) = {} /\ Total(m, p)' >= Total(m, p) + u
    OBVIOUS
  <2> QED BY <1>1, <2>1, <2>2
<1> QED BY <1>2, <1>3 DEF Fair

(* Steps of a process or a connection that use nothing.                    *)
LEMMA RateSystem ==
  ASSUME TypeInv, TypeInv', RateInv,
         \/ \E p \in Pids : Born(p) \/ Die(p)
         \/ \E p \in Pids, c \in Conns : Connect(p, c)
         \/ \E c \in Conns : Disconnect(c)
  PROVE  RateInv'
<1> USE SamplingAssumption
<1>0. /\ causes \in [Pids -> SUBSET AllCauses] /\ known \subseteq Pids
      /\ total \in [Own -> [Pids -> 0 .. MaxUsed]]
      /\ conn \in Tables /\ moved \in Nat /\ \A c \in Conns : conn[c].bytes <= moved
  BY Known DEF TypeInv, TypeOK, AllCauses
<1>1. /\ \A m \in Metrics, q \in Pids : Total(m, q) \in Nat /\ Total(m, q)' \in Nat /\ used[m][q] \in Nat
      /\ \A q \in Pids : Sum(q) \in Nat /\ Sum(q)' \in Nat /\ driver[q] \in Nat
  BY NumbersNow, NumbersNext DEF Numbers
<1>2. ASSUME UNCHANGED <<known, last, used, spoilt>>, \A q \in Pids : causes[q] \subseteq causes'[q],
             \A m \in Metrics, q \in Pids :
               /\ Total(m, q)' <= Total(m, q)
               /\ Total(m, q)' >= Total(m, q) \/ causes'[q] \cap Causes(m) # {}
      PROVE  RateInv'
  <2> SUFFICES ASSUME NEW p \in known, NEW m \in Metrics PROVE Fair(p, m)'
    BY <1>2 DEF RateInv
  <2>1. p \in Pids /\ Fair(p, m)
    BY <1>0 DEF RateInv
  <2>2. used'[m][p] = used[m][p] + 0 /\ Total(m, p)' <= Total(m, p) + 0 /\ Total(m, p) + 0 = Total(m, p)
    BY <1>1, <1>2, <2>1
  <2> QED BY <1>1, <1>2, <2>1, <2>2, FairStep
<1>3. ASSUME NEW p \in Pids, NEW S, Because(p, S)
      PROVE  /\ \A q \in Pids : causes[q] \subseteq causes'[q]
             /\ S \subseteq causes'[p]
  BY <1>0, <1>3 DEF Because
<1>4. ASSUME UNCHANGED <<total, driver>>, \A q \in Pids : Sum(q)' <= Sum(q)
      PROVE  \A m \in Metrics, q \in Pids :
               /\ Total(m, q)' <= Total(m, q)
               /\ Total(m, q)' >= Total(m, q) \/ (m = "net" /\ Sum(q)' # Sum(q))
  <2> SUFFICES ASSUME NEW m \in Metrics, NEW q \in Pids
               PROVE  /\ Total(m, q)' <= Total(m, q)
                      /\ Total(m, q)' >= Total(m, q) \/ (m = "net" /\ Sum(q)' # Sum(q))
    OBVIOUS
  <2>1. CASE m \in Own
    BY <1>1, <1>4, <2>1, TotalsAre
  <2>2. CASE m = "net"
    <3>1. Total(m, q) = Shown(q) /\ Total(m, q)' = Shown(q)'
      BY <2>2, TotalsAre
    <3> QED BY <1>1, <1>4, <2>2, <3>1 DEF Shown
  <2> QED BY <2>1, <2>2 DEF Metrics
<1>5. "reborn" \in Causes("cpu") /\ "reborn" \in Causes("disk") /\ "closed" \in Causes("net") /\ "net" \in Metrics
  BY DEF Causes, Own, Metrics
<1>6. ASSUME NEW p \in Pids, Born(p) PROVE RateInv'
  <2>1. /\ total' = [m \in Own |-> [total[m] EXCEPT ![p] = 0]] /\ Because(p, {"reborn"})
        /\ UNCHANGED <<conn, handle, driver, sampler, used, spoilt, moved>>
    BY <1>6 DEF Born
  <2>2. "reborn" \in causes'[p] /\ \A q \in Pids : causes[q] \subseteq causes'[q]
    BY <1>3, <2>1
  <2>3. ASSUME NEW m \in Metrics, NEW q \in Pids
        PROVE  /\ Total(m, q)' <= Total(m, q)
               /\ Total(m, q)' >= Total(m, q) \/ causes'[q] \cap Causes(m) # {}
    <3>1. CASE m \in Own
      <4>1. Total(m, q) = total[m][q] /\ Total(m, q)' = IF q = p THEN 0 ELSE total[m][q]
        BY <1>0, <2>1, <3>1, TotalsAre
      <4>2. "reborn" \in Causes(m)
        BY <1>5, <3>1 DEF Own
      <4> QED BY <1>1, <2>2, <4>1, <4>2
    <3>2. CASE m = "net"
      <4>1. Total(m, q)' = Total(m, q)
        <5>1. Shown(q)' = Shown(q)
          BY <2>1 DEF Shown, Sum, Counts, Rows
        <5> QED BY <3>2, <5>1, TotalsAre
      <4> QED BY <1>1, <4>1
    <3> QED BY <3>1, <3>2 DEF Metrics
  <2> QED BY <1>2, <2>1, <2>2, <2>3 DEF sampler
<1>7. ASSUME NEW p \in Pids, Die(p) PROVE RateInv'
  <2>1. /\ conn' = [c \in Conns |-> IF conn[c].pid = p THEN NoConn ELSE conn[c]] /\ Because(p, {"closed"})
        /\ UNCHANGED <<total, handle, driver, sampler, used, spoilt, moved, lives>>
    BY <1>7 DEF Die
  <2>2. "closed" \in causes'[p] /\ \A q \in Pids : causes[q] \subseteq causes'[q]
    BY <1>3, <2>1
  <2>3. \A c \in Conns : conn'[c] = conn[c] \/ conn'[c] = NoConn
    BY <2>1
  <2>4. ASSUME NEW q \in Pids PROVE Sum(q)' <= Sum(q) /\ (q # p => Sum(q)' = Sum(q))
    <3>1. q # p => \A c \in RowsOf(conn, q) : conn'[c] = conn[c]
      BY <2>1 DEF RowsOf
    <3>2. SumOf(conn', q) <= SumOf(conn, q) /\ (q # p => SumOf(conn', q) = SumOf(conn, q))
      BY <1>0, <2>3, <3>1, ConnsEnd
    <3> QED BY <3>2, CountsAre
  <2>5. \A m \in Metrics, q \in Pids :
          /\ Total(m, q)' <= Total(m, q)
          /\ Total(m, q)' >= Total(m, q) \/ causes'[q] \cap Causes(m) # {}
    BY <1>4, <1>5, <2>1, <2>2, <2>4
  <2> QED BY <1>2, <2>1, <2>2, <2>5 DEF sampler
<1>8. ASSUME NEW p \in Pids, NEW c \in Conns, Connect(p, c) PROVE RateInv'
  <2>1. PICK on \in BOOLEAN : conn' = [conn EXCEPT ![c] = [pid |-> p, on |-> on, bytes |-> 0]]
    BY <1>8 DEF Connect
  <2>2. conn[c] = NoConn /\ UNCHANGED <<alive, total, handle, driver, sampler, history, moved, lives>>
    BY <1>8 DEF Connect
  <2>3. \A d \in Conns : conn'[d].bytes = conn[d].bytes /\ (conn'[d].pid = conn[d].pid \/ conn'[d].bytes = 0)
    BY <1>0, <2>1, <2>2 DEF Tables, NoConn
  <2>4. \A q \in Pids : Sum(q)' = Sum(q)
    BY <2>3, ConnsStart, CountsAre
  <2>5. \A m \in Metrics, q \in Pids : Total(m, q)' <= Total(m, q) /\ Total(m, q)' >= Total(m, q)
    BY <1>1, <1>4, <2>2, <2>4
  <2> QED BY <1>2, <2>2, <2>5 DEF sampler, history
<1>9. ASSUME NEW c \in Conns, Disconnect(c) PROVE RateInv'
  <2>1. /\ conn[c] # NoConn /\ conn' = [conn EXCEPT ![c] = NoConn]
        /\ Because(conn[c].pid, IF conn[c].bytes > 0 THEN {"closed"} ELSE {})
        /\ UNCHANGED <<alive, total, handle, driver, sampler, used, spoilt, moved, lives>>
    BY <1>9 DEF Disconnect
  <2>2. conn[c].pid \in Pids /\ conn[c].bytes \in Nat
    BY <2>1, Known DEF Tables
  <2>3. /\ conn[c].bytes > 0 => "closed" \in causes'[conn[c].pid]
        /\ \A q \in Pids : causes[q] \subseteq causes'[q]
    BY <1>3, <2>1, <2>2
  <2>4. \A d \in Conns : conn'[d] = conn[d] \/ conn'[d] = NoConn
    BY <1>0, <2>1 DEF Tables
  <2>5. ASSUME NEW q \in Pids
        PROVE  Sum(q)' <= Sum(q) /\ (Sum(q)' = Sum(q) \/ "closed" \in causes'[q])
    <3>1. "closed" \in causes'[q] \/ \A d \in RowsOf(conn, q) : conn'[d] = conn[d] \/ conn[d].bytes = 0
      <4>1. \A d \in Conns : d # c => conn'[d] = conn[d]
        BY <1>0, <2>1 DEF Tables
      <4>2. \A d \in RowsOf(conn, q) : d \in Conns /\ conn[d].pid = q
        BY DEF RowsOf
      <4>3. conn[c].bytes = 0 \/ conn[c].bytes > 0
        BY <2>2
      <4> QED BY <2>3, <4>1, <4>2, <4>3
    <3>2. /\ SumOf(conn', q) <= SumOf(conn, q)
          /\ (\A d \in RowsOf(conn, q) : conn'[d] = conn[d] \/ conn[d].bytes = 0)
               => SumOf(conn', q) = SumOf(conn, q)
      BY <1>0, <2>4, ConnsEnd
    <3> QED BY <3>1, <3>2, CountsAre
  <2>6. \A m \in Metrics, q \in Pids :
          /\ Total(m, q)' <= Total(m, q)
          /\ Total(m, q)' >= Total(m, q) \/ causes'[q] \cap Causes(m) # {}
    BY <1>4, <1>5, <2>1, <2>5
  <2> QED BY <1>2, <2>1, <2>3, <2>6 DEF sampler
<1> QED BY <1>6, <1>7, <1>8, <1>9

(* Use of the CPU and the disk.                                            *)
LEMMA RateRun ==
  ASSUME TypeInv, TypeInv', RateInv, NEW k \in Own, NEW q \in Pids, Run(k, q)
  PROVE  RateInv'
<1> SUFFICES ASSUME NEW p \in known', NEW m \in Metrics PROVE Fair(p, m)'
  BY DEF RateInv
<1>1. /\ Use(k, q) /\ total' = [total EXCEPT ![k] = [total[k] EXCEPT ![q] = total[k][q] + 1]]
      /\ UNCHANGED <<alive, conn, handle, driver, sampler, spoilt, causes, lives>>
  BY DEF Run
<1>2. p \in known /\ p \in Pids /\ Fair(p, m) /\ k \in Metrics /\ total \in [Own -> [Pids -> 0 .. MaxUsed]]
  BY <1>1 DEF RateInv, TypeInv, TypeOK, sampler, Metrics
<1>3. used'[m][p] = used[m][p] + IF m = k /\ p = q THEN 1 ELSE 0
  BY <1>1, <1>2, UseTypes
<1>4. Total(m, p) \in Nat /\ Total(m, p)' \in Nat
  BY <1>2, NumbersNow, NumbersNext DEF Numbers
<1>5. Total(m, p)' = Total(m, p) + IF m = k /\ p = q THEN 1 ELSE 0
  <2>1. CASE m \in Own
    <3>1. Total(m, p) = total[m][p] /\ Total(m, p)' = total'[m][p]
      BY <1>2, <2>1, TotalsAre
    <3>2. total[m][p] \in Nat
      BY <1>4, <3>1
    <3>3. total'[m][p] = IF m = k /\ p = q THEN total[m][p] + 1 ELSE total[m][p]
      BY <1>1, <1>2, <2>1
    <3> QED BY <3>1, <3>2, <3>3
  <2>2. CASE m = "net"
    <3>1. Shown(p)' = Shown(p)
      BY <1>1 DEF Shown, Sum, Counts, Rows
    <3>2. Total(m, p)' = Total(m, p) /\ m # k
      BY <1>2, <2>2, <3>1, TotalsAre DEF Own
    <3> QED BY <1>4, <3>2
  <2> QED BY <2>1, <2>2 DEF Metrics
<1>6. (IF m = k /\ p = q THEN 1 ELSE 0) \in Nat
  OBVIOUS
<1>7. /\ last'[m][p] = last[m][p] /\ (<<m, p>> \in spoilt' <=> <<m, p>> \in spoilt)
      /\ causes[p] \subseteq causes'[p]
  BY <1>1 DEF sampler
<1>8. Total(m, p)' <= Total(m, p) + (IF m = k /\ p = q THEN 1 ELSE 0) /\ Total(m, p)' >= Total(m, p) + (IF m = k /\ p = q THEN 1 ELSE 0)
  BY <1>4, <1>5
<1> QED BY <1>2, <1>3, <1>4, <1>6, <1>7, <1>8, FairStep

(* Use of the network: the driver's total grows, or the sum, or both, or    *)
(* there is a cause; it goes from the sum to 1 when the driver starts.      *)
LEMMA RateTraffic ==
  ASSUME TypeInv, TypeInv', RateInv, NEW q \in Pids, NEW c \in Conns \cup {"datagram"}, Traffic(q, c)
  PROVE  RateInv'
<1> SUFFICES ASSUME NEW p \in known', NEW m \in Metrics PROVE Fair(p, m)'
  BY DEF RateInv
<1>1. Use("net", q) /\ "net" \in Metrics /\ UNCHANGED <<alive, total, handle, sampler, spoilt, lives>>
  BY TrafficStep
<1>2. PICK seen \in {0, 1}, on \in BOOLEAN :
        /\ driver' = [driver EXCEPT ![q] = driver[q] + seen]
        /\ on => c \in Conns /\ conn[c].pid = q
        /\ conn' = IF on THEN [conn EXCEPT ![c] = [pid |-> q, on |-> TRUE, bytes |-> conn[c].bytes + 1]]
                         ELSE conn
        /\ Because(q, (IF seen = 1 \/ (driver[q] = 0 /\ on) THEN {} ELSE {"uncounted"})
                        \cup IF seen = 1 /\ driver[q] = 0 /\ Counted(q) THEN {"switched"} ELSE {})
  BY TrafficStep
<1>3. /\ p \in known /\ p \in Pids /\ Fair(p, m)
      /\ causes \in [Pids -> SUBSET AllCauses] /\ driver \in [Pids -> 0 .. MaxUsed + 2]
      /\ conn \in Tables /\ moved \in Nat /\ \A d \in Conns : conn[d].bytes <= moved
  BY <1>1, Known DEF RateInv, TypeInv, TypeOK, sampler, AllCauses
<1>4. used'[m][p] = used[m][p] + IF m = "net" /\ p = q THEN 1 ELSE 0
  BY <1>1, <1>3, UseTypes
<1>5. Total(m, p) \in Nat /\ Total(m, p)' \in Nat /\ Sum(p) \in Nat /\ driver[p] \in Nat
  BY <1>3, NumbersNow, NumbersNext DEF Numbers
<1>6. /\ last'[m][p] = last[m][p] /\ (<<m, p>> \in spoilt' <=> <<m, p>> \in spoilt)
      /\ causes[p] \subseteq causes'[p]
  BY <1>1, <1>2, <1>3 DEF sampler, Because
<1>7. Sum(p)' = Sum(p) + IF on /\ p = q THEN 1 ELSE 0
  <2>1. CASE ~on
    BY <1>2, <1>5, <2>1 DEF Sum, Counts, Rows
  <2>2. CASE on
    <3>1. c \in Conns /\ conn[c].pid = q /\ conn' = [conn EXCEPT ![c] = [pid |-> q, on |-> TRUE, bytes |-> conn[c].bytes + 1]]
      BY <1>2, <2>2
    <3>2. /\ conn'[c] = [pid |-> q, on |-> TRUE, bytes |-> conn[c].bytes + 1]
          /\ \A d \in Conns \ {c} : conn'[d] = conn[d]
      BY <1>3, <3>1 DEF Tables
    <3>3. conn'[c].bytes = conn[c].bytes + 1 /\ conn'[c].pid = conn[c].pid
      BY <3>1, <3>2
    <3>4. SumOf(conn', p) = SumOf(conn, p) + IF conn[c].pid = p THEN 1 ELSE 0
      <4>1. \A d \in Conns \ {c} : conn'[d] = conn[d]
        BY <3>2
      <4>2. conn \in Tables /\ moved \in Nat /\ c \in Conns /\ \A d \in Conns : conn[d].bytes <= moved
        BY <1>3, <3>1
      <4> QED BY <3>3, <4>1, <4>2, ConnsGrow
    <3> QED BY <2>2, <3>1, <3>4, CountsAre
  <2> QED BY <2>1, <2>2
<1>8. CASE m \in Own
  <2>1. Total(m, p)' = Total(m, p) /\ m # "net"
    BY <1>1, <1>3, <1>8, TotalsAre DEF Own
  <2>2. used'[m][p] = used[m][p] + 0
    BY <1>4, <2>1
  <2>3. Total(m, p)' <= Total(m, p) + 0 /\ Total(m, p)' >= Total(m, p) + 0
    BY <1>5, <2>1
  <2> QED BY <1>3, <1>5, <1>6, <2>2, <2>3, FairStep
<1>9. CASE m = "net" /\ p # q
  <2>1. Total(m, p)' = Total(m, p)
    <3>1. Shown(p)' = Shown(p)
      BY <1>2, <1>3, <1>5, <1>7, <1>9 DEF Shown
    <3> QED BY <1>3, <1>9, <3>1, TotalsAre
  <2>2. used'[m][p] = used[m][p] + 0
    BY <1>4, <1>9
  <2>3. Total(m, p)' <= Total(m, p) + 0 /\ Total(m, p)' >= Total(m, p) + 0
    BY <1>5, <2>1
  <2> QED BY <1>3, <1>5, <1>6, <2>2, <2>3, FairStep
<1>10. CASE m = "net" /\ p = q
  <2>1. used'[m][p] = used[m][p] + 1
    BY <1>4, <1>10
  <2>2. Total(m, p) = Shown(p) /\ Total(m, p)' = Shown(p)'
    BY <1>3, <1>10, TotalsAre
  <2>3. driver'[p] = driver[p] + seen /\ Shown(p) = (IF driver[p] > 0 THEN driver[p] ELSE Sum(p))
        /\ Shown(p)' = (IF driver'[p] > 0 THEN driver'[p] ELSE Sum(p)')
    BY <1>2, <1>3, <1>10 DEF Shown
  <2>4. Total(m, p)' <= Total(m, p) + 1
    BY <1>5, <1>7, <2>2, <2>3
  <2>5. Total(m, p)' >= Total(m, p) + 1 \/ causes'[p] \cap Causes(m) # {}
    <3>1. {"uncounted", "switched"} \subseteq Causes(m)
      BY <1>10 DEF Causes, Own
    <3>2. causes'[p] = causes[p] \cup ((IF seen = 1 \/ (driver[p] = 0 /\ on) THEN {} ELSE {"uncounted"})
                        \cup IF seen = 1 /\ driver[p] = 0 /\ Counted(p) THEN {"switched"} ELSE {})
      BY <1>2, <1>3, <1>10 DEF Because
    <3>3. CASE driver[p] > 0
      BY <1>2, <1>5, <2>2, <2>3, <3>1, <3>2, <3>3
    <3>4. CASE driver[p] = 0 /\ seen = 0
      BY <1>5, <1>7, <1>10, <2>2, <2>3, <3>1, <3>2, <3>4
    <3>5. CASE driver[p] = 0 /\ seen = 1 /\ Counted(p)
      BY <3>1, <3>2, <3>5
    <3>6. CASE driver[p] = 0 /\ seen = 1 /\ ~Counted(p)
      <4>1. \A d \in Rows(p) : conn[d].bytes = 0
        BY <1>3, <3>6 DEF Counted, Rows, Tables
      <4>2. Counts(Rows(p)) = {}
        BY <4>1 DEF Counts
      <4>3. Sum(p) = 0
        BY <4>2, FS_EmptySet DEF Sum
      <4> QED BY <2>2, <2>3, <3>6, <4>3
    <3> QED BY <1>2, <1>5, <3>3, <3>4, <3>5, <3>6
  <2> QED BY <1>3, <1>5, <1>6, <2>1, <2>4, <2>5, FairStep
<1> QED BY <1>8, <1>9, <1>10 DEF Metrics

(* A scan forgets the pids it did not find, and changes nothing else.      *)
LEMMA RateScan ==
  ASSUME TypeInv, TypeInv', RateInv, Open \/ Close \/ \E p \in Pids : Skip(p) \/ Visit(p) \/ NotMeasured(p)
  PROVE  RateInv'
<1>1. /\ known' \subseteq known /\ known \subseteq Pids /\ UNCHANGED <<system, last, spoilt, causes, moved>>
      /\ \A m \in Metrics, p \in known' : used'[m][p] = used[m][p]
  <2>1. CASE Close
    BY <2>1 DEF Close, TypeInv, TypeOK
  <2>2. CASE Open \/ \E p \in Pids : Skip(p) \/ Visit(p) \/ NotMeasured(p)
    BY <2>2 DEF Open, Skip, Visit, NotMeasured, history, TypeInv, TypeOK
  <2> QED BY <2>1, <2>2
<1>2. \A m \in Metrics, p \in Pids : Total(m, p)' = Total(m, p)
  BY <1>1, TotalsAre DEF system
<1> QED BY <1>1, <1>2 DEF RateInv, Fair

(* A measurement remembers the value read, which is the total unless the    *)
(* reading failed.                                                         *)
LEMMA RateMeasure ==
  ASSUME TypeInv, TypeInv', RateInv, NEW q \in Pids, Measure(q)
  PROVE  RateInv'
<1> SUFFICES ASSUME NEW p \in known', NEW m \in Metrics PROVE Fair(p, m)'
  BY DEF RateInv
<1>1. /\ known' = known \cup {q} /\ causes' = [causes EXCEPT ![q] = {}]
      /\ used' = [k \in Metrics |-> [used[k] EXCEPT ![q] = 0]]
  BY MeasureStep
<1>2. PICK val \in [Metrics -> Nat], bad \in [Metrics -> BOOLEAN], rate \in [Metrics -> Nat] :
        Reads(q, val, bad, rate)
  BY MeasureStep
<1>3. /\ known \subseteq Pids /\ causes \in [Pids -> SUBSET AllCauses]
      /\ used \in [Metrics -> [Pids -> 0 .. MaxUsed]] /\ last \in [Metrics -> [Pids -> 0 .. MaxUsed + 2]]
  BY DEF TypeInv, TypeOK, AllCauses
<1>4. p \in Pids
  BY <1>1, <1>3
<1>5. Total(m, p)' = Total(m, p) /\ Total(m, p) \in Nat
  BY <1>4, MeasureTable, TotalsAre
<1>6. last'[m] = [last[m] EXCEPT ![q] = val[m]] /\ last[m] \in [Pids -> 0 .. MaxUsed + 2]
  BY <1>2, <1>3 DEF Reads
<1>7. CASE p # q
  <2>1. last'[m][p] = last[m][p] /\ used'[m][p] = used[m][p] /\ causes'[p] = causes[p]
    BY <1>1, <1>3, <1>4, <1>6, <1>7
  <2>2. <<m, p>> \in spoilt' <=> <<m, p>> \in spoilt
    BY <1>2, <1>7 DEF Reads
  <2>3. Fair(p, m)
    BY <1>1, <1>7 DEF RateInv
  <2> QED BY <1>5, <2>1, <2>2, <2>3 DEF Fair
<1>8. CASE p = q
  <2>1. last'[m][p] = val[m] /\ used'[m][p] = 0 /\ val[m] \in Nat
    BY <1>1, <1>3, <1>4, <1>6, <1>8
  <2>2. <<m, p>> \in spoilt' <=> bad[m]
    BY <1>2, <1>8 DEF Reads
  <2>3. m = "cpu" \/ <<m, p>> \notin spoilt' => Total(m, p) = val[m]
    <3>1. m = "cpu" => Total(m, p) = val[m]
      BY <1>2, <1>4, <1>8, TotalsAre DEF Reads, Own
    <3>2. ~bad[m] => Total(m, p) = val[m]
      BY <1>2, <1>8 DEF Reads
    <3> QED BY <2>2, <3>1, <3>2
  <2> QED BY <1>5, <2>1, <2>3 DEF Fair
<1> QED BY <1>7, <1>8

(* Every step keeps what the totals say.                                   *)
LEMMA RateNext == TypeInv /\ RateInv /\ [Next]_vars => RateInv'
<1> SUFFICES ASSUME TypeInv, RateInv, [Next]_vars PROVE RateInv'
  OBVIOUS
<1>1. TypeInv'
  BY TypeNext
<1>2. CASE UNCHANGED vars
  <2>1. UNCHANGED <<total, driver, conn, known, last, spoilt, causes, used>>
    BY <1>2 DEF vars, system, sampler, history
  <2>2. \A m \in Metrics, p \in Pids : Total(m, p)' = Total(m, p)
    BY <2>1, TotalsAre
  <2>3. known \subseteq Pids
    BY DEF TypeInv, TypeOK
  <2> QED BY <2>1, <2>2, <2>3 DEF RateInv, Fair
<1>3. CASE Next
  BY <1>1, <1>3, RateSystem, RateRun, RateTraffic, RateScan, RateMeasure DEF Next
<1> QED BY <1>2, <1>3

(* Types and totals, of every reachable state.                             *)
LEMMA RatesHold == Spec => [](TypeInv /\ RateInv)
<1>1. Init => RateInv
  BY DEF Init, RateInv
<1>2. TypeInv /\ RateInv /\ [Next]_vars => TypeInv' /\ RateInv'
  BY TypeNext, RateNext
<1> QED BY <1>1, <1>2, TypeInit, PTL DEF Spec

-----------------------------------------------------------------------------
(* Alerts *)

(* Only a measurement of p takes p, once visited, off the list with an alert *)
(* or with its use accounted for.                                          *)
LEMMA OnlyMeasure ==
  ASSUME TypeInv, [Next]_vars, NEW p \in Pids, p \in todo \ todo',
         (p \in active /\ raised' # {}) \/ \E m \in Metrics : used[m][p] > 0 /\ used'[m][p] = 0
  PROVE  Measure(p)
<1>1. ~UNCHANGED todo
  OBVIOUS
<1>2. PICK q \in Pids : Skip(q) \/ NotMeasured(q) \/ Measure(q)
  <2>1. ~UNCHANGED vars /\ ~Open /\ ~Close /\ \A q \in Pids : ~Visit(q) /\ ~Born(q) /\ ~Die(q)
    BY <1>1 DEF vars, sampler, Close, Visit, Born, Die, Open, TypeInv, TypeOK
  <2>2. /\ \A q \in Pids : \A m \in Own : ~Run(m, q)
        /\ \A q \in Pids : \A c \in Conns : ~Connect(q, c)
        /\ \A c \in Conns : ~Disconnect(c)
        /\ \A q \in Pids : \A c \in Conns \cup {"datagram"} : ~Traffic(q, c)
    BY <1>1 DEF sampler, Run, Connect, Disconnect, Traffic
  <2> QED BY <2>1, <2>2 DEF Next
<1>3. p = q
  BY <1>2 DEF Skip, NotMeasured, Measure
<1>4. ~Skip(p)
  <2>1. ASSUME Skip(p) PROVE FALSE
    <3>1. p \notin active /\ UNCHANGED used
      BY <2>1 DEF Skip, history
    <3>2. \A m \in Metrics : used[m][p] \in Nat
      BY Known
    <3> QED BY <3>1, <3>2
  <2> QED BY <2>1
<1>5. ~NotMeasured(p)
  <2>1. ASSUME NotMeasured(p) PROVE FALSE
    <3>1. raised' = {} /\ UNCHANGED used
      BY <2>1 DEF NotMeasured, history
    <3>2. \A m \in Metrics : used[m][p] \in Nat
      BY Known
    <3> QED BY <3>1, <3>2
  <2> QED BY <2>1
<1> QED BY <1>2, <1>3, <1>4, <1>5

(* An alert for a process that stayed within its threshold comes from a     *)
(* reading that failed, now or the time before, and is not for the CPU:     *)
(* checkThresholds after getMetricsForPid, of both platforms.              *)
THEOREM FalseAlertsExplained == Spec => FalseAlertNeedsFailedRead
<1> DEFINE Step == \A p \in Pids, m \in Metrics :
             p \in todo \ todo' /\ p \in active /\ m \in raised' /\ used[m][p] <= Limit
               => m # "cpu" /\ <<m, p>> \in spoilt \cup spoilt'
<1>1. TypeInv /\ RateInv /\ [Next]_vars => [Step]_vars
  <2> SUFFICES ASSUME TypeInv, RateInv, [Next]_vars, NEW p \in Pids, NEW m \in Metrics,
                      p \in todo \ todo', p \in active, m \in raised', used[m][p] <= Limit
               PROVE  m # "cpu" /\ <<m, p>> \in spoilt \cup spoilt'
    OBVIOUS
  <2>1. Measure(p)
    BY OnlyMeasure
  <2>2. PICK val \in [Metrics -> Nat], bad \in [Metrics -> BOOLEAN], rate \in [Metrics -> Nat] :
          Reads(p, val, bad, rate)
    BY <2>1, MeasureStep
  <2>3. /\ rate[m] > Limit /\ rate[m] \in Nat /\ rate[m] <= Difference(p, m, val[m])
        /\ val[m] \in Nat /\ Limit \in Nat
    BY <2>2, SamplingAssumption DEF Reads
  <2>4. used[m][p] \in Nat /\ last[m][p] \in Nat /\ Total(m, p) \in Nat
    BY NumbersNow DEF Numbers
  <2>5. p \in known /\ val[m] > last[m][p] + used[m][p]
    BY <2>3, <2>4 DEF Difference, Rate
  <2>6. Fair(p, m)
    BY <2>5 DEF RateInv
  <2>7. bad[m] => <<m, p>> \in spoilt'
    BY <2>2 DEF Reads
  <2>8. ~bad[m] \/ m = "cpu" => val[m] = Total(m, p)
    <3>1. m = "cpu" => Total(m, p) = val[m]
      BY <2>2, TotalsAre DEF Reads, Own
    <3>2. ~bad[m] => Total(m, p) = val[m]
      BY <2>2 DEF Reads
    <3> QED BY <3>1, <3>2
  <2>9. m # "cpu"
    BY <2>4, <2>5, <2>6, <2>8 DEF Fair
  <2>10. <<m, p>> \in spoilt \/ bad[m]
    BY <2>4, <2>5, <2>6, <2>8 DEF Fair
  <2> QED BY <2>7, <2>9, <2>10
<1> QED BY <1>1, RatesHold, PTL DEF Spec, FalseAlertNeedsFailedRead

(* A process that exceeded its threshold raises the alert, unless a reading *)
(* failed or the totals lost what it used.                                 *)
THEOREM MissedAlertsExplained == Spec => MissedAlertHasCause
<1> DEFINE Step == \A p \in Pids, m \in Metrics :
             Limit > 0 /\ p \in todo \ todo' /\ p \in known /\ used[m][p] > Limit /\ used'[m][p] = 0
               => m \in raised' \/ <<m, p>> \in spoilt \cup spoilt' \/ causes[p] \cap Causes(m) # {}
<1>1. TypeInv /\ RateInv /\ [Next]_vars => [Step]_vars
  <2> SUFFICES ASSUME TypeInv, RateInv, [Next]_vars, NEW p \in Pids, NEW m \in Metrics,
                      Limit > 0, p \in todo \ todo', p \in known, used[m][p] > Limit, used'[m][p] = 0,
                      <<m, p>> \notin spoilt \cup spoilt', causes[p] \cap Causes(m) = {}
               PROVE  m \in raised'
    OBVIOUS
  <2>1. used[m][p] \in Nat /\ last[m][p] \in Nat /\ Total(m, p) \in Nat /\ Limit \in Nat
    BY NumbersNow, SamplingAssumption DEF Numbers
  <2>2. Measure(p)
    <3>1. used[m][p] > 0
      BY <2>1
    <3> QED BY <3>1, OnlyMeasure
  <2>3. PICK val \in [Metrics -> Nat], bad \in [Metrics -> BOOLEAN], rate \in [Metrics -> Nat] :
          Reads(p, val, bad, rate)
    BY <2>2, MeasureStep
  <2>4. ~bad[m]
    BY <2>3 DEF Reads
  <2>5. val[m] = Total(m, p) /\ rate[m] = Difference(p, m, val[m])
    BY <2>3, <2>4 DEF Reads
  <2>6. Total(m, p) >= last[m][p] + used[m][p]
    BY DEF RateInv, Fair
  <2>7. rate[m] > Limit
    BY <2>1, <2>5, <2>6 DEF Difference, Rate
  <2> QED BY <2>3, <2>7 DEF Reads
<1> QED BY <1>1, RatesHold, PTL DEF Spec, MissedAlertHasCause
=============================================================================
