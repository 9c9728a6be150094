-------------------------- MODULE ConfigSyncProofs --------------------------
(***************************************************************************)
(* Theorems about ConfigSync: its type invariant, when the server's         *)
(* configuration is stale, that a running agent never goes back, and that   *)
(* the whole implements ConfigRegister.  Each takes an inductive invariant, *)
(* of which the later ones use the earlier.                                 *)
(***************************************************************************)
EXTENDS ConfigSync, SequenceTheorems, TLAPS

-----------------------------------------------------------------------------
(* The inductive invariants *)

(* An edit moves the file's time at most twice, the first at least once; a  *)
(* file that is half written has one move left.                             *)
FileOK ==
  /\ file.whole => file.edit > 0
  /\ file.edit > 0 <=> file.time > 0
  /\ file.time <= 2 * file.edit
  /\ file.edit > 0 /\ ~file.whole => file.time < 2 * file.edit

TypeInv == TypeOK /\ FileOK

(* What the server has stamped is what it has read, or it has raced.        *)
FreshInv ==
  /\ spc \in {"load", "stamp"} => seen = 0
  /\ spc \in {"loop", "read"} /\ seen = file.time => current = file.edit \/ raced

(* Configurations w on their way, in the order of their edits, to an agent  *)
(* that has m and stores s, from a server that has c.                       *)
InOrder(w, m, s, c) ==
  /\ \A i \in 1 .. Len(w) : m <= w[i] /\ s <= w[i] /\ (c # 0 => w[i] <= c)
  /\ \A i, j \in 1 .. Len(w) : i <= j => w[i] <= w[j]

(* Nothing the agent has, or is about to get, is newer than what the server *)
(* has, as soon as it has anything.                                         *)
OrderInv ==
  /\ current # 0 => mem <= current /\ stored <= current
  /\ InOrder(wire, mem, stored, current)

-----------------------------------------------------------------------------
(* Lemmas on the wire *)

(* What has arrived of a wire is a wire in order.                           *)
LEMMA PrefixInOrder ==
  ASSUME NEW S, NEW w \in Seq(S), NEW k \in 0 .. Len(w),
         NEW m, NEW s, NEW c, InOrder(w, m, s, c)
  PROVE  SubSeq(w, 1, k) \in Seq(S) /\ InOrder(SubSeq(w, 1, k), m, s, c)
<1>1. Len(w) \in Nat /\ \A i \in 1 .. k : i \in 1 .. Len(w) /\ w[i] \in S
  BY LenProperties
<1>2. /\ SubSeq(w, 1, k) \in Seq(S) /\ Len(SubSeq(w, 1, k)) = k
      /\ \A i \in 1 .. k : SubSeq(w, 1, k)[i] = w[i]
  <2>1. CASE k = 0
    BY <1>1, <2>1
  <2>2. CASE k # 0
    BY <1>1, <2>2
  <2> QED BY <2>1, <2>2
<1>3. \A i, j \in 1 .. Len(w) : i <= j => w[i] <= w[j]
  BY DEF InOrder
<1>4. \A i \in 1 .. Len(w) : m <= w[i] /\ s <= w[i] /\ (c # 0 => w[i] <= c)
  BY DEF InOrder
<1> QED BY <1>1, <1>2, <1>3, <1>4 DEF InOrder

(* Taking the first configuration off a wire and running with it leaves the *)
(* wire in order.                                                           *)
LEMMA TailInOrder ==
  ASSUME NEW w \in Seq(Nat), w # <<>>, NEW m, NEW s, NEW c, InOrder(w, m, s, c)
  PROVE  /\ Head(w) = w[1] /\ 1 \in 1 .. Len(w) /\ Head(w) \in Nat
         /\ InOrder(Tail(w), Head(w), s, c) /\ InOrder(Tail(w), m, s, c)
<1>1. /\ Head(w) = w[1] /\ Head(w) \in Nat
      /\ Len(w) \in Nat \ {0} /\ Len(Tail(w)) = Len(w) - 1
      /\ \A i \in 1 .. Len(Tail(w)) : Tail(w)[i] = w[i + 1]
  BY HeadTailProperties, EmptySeq
<1>2. \A i \in 1 .. Len(Tail(w)) : i + 1 \in 1 .. Len(w)
  BY <1>1
<1>3. 1 \in 1 .. Len(w)
  BY <1>1
<1>4. \A i \in 1 .. Len(w) : w[1] <= w[i]
  BY <1>1, <1>3 DEF InOrder
<1>5. InOrder(Tail(w), m, s, c)
  BY <1>1, <1>2 DEF InOrder
<1>6. InOrder(Tail(w), Head(w), s, c)
  BY <1>1, <1>2, <1>4, <1>5 DEF InOrder
<1> QED BY <1>1, <1>3, <1>5, <1>6

(* A new edit at the end of a wire, when nothing before it is newer.        *)
LEMMA AppendInOrder ==
  ASSUME NEW w \in Seq(Nat), NEW m \in Nat, NEW s \in Nat, NEW c \in Nat, NEW n \in Nat,
         InOrder(w, m, s, c), \A i \in 1 .. Len(w) : w[i] <= n, m <= n, s <= n
  PROVE  InOrder(Append(w, n), m, s, n) /\ InOrder(w, m, s, n)
<1>1. /\ Len(w) \in Nat /\ Len(Append(w, n)) = Len(w) + 1
      /\ \A i \in 1 .. Len(w) : Append(w, n)[i] = w[i] /\ w[i] \in Nat
      /\ Append(w, n)[Len(w) + 1] = n
  BY AppendProperties, LenProperties
<1>2. InOrder(w, m, s, n)
  BY DEF InOrder
<1>3. \A i \in 1 .. Len(w) + 1 : i \in 1 .. Len(w) \/ i = Len(w) + 1
  BY <1>1
<1>4. \A i \in 1 .. Len(Append(w, n)) : m <= Append(w, n)[i] /\ s <= Append(w, n)[i] /\ Append(w, n)[i] <= n
  BY <1>1, <1>2, <1>3 DEF InOrder
<1>5. ASSUME NEW i \in 1 .. Len(Append(w, n)), NEW j \in 1 .. Len(Append(w, n)), i <= j
      PROVE  Append(w, n)[i] <= Append(w, n)[j]
  <2>1. CASE j \in 1 .. Len(w)
    <3>1. i \in 1 .. Len(w)
      BY <1>1, <2>1, <1>5
    <3> QED BY <1>1, <2>1, <3>1, <1>5 DEF InOrder
  <2>2. CASE j = Len(w) + 1
    BY <1>1, <1>4, <2>2
  <2> QED BY <1>1, <1>3, <2>1, <2>2
<1> QED BY <1>2, <1>4, <1>5 DEF InOrder

-----------------------------------------------------------------------------
(* Types *)

(* The sequence operations the steps apply to the wire.                    *)
LEMMA WireOps ==
  ASSUME NEW S, NEW w \in Seq(S)
  PROVE  /\ <<>> \in Seq(S)
         /\ \A n \in S : Append(w, n) \in Seq(S) /\ <<n>> \in Seq(S)
         /\ \A k \in 0 .. Len(w) : SubSeq(w, 1, k) \in Seq(S)
         /\ w # <<>> => /\ Head(w) \in S /\ Tail(w) \in Seq(S)
                        /\ Head(w) = w[1] /\ 1 \in 1 .. Len(w)
<1>1. Len(w) \in Nat /\ \A i \in 1 .. Len(w) : w[i] \in S
  BY LenProperties
<1>2. ASSUME NEW k \in 0 .. Len(w) PROVE SubSeq(w, 1, k) \in Seq(S)
  <2>1. k \in Int /\ \A i \in 1 .. k : w[i] \in S
    BY <1>1
  <2> QED BY <2>1, SubSeqProperties
<1>3. \A n \in S : Append(w, n) \in Seq(S) /\ <<n>> \in Seq(S)
  BY AppendProperties
<1>4. w # <<>> => Head(w) \in S /\ Tail(w) \in Seq(S) /\ Head(w) = w[1] /\ 1 \in 1 .. Len(w)
  BY <1>1, HeadTailProperties, EmptySeq
<1> QED BY <1>2, <1>3, <1>4, EmptySeq

(* A wire of old edits is one of old and new edits.                        *)
LEMMA WireGrows ==
  ASSUME NEW m \in Nat, NEW n \in Nat, m <= n, NEW w \in Seq(1 .. m)
  PROVE  w \in Seq(1 .. n)
<1>1. 1 .. m \subseteq 1 .. n
  OBVIOUS
<1>2. Len(w) \in Nat /\ w \in [1 .. Len(w) -> 1 .. m]
  BY LenProperties
<1>3. w \in [1 .. Len(w) -> 1 .. n]
  BY <1>1, <1>2
<1> QED BY <1>2, <1>3

(* The initial states are typed.                                           *)
LEMMA TypeInit == Init => TypeInv
<1> SUFFICES ASSUME Init PROVE TypeInv
  OBVIOUS
<1>1. file \in [edit : 0 .. MaxEdits, whole : BOOLEAN, time : 0 .. 2 * MaxEdits] /\ FileOK
  <2>1. CASE file = [edit |-> 0, whole |-> FALSE, time |-> 0]
    BY <2>1, EditsAssumption DEF FileOK
  <2>2. CASE file \in {[edit |-> n, whole |-> TRUE, time |-> n] : n \in Edits \cap {1}}
    <3>1. 1 \in 1 .. MaxEdits /\ file = [edit |-> 1, whole |-> TRUE, time |-> 1]
      BY <2>2 DEF Edits
    <3> QED BY <3>1, EditsAssumption DEF FileOK
  <2> QED BY <2>1, <2>2 DEF Init
<1>2. file.edit \in Nat /\ file.time \in Nat
  BY <1>1
<1>3. 0 \in (0 .. file.edit) \ Unusable /\ 0 \in 0 .. file.edit /\ 0 \in 0 .. file.time
  BY <1>2, EditsAssumption
<1>4. wire \in Seq(1 .. file.edit)
  BY EmptySeq DEF Init
<1>5. faults \in 0 .. MaxFaults
  BY EditsAssumption DEF Init
<1> QED BY <1>1, <1>3, <1>4, <1>5 DEF Init, TypeInv, TypeOK

(* Every step keeps the types.                                             *)
LEMMA TypeNext == TypeInv /\ [Next]_vars => TypeInv'
<1> SUFFICES ASSUME TypeInv, [Next]_vars PROVE TypeInv'
  OBVIOUS
<1> USE EditsAssumption DEF serverVars, linkVars, agentVars
<1>0. /\ TypeOK /\ FileOK
      /\ file = [edit |-> file.edit, whole |-> file.whole, time |-> file.time]
      /\ file.edit \in Nat /\ file.time \in Nat /\ file.edit <= MaxEdits
      /\ file.whole \in BOOLEAN
  BY DEF TypeInv, TypeOK
<1>1. CASE Truncate
  <2>1. wire \in Seq(1 .. file.edit + 1)
    BY <1>0, WireGrows DEF TypeOK
  <2> QED BY <1>0, <1>1, <2>1 DEF Truncate, Save, Ticks, TypeInv, TypeOK, FileOK
<1>2. CASE Write
  BY <1>0, <1>2 DEF Write, Ticks, TypeInv, TypeOK, FileOK
<1>3. CASE Rename
  <2>1. wire \in Seq(1 .. file.edit + 1)
    BY <1>0, WireGrows DEF TypeOK
  <2> QED BY <1>0, <1>3, <2>1 DEF Rename, Save, Ticks, TypeInv, TypeOK, FileOK
<1>4. CASE LoadRead
  BY <1>0, <1>4 DEF LoadRead, TypeInv, TypeOK, FileOK
<1>5. CASE LoadTime
  BY <1>0, <1>5 DEF LoadTime, TypeInv, TypeOK, FileOK
<1>6. CASE PollSame
  BY <1>0, <1>6 DEF PollSame, TypeInv, TypeOK, FileOK, vars
<1>7. CASE PollChanged
  BY <1>0, <1>7 DEF PollChanged, TypeInv, TypeOK, FileOK
<1>8. CASE ReloadRead
  <2>1. CASE file.whole
    <3>1. file.edit \in 1 .. file.edit
      BY <1>0, <2>1 DEF FileOK
    <3>2. wire \in Seq(1 .. file.edit) /\ Append(wire, file.edit) \in Seq(1 .. file.edit)
      BY <1>0, <3>1, WireOps DEF TypeOK
    <3>3. wire' \in {wire, Append(wire, file.edit)}
      BY <1>8, <2>1 DEF ReloadRead, Pushed
    <3>4. wire' \in Seq(1 .. file.edit)
      BY <3>2, <3>3
    <3>5. current' \in 0 .. file.edit /\ seen' \in 0 .. file.time
      BY <1>0, <1>8, <2>1 DEF ReloadRead, TypeOK
    <3> QED BY <1>0, <1>8, <2>1, <3>4, <3>5 DEF ReloadRead, TypeInv, TypeOK, FileOK
  <2>2. CASE ~file.whole
    BY <1>0, <1>8, <2>2 DEF ReloadRead, TypeInv, TypeOK, FileOK
  <2> QED BY <2>1, <2>2
<1>9. CASE Accept
  <2>1. wire' \in Seq(1 .. file.edit)
    <3>1. current = 0 \/ current \in 1 .. file.edit
      BY <1>0 DEF TypeOK
    <3>2. wire' = <<>> \/ (current # 0 /\ wire' = <<current>>)
      BY <1>9 DEF Accept, Greeting
    <3>3. wire \in Seq(1 .. file.edit)
      BY <1>0 DEF TypeOK
    <3> QED BY <3>1, <3>2, <3>3, WireOps
  <2> QED BY <1>0, <1>9, <2>1 DEF Accept, TypeInv, TypeOK, FileOK
<1>10. CASE ServerNotices
  BY <1>0, <1>10 DEF ServerNotices, TypeInv, TypeOK, FileOK
<1>11. CASE Connect
  BY <1>0, <1>11 DEF Connect, TypeInv, TypeOK, FileOK
<1>12. CASE AgentNotices
  BY <1>0, <1>12 DEF AgentNotices, TypeInv, TypeOK, FileOK
<1>13. CASE Receive
  <2>1. Head(wire) \in 1 .. file.edit /\ Tail(wire) \in Seq(1 .. file.edit)
    BY <1>0, <1>13, WireOps DEF Receive, TypeOK
  <2> QED BY <1>0, <1>13, <2>1 DEF Receive, Converts, TypeInv, TypeOK, FileOK
<1>14. CASE SaveOpen
  <2>1. faults' \in 0 .. MaxFaults
    BY <1>0, <1>14 DEF SaveOpen, Fault, TypeOK
  <2>2. 0 \in (0 .. file.edit) \ Unusable
    BY <1>0
  <2> QED BY <1>0, <1>14, <2>1, <2>2 DEF SaveOpen, TypeInv, TypeOK, FileOK
<1>15. CASE SaveWrite
  <2>1. faults' \in 0 .. MaxFaults
    BY <1>0, <1>15 DEF SaveWrite, Fault, TypeOK
  <2> QED BY <1>0, <1>15, <2>1 DEF SaveWrite, TypeInv, TypeOK, FileOK
<1>16. CASE SaveSet
  <2>1. faults' \in 0 .. MaxFaults
    BY <1>0, <1>16 DEF SaveSet, Fault, TypeOK
  <2> QED BY <1>0, <1>16, <2>1 DEF SaveSet, TypeInv, TypeOK, FileOK
<1>17. ASSUME wire' \in Arrived PROVE wire' \in Seq(1 .. file.edit)
  <2>1. PICK k \in 0 .. Len(wire) : wire' = SubSeq(wire, 1, k)
    BY <1>17 DEF Arrived
  <2>2. wire \in Seq(1 .. file.edit)
    BY <1>0 DEF TypeOK
  <2> QED BY <2>1, <2>2, WireOps
<1>18. CASE Break
  <2>1. faults' \in 0 .. MaxFaults
    BY <1>0, <1>18 DEF Break, Fault, TypeOK
  <2>2. wire' \in Seq(1 .. file.edit)
    BY <1>18, <1>17 DEF Break
  <2> QED BY <1>0, <1>18, <2>1, <2>2 DEF Break, TypeInv, TypeOK, FileOK
<1>19. CASE ServerCrash
  <2>1. faults' \in 0 .. MaxFaults
    BY <1>0, <1>19 DEF ServerCrash, Fault, TypeOK
  <2>2. wire' \in Seq(1 .. file.edit)
    BY <1>19, <1>17 DEF ServerCrash
  <2> QED BY <1>0, <1>19, <2>1, <2>2 DEF ServerCrash, TypeInv, TypeOK, FileOK
<1>20. CASE ServerStart
  <2>1. 0 \in 0 .. file.edit /\ 0 \in 0 .. file.time
    BY <1>0
  <2> QED BY <1>0, <1>20, <2>1 DEF ServerStart, TypeInv, TypeOK, FileOK
<1>21. CASE AgentCrash
  <2>1. faults' \in 0 .. MaxFaults
    BY <1>0, <1>21 DEF AgentCrash, Fault, TypeOK
  <2> QED BY <1>0, <1>21, <2>1 DEF AgentCrash, TypeInv, TypeOK, FileOK
<1>22. CASE AgentStart
  <2>1. faults' \in 0 .. MaxFaults
    BY <1>0, <1>22 DEF AgentStart, LoadConfig, Fault, TypeOK
  <2>2. 0 \in (0 .. file.edit) \ Unusable
    BY <1>0
  <2> QED BY <1>0, <1>22, <2>1, <2>2 DEF AgentStart, LoadConfig, TypeInv, TypeOK, FileOK
<1>23. CASE UNCHANGED vars
  BY <1>0, <1>23 DEF vars, TypeInv, TypeOK, FileOK
<1> QED BY <1>1, <1>2, <1>3, <1>4, <1>5, <1>6, <1>7, <1>8, <1>9, <1>10, <1>11, <1>12, <1>13,
           <1>14, <1>15, <1>16, <1>18, <1>19, <1>20, <1>21, <1>22, <1>23
       DEF Next, Editor, ServerStep, AgentStep, Faults

(* So every state is typed.                                                *)
LEMMA TypeAlways == Spec => []TypeInv
<1> QED BY TypeInit, TypeNext, PTL DEF Spec

(* Every variable keeps its type, and only a configuration is ever sent.   *)
THEOREM ConfigTypes == Spec => []TypeOK
<1>1. TypeInv => TypeOK
  BY DEF TypeInv
<1> QED BY <1>1, TypeAlways, PTL

-----------------------------------------------------------------------------
(* What the server holds *)

(* Only an edit that shares the time the server has stamped makes it stale. *)
LEMMA FreshNext == TypeInv /\ FreshInv /\ [Next]_vars => FreshInv'
<1> SUFFICES ASSUME TypeInv, FreshInv, [Next]_vars PROVE FreshInv'
  OBVIOUS
<1> USE DEF serverVars, linkVars, agentVars, FreshInv
<1>0. /\ file = [edit |-> file.edit, whole |-> file.whole, time |-> file.time]
      /\ file.edit \in Nat /\ file.time \in Nat /\ (file.edit > 0 <=> file.time > 0)
      /\ current \in 0 .. file.edit /\ seen \in 0 .. file.time /\ tried \in 0 .. file.time
  BY DEF TypeInv, TypeOK, FileOK
<1>1. ASSUME NEW w, Save(w) PROVE FreshInv'
  <2>1. PICK t \in Ticks : /\ file' = [edit |-> file.edit + 1, whole |-> w, time |-> t]
                           /\ raced' = (raced \/ t = seen)
    BY <1>1 DEF Save
  <2>2. file'.time = t /\ (t = seen => raced')
    BY <2>1
  <2>3. UNCHANGED <<spc, seen>>
    BY <1>1 DEF Save
  <2> QED BY <2>2, <2>3
<1>2. CASE Write
  BY <1>0, <1>2 DEF Write, Ticks
<1>3. CASE Truncate \/ Rename
  BY <1>1, <1>3 DEF Truncate, Rename
<1>4. CASE LoadRead
  BY <1>0, <1>4 DEF LoadRead
<1>5. CASE LoadTime
  BY <1>0, <1>5 DEF LoadTime
<1>6. CASE PollSame \/ UNCHANGED vars
  BY <1>0, <1>6 DEF PollSame, vars
<1>7. CASE PollChanged
  BY <1>0, <1>7 DEF PollChanged
<1>8. CASE ReloadRead
  BY <1>0, <1>8 DEF ReloadRead
<1>9. CASE Accept \/ ServerNotices
  BY <1>9 DEF Accept, ServerNotices
<1>10. CASE AgentStep
  BY <1>10 DEF AgentStep, Connect, AgentNotices, Receive, SaveOpen, SaveWrite, SaveSet
<1>11. CASE Faults
  BY <1>11 DEF Faults, Break, ServerCrash, ServerStart, AgentCrash, AgentStart
<1> QED BY <1>2, <1>3, <1>4, <1>5, <1>6, <1>7, <1>8, <1>9, <1>10, <1>11
       DEF Next, Editor, ServerStep

(* A server that has seen the last time of the file holds its contents,     *)
(* unless an edit fell between reading and stamping when it started.        *)
THEOREM StalenessIsExplained == Spec => []StaleOnlyByRace
<1>1. Init /\ TypeInv => FreshInv
  BY DEF Init, FreshInv
<1>2. FreshInv => StaleOnlyByRace
  BY DEF FreshInv, StaleOnlyByRace
<1> QED BY <1>1, <1>2, FreshNext, TypeAlways, PTL DEF Spec

-----------------------------------------------------------------------------
(* The order of the configurations *)

(* Every step keeps what is on its way in order, newer than what the agent  *)
(* has and no newer than what the server has.                               *)
LEMMA OrderNext == TypeInv /\ OrderInv /\ [Next]_vars => OrderInv'
<1> SUFFICES ASSUME TypeInv, OrderInv, [Next]_vars PROVE OrderInv'
  OBVIOUS
<1> USE DEF serverVars, linkVars, agentVars
<1>0. /\ file.edit \in Nat /\ current \in Nat /\ mem \in Nat /\ stored \in Nat
      /\ current <= file.edit /\ mem <= file.edit /\ stored <= file.edit
      /\ wire \in Seq(1 .. file.edit) /\ wire \in Seq(Nat)
      /\ \A i \in 1 .. Len(wire) : wire[i] <= file.edit
  <2>1. wire \in Seq(1 .. file.edit) /\ file.edit \in Nat
    BY DEF TypeInv, TypeOK
  <2>2. 1 .. file.edit \subseteq Nat
    BY <2>1
  <2>3. \A i \in 1 .. Len(wire) : wire[i] \in 1 .. file.edit
    BY <2>1, LenProperties
  <2>4. wire \in Seq(Nat)
    BY <2>1, <2>2
  <2> QED BY <2>1, <2>3, <2>4 DEF TypeInv, TypeOK
<1>o. /\ current # 0 => mem <= current /\ stored <= current
      /\ InOrder(wire, mem, stored, current)
  BY DEF OrderInv
<1>1. CASE Editor
  BY <1>o, <1>1 DEF Editor, Truncate, Write, Rename, Save, OrderInv
<1>2. CASE LoadTime \/ PollSame \/ PollChanged \/ ServerNotices \/ UNCHANGED vars
  BY <1>o, <1>2 DEF LoadTime, PollSame, PollChanged, ServerNotices, vars, OrderInv
<1>3. ASSUME current' = file.edit PROVE OrderInv' \/ wire' \notin {wire, Append(wire, file.edit)}
                                          \/ mem' # mem \/ stored' # stored
  <2>1. InOrder(Append(wire, file.edit), mem, stored, file.edit) /\ InOrder(wire, mem, stored, file.edit)
    BY <1>0, <1>o, AppendInOrder
  <2> QED BY <1>0, <1>3, <2>1 DEF OrderInv
<1>4. CASE LoadRead
  <2>1. CASE file.whole
    BY <1>3, <1>4, <2>1 DEF LoadRead
  <2>2. CASE ~file.whole
    BY <1>o, <1>4, <2>2 DEF LoadRead, OrderInv
  <2> QED BY <2>1, <2>2
<1>5. CASE ReloadRead
  <2>1. CASE file.whole
    BY <1>3, <1>5, <2>1 DEF ReloadRead, Pushed
  <2>2. CASE ~file.whole
    BY <1>o, <1>5, <2>2 DEF ReloadRead, OrderInv
  <2> QED BY <2>1, <2>2
<1>6. CASE Accept
  <2>1. InOrder(<<>>, mem, stored, current)
    BY DEF InOrder
  <2>2. current # 0 => InOrder(<<current>>, mem, stored, current)
    BY <1>0, <1>o DEF InOrder
  <2> QED BY <1>o, <1>6, <2>1, <2>2 DEF Accept, Greeting, OrderInv
<1>7. CASE Connect
  BY <1>o, <1>7 DEF Connect, OrderInv
<1>8. CASE AgentNotices \/ AgentCrash
  <2>1. InOrder(<<>>, mem, stored, current)
    BY DEF InOrder
  <2> QED BY <1>o, <1>8, <2>1 DEF AgentNotices, AgentCrash, OrderInv
<1>9. CASE Receive
  <2>1. /\ Head(wire) = wire[1] /\ 1 \in 1 .. Len(wire) /\ Head(wire) \in Nat
        /\ InOrder(Tail(wire), Head(wire), stored, current)
        /\ InOrder(Tail(wire), mem, stored, current)
    BY <1>0, <1>o, <1>9, TailInOrder DEF Receive
  <2>2. current # 0 => Head(wire) <= current
    BY <1>o, <2>1 DEF InOrder
  <2> QED BY <1>o, <1>9, <2>1, <2>2 DEF Receive, Converts, OrderInv
<1>10. ASSUME UNCHANGED <<current, mem, wire>>, stored' \in {stored, mem, 0} PROVE OrderInv'
  <2>1. InOrder(wire, mem, stored', current)
    BY <1>0, <1>o, <1>10 DEF InOrder
  <2> QED BY <1>0, <1>o, <1>10, <2>1 DEF OrderInv
<1>11. CASE SaveOpen \/ SaveWrite \/ SaveSet
  BY <1>10, <1>11 DEF SaveOpen, SaveWrite, SaveSet
<1>12. CASE Break \/ ServerCrash
  <2>1. PICK k \in 0 .. Len(wire) : wire' = SubSeq(wire, 1, k)
    BY <1>12 DEF Break, ServerCrash, Arrived
  <2>2. InOrder(wire', mem, stored, current)
    BY <1>0, <1>o, <2>1, PrefixInOrder
  <2> QED BY <1>o, <1>12, <2>2 DEF Break, ServerCrash, OrderInv
<1>13. CASE ServerStart
  BY <1>o, <1>13 DEF ServerStart, OrderInv, InOrder
<1>14. CASE AgentStart
  <2>1. InOrder(wire, mem', stored, current) /\ (current # 0 => mem' <= current)
    BY <1>0, <1>o, <1>14 DEF AgentStart, LoadConfig, InOrder
  <2> QED BY <1>o, <1>14, <2>1 DEF AgentStart, OrderInv
<1> QED BY <1>1, <1>2, <1>4, <1>5, <1>6, <1>7, <1>8, <1>9, <1>11, <1>12, <1>13, <1>14
       DEF Next, ServerStep, AgentStep, Faults

(* So what is on its way is always in order.                              *)
LEMMA OrderAlways == Spec => []OrderInv
<1>1. Init => OrderInv
  BY DEF Init, OrderInv, InOrder
<1> QED BY <1>1, OrderNext, TypeAlways, PTL DEF Spec

(* What the agent takes up is newer than what it has, and an edit.         *)
LEMMA ReceivesNewer ==
  ASSUME TypeInv, OrderInv, Receive
  PROVE  /\ mem' >= mem /\ mem' \in (mem .. file.edit) \ Unusable
         /\ UNCHANGED <<file, stored, storage>>
<1>1. wire \in Seq(1 .. file.edit) /\ wire # <<>> /\ InOrder(wire, mem, stored, current)
  BY DEF TypeInv, TypeOK, OrderInv, Receive
<1>2. Head(wire) = wire[1] /\ Head(wire) \in 1 .. file.edit /\ 1 \in 1 .. Len(wire)
  BY <1>1, WireOps
<1>3. mem <= Head(wire)
  BY <1>1, <1>2 DEF InOrder
<1>4. mem \in (0 .. file.edit) \ Unusable /\ file.edit \in Nat
  BY DEF TypeInv, TypeOK
<1>5. mem' = mem \/ (mem' = Head(wire) /\ Head(wire) \notin Unusable)
  BY DEF Receive, Converts
<1> QED BY <1>2, <1>3, <1>4, <1>5 DEF Receive

(* The configuration of a running agent never goes back to an older edit.  *)
THEOREM AgentRunsForward == Spec => RunsForward
<1>1. TypeInv /\ OrderInv /\ [Next]_vars => [apc # "down" => mem' >= mem]_vars
  <2> SUFFICES ASSUME TypeInv, OrderInv, Next, apc # "down" PROVE mem' >= mem
    OBVIOUS
  <2>1. mem \in Nat
    BY DEF TypeInv, TypeOK
  <2>2. CASE Receive
    BY <2>2, ReceivesNewer
  <2>3. CASE Editor \/ ServerStep
    BY <2>1, <2>3 DEF Editor, Truncate, Write, Rename, Save, ServerStep, LoadRead, LoadTime, PollSame,
       PollChanged, ReloadRead, Accept, ServerNotices, agentVars, vars
  <2>4. CASE Connect \/ AgentNotices \/ SaveOpen \/ SaveWrite \/ SaveSet \/ Faults
    BY <2>1, <2>4 DEF Connect, AgentNotices, SaveOpen, SaveWrite, SaveSet, Faults, Break,
       ServerCrash, ServerStart, AgentCrash, AgentStart, agentVars
  <2> QED BY <2>2, <2>3, <2>4 DEF Next, AgentStep
<1> QED BY <1>1, TypeAlways, OrderAlways, PTL DEF Spec, RunsForward

-----------------------------------------------------------------------------
(* The refinement *)

(* Every step of the system is a step of the register, or none.            *)
LEMMA RegisterStep ==
  ASSUME TypeInv, OrderInv, [Next]_vars
  PROVE  [Register!Next]_(Register!register)
<1> USE DEF serverVars, linkVars, agentVars, Register!register, Register!Next
<1>0. file.edit \in Nat /\ file = [edit |-> file.edit, whole |-> file.whole, time |-> file.time]
  BY DEF TypeInv, TypeOK
<1>1. CASE Truncate \/ Rename
  BY <1>0, <1>1 DEF Truncate, Rename, Save, Register!Edit
<1>2. CASE Write
  BY <1>0, <1>2 DEF Write, Ticks
<1>3. CASE ServerStep \/ UNCHANGED vars
  BY <1>3 DEF ServerStep, LoadRead, LoadTime, PollSame, PollChanged, ReloadRead, Accept,
     ServerNotices, vars
<1>4. CASE Connect \/ AgentNotices \/ Break \/ ServerCrash \/ ServerStart \/ AgentCrash
  BY <1>4 DEF Connect, AgentNotices, Break, ServerCrash, ServerStart, AgentCrash
<1>5. CASE Receive
  BY <1>5, ReceivesNewer DEF Register!Adopt
<1>6. CASE SaveOpen
  BY <1>6 DEF SaveOpen, Register!Lose
<1>7. CASE SaveWrite \/ SaveSet
  BY <1>7 DEF SaveWrite, SaveSet, Register!Save
<1>8. CASE AgentStart
  BY <1>8 DEF AgentStart, LoadConfig, Register!Restart
<1> QED BY <1>1, <1>2, <1>3, <1>4, <1>5, <1>6, <1>7, <1>8 DEF Next, Editor, AgentStep, Faults

(* Editor, server, connection and storage together implement a register     *)
(* that only gets newer, with a copy that follows it.                       *)
THEOREM ConfigFollowsRegister == Spec => FollowsRegister
<1>1. Init => Register!Init
  <2> SUFFICES ASSUME Init PROVE Register!Init
    OBVIOUS
  <2>1. file.edit \in {0, 1}
    BY DEF Init
  <2> QED BY <2>1, EditsAssumption DEF Init, Register!Init
<1> QED BY <1>1, RegisterStep, TypeAlways, OrderAlways, PTL DEF Spec, FollowsRegister, Register!Spec
=============================================================================
