----------------------------- MODULE SeqLemmas -----------------------------
(***************************************************************************)
(* What moving elements between sequences does to their ranges and to       *)
(* their injectivity: the facts the proofs about the alert pipeline use.    *)
(***************************************************************************)
EXTENDS SequencesExt, SequenceTheorems, TLAPS

(* The empty sequence and a sequence of one element repeat nothing.        *)
LEMMA RangeSmall ==
  /\ Range(<<>>) = {} /\ IsInjective(<<>>)
  /\ \A e : Range(<<e>>) = {e} /\ IsInjective(<<e>>)
BY DEF Range, IsInjective

(* Appending a new element adds exactly it to the range.                   *)
LEMMA RangeAppend ==
  ASSUME NEW S, NEW s \in Seq(S), NEW e \in S
  PROVE  /\ Append(s, e) \in Seq(S)
         /\ Range(Append(s, e)) = Range(s) \cup {e}
         /\ IsInjective(s) /\ e \notin Range(s) => IsInjective(Append(s, e))
<1>1. /\ Append(s, e) \in Seq(S)
      /\ Len(s) \in Nat /\ Len(Append(s, e)) = Len(s) + 1
      /\ \A i \in 1 .. Len(s) : Append(s, e)[i] = s[i]
      /\ Append(s, e)[Len(s) + 1] = e
  BY AppendProperties, LenProperties
<1>2. DOMAIN s = 1 .. Len(s) /\ DOMAIN Append(s, e) = 1 .. Len(s) + 1
  BY <1>1, LenProperties
<1>3. \A i \in 1 .. Len(s) + 1 : i \in 1 .. Len(s) \/ i = Len(s) + 1
  BY <1>1
<1>4. Range(Append(s, e)) = Range(s) \cup {e}
  <2>1. Range(Append(s, e)) \subseteq Range(s) \cup {e}
    BY <1>1, <1>2, <1>3 DEF Range
  <2>2. Range(s) \cup {e} \subseteq Range(Append(s, e))
    <3>1. \A i \in 1 .. Len(s) : i \in 1 .. Len(s) + 1
      BY <1>1
    <3>2. Len(s) + 1 \in 1 .. Len(s) + 1
      BY <1>1
    <3> QED BY <1>1, <1>2, <3>1, <3>2 DEF Range
  <2> QED BY <2>1, <2>2
<1>5. ASSUME IsInjective(s), e \notin Range(s) PROVE IsInjective(Append(s, e))
  BY <1>1, <1>2, <1>3, <1>5 DEF IsInjective, Range
<1> QED BY <1>1, <1>4, <1>5

(* Taking the head off a sequence without repetition leaves the rest.      *)
LEMMA RangeTail ==
  ASSUME NEW S, NEW s \in Seq(S), s # <<>>
  PROVE  /\ Head(s) \in S /\ Tail(s) \in Seq(S)
         /\ Len(Tail(s)) = Len(s) - 1
         /\ Range(s) = {Head(s)} \cup Range(Tail(s))
         /\ IsInjective(s) => IsInjective(Tail(s)) /\ Head(s) \notin Range(Tail(s))
<1>1. /\ Head(s) \in S /\ Tail(s) \in Seq(S) /\ Len(Tail(s)) = Len(s) - 1
      /\ \A i \in 1 .. Len(Tail(s)) : Tail(s)[i] = s[i+1]
      /\ Len(s) \in Nat \ {0}
  BY HeadTailProperties, EmptySeq
<1>2. Head(s) = s[1]
  OBVIOUS
<1>3. DOMAIN s = 1 .. Len(s) /\ DOMAIN Tail(s) = 1 .. Len(s) - 1
  BY <1>1, LenProperties
<1>4. Range(s) = {Head(s)} \cup Range(Tail(s))
  <2>1. ASSUME NEW i \in DOMAIN s PROVE s[i] \in {Head(s)} \cup Range(Tail(s))
    <3>1. CASE i = 1 BY <3>1, <1>2
    <3>2. CASE i # 1
      <4>1. i - 1 \in DOMAIN Tail(s) /\ Tail(s)[i - 1] = s[i]
        BY <3>2, <1>1, <1>3
      <4> QED BY <4>1 DEF Range
    <3> QED BY <3>1, <3>2
  <2>2. ASSUME NEW i \in DOMAIN Tail(s) PROVE Tail(s)[i] \in Range(s)
    <3>1. i + 1 \in DOMAIN s /\ Tail(s)[i] = s[i + 1]
      BY <1>1, <1>3
    <3> QED BY <3>1 DEF Range
  <2>3. Head(s) \in Range(s)
    BY <1>1, <1>2, <1>3 DEF Range
  <2> QED BY <2>1, <2>2, <2>3 DEF Range
<1>5. ASSUME IsInjective(s) PROVE IsInjective(Tail(s)) /\ Head(s) \notin Range(Tail(s))
  BY <1>1, <1>2, <1>3, <1>5 DEF IsInjective, Range
<1> QED BY <1>1, <1>4, <1>5

(* A section of a sequence without repetition repeats nothing.             *)
LEMMA RangeSubSeq ==
  ASSUME NEW S, NEW s \in Seq(S), NEW a \in Nat \ {0}, NEW b \in Nat, b <= Len(s)
  PROVE  /\ SubSeq(s, a, b) \in Seq(S)
         /\ Range(SubSeq(s, a, b)) = {s[i] : i \in a .. b}
         /\ Range(SubSeq(s, a, b)) \subseteq Range(s)
         /\ IsInjective(s) => IsInjective(SubSeq(s, a, b))
<1>1. \A i \in a .. b : i \in 1 .. Len(s) /\ s[i] \in S
  BY LenProperties
<1>2. /\ SubSeq(s, a, b) \in Seq(S)
      /\ Len(SubSeq(s, a, b)) = IF a <= b THEN b - a + 1 ELSE 0
      /\ \A i \in 1 .. b - a + 1 : SubSeq(s, a, b)[i] = s[a + i - 1]
  BY <1>1, SubSeqProperties
<1>3. DOMAIN s = 1 .. Len(s) /\ DOMAIN SubSeq(s, a, b) = 1 .. b - a + 1
  BY <1>2, LenProperties
<1>4. Range(SubSeq(s, a, b)) = {s[i] : i \in a .. b}
  <2>1. ASSUME NEW i \in DOMAIN SubSeq(s, a, b)
        PROVE  SubSeq(s, a, b)[i] \in {s[j] : j \in a .. b}
    <3>1. a + i - 1 \in a .. b BY <1>3
    <3> QED BY <3>1, <1>2, <1>3
  <2>2. ASSUME NEW i \in a .. b PROVE s[i] \in Range(SubSeq(s, a, b))
    <3>1. /\ i - a + 1 \in DOMAIN SubSeq(s, a, b)
          /\ SubSeq(s, a, b)[i - a + 1] = s[i]
      BY <1>2, <1>3
    <3> QED BY <3>1 DEF Range
  <2> QED BY <2>1, <2>2 DEF Range
<1>5. Range(SubSeq(s, a, b)) \subseteq Range(s)
  BY <1>1, <1>3, <1>4 DEF Range
<1>6. IsInjective(s) => IsInjective(SubSeq(s, a, b))
  BY <1>1, <1>2, <1>3 DEF IsInjective
<1> QED BY <1>2, <1>4, <1>5, <1>6

(* A chunk of k lines is its head, its rest and what stays behind.         *)
LEMMA RangeChunk ==
  ASSUME NEW S, NEW s \in Seq(S), NEW k \in 1 .. Len(s)
  PROVE  /\ s # <<>> /\ Head(s) \in S /\ Head(s) \in Range(s)
         /\ SubSeq(s, 2, k) \in Seq(S) /\ SubSeq(s, k + 1, Len(s)) \in Seq(S)
         /\ Range(SubSeq(s, 2, k)) \subseteq Range(s)
         /\ Range(SubSeq(s, k + 1, Len(s))) \subseteq Range(s)
         /\ Range(s) = {Head(s)} \cup Range(SubSeq(s, 2, k)) \cup Range(SubSeq(s, k + 1, Len(s)))
         /\ IsInjective(s) =>
              /\ IsInjective(SubSeq(s, 2, k)) /\ IsInjective(SubSeq(s, k + 1, Len(s)))
              /\ Head(s) \notin Range(SubSeq(s, 2, k))
              /\ Head(s) \notin Range(SubSeq(s, k + 1, Len(s)))
              /\ Range(SubSeq(s, 2, k)) \cap Range(SubSeq(s, k + 1, Len(s))) = {}
<1>1. Len(s) \in Nat \ {0} /\ DOMAIN s = 1 .. Len(s) /\ s # <<>>
  BY LenProperties, EmptySeq
<1>2. Head(s) = s[1] /\ Head(s) \in S /\ Head(s) \in Range(s)
  BY <1>1, RangeTail
<1>3. /\ SubSeq(s, 2, k) \in Seq(S)
      /\ Range(SubSeq(s, 2, k)) = {s[i] : i \in 2 .. k}
      /\ Range(SubSeq(s, 2, k)) \subseteq Range(s)
      /\ IsInjective(s) => IsInjective(SubSeq(s, 2, k))
  BY <1>1, RangeSubSeq
<1>4. /\ SubSeq(s, k + 1, Len(s)) \in Seq(S)
      /\ Range(SubSeq(s, k + 1, Len(s))) = {s[i] : i \in k + 1 .. Len(s)}
      /\ Range(SubSeq(s, k + 1, Len(s))) \subseteq Range(s)
      /\ IsInjective(s) => IsInjective(SubSeq(s, k + 1, Len(s)))
  BY <1>1, RangeSubSeq
<1>5. Range(s) = {Head(s)} \cup Range(SubSeq(s, 2, k)) \cup Range(SubSeq(s, k + 1, Len(s)))
  <2>1. ASSUME NEW i \in 1 .. Len(s)
        PROVE  s[i] \in {s[1]} \cup {s[j] : j \in 2 .. k} \cup {s[j] : j \in k + 1 .. Len(s)}
    <3>1. i = 1 \/ i \in 2 .. k \/ i \in k + 1 .. Len(s)
      BY <1>1
    <3> QED BY <3>1
  <2>2. Range(s) \subseteq {Head(s)} \cup Range(SubSeq(s, 2, k)) \cup Range(SubSeq(s, k + 1, Len(s)))
    BY <2>1, <1>1, <1>2, <1>3, <1>4 DEF Range
  <2> QED BY <2>2, <1>2, <1>3, <1>4
<1>6. ASSUME IsInjective(s)
      PROVE  /\ Head(s) \notin {s[i] : i \in 2 .. k}
             /\ Head(s) \notin {s[i] : i \in k + 1 .. Len(s)}
             /\ {s[i] : i \in 2 .. k} \cap {s[i] : i \in k + 1 .. Len(s)} = {}
  BY <1>1, <1>2, <1>6 DEF IsInjective
<1> QED BY <1>1, <1>2, <1>3, <1>4, <1>5, <1>6
=============================================================================
