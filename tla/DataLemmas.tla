----------------------------- MODULE DataLemmas -----------------------------
(***************************************************************************)
(* What the proofs need to know of natural numbers and of the community    *)
(* modules' sequences.  Induction and its uses are stated of sets.         *)
(***************************************************************************)
EXTENDS SequencesExt, FiniteSetTheorems, TLAPS

(***************************************************************************)
(* Natural numbers.                                                        *)
(***************************************************************************)
\* A set that has 0 and the successors of its numbers has all of them: else
\* counting on would take those before a gap to all of themselves but 0.
LEMMA SetInduction ==
  ASSUME NEW S, 0 \in S, \A n \in Nat : n \in S => n + 1 \in S
  PROVE  Nat \subseteq S
<1> SUFFICES ASSUME NEW m \in Nat \ S PROVE FALSE
  OBVIOUS
<1> DEFINE T == {n \in 0..m : n \in S}
           next == [n \in T |-> n + 1]
<1>1. IsFiniteSet(T)
  <2>1. IsFiniteSet(0..m) /\ T \in SUBSET (0..m)
    BY FS_Interval
  <2> HIDE DEF T
  <2> QED BY <2>1, FS_Subset
<1>2. next \in [T -> T]
  OBVIOUS
<1>3. next \in Injection(T, T)
  BY <1>2 DEF Injection, IsInjective
<1>4. next \in Surjection(T, T)
  BY <1>1, <1>3, FS_Injection
<1>5. 0 \in T
  OBVIOUS
<1>6. \A t \in T : \E n \in T : next[n] = t
  BY <1>4 DEF Surjection
<1>7. \A n \in T : next[n] # 0
  OBVIOUS
<1> QED BY <1>5, <1>6, <1>7

\* Of some natural numbers, one is the least.
LEMMA LeastElement ==
  ASSUME NEW T \in SUBSET Nat, T # {}
  PROVE  \E least \in T : \A n \in T : least <= n
<1> SUFFICES ASSUME \A n \in T : \E m \in T : m < n PROVE FALSE
  OBVIOUS
<1> DEFINE S == {n \in Nat : \A m \in 0..n : m \notin T}
<1>1. 0 \in S
  OBVIOUS
<1>2. \A n \in Nat : n \in S => n + 1 \in S
  OBVIOUS
<1>3. Nat \subseteq S
  <2> HIDE DEF S
  <2> QED BY <1>1, <1>2, SetInduction
<1>4. \A n \in Nat : n \notin T
  BY <1>3
<1> QED BY <1>4

(***************************************************************************)
(* Sequences.                                                              *)
(***************************************************************************)
\* A finite set as a sequence has that set's elements.
LEMMA ListOfSet ==
  ASSUME NEW T, IsFiniteSet(T)
  PROVE  SetToSeq(T) \in Seq(T) /\ Range(SetToSeq(T)) = T
<1> DEFINE s == SetToSeq(T)
           D == 1..Cardinality(T)
<1>1. Cardinality(T) \in Nat /\ ExistsBijection(D, T)
  BY FS_CardinalityType
<1>2. PICK f \in Bijection(D, T) : TRUE
  BY <1>1 DEF ExistsBijection
<1>3. f \in [D -> T] /\ IsInjective(f)
  BY <1>2 DEF Bijection, Injection, IsInjective
<1>4. s \in [D -> T] /\ IsInjective(s)
  BY <1>3 DEF SetToSeq
<1>5. s \in Injection(D, T)
  BY <1>4 DEF Injection, IsInjective
<1>6. IsFiniteSet(D) /\ Cardinality(D) = Cardinality(T)
  BY <1>1, FS_Interval
<1>7. s \in Surjection(D, T)
  BY <1>5, <1>6, FS_Injection
<1>8. s \in Seq(T)
  BY <1>1, <1>4
<1> QED BY <1>4, <1>7, <1>8 DEF Surjection, Range

\* The elements of one sequence after another.
LEMMA ConcatElements ==
  ASSUME NEW S, NEW s \in Seq(S), NEW t \in Seq(S)
  PROVE  s \o t \in Seq(S) /\ Range(s \o t) = Range(s) \cup Range(t)
<1>1. s \o t \in Seq(S) /\ Len(s \o t) = Len(s) + Len(t)
  OBVIOUS
<1>2. \A i \in 1..Len(s) : (s \o t)[i] = s[i]
  OBVIOUS
<1>3. \A i \in 1..Len(t) : (s \o t)[Len(s) + i] = t[i]
  OBVIOUS
<1>4. \A i \in 1..(Len(s) + Len(t)) : i \notin 1..Len(s) => i - Len(s) \in 1..Len(t)
  OBVIOUS
<1>5. Range(s \o t) \subseteq Range(s) \cup Range(t)
  BY <1>1, <1>2, <1>3, <1>4 DEF Range
<1>6. Range(s) \subseteq Range(s \o t)
  BY <1>1, <1>2 DEF Range
<1>7. Range(t) \subseteq Range(s \o t)
  <2> SUFFICES ASSUME NEW i \in 1..Len(t) PROVE t[i] \in Range(s \o t)
    BY DEF Range
  <2>1. Len(s) + i \in 1..Len(s \o t)
    BY <1>1
  <2>2. DOMAIN (s \o t) = 1..Len(s \o t)
    BY <1>1
  <2> QED BY <1>3, <2>1, <2>2 DEF Range
<1> QED BY <1>1, <1>5, <1>6, <1>7

\* And of one with an element more.
LEMMA AppendElements ==
  ASSUME NEW S, NEW s \in Seq(S), NEW x \in S
  PROVE  Append(s, x) \in Seq(S) /\ Range(Append(s, x)) = Range(s) \cup {x}
<1>1. Append(s, x) = s \o <<x>> /\ <<x>> \in Seq(S)
  OBVIOUS
<1>2. Range(<<x>>) = {x}
  BY DEF Range
<1>3. s \o <<x>> \in Seq(S) /\ Range(s \o <<x>>) = Range(s) \cup Range(<<x>>)
  BY <1>1, ConcatElements
<1> QED BY <1>1, <1>2, <1>3, Zenon

\* Sequences one after another have the elements of each.
LEMMA FlattenElements ==
  ASSUME NEW S, NEW n \in Nat, NEW seqs \in [1..n -> Seq(S)]
  PROVE  /\ FlattenSeq(seqs) \in Seq(S)
         /\ Range(FlattenSeq(seqs)) = UNION {Range(seqs[i]) : i \in 1..n}
<1>0. seqs \in Seq(Seq(S)) /\ Len(seqs) = n
  OBVIOUS
<1>1. CASE n = 0
  <2>1. FlattenSeq(seqs) = seqs /\ seqs = <<>>
    BY <1>0, <1>1 DEF FlattenSeq
  <2> QED BY <1>1, <2>1 DEF Range
<1>2. CASE n # 0
  <2> DEFINE Upto(f, k) ==
               f = [i \in 1..k |-> IF i = 1 THEN seqs[i] ELSE f[i - 1] \o seqs[i]]
             flat == CHOOSE f : Upto(f, n)
  <2>1. FlattenSeq(seqs) = flat[n]
    BY <1>0, <1>2 DEF FlattenSeq
  <2>2. \E f : Upto(f, n)
    <3> DEFINE K == {k \in Nat : \E f : Upto(f, k)}
    <3>1. 0 \in K
      <4>1. Upto([i \in 1..0 |-> seqs], 0)
        OBVIOUS
      <4> QED BY <4>1
    <3>2. ASSUME NEW k \in Nat, k \in K PROVE k + 1 \in K
      <4>1. PICK f : Upto(f, k)
        BY <3>2
      <4> DEFINE last == IF k = 0 THEN seqs[1] ELSE f[k] \o seqs[k + 1]
                 g == [i \in 1..(k + 1) |-> IF i = k + 1 THEN last ELSE f[i]]
                 h == [i \in 1..(k + 1) |-> IF i = 1 THEN seqs[i] ELSE g[i - 1] \o seqs[i]]
      <4>2. ASSUME NEW i \in 1..(k + 1) PROVE g[i] = h[i]
        <5>1. CASE i = k + 1
          BY <5>1
        <5>2. CASE i # k + 1
          <6>1. i \in 1..k /\ g[i] = f[i]
            BY <5>2
          <6>2. f[i] = IF i = 1 THEN seqs[i] ELSE f[i - 1] \o seqs[i]
            BY <4>1, <6>1
          <6>3. i # 1 => g[i - 1] = f[i - 1]
            BY <6>1
          <6> QED BY <6>1, <6>2, <6>3
        <5> QED BY <5>1, <5>2
      <4>3. g = h
        BY <4>2
      <4>4. Upto(g, k + 1)
        BY <4>3
      <4> HIDE DEF g, Upto
      <4> QED BY <4>4
    <3>3. Nat \subseteq K
      <4> HIDE DEF K
      <4> QED BY <3>1, <3>2, SetInduction
    <3> QED BY <3>3
  <2>3. Upto(flat, n)
    BY <2>2
  <2>4. \A i \in 1..n : flat[i] = IF i = 1 THEN seqs[i] ELSE flat[i - 1] \o seqs[i]
    BY <2>3
  <2> HIDE DEF flat
  <2> DEFINE Elements(k) == UNION {Range(seqs[i]) : i \in 1..k}
             Good(k) == flat[k] \in Seq(S) /\ Range(flat[k]) = Elements(k)
             K == {k \in Nat : k < n => Good(k + 1)}
  <2>5. 0 \in K
    <3>1. flat[1] = seqs[1] /\ seqs[1] \in Seq(S)
      BY <1>2, <2>4
    <3>2. Elements(1) = Range(seqs[1])
      OBVIOUS
    <3>3. Good(1)
      BY <3>1, <3>2
    <3> HIDE DEF Good
    <3> QED BY <3>3
  <2>6. ASSUME NEW k \in Nat, k \in K PROVE k + 1 \in K
    <3>1. ASSUME k + 1 < n PROVE Good((k + 1) + 1)
      <4>1. Good(k + 1)
        <5> HIDE DEF Good
        <5> QED BY <2>6, <3>1
      <4>2. k + 2 \in 1..n /\ k + 2 # 1 /\ (k + 2) - 1 = k + 1 /\ (k + 1) + 1 = k + 2
        BY <3>1
      <4>3. flat[k + 2] = flat[k + 1] \o seqs[k + 2]
        BY <2>4, <4>2
      <4>4. seqs[k + 2] \in Seq(S)
        BY <4>2
      <4>5. Elements(k + 2) = Elements(k + 1) \cup Range(seqs[k + 2])
        <5>1. 1..(k + 2) = 1..(k + 1) \cup {k + 2}
          OBVIOUS
        <5> QED BY <5>1
      <4> HIDE DEF Elements
      <4>6. /\ flat[k + 2] \in Seq(S)
            /\ Range(flat[k + 2]) = Range(flat[k + 1]) \cup Range(seqs[k + 2])
        BY <4>1, <4>3, <4>4, ConcatElements
      <4>7. Good(k + 2)
        BY <4>1, <4>5, <4>6
      <4> HIDE DEF Good
      <4> QED BY <4>2, <4>7
    <3> HIDE DEF Good
    <3> QED BY <3>1
  <2>7. Nat \subseteq K
    <3> HIDE DEF K
    <3> QED BY <2>5, <2>6, SetInduction
  <2>8. n - 1 \in Nat /\ n - 1 < n /\ (n - 1) + 1 = n
    BY <1>2
  <2>9. Good(n)
    <3> HIDE DEF Good
    <3> QED BY <2>7, <2>8
  <2> QED BY <2>1, <2>9
<1> QED BY <1>1, <1>2

(***************************************************************************)
(* Sequences of whatever they are of.                                      *)
(***************************************************************************)
IsList(s) == s \in Seq(Range(s))

\* A sequence over any set is one over what it has.
LEMMA SequenceIsList ==
  ASSUME NEW S, NEW s \in Seq(S)
  PROVE  IsList(s) /\ Range(s) \subseteq S
<1>1. s \in [1..Len(s) -> Range(s)] /\ Len(s) \in Nat
  BY DEF Range
<1> QED BY <1>1 DEF IsList, Range

\* And over any set with all that.
LEMMA ListIsSequence ==
  ASSUME NEW s, IsList(s), NEW S, Range(s) \subseteq S
  PROVE  s \in Seq(S)
<1> DEFINE R == Range(s)
<1>1. s \in Seq(R) /\ R \subseteq S
  BY DEF IsList
<1> HIDE DEF R
<1> QED BY <1>1

\* A list is what stands at its places.
LEMMA ListElements ==
  ASSUME NEW s, IsList(s)
  PROVE  /\ Len(s) \in Nat /\ DOMAIN s = 1..Len(s)
         /\ \A i \in DOMAIN s : s[i] \in Range(s)
         /\ \A x \in Range(s) : \E i \in DOMAIN s : s[i] = x
<1>1. Len(s) \in Nat /\ DOMAIN s = 1..Len(s)
  BY DEF IsList
<1> QED BY <1>1 DEF Range

\* The same of lists: concatenation, ...
LEMMA ConcatLists ==
  ASSUME NEW s, NEW t, IsList(s), IsList(t)
  PROVE  IsList(s \o t) /\ Range(s \o t) = Range(s) \cup Range(t)
<1> DEFINE S == Range(s) \cup Range(t)
<1>1. s \in Seq(S) /\ t \in Seq(S)
  BY ListIsSequence
<1> HIDE DEF S
<1>2. s \o t \in Seq(S) /\ Range(s \o t) = Range(s) \cup Range(t)
  BY <1>1, ConcatElements
<1> QED BY <1>2, SequenceIsList

\* ... appending, ...
LEMMA AppendList ==
  ASSUME NEW s, IsList(s), NEW x
  PROVE  IsList(Append(s, x)) /\ Range(Append(s, x)) = Range(s) \cup {x}
<1> DEFINE S == Range(s) \cup {x}
<1>1. s \in Seq(S) /\ x \in S
  BY ListIsSequence
<1> HIDE DEF S
<1>2. Append(s, x) \in Seq(S) /\ Range(Append(s, x)) = Range(s) \cup {x}
  BY <1>1, AppendElements
<1> QED BY <1>2, SequenceIsList

\* ... the lists of nothing and of one thing, ...
LEMMA ShortLists ==
  /\ IsList(<<>>) /\ Range(<<>>) = {}
  /\ \A x : IsList(<<x>>) /\ Range(<<x>>) = {x}
<1>1. Range(<<>>) = {}
  BY DEF Range
<1>2. \A x : Range(<<x>>) = {x}
  BY DEF Range
<1> QED BY <1>1, <1>2 DEF IsList

\* ... and lists one after another.
LEMMA FlattenLists ==
  ASSUME NEW n \in Nat, NEW seqs, seqs = [i \in 1..n |-> seqs[i]],
         \A i \in 1..n : IsList(seqs[i])
  PROVE  /\ IsList(FlattenSeq(seqs))
         /\ Range(FlattenSeq(seqs)) = UNION {Range(seqs[i]) : i \in 1..n}
<1> DEFINE S == UNION {Range(seqs[i]) : i \in 1..n}
<1>1. \A i \in 1..n : Range(seqs[i]) \subseteq S
  OBVIOUS
<1> HIDE DEF S
<1>2. \A i \in 1..n : seqs[i] \in Seq(S)
  BY <1>1, ListIsSequence
<1>3. seqs \in [1..n -> Seq(S)]
  BY <1>2
<1>4. /\ FlattenSeq(seqs) \in Seq(S)
      /\ Range(FlattenSeq(seqs)) = UNION {Range(seqs[i]) : i \in 1..n}
  BY <1>3, FlattenElements
<1> QED BY <1>4, SequenceIsList
=============================================================================
