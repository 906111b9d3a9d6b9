---------------------------- MODULE OfflineProofs ----------------------------
(***************************************************************************)
(* Offline verification and the clock: amounts survive the prefix of a     *)
(* certificate, nothing is due early, no leaf opens to anyone, and holder  *)
(* and watcher are told the same; for every amount, clock, script, string. *)
(***************************************************************************)
EXTENDS Holding, DataLemmas

(***************************************************************************)
(* Amounts.                                                                *)
(***************************************************************************)
\* Dividing and multiplying by what divides changes nothing.
LEMMA ExactDivision ==
  ASSUME NEW a \in Nat, NEW b \in Nat \ {0}, a % b = 0
  PROVE  a \div b \in Nat /\ (a \div b) * b = a
OBVIOUS

\* Every multiplier is worth something.
LEMMA Worth ==
  /\ \A i \in 1..4 : EncodeTable[i].msat \in Nat \ {0}
  /\ Nano * Kilo \in Nat \ {0}
  /\ Nano * Kilo * Kilo \in Nat \ {0}
  /\ Nano * Kilo * Kilo * Kilo \in Nat \ {0}
<1>1. \A a, b \in Nat \ {0} : a * b \in Nat \ {0}
  OBVIOUS
<1>2. Nano * Kilo \in Nat \ {0}
  BY <1>1, AmountsAssumption
<1>3. (Nano * Kilo) * Kilo \in Nat \ {0}
  BY <1>1, <1>2, AmountsAssumption
<1>4. ((Nano * Kilo) * Kilo) * Kilo \in Nat \ {0}
  BY <1>1, <1>3, AmountsAssumption
<1>5. /\ EncodeTable[1].msat = Nano * Kilo * Kilo * Kilo
      /\ EncodeTable[2].msat = Nano * Kilo * Kilo
      /\ EncodeTable[3].msat = Nano * Kilo
      /\ EncodeTable[4].msat = Nano
  BY DEF EncodeTable
<1>6. \A i \in 1..4 : i = 1 \/ i = 2 \/ i = 3 \/ i = 4
  OBVIOUS
<1>7. \A i \in 1..4 : EncodeTable[i].msat \in
        {Nano * Kilo * Kilo * Kilo, Nano * Kilo * Kilo, Nano * Kilo, Nano}
  BY <1>5, <1>6, Zenon
<1>8. {Nano * Kilo * Kilo * Kilo, Nano * Kilo * Kilo, Nano * Kilo, Nano} \subseteq Nat \ {0}
  BY <1>2, <1>3, <1>4, AmountsAssumption, Zenon
<1> QED BY <1>2, <1>3, <1>4, <1>7, <1>8, Zenon

\* What the table of the writer has for a multiplier, that of the reader has too.
LEMMA TablesMatch ==
  ASSUME NEW i \in 1..4, NEW d \in Nat
  PROVE  decode_amount_suffix([digits |-> d, unit |-> EncodeTable[i].unit]) =
           {a \in {d * EncodeTable[i].msat} : a <= MaxAmount}
<1>1. i = 1 \/ i = 2 \/ i = 3 \/ i = 4
  OBVIOUS
<1>2. /\ EncodeTable[1].unit = "" /\ EncodeTable[1].msat = Nano * Kilo * Kilo * Kilo
      /\ EncodeTable[2].unit = "m" /\ EncodeTable[2].msat = Nano * Kilo * Kilo
      /\ EncodeTable[3].unit = "u" /\ EncodeTable[3].msat = Nano * Kilo
      /\ EncodeTable[4].unit = "n" /\ EncodeTable[4].msat = Nano
  BY DEF EncodeTable
<1> DEFINE s == [digits |-> d, unit |-> EncodeTable[i].unit]
<1>3. s.digits = d /\ s.unit = EncodeTable[i].unit
  OBVIOUS
<1> HIDE DEF s
<1>4. CASE i = 1
  <2>1. s.unit = "" /\ EncodeTable[i].msat = Nano * Kilo * Kilo * Kilo
    BY <1>2, <1>3, <1>4, Zenon
  <2> QED BY <1>3, <2>1, Zenon DEF decode_amount_suffix
<1>5. CASE i = 2
  <2>1. s.unit = "m" /\ EncodeTable[i].msat = Nano * Kilo * Kilo
    BY <1>2, <1>3, <1>5, Zenon
  <2> QED BY <1>3, <2>1, Zenon DEF decode_amount_suffix
<1>6. CASE i = 3
  <2>1. s.unit = "u" /\ EncodeTable[i].msat = Nano * Kilo
    BY <1>2, <1>3, <1>6, Zenon
  <2> QED BY <1>3, <2>1, Zenon DEF decode_amount_suffix
<1>7. CASE i = 4
  <2>1. s.unit = "n" /\ EncodeTable[i].msat = Nano
    BY <1>2, <1>3, <1>7, Zenon
  <2> QED BY <1>3, <2>1, Zenon DEF decode_amount_suffix
<1> QED BY <1>1, <1>4, <1>5, <1>6, <1>7 DEF s

\* The multiplier a whole amount is written with divides it.
LEMMA UnitDivides ==
  ASSUME NEW a \in Nat, {i \in 1..4 : a % EncodeTable[i].msat = 0} # {}
  PROVE  \E i \in 1..4 :
           /\ a % EncodeTable[i].msat = 0
           /\ encode_amount_suffix(a) =
                [digits |-> a \div EncodeTable[i].msat, unit |-> EncodeTable[i].unit]
<1> DEFINE fits == {i \in 1..4 : a % EncodeTable[i].msat = 0}
           First(i) == \A j \in fits : i <= j
<1>1. \E i \in fits : First(i)
  <2>1. fits \in SUBSET Nat /\ fits # {}
    OBVIOUS
  <2> HIDE DEF fits
  <2> QED BY <2>1, LeastElement
<1>2. (CHOOSE i \in fits : First(i)) \in fits
  BY <1>1
<1> DEFINE first == CHOOSE i \in fits : First(i)
<1>3. encode_amount_suffix(a) =
        [digits |-> a \div EncodeTable[first].msat, unit |-> EncodeTable[first].unit]
  BY DEF encode_amount_suffix
<1> QED BY <1>2, <1>3

\* What the prefix of a certificate states is what was written there, for every
\* amount that fits a u64 and whatever the multipliers amount to
\* (recoverable.rs, encode_amount_suffix and decode_amount_suffix).
THEOREM AmountSurvivesPrefix ==
  ASSUME NEW a \in 0..MaxAmount
  PROVE  decode_amount_suffix(encode_amount_suffix(a)) = {a}
<1>0. a \in Nat /\ a <= MaxAmount
  BY AmountsAssumption
<1>1. CASE {i \in 1..4 : a % EncodeTable[i].msat = 0} # {}
  <2>1. PICK i \in 1..4 :
          /\ a % EncodeTable[i].msat = 0
          /\ encode_amount_suffix(a) =
               [digits |-> a \div EncodeTable[i].msat, unit |-> EncodeTable[i].unit]
    BY <1>0, <1>1, UnitDivides
  <2> DEFINE unit == EncodeTable[i].msat
  <2>2. unit \in Nat \ {0}
    BY Worth
  <2> HIDE DEF unit
  <2>3. a % unit = 0
    BY <2>1 DEF unit
  <2>4. a \div unit \in Nat /\ (a \div unit) * unit = a
    BY <1>0, <2>2, <2>3, ExactDivision
  <2>5. decode_amount_suffix(encode_amount_suffix(a)) = {b \in {a} : b <= MaxAmount}
    BY <2>1, <2>4, TablesMatch DEF unit
  <2> QED BY <1>0, <2>5
<1>2. CASE {i \in 1..4 : a % EncodeTable[i].msat = 0} = {}
  <2>1. encode_amount_suffix(a) = [digits |-> a * 10, unit |-> "p"]
    BY <1>2, Zenon DEF encode_amount_suffix
  <2>2. (a * 10) % 10 = 0 /\ (a * 10) \div 10 = a
    BY <1>0
  <2> QED BY <1>0, <2>1, <2>2 DEF decode_amount_suffix
<1> QED BY <1>1, <1>2

\* The two readers, which check for a u64 at different places and have a table of
\* multipliers each, differ in one thing: the invoice's takes no digits that are
\* more than a u64 themselves, as those of a large pico amount can be (bolt11.rs,
\* decode_bolt11_amount_msat; recoverable.rs, decode_amount_suffix).
THEOREM ReadersAgree ==
  ASSUME NEW suffix \in AmountSuffixes
  PROVE  bolt11_amount(suffix) =
           IF suffix.digits <= MaxAmount THEN decode_amount_suffix(suffix) ELSE {}
<1>1. suffix.digits \in Nat /\ suffix.unit \in Multipliers
  BY DEF AmountSuffixes
<1>2. CASE suffix.digits > MaxAmount
  <2>1. ~ (suffix.digits <= MaxAmount)
    BY <1>1, <1>2, AmountsAssumption
  <2> QED BY <1>2, <2>1 DEF bolt11_amount
<1>3. CASE suffix.unit = "p" /\ suffix.digits <= MaxAmount
  <2>1. suffix.digits \div 10 <= MaxAmount /\ ~ (suffix.digits > MaxAmount)
    BY <1>1, <1>3, AmountsAssumption
  <2> QED BY <1>3, <2>1 DEF bolt11_amount, decode_amount_suffix
<1>4. CASE suffix.unit # "p" /\ suffix.digits <= MaxAmount
  <2>1. ~ (suffix.digits > MaxAmount)
    BY <1>1, <1>4, AmountsAssumption
  <2>2. suffix.unit = "" \/ suffix.unit = "m" \/ suffix.unit = "u" \/ suffix.unit = "n"
    BY <1>1, <1>4 DEF Multipliers
  <2> QED BY <1>4, <2>1, <2>2 DEF bolt11_amount, decode_amount_suffix
<1> QED BY <1>1, <1>2, <1>3, <1>4, AmountsAssumption

(***************************************************************************)
(* Time claims.                                                            *)
(***************************************************************************)
\* The clock and the claim keep their types.
THEOREM LeafTypeCorrect == LeafSpec => []LeafTypeOK
<1>1. LeafInit => LeafTypeOK
  BY LeavesAssumption DEF LeafInit, LeafTypeOK
<1>2. LeafTypeOK /\ [LeafNext]_leafVars => LeafTypeOK'
  BY LeavesAssumption DEF LeafTypeOK, LeafNext, Write, Tick, leafVars
<1> QED BY <1>1, <1>2, PTL DEF LeafSpec

\* What a claim is compared by are whole numbers.
LEMMA NumbersAreWhole ==
  ASSUME LeafTypeOK
  PROVE  /\ now \in Int /\ locked_at \in Int /\ claim.locktime \in Int
         /\ claim.sequence.delay * SEQUENCE_GRANULARITY_SECONDS \in Int
<1>1. now \in Int /\ locked_at \in Int
  BY LeavesAssumption DEF LeafTypeOK
<1>2. claim.locktime \in Locktimes /\ claim.sequence \in NSequences
  BY DEF LeafTypeOK
<1>3. claim.sequence.delay \in Delays
  BY <1>2 DEF NSequences
<1>4. claim.locktime \in Nat /\ claim.sequence.delay \in Nat
      /\ SEQUENCE_GRANULARITY_SECONDS \in Nat
  BY <1>2, <1>3, LeavesAssumption
<1>5. claim.sequence.delay * SEQUENCE_GRANULARITY_SECONDS \in Nat
  BY <1>4
<1> QED BY <1>1, <1>4, <1>5

\* No claim is due before both its locks have run out, however far the clock
\* the note was credited by is ahead.
THEOREM NeverEarlyHolds == LeafSpec => []NeverEarly
<1>1. LeafTypeOK => NeverEarly
  <2> SUFFICES ASSUME LeafTypeOK, Due PROVE NeverEarly
    BY DEF NeverEarly
  <2>1. /\ now \in Int /\ locked_at \in Int /\ claim.locktime \in Int
        /\ claim.sequence.delay * SEQUENCE_GRANULARITY_SECONDS \in Int
    BY NumbersAreWhole
  <2>2. claim.locktime <= now
    BY <2>1 DEF Due, check_time_claim
  <2>3. ~ claim.sequence.disabled =>
          now >= locked_at + claim.sequence.delay * SEQUENCE_GRANULARITY_SECONDS
    BY <2>1 DEF Due, check_time_claim
  <2> QED BY <2>2, <2>3 DEF NeverEarly
<1> QED BY <1>1, LeafTypeCorrect, PTL

\* A claim that is due stays due while the clock goes on.
THEOREM DueStaysDueHolds == LeafSpec => DueStaysDue
<1>1. LeafTypeOK /\ [LeafNext]_leafVars => (Due /\ UNCHANGED claim => Due')
  <2> SUFFICES ASSUME LeafTypeOK, [LeafNext]_leafVars, Due, UNCHANGED claim PROVE Due'
    OBVIOUS
  <2>1. /\ now \in Int /\ locked_at \in Int /\ claim.locktime \in Int
        /\ claim.sequence.delay * SEQUENCE_GRANULARITY_SECONDS \in Int
    BY NumbersAreWhole
  <2>2. /\ now' \in {now, now + 1} /\ locked_at' = locked_at /\ claim' = claim
    BY DEF LeafNext, Write, Tick, leafVars
  <2> QED BY <2>1, <2>2 DEF Due, check_time_claim
<1> QED BY <1>1, LeafTypeCorrect, PTL DEF LeafSpec, DueStaysDue

(***************************************************************************)
(* Leaves.  A script is walked from its end: what is made of an            *)
(* instruction hangs on those after it only.                               *)
(***************************************************************************)
\* What check_leaf makes of the instruction at i, f saying what it makes of
\* those after it, and the places from first on with that said of each.
Rule(f, script, i) ==
  IF is_op_success(script[i]) THEN TRUE
  ELSE IF Truncated(script, i) THEN FALSE
  ELSE After(script, i) <= Len(script) /\ f[After(script, i)]

Walks(f, script, first) == f = [i \in first..Len(script) |-> Rule(f, script, i)]

Reserved(script) == CHOOSE f : Walks(f, script, 1)

\* A leaf of the version the mint knows is refused for the opcode its walk
\* meets.
LEMMA CheckLeafWalks ==
  ASSUME NEW script
  PROVE  check_leaf(TAPLEAF_VERSION, script)
           = IF script # <<>> /\ Reserved(script)[1] THEN "reserved opcode" ELSE "None"
BY DEF check_leaf, Reserved, Walks, Rule

\* The walk goes forward, unless a push is cut short.
LEMMA AfterIsLater ==
  ASSUME NEW script \in Seq(Nat), NEW i \in 1..Len(script), ~ Truncated(script, i)
  PROVE  After(script, i) \in Nat /\ After(script, i) > i
<1> DEFINE op == script[i]
           n == LengthBytes(op)
           Byte(j) == IF j < n THEN script[i + 1 + j] ELSE 0
<1>1. Len(script) \in Nat /\ i \in Nat /\ op \in Nat
  OBVIOUS
<1>2. n \in Nat
  <2>1. n \in {0, 1, 2, 4}
    BY Zenon DEF LengthBytes
  <2> HIDE DEF n
  <2> QED BY <2>1
<1>3. i + n <= Len(script)
  <2>1. ~ (i + n > Len(script))
    BY DEF Truncated
  <2> HIDE DEF n
  <2> QED BY <1>1, <1>2, <2>1
<1> HIDE DEF n
<1>4. \A j \in Nat : Byte(j) \in Nat
  BY <1>1, <1>2, <1>3
<1>5. LittleEndian(script, i + 1, n)
        = Byte(0) + 256 * Byte(1) + 65536 * Byte(2) + 16777216 * Byte(3)
  BY DEF LittleEndian
<1> HIDE DEF Byte, op
<1>6. Byte(0) \in Nat /\ Byte(1) \in Nat /\ Byte(2) \in Nat /\ Byte(3) \in Nat
  BY <1>4
<1>7. LittleEndian(script, i + 1, n) \in Nat
  <2> DEFINE total(a, b, c, d) == a + 256 * b + 65536 * c + 16777216 * d
  <2>1. LittleEndian(script, i + 1, n) = total(Byte(0), Byte(1), Byte(2), Byte(3))
    BY <1>5
  <2>2. \A a, b, c, d \in Nat : total(a, b, c, d) \in Nat
    OBVIOUS
  <2> HIDE DEF total
  <2>3. total(Byte(0), Byte(1), Byte(2), Byte(3)) \in Nat
    BY <1>6, <2>2
  <2> QED BY <2>1, <2>3
<1>8. After(script, i)
        = i + 1 + (IF op \in 1..75 THEN op ELSE n + LittleEndian(script, i + 1, n))
  BY DEF After, op, n
<1>9. n + LittleEndian(script, i + 1, n) \in Nat
  <2> HIDE DEF n
  <2> DEFINE little == LittleEndian(script, i + 1, n)
  <2>1. little \in Nat
    BY <1>7
  <2> HIDE DEF little
  <2>2. n + little \in Nat
    BY <1>2, <2>1
  <2> QED BY <2>2 DEF little
<1> DEFINE past == IF op \in 1..75 THEN op ELSE n + LittleEndian(script, i + 1, n)
<1>10. past \in Nat
  BY <1>1, <1>9
<1> HIDE DEF past
<1>11. After(script, i) = i + 1 + past
  BY Zenon, <1>8 DEF past
<1> QED BY <1>1, <1>10, <1>11


\* What is made of an instruction hangs on those after it only.
LEMMA RuleReadsOn ==
  ASSUME NEW script \in Seq(Nat), NEW i \in 1..Len(script), NEW f, NEW g,
         \A j \in (i + 1)..Len(script) : f[j] = g[j]
  PROVE  Rule(f, script, i) = Rule(g, script, i)
<1>1. CASE Truncated(script, i)
  BY Zenon, <1>1 DEF Rule
<1>2. CASE ~ Truncated(script, i) /\ ~ After(script, i) <= Len(script)
  BY Zenon, <1>2 DEF Rule
<1>3. CASE ~ Truncated(script, i) /\ After(script, i) <= Len(script)
  <2>1. After(script, i) \in (i + 1)..Len(script)
    BY <1>3, AfterIsLater
  <2> QED BY Zenon, <2>1 DEF Rule
<1> QED BY <1>1, <1>2, <1>3

\* There is such a walk of every script, so check_leaf's is one.
LEMMA ReservedWalks ==
  ASSUME NEW script \in Seq(Nat)
  PROVE  \A i \in 1..Len(script) :
           Reserved(script)[i] = Rule(Reserved(script), script, i)
<1> DEFINE N == Len(script)
           K == {k \in Nat : k <= N => \E f : Walks(f, script, N + 1 - k)}
<1>0. N \in Nat
  OBVIOUS
<1>1. 0 \in K
  <2>1. Walks([i \in {} |-> {}], script, N + 1 - 0)
    <3>1. (N + 1 - 0)..N = {}
      BY <1>0
    <3> QED BY Zenon, <3>1 DEF Walks
  <2> QED BY <2>1
<1>2. \A k \in Nat : k \in K => k + 1 \in K
  <2> SUFFICES ASSUME NEW k \in Nat, k \in K, k + 1 <= N
               PROVE  \E g : Walks(g, script, N + 1 - (k + 1))
    <3>1. \A k \in Nat : k + 1 \in Nat
      OBVIOUS
    <3> QED BY Zenon, <3>1
  <2> DEFINE p == N + 1 - k
             q == N - k
  <2>1. PICK f : Walks(f, script, p)
    BY <1>0
  <2>2. q \in 1..N /\ p = q + 1 /\ N + 1 - (k + 1) = q
    BY <1>0
  <2> HIDE DEF K, p, q
  <2> DEFINE g == [i \in q..N |-> Rule(f, script, i)]
  <2>3. \A i \in p..N : g[i] = f[i]
    <3>1. \A i \in p..N : i \in q..N
      BY <1>0, <2>2
    <3>2. \A i \in p..N : f[i] = Rule(f, script, i)
      BY Zenon, <2>1 DEF Walks
    <3> QED BY Zenon, <3>1, <3>2
  <2>4. \A i \in q..N : Rule(f, script, i) = Rule(g, script, i)
    <3> SUFFICES ASSUME NEW i \in q..N PROVE Rule(f, script, i) = Rule(g, script, i)
      OBVIOUS
    <3>1. i \in 1..N /\ \A j \in (i + 1)..N : j \in p..N
      BY <1>0, <2>2
    <3> HIDE DEF g
    <3>2. \A j \in (i + 1)..N : f[j] = g[j]
      BY Zenon, <2>3, <3>1
    <3> QED BY <3>1, <3>2, RuleReadsOn
  <2>5. g = [i \in q..N |-> Rule(g, script, i)]
    BY Zenon, <2>4
  <2> QED BY Zenon, <2>2, <2>5 DEF Walks
<1>3. Nat \subseteq K
  <2> HIDE DEF K
  <2> QED BY <1>1, <1>2, SetInduction
<1>4. \E f : Walks(f, script, 1)
  <2>1. N \in K
    BY <1>0, <1>3
  <2>2. N + 1 - N = 1 /\ N <= N
    BY <1>0
  <2> QED BY Zenon, <2>1, <2>2
<1>5. Walks(Reserved(script), script, 1)
  BY Zenon, <1>4 DEF Reserved
<1> HIDE DEF N
<1> QED BY Zenon, <1>5 DEF Walks, N

\* OpensToAnyone, of a script read from first on.
OpensFrom(script, first) ==
  \E starts \in SUBSET (first..Len(script)) :
    /\ first \in starts
    /\ \E last \in starts :
         /\ is_op_success(script[last])
         /\ \A i \in starts : i <= last
         /\ \A i \in starts \ {last} :
              /\ ~ Truncated(script, i)
              /\ After(script, i) \in starts
              /\ \A j \in starts : j > i => j >= After(script, i)

\* The opcode a walk meets is one an instruction that is reached begins with.
LEMMA ReservedOpens ==
  ASSUME NEW script \in Seq(Nat)
  PROVE  \A i \in 1..Len(script) : Reserved(script)[i] => OpensFrom(script, i)
<1> DEFINE N == Len(script)
           K == {k \in Nat : \A i \in 1..N :
                   N - i < k /\ Reserved(script)[i] => OpensFrom(script, i)}
<1>0. N \in Nat
  OBVIOUS
<1>1. 0 \in K /\ \A k \in Nat : k + 1 \in Nat
  BY <1>0
<1>2. \A k \in Nat : k \in K => k + 1 \in K
  <2> SUFFICES ASSUME NEW k \in Nat, k \in K,
                      NEW i \in 1..N, N - i < k + 1, Reserved(script)[i]
               PROVE  OpensFrom(script, i)
    BY Zenon, <1>1
  <2>1. Rule(Reserved(script), script, i)
    BY Zenon, ReservedWalks
  <2>2. CASE is_op_success(script[i])
    <3>1. {i} \in SUBSET (i..N) /\ i <= i
      BY <1>0
    <3>2. \A m \in {i} : m <= i
      BY <3>1
    <3>3. {i} \ {i} = {} /\ i \in {i}
      OBVIOUS
    <3>4. \A m \in {i} \ {i} :
            /\ ~ Truncated(script, m)
            /\ After(script, m) \in {i}
            /\ \A j \in {i} : j > m => j >= After(script, m)
      BY Zenon, <3>3
    <3> QED BY Zenon, <2>2, <3>1, <3>2, <3>3, <3>4 DEF OpensFrom
  <2>3. CASE ~ is_op_success(script[i])
    <3> DEFINE a == After(script, i)
    <3>1. ~ Truncated(script, i) /\ a <= N /\ Reserved(script)[a]
      BY Zenon, <2>1, <2>3 DEF Rule
    <3>2. a \in Nat /\ a > i
      BY <3>1, AfterIsLater
    <3>3. a \in 1..N /\ N - a < k
      <4> HIDE DEF a
      <4> QED BY <1>0, <3>1, <3>2
    <3>4. OpensFrom(script, a)
      BY Zenon, <3>1, <3>3
    <3> DEFINE Reach(starts, last) ==
                 /\ is_op_success(script[last])
                 /\ \A m \in starts : m <= last
                 /\ \A m \in starts \ {last} :
                      /\ ~ Truncated(script, m)
                      /\ After(script, m) \in starts
                      /\ \A j \in starts : j > m => j >= After(script, m)
    <3>5a. PICK starts \in SUBSET (a..N) : a \in starts /\ \E last \in starts : Reach(starts, last)
      BY Zenon, <3>4 DEF OpensFrom
    <3>5. PICK last \in starts : Reach(starts, last)
      BY Zenon, <3>5a
    <3> DEFINE longer == {i} \cup starts
    <3> HIDE DEF a
    <3>6. longer \in SUBSET (i..N) /\ i \in longer /\ last \in longer
      BY <1>0, <3>2, <3>3, <3>5a
    <3>7. \A m \in starts : m > i /\ m >= a /\ ~ i > m
      BY <1>0, <3>2, <3>3
    <3>8. \A m \in longer : m <= last
      BY <3>5, <3>7
    <3>9. ASSUME NEW m \in longer \ {last}
          PROVE  /\ ~ Truncated(script, m)
                 /\ After(script, m) \in longer
                 /\ \A j \in longer : j > m => j >= After(script, m)
      <4>1. CASE m = i
        <5>1. ~ Truncated(script, m) /\ After(script, m) \in longer
          BY Zenon, <3>1, <3>5a, <4>1 DEF a
        <5>2. \A j \in longer : j > m => j >= a
          BY <3>7, <4>1
        <5> QED BY Zenon, <4>1, <5>1, <5>2 DEF a
      <4>2. CASE m \in starts
        BY Zenon, <3>5, <3>7, <4>2
      <4> QED BY Zenon, <4>1, <4>2
    <3> HIDE DEF longer
    <3> QED BY Zenon, <3>5, <3>6, <3>8, <3>9 DEF OpensFrom
  <2> QED BY Zenon, <2>2, <2>3
<1>3. Nat \subseteq K
  <2> HIDE DEF K
  <2> QED BY <1>1, <1>2, SetInduction
<1> SUFFICES ASSUME NEW i \in 1..N, Reserved(script)[i] PROVE OpensFrom(script, i)
  OBVIOUS
<1>4. N \in K /\ N - i < N
  BY <1>0, <1>3
<1> QED BY Zenon, <1>4

\* And a script that opens is walked to its opcode, from each instruction.
LEMMA OpensReserved ==
  ASSUME NEW script \in Seq(Nat), OpensToAnyone(script)
  PROVE  1 \in 1..Len(script) /\ Reserved(script)[1] = TRUE
<1> DEFINE N == Len(script)
<1>0. N \in Nat
  OBVIOUS
<1> DEFINE Reach(starts, last) ==
        /\ is_op_success(script[last])
        /\ \A i \in starts \ {last} :
             ~ Truncated(script, i) /\ After(script, i) \in starts
<1>1a. PICK starts \in SUBSET (1..N) : 1 \in starts /\ \E last \in starts : Reach(starts, last)
  BY Zenon DEF OpensToAnyone
<1>1. PICK last \in starts : Reach(starts, last)
  BY Zenon, <1>1a
<1> DEFINE K == {k \in Nat : \A i \in starts : N - i < k => Reserved(script)[i] = TRUE}
<1>2. 0 \in K /\ \A k \in Nat : k + 1 \in Nat
  BY <1>0
<1>3. \A k \in Nat : k \in K => k + 1 \in K
  <2> SUFFICES ASSUME NEW k \in Nat, k \in K, NEW i \in starts, N - i < k + 1
               PROVE  Reserved(script)[i] = TRUE
    BY Zenon, <1>2
  <2>1. i \in 1..N /\ Reserved(script)[i] = Rule(Reserved(script), script, i)
    BY Zenon, ReservedWalks
  <2>2. CASE is_op_success(script[i])
    BY Zenon, <2>1, <2>2 DEF Rule
  <2>3. CASE ~ is_op_success(script[i])
    <3> DEFINE a == After(script, i)
    <3>1. ~ Truncated(script, i) /\ a \in starts
      BY Zenon, <1>1, <2>3
    <3>2. a > i
      BY <2>1, <3>1, AfterIsLater
    <3> HIDE DEF a
    <3>3. a <= N /\ N - a < k
      BY <1>0, <2>1, <3>1, <3>2
    <3>4. Reserved(script)[a] = TRUE
      BY Zenon, <3>1, <3>3
    <3> QED BY Zenon, <2>1, <2>3, <3>1, <3>3, <3>4 DEF Rule, a
  <2> QED BY Zenon, <2>2, <2>3
<1>4. Nat \subseteq K
  <2> HIDE DEF K
  <2> QED BY <1>2, <1>3, SetInduction
<1>5. N \in K /\ N - 1 < N /\ 1 \in 1..N
  BY <1>0, <1>1a, <1>4
<1> QED BY Zenon, <1>1a, <1>5

\* So what opens a leaf to anyone is what check_leaf refuses: a mint keeps
\* every leaf that commits to what it says, and none that commits to nothing.
THEOREM LeafRuleIsExactHolds == LeafSpec => []LeafRuleIsExact
<1>1. LeafTypeOK => LeafRuleIsExact
  <2> SUFFICES ASSUME LeafTypeOK PROVE LeafRuleIsExact
    OBVIOUS
  <2>1. leaf \in Seq(Nat)
    <3>1. leaf \in Seq(Bytes) /\ Bytes \subseteq Nat
      BY LeavesAssumption DEF LeafTypeOK
    <3>2. Len(leaf) \in Nat /\ leaf \in [1..Len(leaf) -> Bytes]
      BY <3>1
    <3>3. leaf \in [1..Len(leaf) -> Nat]
      BY <3>1, <3>2
    <3> QED BY <3>2, <3>3
  <2>2. check_leaf(TAPLEAF_VERSION, leaf) # "None"
          <=> leaf # <<>> /\ Reserved(leaf)[1]
    BY CheckLeafWalks
  <2>3. ASSUME leaf # <<>>, Reserved(leaf)[1] PROVE OpensToAnyone(leaf)
    <3>1. 1 \in 1..Len(leaf)
      BY <2>1, <2>3
    <3> QED BY Zenon, <2>1, <2>3, <3>1, ReservedOpens DEF OpensFrom, OpensToAnyone
  <2>4. ASSUME OpensToAnyone(leaf) PROVE leaf # <<>> /\ Reserved(leaf)[1]
    <3>1. 1 \in 1..Len(leaf) /\ Reserved(leaf)[1] = TRUE
      BY Zenon, <2>1, <2>4, OpensReserved
    <3>2. leaf # <<>>
      BY <2>1, <3>1
    <3> QED BY Zenon, <3>1, <3>2
  <2> QED BY Zenon, <2>2, <2>3, <2>4 DEF LeafRuleIsExact
<1> QED BY <1>1, LeafTypeCorrect, PTL

(***************************************************************************)
(* Certificates.                                                           *)
(***************************************************************************)
\* A certificate that is accepted, and that reads as stating an amount, states
\* the one it is accepted for.
LEMMA AcceptedStatesTheAmount ==
  ASSUME NEW key, NEW bearer, NEW host, NEW amount, NEW cs1,
         certified_over(key, bearer, host, amount, cs1) # {}
  PROVE  decode_cs1_with_amount(cs1) \subseteq {amount}
<1>1. \E lenient \in BOOLEAN : certificate_bytes(cs1, amount, lenient) # {}
  BY DEF certified_over, verify_note_signature_hash, verify_legacy_note_signature_hash
<1> QED BY <1>1 DEF certificate_bytes

(***************************************************************************)
(* The holder and the watcher.                                             *)
(***************************************************************************)
\* The leaf of a bearer hash, as a sequence of bytes.
LEMMA BearerLeafIsASequence ==
  ASSUME NEW h \in [1..HashLen -> 0..255]
  PROVE  /\ HashLen \in Nat /\ h \in Seq(Nat) /\ Len(h) = HashLen
         /\ bearer_leaf(h) \in Seq(Nat) /\ Len(bearer_leaf(h)) = HashLen + 3
<1>1. HashLen \in Nat /\ h \in Seq(Nat) /\ Len(h) = HashLen
  <2>1. HashLen \in 1..75
    BY SpendsAssumption
  <2>2. \A i \in 1..HashLen : h[i] \in 0..255
    OBVIOUS
  <2>3. 0..255 \subseteq Nat
    OBVIOUS
  <2>4. h \in [1..HashLen -> Nat]
    BY <2>2, <2>3
  <2>5. HashLen \in Nat /\ h \in Seq(Nat)
    BY <2>1, <2>4
  <2> QED BY <2>4, <2>5
<1>2. bearer_leaf(h) \in Seq(Nat) /\ Len(bearer_leaf(h)) = HashLen + 3
  <2>1. <<168, HashLen>> \in Seq(Nat) /\ <<135>> \in Seq(Nat)
    BY <1>1
  <2>2. <<168, HashLen>> \o h \in Seq(Nat) /\ Len(<<168, HashLen>> \o h) = HashLen + 2
    BY <1>1, <2>1
  <2> QED BY <1>1, <2>1, <2>2 DEF bearer_leaf
<1> QED BY <1>1, <1>2

\* The leaf of a bearer hash is read back as that hash.
LEMMA LeafOfHash ==
  ASSUME NEW h \in [1..HashLen -> 0..255]
  PROVE  bearer_hash_of_leaf(bearer_leaf(h)) = {h}
<1> DEFINE script == bearer_leaf(h)
<1>1. HashLen \in Nat /\ h \in Seq(Nat) /\ Len(h) = HashLen
  BY BearerLeafIsASequence
<1>2. script \in Seq(Nat) /\ Len(script) = HashLen + 3
  BY BearerLeafIsASequence
<1>3. SubSeq(script, 3, HashLen + 2) = h
  <2>1. \A i \in 1..HashLen : script[i + 2] = h[i]
    BY <1>1 DEF bearer_leaf
  <2> QED BY <1>1, <1>2, <2>1
<1> QED BY <1>2, <1>3, Zenon DEF bearer_hash_of_leaf

\* A preimage spends the bearer note of its hash, and shows that hash.
LEMMA BearerSpend ==
  ASSUME NEW p \in Preimages
  PROVE  /\ output_key(bearer_cw1(p)) = bearer_note(sha256(p))
         /\ bearer_hash(bearer_cw1(p)) = {sha256(p)}
<1> DEFINE s == bearer_cw1(p)
<1>1. /\ s.form = "cw1" /\ s.script = bearer_leaf(sha256(p)) /\ s.control = bearer_control
  BY DEF bearer_cw1
<1>2. output_key(s) = bearer_note(sha256(p))
  BY <1>1 DEF output_key, bearer_note
<1>3. bearer_hash_of_leaf(s.script) = {sha256(p)}
  BY <1>1, SpendsAssumption, LeafOfHash
<1> QED BY <1>1, <1>2, <1>3 DEF bearer_hash

\* certified_over, without what it says of a bearer hash.
LEMMA HashComesLast ==
  ASSUME NEW key, NEW bearer, NEW host, NEW amount, NEW cs1
  PROVE  certified_over(key, {}, host, amount, cs1)
           = certified_over(key, bearer, host, amount, cs1) \ {"LegacyHash"}
BY DEF certified_over

\* The key of a decoded spend is a point, if a recovered key is one.
LEMMA SpendsNamePoints ==
  ASSUME NEW k1, k1.form = "legacy_ck1" => is_x_only_point(k1.key),
         NEW s \in decode_spend(k1), k1.form # "preimage"
  PROVE  decode_note(cp1(output_key(s))) = {output_key(s)}
<1>1. s = k1 /\ k1.form \in {"ck1", "legacy_ck1", "cw1"}
  BY DEF decode_spend
<1>2. is_x_only_point(output_key(s))
  <2>1. CASE k1.form = "ck1"
    BY <1>1, <2>1 DEF decode_spend, output_key
  <2>2. CASE k1.form = "legacy_ck1"
    BY <1>1, <2>2 DEF output_key
  <2>3. CASE k1.form = "cw1"
    <3> DEFINE keys == output_key_of(s.script, s.control)
    <3>1. keys # {}
      BY <1>1, <2>3 DEF decode_spend
    <3>2. \A q \in keys : is_x_only_point(q)
      BY DEF output_key_of, taproot_tweak, is_x_only_point
    <3> QED BY <1>1, <2>3, <3>1, <3>2 DEF output_key, The
  <2> QED BY <1>1, <2>1, <2>2, <2>3
<1> QED BY <1>2 DEF decode_note, cp1

\* A watcher that is told by note_lookup_of what a spend's note is looked up by
\* reaches the holder's verdict about any certificate, but for an old one over
\* the hash of a note whose spend was written as a cw1 (signature.rs,
\* check_note and check_note_certificate).
THEOREM WatcherIsToldTheSame ==
  ASSUME NEW k1, k1.form = "preimage" => k1.preimage \in Preimages,
         k1.form = "legacy_ck1" => is_x_only_point(k1.key),
         NEW host, NEW amount, NEW cs1
  PROVE  LET holder == {check.certificate : check \in check_note(k1, host, amount, cs1)}
             watcher == UNION {check_note_certificate(reference, host, amount, cs1) :
                                 reference \in note_lookup_of(k1)}
         IN watcher = IF k1.form = "cw1" THEN holder \ {"LegacyHash"} ELSE holder
<1> DEFINE Over(s) == certified_over(output_key(s), bearer_hash(s), host, amount, cs1)
           Bare(s) == certified_over(output_key(s), {}, host, amount, cs1)
           holder == {check.certificate : check \in check_note(k1, host, amount, cs1)}
           watcher == UNION {check_note_certificate(reference, host, amount, cs1) :
                               reference \in note_lookup_of(k1)}
<1>1. holder = UNION {Over(s) : s \in decode_spend(k1)}
  <2> DEFINE C(s, over) == [output_key |-> output_key(s), spend |-> check_spend(s, host),
                            certificate |-> over]
  <2>1. \A s, over : C(s, over).certificate = over
    OBVIOUS
  <2>2. check_note(k1, host, amount, cs1)
          = UNION {{C(s, over) : over \in Over(s)} : s \in decode_spend(k1)}
    BY DEF check_note
  <2> HIDE DEF C, Over
  <2> QED BY <2>1, <2>2
<1>2. CASE k1.form = "preimage"
  <2> DEFINE p == k1.preimage
  <2>1. decode_spend(k1) = {bearer_cw1(p)} /\ note_lookup_of(k1) = {hash(sha256(p))}
    BY <1>2 DEF decode_spend, note_lookup_of
  <2>2. holder = certified_over(bearer_note(sha256(p)), {sha256(p)}, host, amount, cs1)
    BY <1>1, <1>2, <2>1, BearerSpend
  <2>3. check_note_certificate(hash(sha256(p)), host, amount, cs1)
          = certified_over(bearer_note(sha256(p)), {sha256(p)}, host, amount, cs1)
    BY DEF check_note_certificate, decode_note, hash
  <2> QED BY <1>2, <2>1, <2>2, <2>3
<1>3. CASE k1.form # "preimage"
  <2>1. note_lookup_of(k1) = {cp1(output_key(s)) : s \in decode_spend(k1)}
    BY <1>3 DEF note_lookup_of, note_id_of
  <2>2. ASSUME NEW s \in decode_spend(k1)
        PROVE  check_note_certificate(cp1(output_key(s)), host, amount, cs1) = Bare(s)
    <3>1. decode_note(cp1(output_key(s))) = {output_key(s)}
      BY <1>3, SpendsNamePoints
    <3> QED BY <3>1 DEF check_note_certificate, cp1
  <2>3. watcher = UNION {Bare(s) : s \in decode_spend(k1)}
    BY <2>1, <2>2
  <2>4. \A s \in decode_spend(k1) : Bare(s) = Over(s) \ {"LegacyHash"}
    BY HashComesLast
  <2>5. k1.form # "cw1" => \A s \in decode_spend(k1) : Bare(s) = Over(s)
    BY <1>3 DEF decode_spend, bearer_hash
  <2> QED BY <1>1, <2>3, <2>4, <2>5
<1> QED BY <1>2, <1>3
=============================================================================
