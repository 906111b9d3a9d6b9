----------------------------- MODULE FeesProofs -----------------------------
(***************************************************************************)
(* What the fee search returns, for every word, every denominator whose    *)
(* square fits in it, and every fee that parses.                           *)
(***************************************************************************)
EXTENDS Fees, TLAPS

-----------------------------------------------------------------------------
\* A quotient is known by the remainder it leaves.
LEMMA DivideUnique ==
  ASSUME NEW M \in Nat \ {0}, NEW a \in Nat, NEW b \in Nat, NEW n \in Nat,
         n = a * M + b, b < M
  PROVE  n \div M = a
<1> DEFINE q == n \div M
<1>1. q \in Nat /\ n % M \in 0..(M - 1) /\ n = q * M + (n % M)
  BY SMT
<1> HIDE DEF q
<1>2. ASSUME q < a PROVE FALSE
  <2>1. (q + 1) * M <= a * M
    BY <1>1, <1>2, SMT
  <2>2. (q + 1) * M = q * M + M
    BY <1>1, SMT
  <2>3. q * M \in Int /\ a * M \in Int
    BY <1>1, SMT
  <2>4. QED
    BY <1>1, <2>1, <2>2, <2>3, SMT
<1>3. ASSUME a < q PROVE FALSE
  <2>1. (a + 1) * M <= q * M
    BY <1>1, <1>3, SMT
  <2>2. (a + 1) * M = a * M + M
    BY SMT
  <2>3. q * M \in Int /\ a * M \in Int
    BY <1>1, SMT
  <2>4. QED
    BY <1>1, <2>1, <2>2, <2>3, SMT
<1>4. q = a
  BY <1>1, <1>2, <1>3, SMT
<1>5. QED
  BY <1>4 DEF q

\* A product divided by M, from the quotient and the remainder of a factor.
LEMMA SplitProduct ==
  ASSUME NEW M \in Nat \ {0}, NEW g \in Nat, NEW p \in Nat
  PROVE  (g * p) \div M = (g \div M) * p + ((g % M) * p) \div M
<1> DEFINE q == g \div M
           r == g % M
           s == (r * p) \div M
           t == (r * p) % M
<1>1. q \in Nat /\ r \in 0..(M - 1) /\ g = q * M + r
  BY SMT
<1>2. r * p \in Nat
  BY <1>1, SMT
<1>3. s \in Nat /\ t \in 0..(M - 1) /\ r * p = s * M + t
  BY <1>2, SMT
<1> HIDE DEF q, r, s, t
<1>4. g * p = (q * p + s) * M + t
  <2>1. g * p = (q * M) * p + r * p
    BY <1>1, SMT
  <2>2. (q * M) * p = (q * p) * M
    BY <1>1, SMT
  <2>3. (q * p + s) * M = (q * p) * M + s * M
    BY <1>1, <1>3, SMT
  <2>4. /\ (q * p) * M \in Int /\ s * M \in Int /\ r * p \in Int
        /\ (q * M) * p \in Int
    BY <1>1, <1>3, SMT
  <2>5. QED
    BY <1>3, <2>1, <2>2, <2>3, <2>4, SMT
<1>5. q * p + s \in Nat /\ g * p \in Nat
  BY <1>1, <1>3, SMT
<1>6. (g * p) \div M = q * p + s
  BY <1>3, <1>4, <1>5, DivideUnique
<1>7. QED
  BY <1>6 DEF q, r, s

\* Multiplication by a natural number preserves order.
LEMMA TimesMonotone ==
  ASSUME NEW a \in Nat, NEW b \in Nat, NEW c \in Nat, a <= b
  PROVE  a * c <= b * c
  BY SMT

\* A quotient by M grows with its numerator, and by no more than k when the
\* numerator grows by k * M at most.
LEMMA DivideMonotone ==
  ASSUME NEW M \in Nat \ {0}, NEW m \in Nat, NEW n \in Nat, NEW k \in Nat,
         m <= n, n <= m + k * M
  PROVE  m \div M <= n \div M /\ n \div M <= m \div M + k
<1> DEFINE a == m \div M
           b == n \div M
<1>1. a \in Nat /\ m % M \in 0..(M - 1) /\ m = a * M + (m % M)
  BY SMT
<1>2. b \in Nat /\ n % M \in 0..(M - 1) /\ n = b * M + (n % M)
  BY SMT
<1> HIDE DEF a, b
<1>3. a * M \in Nat /\ b * M \in Nat /\ k * M \in Nat
  BY <1>1, <1>2, SMT
<1>4. ASSUME b < a PROVE FALSE
  <2>1. (b + 1) * M <= a * M
    BY <1>1, <1>2, <1>4, TimesMonotone
  <2>2. (b + 1) * M = b * M + M
    BY <1>2, SMT
  <2>3. QED
    BY <1>1, <1>2, <1>3, <2>1, <2>2, SMT
<1>5. ASSUME a + k < b PROVE FALSE
  <2>1. (a + k + 1) * M <= b * M
    BY <1>1, <1>2, <1>5, TimesMonotone
  <2>2. (a + k + 1) * M = a * M + k * M + M
    BY <1>1, SMT
  <2>3. QED
    BY <1>1, <1>2, <1>3, <2>1, <2>2, SMT
<1>6. QED
  BY <1>1, <1>2, <1>4, <1>5, SMT DEF a, b

-----------------------------------------------------------------------------
\* proportional_fee computes floor(gross * ppm / Million) for every gross in
\* the word and every ppm that parses: no intermediate value wraps.
LEMMA ProportionalFeeExact ==
  ASSUME NEW gross \in u64, NEW ppm \in 0..(Million - 1)
  PROVE  /\ proportional_fee(gross, ppm) = (gross * ppm) \div Million
         /\ proportional_fee(gross, ppm) \in 0..gross
<1> DEFINE q == gross \div Million
           r == gross % Million
<1>1. Million \in Nat \ {0} /\ MAX_u64 \in Nat /\ Million * Million <= MAX_u64
  BY FeesAssumption
<1>2. gross \in Nat /\ gross <= MAX_u64 /\ ppm \in Nat /\ ppm < Million
  BY <1>1 DEF u64
<1>3. q \in Nat /\ r \in 0..(Million - 1) /\ gross = q * Million + r
  BY <1>1, <1>2, SMT
<1>4. (gross * ppm) \div Million = q * ppm + (r * ppm) \div Million
  BY <1>1, <1>2, SplitProduct
<1> HIDE DEF q, r
<1>5. q * ppm \in 0..MAX_u64
  <2>1. q * ppm <= q * Million
    BY <1>1, <1>2, <1>3, SMT
  <2>2. q * Million <= gross
    BY <1>1, <1>3, SMT
  <2>3. QED
    BY <1>1, <1>2, <1>3, <2>1, <2>2, SMT
<1>6. r * ppm \in 0..MAX_u64
  <2>1. r * ppm <= Million * ppm
    BY <1>1, <1>2, <1>3, TimesMonotone
  <2>2. Million * ppm <= Million * Million
    BY <1>1, <1>2, SMT
  <2>3. r * ppm \in Nat /\ Million * ppm \in Nat /\ Million * Million \in Nat
    BY <1>1, <1>2, <1>3, SMT
  <2>4. QED
    BY <1>1, <2>1, <2>2, <2>3, SMT
<1>7. (gross * ppm) \div Million \in 0..gross
  <2>1. gross * ppm \in Nat /\ 0 * Million \in Nat /\ gross * Million \in Nat
    BY <1>1, <1>2, SMT
  <2>2. gross * ppm <= 0 + gross * Million
    BY <1>1, <1>2, SMT
  <2>3. 0 \div Million <= (gross * ppm) \div Million
        /\ (gross * ppm) \div Million <= 0 \div Million + gross
    BY <1>1, <1>2, <2>1, <2>2, DivideMonotone
  <2>4. 0 \div Million = 0
    BY <1>1, SMT
  <2>5. (gross * ppm) \div Million \in Int
    BY <1>1, <2>1, SMT
  <2>6. QED
    BY <1>2, <2>3, <2>4, <2>5, SMT
<1>8. \A n \in 0..MAX_u64 : wrap(n) = n
  BY <1>1, SMT DEF wrap
<1>9. proportional_fee(gross, ppm) = wrap(q * ppm + (r * ppm) \div Million)
  BY <1>5, <1>6, <1>8 DEF proportional_fee, q, r
<1> DEFINE z == (gross * ppm) \div Million
<1>10. z \in 0..gross /\ proportional_fee(gross, ppm) = wrap(z)
  BY <1>4, <1>7, <1>9
<1> HIDE DEF z
<1>11. z \in 0..MAX_u64
  BY <1>2, <1>10, <1>1
<1>12. wrap(z) = z
  BY <1>8, <1>11
<1>13. QED
  BY <1>10, <1>12 DEF z

\* What a SERVICE credits never falls when the invoice grows.
LEMMA ApplyMonotone ==
  ASSUME NEW f \in MintFee, NEW g \in u64, NEW h \in u64, g <= h
  PROVE  /\ apply_mint_fee(g, f) \in u64
         /\ apply_mint_fee(g, f) <= apply_mint_fee(h, f)
<1> DEFINE p == f.fee_ppm
           x == proportional_fee(g, p)
           y == proportional_fee(h, p)
<1>1. /\ Million \in Nat \ {0} /\ MAX_u64 \in Nat
      /\ f.base_fee_msat \in Nat /\ p \in 0..(Million - 1)
      /\ g \in Nat /\ h \in Nat /\ g <= MAX_u64 /\ h <= MAX_u64
  BY FeesAssumption DEF MintFee, u64
<1>2. /\ x = (g * p) \div Million /\ x \in 0..g
      /\ y = (h * p) \div Million /\ y \in 0..h
  BY <1>1, ProportionalFeeExact
<1>3. y <= x + (h - g)
  <2> DEFINE k == h - g
  <2>1. k \in Nat /\ h = g + k
    BY <1>1, SMT
  <2> HIDE DEF k
  <2>2. h * p = g * p + k * p
    BY <1>1, <2>1, SMT
  <2>3. k * p <= k * Million
    BY <1>1, <2>1, SMT
  <2>4. g * p \in Nat /\ h * p \in Nat /\ k * p \in Nat /\ k * Million \in Nat
    BY <1>1, <2>1, SMT
  <2>5. g * p <= h * p /\ h * p <= g * p + k * Million
    BY <2>2, <2>3, <2>4, SMT
  <2>6. (h * p) \div Million <= (g * p) \div Million + k
    BY <1>1, <2>1, <2>4, <2>5, DivideMonotone
  <2>7. QED
    BY <1>2, <2>6 DEF k
<1> HIDE DEF x, y, p
<1>4. /\ apply_mint_fee(g, f) = saturating_sub(saturating_sub(g, f.base_fee_msat), x)
      /\ apply_mint_fee(h, f) = saturating_sub(saturating_sub(h, f.base_fee_msat), y)
  BY DEF apply_mint_fee, x, y, p
<1>5. QED
  BY <1>1, <1>2, <1>3, <1>4, SMT DEF saturating_sub, u64

-----------------------------------------------------------------------------
\* A token that parses has the type MintFee says.
LEMMA ParseType ==
  ASSUME NEW metadata \in Metadata, NEW f \in parse_mint_fee(metadata)
  PROVE  f \in MintFee
<1>1. PICK i \in DOMAIN metadata : f \in parse_token(metadata[i].values)
  BY DEF parse_mint_fee, Parseable
<1>2. metadata[i].values \in Seq(Option(0..MAX_u64))
  <2>1. metadata \in Seq(Entry)
    BY FeesAssumption
  <2>2. metadata[i] \in Entry
    BY <2>1
  <2>3. QED
    BY <2>2 DEF Entry
<1> DEFINE values == metadata[i].values
           value(k) == IF k \in DOMAIN values THEN value_of(values[k]) ELSE {}
<1>3. \A k \in {1, 2, 3} : value(k) \in Option(0..MAX_SAFE_INTEGER)
  BY <1>2, FeesAssumption DEF value_of, Option
<1>4. /\ f \in [base_fee_msat : value(1), fee_ppm : value(2),
                address_fee_msat : {value(3)}]
      /\ f.fee_ppm < Million
  BY <1>1 DEF parse_token
<1> HIDE DEF value
<1>5. QED
  BY <1>3, <1>4, FeesAssumption DEF MintFee, Option

\* Every variable of the search keeps its type.
THEOREM FeesTypeCorrect == Spec => []TypeOK
<1>1. Init => TypeOK
  BY ParseType, FeesAssumption DEF Init, TypeOK, u64
<1>2. TypeOK /\ [Next]_vars => TypeOK'
  <2> SUFFICES ASSUME TypeOK, [Next]_vars PROVE TypeOK'
    OBVIOUS
  <2>1. CASE Start
    BY <2>1, FeesAssumption DEF Start, TypeOK, u64, MintFee, saturating_add
  <2>2. CASE Double
    BY <2>2, FeesAssumption DEF Double, TypeOK, u64
  <2>3. CASE Saturate
    BY <2>3, FeesAssumption DEF Saturate, TypeOK, u64
  <2>4. CASE Bracket
    BY <2>4 DEF Bracket, TypeOK
  <2>5. CASE Bisect
    BY <2>5, FeesAssumption DEF Bisect, TypeOK, u64
  <2>6. CASE Return
    BY <2>6 DEF Return, TypeOK
  <2>7. CASE UNCHANGED vars
    BY <2>7 DEF vars, TypeOK
  <2>8. QED
    BY <2>1, <2>2, <2>3, <2>4, <2>5, <2>6, <2>7 DEF Next
<1>3. QED
  BY <1>1, <1>2, PTL DEF Spec

\* Nothing on the way to a fee wraps, and the fee is exact.
THEOREM SplitIsExactHolds == Spec => []SplitIsExact
<1>1. TypeOK => SplitIsExact
  BY ProportionalFeeExact DEF TypeOK, SplitIsExact, MintFee
<1>2. QED
  BY <1>1, FeesTypeCorrect, PTL

(***************************************************************************)
(* The invariant of the search: everything below lo is too small, and from *)
(* the bracket on hi is enough.                                            *)
(***************************************************************************)
Narrowed ==
  /\ pc = "called" => lo = 0
  /\ pc = "double" => lo = 0 /\ hi > 0
  /\ pc = "search" => lo <= hi /\ Nets(hi)
  /\ pc = "search" => \A gross \in u64 : gross < lo => ~ Nets(gross)
  /\ SmallestGross
  /\ FallbackIsLate

\* Every step of the search keeps the bracket.
LEMMA NextNarrowed == TypeOK /\ Narrowed /\ [Next]_vars => Narrowed'
<1> SUFFICES ASSUME TypeOK, Narrowed, [Next]_vars PROVE Narrowed'
  OBVIOUS
<1>1. \A g, h \in u64 : g <= h /\ Nets(g) => Nets(h)
  <2> SUFFICES ASSUME NEW g \in u64, NEW h \in u64, g <= h, Nets(g)
               PROVE  Nets(h)
    OBVIOUS
  <2>1. /\ apply_mint_fee(g, fee) \in u64 /\ apply_mint_fee(h, fee) \in u64
        /\ apply_mint_fee(g, fee) <= apply_mint_fee(h, fee)
    BY ApplyMonotone, FeesAssumption DEF TypeOK, u64
  <2>2. QED
    BY <2>1, FeesAssumption DEF Nets, TypeOK, u64
<1>2. lo \in Nat /\ hi \in Nat /\ lo <= MAX_u64 /\ hi <= MAX_u64 /\ MAX_u64 \in Nat
  BY FeesAssumption DEF TypeOK, u64
<1>3. ASSUME UNCHANGED <<net, fee>>
      PROVE  \A g \in u64 : Nets(g)' <=> Nets(g)
  BY <1>3 DEF Nets
<1>4. CASE Start
  <2>1. CASE net = 0
    <3>1. pc' = "returned" /\ lo' = 0 /\ UNCHANGED <<net, fee>>
      BY <1>4, <2>1 DEF Start, Narrowed
    <3>2. 0 \in u64
      BY <1>2 DEF u64
    <3>3. apply_mint_fee(0, fee) \in u64
      BY <3>2, ApplyMonotone DEF TypeOK
    <3>4. Nets(0)
      BY <2>1, <3>3, <1>2 DEF Nets, u64
    <3>5. QED
      BY <3>1, <3>2, <3>4, <1>2, <1>3 DEF Narrowed, SmallestGross, FallbackIsLate, u64
  <2>2. CASE net # 0
    <3>1. pc' = "double" /\ lo' = 0 /\ hi' > 0
      BY <1>4, <2>2, FeesAssumption
         DEF Start, Narrowed, TypeOK, u64, MintFee, saturating_add
    <3>2. QED
      BY <3>1 DEF Narrowed, SmallestGross, FallbackIsLate
  <2>3. QED
    BY <2>1, <2>2
<1>5. CASE Double
  <2>1. pc' = "double" /\ lo' = 0 /\ hi' > 0
    BY <1>2, <1>5 DEF Double, Narrowed
  <2>2. QED
    BY <2>1 DEF Narrowed, SmallestGross, FallbackIsLate
<1>6. CASE Saturate
  <2>1. pc' = "saturated" /\ UNCHANGED <<net, fee>> /\ ~ Nets(hi) /\ hi * 2 > MAX_u64
    BY <1>6 DEF Saturate
  <2>2. ASSUME NEW gross \in u64, 2 * gross <= MAX_u64
        PROVE  ~ Nets(gross)
    <3>1. gross <= hi /\ hi \in u64
      BY <1>2, <2>1, <2>2 DEF u64
    <3>2. QED
      BY <1>1, <2>1, <3>1
  <2>3. QED
    BY <1>3, <2>1, <2>2 DEF Narrowed, SmallestGross, FallbackIsLate
<1>7. CASE Bracket
  <2>1. pc' = "search" /\ lo' = 0 /\ UNCHANGED <<net, fee, hi>> /\ Nets(hi)
    BY <1>7 DEF Bracket, Narrowed
  <2>2. hi \in u64 /\ \A gross \in u64 : ~ (gross < 0)
    BY <1>2 DEF u64
  <2>3. QED
    BY <1>2, <1>3, <2>1, <2>2 DEF Narrowed, SmallestGross, FallbackIsLate
<1>8. CASE Bisect
  <2> DEFINE mid == lo + (hi - lo) \div 2
  <2>1. mid \in u64 /\ lo <= mid /\ mid < hi
    BY <1>2, <1>8 DEF Bisect, u64
  <2>2. /\ pc = "search" /\ pc' = "search" /\ UNCHANGED <<net, fee>>
        /\ Nets(hi) /\ hi \in u64
        /\ \A gross \in u64 : gross < lo => ~ Nets(gross)
    BY <1>2, <1>8 DEF Bisect, Narrowed, u64
  <2>3. CASE Nets(mid)
    <3>1. hi' = mid /\ lo' = lo
      BY <1>8, <2>3 DEF Bisect
    <3> HIDE DEF mid
    <3>2. QED
      BY <1>3, <2>1, <2>2, <2>3, <3>1 DEF Narrowed, SmallestGross, FallbackIsLate
  <2>4. CASE ~ Nets(mid)
    <3>1. hi' = hi /\ lo' = mid + 1
      BY <1>8, <2>4 DEF Bisect
    <3> HIDE DEF mid
    <3>2. mid + 1 <= hi
      BY <1>2, <2>1 DEF u64
    <3>3. ASSUME NEW gross \in u64, gross < mid + 1
          PROVE  ~ Nets(gross)
      <4>1. gross <= mid
        BY <1>2, <2>1, <3>3 DEF u64
      <4>2. QED
        BY <1>1, <2>1, <2>4, <4>1
    <3>4. QED
      BY <1>3, <2>2, <3>1, <3>2, <3>3 DEF Narrowed, SmallestGross, FallbackIsLate
  <2>5. QED
    BY <2>3, <2>4
<1>9. CASE Return
  <2>1. /\ pc' = "returned" /\ UNCHANGED <<net, fee, lo, hi>>
        /\ lo = hi /\ lo \in u64 /\ Nets(lo)
        /\ \A gross \in u64 : gross < lo => ~ Nets(gross)
    BY <1>2, <1>9 DEF Return, Narrowed, u64
  <2>2. QED
    BY <1>3, <2>1 DEF Narrowed, SmallestGross, FallbackIsLate
<1>10. CASE UNCHANGED vars
  <2>1. \A g \in u64 : Nets(g)' <=> Nets(g)
    BY <1>3, <1>10 DEF vars
  <2>2. hi \in u64 /\ lo \in u64
    BY DEF TypeOK
  <2>3. QED
    BY <1>10, <2>1, <2>2 DEF vars, Narrowed, SmallestGross, FallbackIsLate
<1>11. QED
  BY <1>4, <1>5, <1>6, <1>7, <1>8, <1>9, <1>10 DEF Next

\* The invariant holds of every behaviour.
LEMMA NarrowedCorrect == Spec => []Narrowed
<1>1. Init => Narrowed
  BY DEF Init, Narrowed, SmallestGross, FallbackIsLate
<1>2. QED
  BY <1>1, FeesTypeCorrect, NextNarrowed, PTL DEF Spec

\* gross_up_for_mint_fee returns the smallest amount that nets what was asked.
THEOREM SmallestGrossHolds == Spec => []SmallestGross
<1>1. Narrowed => SmallestGross
  BY DEF Narrowed
<1>2. QED
  BY <1>1, NarrowedCorrect, PTL

\* It falls back on u64::MAX only when the lower half of the word holds no
\* answer.
THEOREM FallbackIsLateHolds == Spec => []FallbackIsLate
<1>1. Narrowed => FallbackIsLate
  BY DEF Narrowed
<1>2. QED
  BY <1>1, NarrowedCorrect, PTL
=============================================================================
