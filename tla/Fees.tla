-------------------------------- MODULE Fees --------------------------------
(***************************************************************************)
(* src/fees.rs: the mint fee a SERVICE advertises in its metadata, and the *)
(* search for the smallest invoice whose note nets a given amount.         *)
(*                                                                         *)
(* The code's constants are parameters here, so that every amount of a     *)
(* small word can be tried.  An Option is a set of at most one value.      *)
(***************************************************************************)
EXTENDS Integers, Sequences

CONSTANTS
  Million,           \* what fee_ppm is a fraction of: 1_000_000
  MAX_u64,           \* u64::MAX
  MAX_SAFE_INTEGER,  \* the largest value a token may carry
  Metadata           \* the metadata a payRequest may come with

(***************************************************************************)
(* Metadata is a sequence of entries.  An entry is text/plain or not, and  *)
(* its values are what stands between the commas of its first token, each  *)
(* the number it writes or {} when it writes none; no token, no values.    *)
(***************************************************************************)
Option(S) == {{}} \cup {{n} : n \in S}

Entry == [plain : BOOLEAN, values : Seq(Option(0..MAX_u64))]

ASSUME FeesAssumption ==
  /\ Million \in Nat \ {0}
  /\ MAX_u64 \in Nat
  /\ Million * Million <= MAX_u64
  /\ MAX_SAFE_INTEGER \in 0..MAX_u64
  /\ Metadata \subseteq Seq(Entry)

u64 == 0..MAX_u64
wrap(n) == n % (MAX_u64 + 1)
saturating_sub(a, b) == IF a <= b THEN 0 ELSE a - b
saturating_add(a, b) == IF a + b <= MAX_u64 THEN a + b ELSE MAX_u64

value_of(text) == {n \in text : n <= MAX_SAFE_INTEGER}

MintFee == [base_fee_msat : 0..MAX_SAFE_INTEGER, fee_ppm : 0..(Million - 1),
            address_fee_msat : Option(0..MAX_SAFE_INTEGER)]

\* A mistake to catch: a fee of 100% or more is let through.
parse_any_token(values) ==
  LET value(i) == IF i \in DOMAIN values THEN value_of(values[i]) ELSE {}
  IN  [base_fee_msat : value(1), fee_ppm : value(2), address_fee_msat : {value(3)}]

\* The first two values are required, and a fee of 100% or more is refused.
parse_token(values) ==
  LET value(i) == IF i \in DOMAIN values THEN value_of(values[i]) ELSE {}
  IN  {fee \in [base_fee_msat : value(1), fee_ppm : value(2),
                address_fee_msat : {value(3)}] : fee.fee_ppm < Million}

Parseable(metadata) ==
  {i \in DOMAIN metadata : metadata[i].plain /\ parse_token(metadata[i].values) # {}}

\* The first token that parses, unless all it advertises is zero.
parse_mint_fee(metadata) ==
  {fee \in UNION {parse_token(metadata[i].values) :
                    i \in {j \in Parseable(metadata) :
                             \A k \in Parseable(metadata) : j <= k}} :
     \/ fee.base_fee_msat # 0
     \/ fee.fee_ppm # 0
     \/ fee.address_fee_msat \notin {{}, {0}}}

\* A mistake to catch, the one its comment expects of a port.
obvious_fee(gross, ppm) == wrap(gross * ppm) \div Million

proportional_fee(gross, ppm) ==
  wrap(wrap((gross \div Million) * ppm) + wrap((gross % Million) * ppm) \div Million)

apply_mint_fee(gross, fee) ==
  saturating_sub(saturating_sub(gross, fee.base_fee_msat),
                 proportional_fee(gross, fee.fee_ppm))

-----------------------------------------------------------------------------
(***************************************************************************)
(* One call of gross_up_for_mint_fee, loop turn by loop turn, with the fee *)
(* that some metadata advertised.                                          *)
(***************************************************************************)
VARIABLES
  pc,   \* "called", "double" or "search", then "returned" or "saturated"
  net,  \* net_msat
  fee,
  lo,   \* also the value returned
  hi

vars == <<pc, net, fee, lo, hi>>

TypeOK ==
  /\ pc \in {"called", "double", "search", "returned", "saturated"}
  /\ net \in u64
  /\ fee \in MintFee
  /\ lo \in u64
  /\ hi \in u64

Init ==
  /\ pc = "called"
  /\ net \in u64
  /\ fee \in UNION {parse_mint_fee(metadata) : metadata \in Metadata}
  /\ lo = 0
  /\ hi = 0

Nets(gross) == apply_mint_fee(gross, fee) >= net

Start ==
  /\ pc = "called"
  /\ IF net = 0
     THEN pc' = "returned" /\ UNCHANGED hi
     ELSE /\ pc' = "double"
          /\ hi' = LET start == saturating_add(net, fee.base_fee_msat)
                   IN IF start = 0 THEN 1 ELSE start
  /\ UNCHANGED <<net, fee, lo>>

Double ==
  /\ pc = "double"
  /\ ~ Nets(hi)
  /\ hi * 2 <= MAX_u64
  /\ hi' = hi * 2
  /\ UNCHANGED <<pc, net, fee, lo>>

\* A mistake to catch: the fallback taken a doubling too early.
SaturateEarly ==
  /\ pc = "double"
  /\ ~ Nets(hi)
  /\ hi * 4 > MAX_u64
  /\ pc' = "saturated"
  /\ lo' = MAX_u64
  /\ UNCHANGED <<net, fee, hi>>

\* checked_mul says None: u64::MAX is returned.
Saturate ==
  /\ pc = "double"
  /\ ~ Nets(hi)
  /\ hi * 2 > MAX_u64
  /\ pc' = "saturated"
  /\ lo' = MAX_u64
  /\ UNCHANGED <<net, fee, hi>>

Bracket ==
  /\ pc = "double"
  /\ Nets(hi)
  /\ pc' = "search"
  /\ UNCHANGED <<net, fee, lo, hi>>

\* Two mistakes to catch: an answer that will do is passed by, and one that will
\* not is kept.
BisectPast ==
  /\ pc = "search"
  /\ lo < hi
  /\ LET mid == lo + (hi - lo) \div 2
     IN IF Nets(mid) THEN hi' = mid - 1 /\ UNCHANGED lo
                     ELSE lo' = mid + 1 /\ UNCHANGED hi
  /\ UNCHANGED <<pc, net, fee>>

BisectInPlace ==
  /\ pc = "search"
  /\ lo < hi
  /\ LET mid == lo + (hi - lo) \div 2
     IN IF Nets(mid) THEN hi' = mid /\ UNCHANGED lo
                     ELSE lo' = mid /\ UNCHANGED hi
  /\ UNCHANGED <<pc, net, fee>>

Bisect ==
  /\ pc = "search"
  /\ lo < hi
  /\ LET mid == lo + (hi - lo) \div 2
     IN IF Nets(mid) THEN hi' = mid /\ UNCHANGED lo
                     ELSE lo' = mid + 1 /\ UNCHANGED hi
  /\ UNCHANGED <<pc, net, fee>>

Return ==
  /\ pc = "search"
  /\ ~ (lo < hi)
  /\ pc' = "returned"
  /\ UNCHANGED <<net, fee, lo, hi>>

Next == Start \/ Double \/ Saturate \/ Bracket \/ Bisect \/ Return

Spec == Init /\ [][Next]_vars

\* A sequential function runs on.
FairSpec == Spec /\ WF_vars(Next)
-----------------------------------------------------------------------------
\* Splitting the multiplication gives the exact floor of gross * ppm / 10^6,
\* and nothing on the way exceeds the word (proportional_fee).
SplitIsExact ==
  \A gross \in {lo, hi, net} :
    proportional_fee(gross, fee.fee_ppm) = (gross * fee.fee_ppm) \div Million

\* What the search returns nets at least what was asked, and nothing smaller
\* does (gross_up_for_mint_fee: "The SMALLEST invoice amount").
SmallestGross ==
  pc = "returned" => /\ Nets(lo)
                     /\ \A gross \in u64 : gross < lo => ~ Nets(gross)

\* The fallback is taken only when no amount in the lower half of the word
\* would have done: the doubling never passes a bracket by.
FallbackIsLate ==
  pc = "saturated" => \A gross \in u64 : 2 * gross <= MAX_u64 => ~ Nets(gross)

\* The search ends for every fee that parses, however near to 100% (parse_token:
\* "a SERVICE cannot stall a caller").
Terminates == <>(pc \in {"returned", "saturated"})

\* The comment on the fallback: "unreachable with ppm < 1_000_000".
FallbackUnreachable == fee.fee_ppm < Million => pc # "saturated"
=============================================================================
