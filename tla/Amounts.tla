------------------------------ MODULE Amounts ------------------------------
(***************************************************************************)
(* An amount in a human-readable part: digits and a multiplier.  A         *)
(* certificate's is written and read by src/recoverable.rs, an invoice's   *)
(* is read by src/bolt11.rs.  Each of the three has the multipliers of     *)
(* BOLT 11 in a table of its own, and so has each definition here.  An     *)
(* Option is a set of at most one value.                                   *)
(***************************************************************************)
EXTENDS Naturals

CONSTANTS
  Nano,       \* msat in a billionth of a bitcoin: 100
  Kilo,       \* from each multiplier to the next: 1000
  MaxAmount   \* u64::MAX

Multipliers == {"", "m", "u", "n", "p"}
AmountSuffixes == [digits : Nat, unit : Multipliers]

ASSUME AmountsAssumption ==
  /\ MaxAmount \in Nat
  /\ Nano \in Nat \ {0}
  /\ Kilo \in Nat \ {0}

\* What encode_amount_suffix tries, in its order.
EncodeTable ==
  <<[unit |-> "", msat |-> Nano * Kilo * Kilo * Kilo],
    [unit |-> "m", msat |-> Nano * Kilo * Kilo],
    [unit |-> "u", msat |-> Nano * Kilo],
    [unit |-> "n", msat |-> Nano]>>

\* The first multiplier that divides the amount; one pico is a tenth of a msat.
encode_amount_suffix(amount_msat) ==
  LET fits == {i \in 1..4 : amount_msat % EncodeTable[i].msat = 0}
      first == CHOOSE i \in fits : \A j \in fits : i <= j
  IN IF fits = {} THEN [digits |-> amount_msat * 10, unit |-> "p"]
     ELSE [digits |-> amount_msat \div EncodeTable[first].msat,
           unit |-> EncodeTable[first].unit]

\* The digits are read as a u128, which holds ten times any u64, and it is the
\* amount that has to be a u64.
decode_amount_suffix(suffix) ==
  LET digits == suffix.digits
      amount == IF suffix.unit = "" THEN {digits * (Nano * Kilo * Kilo * Kilo)}
                ELSE IF suffix.unit = "m" THEN {digits * (Nano * Kilo * Kilo)}
                ELSE IF suffix.unit = "u" THEN {digits * (Nano * Kilo)}
                ELSE IF suffix.unit = "n" THEN {digits * Nano}
                ELSE IF suffix.unit = "p" /\ digits % 10 = 0 THEN {digits \div 10}
                ELSE {}
  IN {a \in amount : a <= MaxAmount}

\* Here the digits are a u64 themselves, and so is every product.
bolt11_amount(suffix) ==
  LET value == suffix.digits
      checked_mul(unit) == IF value * unit <= MaxAmount THEN {value * unit} ELSE {}
  IN IF value > MaxAmount THEN {}
     ELSE IF suffix.unit = "" THEN checked_mul(Nano * Kilo * Kilo * Kilo)
     ELSE IF suffix.unit = "m" THEN checked_mul(Nano * Kilo * Kilo)
     ELSE IF suffix.unit = "u" THEN checked_mul(Nano * Kilo)
     ELSE IF suffix.unit = "n" THEN checked_mul(Nano)
     ELSE IF suffix.unit = "p" /\ value % 10 = 0 THEN {value \div 10}
     ELSE {}
=============================================================================
