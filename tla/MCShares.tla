------------------------------ MODULE MCShares ------------------------------
(***************************************************************************)
(* An instance of Shares for TLC: a group of thirteen and hashes to match, *)
(* in which some derivations fail.                                         *)
(***************************************************************************)
EXTENDS Shares, Integers, TLC

Times(k) == (5 * k) % 13
Plus(p, q) == (p + q) % 13
XOf(p) == IF p > 6 THEN 13 - p ELSE p
EvenPoint(p) == p % 2 = 0

Byte(b) == IF b THEN 1 ELSE 0
LeftHash(c, d) ==
  (11 * c + 3 * d.key + 11 * d.index + 2 * d.key * d.index + 4 * Byte(d.hardened)) % 14
RightHash(c, d) == (c + d.key + d.index + Byte(d.hardened)) % 3
MasterLeftHash(s) == s
MasterRightHash(s) == s % 3
HostNumber(t) == (IF t[1] = "a" THEN 1 ELSE 4) + (IF t[2] = "" THEN 0 ELSE 2)
DomainHash(k, t) == [i \in 1..4 |-> (k * i + HostNumber(t)) % 8]
NostrHash(i) == i + 5
DeriveHash(q, c, p, i) ==
  (q + 2 * c + i + (IF p = {} THEN 3 ELSE CHOOSE n \in p : TRUE)) % 13
TweakHash(q, r) == (2 * q + r) % 14

Written == {<<"a", "">>, <<"a", "8000">>, <<"b", "">>}
Services == {<<"a", "8000">>, <<"b", "">>}
Group == 0..12
TwoWallets == {[seed |-> {3}, identity |-> {}], [seed |-> {}, identity |-> {1}]}
=============================================================================
