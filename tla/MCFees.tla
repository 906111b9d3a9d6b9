------------------------------- MODULE MCFees -------------------------------
(***************************************************************************)
(* Fees for TLC, over the metadata of a small word: an entry of another    *)
(* type that also carries a token, then a text/plain one.                  *)
(***************************************************************************)
EXTENDS Fees

Values == {{}} \cup {{n} : n \in {0, 1, 3, Million \div 2, Million - 1, Million}}

Tokens == [plain : {TRUE}, values : {<<>>} \cup (Values \X Values)
                                           \cup (Values \X Values \X {{}, {0}, {1}})]
Image == [plain |-> FALSE, values |-> <<{1}, {1}>>]

SomeMetadata == {<<Image, t>> : t \in Tokens} \cup {<<s, t>> : s, t \in
                   {u \in Tokens : Len(u.values) = 2 /\ {} \in {u.values[1], u.values[2]}}}
=============================================================================
