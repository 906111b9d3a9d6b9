------------------------------ MODULE MCClient ------------------------------
(***************************************************************************)
(* Instances of Client for TLC: the wordings a SERVICE uses, by name.      *)
(***************************************************************************)
EXTENDS ClientInv, TLC

\* The order of notes that nobody holds yet, and of the calls, is immaterial.
Symmetry == Permutations(Notes \ Genesis) \cup Permutations(Ops)

AlreadyInUse == {"isInUse", "saysInUse"}  \* "already in use"
OutputInUse  == {"saysInUse"}             \* "Output already in use."
Spent        == {"saysSpent"}             \* "Note already spent."
Unknown      == {"saysUnknown"}           \* "Unknown note."
Busy         == {}                        \* any wording no rule matches

NoReason == {}
DeadWordings == {Spent, Unknown}
SpentWordings == {AlreadyInUse, Spent}
OutputWording == {OutputInUse}
Unwilling == {Busy}

BothOrNone == {{}, {0, 1}}
Both == {{0, 1}}
=============================================================================
