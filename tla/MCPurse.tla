------------------------------ MODULE MCPurse ------------------------------
(***************************************************************************)
(* An instance of Purse for TLC.                                           *)
(***************************************************************************)
EXTENDS PurseInv, TLC

Spent == {"saysSpent"}  \* "Note already spent."
Busy  == {}             \* any wording no rule matches

SpentWording == {Spent}
Unwilling == {Busy}
BothOrNone == {{}, {0, 1}}
=============================================================================
