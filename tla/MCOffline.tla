------------------------------ MODULE MCOffline ------------------------------
(***************************************************************************)
(* An instance of Leaves and of Holding for TLC.  Neither touches what is  *)
(* the other's, so it is enough that one of the two runs; and a script and *)
(* a claim have nothing to do with each other.                             *)
(***************************************************************************)
EXTENDS Holding, TLC

CONSTANTS k, thief, numb, noPoint

\* One hash is a byte that is a reserved opcode, if it is taken for one.
HashOf(p) == IF p = "p1" THEN <<200>> ELSE IF p = "p2" THEN <<7>> ELSE <<9>>

URLHosts == {[name |-> "a", port |-> ""], [name |-> "a", port |-> "8000"],
             [name |-> "b", port |-> ""]}

A == [name |-> "a", port |-> "8000"]
B == [name |-> "b", port |-> ""]

Cw1(script, control, witness) ==
  [form |-> "cw1", script |-> script, control |-> control, witness |-> witness]

Control(version, internal, path) ==
  [version |-> version, internal |-> internal, parity |-> TRUE, path |-> path]

Leaf(p) == bearer_leaf(HashOf(p))
Sibling == tapleaf_hash(<<0>>, 192)

SomeSpends ==
  {sign_note_ownership(k, A), sign_note_ownership(k, B),
   [form |-> "ck1", key |-> KeyNote(k), sig |-> [by |-> KeyNote(k), over |-> LegacyMessage]],
   [form |-> "ck1", key |-> KeyNote(k),
    sig |-> [by |-> KeyNote(thief), over |-> key_path_sighash(KeyNote(k), "a")]],
   [form |-> "ck1", key |-> KeyNote(noPoint),
    sig |-> [by |-> KeyNote(thief), over |-> LegacyMessage]],
   [form |-> "legacy_ck1", key |-> KeyNote(k)],
   [form |-> "preimage", preimage |-> "p1"],
   bearer_cw1("p1"),
   Cw1(Leaf("p1"), bearer_control, <<"p2">>),
   Cw1(Leaf("p1"), Control(192, thief, <<>>), <<"p1">>),
   Cw1(Leaf("p1"), Control(192, numb, <<Sibling>>), <<"p1">>),
   Cw1(Leaf("p1"), Control(190, numb, <<>>), <<"p1">>),
   Cw1(<<168, 1, 200, 0>>, Control(192, numb, <<>>), <<"p1">>),
   Cw1(Leaf("p1"), Control(192, noPoint, <<>>), <<"p1">>),
   [form |-> "none"]}

InCirculation == {cp1(KeyNote(k)), hash(HashOf("p1"))}
Draws == {[kind |-> "key", secret |-> thief], [kind |-> "preimage", secret |-> "p2"]}

AnyClaim == CHOOSE c \in [locktime : Locktimes, sequence : NSequences] : TRUE
AtRest == leaf = <<>> /\ now = 0 /\ locked_at = 0
Init == LeafInit /\ HoldInit
vars == <<leafVars, holdVars>>
Next == \/ /\ LeafNext /\ issued = {} /\ UNCHANGED holdVars
           /\ leaf' # <<>> => claim = AnyClaim
        \/ HoldNext /\ AtRest /\ claim = AnyClaim /\ UNCHANGED leafVars
Spec == Init /\ [][Next]_vars
=============================================================================
