------------------------------- MODULE Spends -------------------------------
(***************************************************************************)
(* What names a note and what opens it: src/spend.rs, and the strings of   *)
(* src/recoverable.rs that carry it.  A hash is a record of what it is     *)
(* over, a signature of who made it and over what.  An Option is a set of  *)
(* at most one value, and so is the note a text names.                     *)
(***************************************************************************)
EXTENDS Leaves

CONSTANTS
  Keys,        \* x coordinates of curve points that somebody has the key of
  NUMS,        \* the one nobody has the key of
  NotAPoint,   \* 32 bytes that are no point's x coordinate
  Preimages,   \* what a witness may hold
  Oversized,   \* the preimages longer than a stack element
  HashLen,     \* the bytes of a SHA-256, as a push of them begins
  sha256(_)    \* those bytes

ASSUME SpendsAssumption ==
  /\ NUMS \notin Keys /\ NotAPoint \notin Keys /\ NotAPoint # NUMS
  /\ Oversized \subseteq Preimages
  /\ HashLen \in 1..75
  /\ \A p \in Preimages : sha256(p) \in [1..HashLen -> 0..255]

The(option) == CHOOSE x \in option : TRUE

(***************************************************************************)
(* Keys.  An output key is an internal key and the root it is tweaked with *)
(* or, of a key-path note, a key as is.  Of a control block there is the   *)
(* leaf version, whether its parity bit is the key's, and the path.        *)
(***************************************************************************)
AsIs == <<"untweaked">>
KeyNote(key) == [internal |-> key, root |-> AsIs]

tapleaf_hash(script, version) == <<"leaf", version, script>>
tapbranch_hash(a, b) == <<"branch", {a, b}>>

is_x_only_point(q) == q.internal # NotAPoint

taproot_tweak(internal, root) ==
  IF internal = NotAPoint THEN {} ELSE {[internal |-> internal, root |-> root]}

\* A mistake to catch: the leaf is committed to nowhere.
output_key_untweaked(script, control) ==
  IF control.parity THEN taproot_tweak(control.internal, AsIs) ELSE {}

output_key_of(script, control) ==
  LET node[i \in 0..Len(control.path)] ==
        IF i = 0 THEN tapleaf_hash(script, control.version)
        ELSE tapbranch_hash(node[i - 1], control.path[i])
  IN IF control.parity
     THEN taproot_tweak(control.internal, node[Len(control.path)]) ELSE {}

bearer_leaf(h) == <<168, HashLen>> \o h \o <<135>>

bearer_hash_of_leaf(script) ==
  LET h == SubSeq(script, 3, HashLen + 2)
  IN IF Len(script) = HashLen + 3 /\ script = bearer_leaf(h) THEN {h} ELSE {}

bearer_control == [version |-> TAPLEAF_VERSION, internal |-> NUMS,
                   parity |-> TRUE, path |-> <<>>]

bearer_note(h) == The(output_key_of(bearer_leaf(h), bearer_control))

bearer_cw1(preimage) ==
  [form |-> "cw1", script |-> bearer_leaf(sha256(preimage)),
   control |-> bearer_control, witness |-> <<preimage>>]

(***************************************************************************)
(* The strings.  Where a cp1 goes there is a cp1 or a bearer hash, where a *)
(* k1 goes a preimage, a ck1 of either shape, a cw1, or nothing of these.  *)
(***************************************************************************)
cp1(q) == [form |-> "cp1", key |-> q]
hash(h) == [form |-> "hash", h |-> h]

decode_note(reference) ==
  CASE reference.form = "hash" -> {bearer_note(reference.h)}
    [] reference.form = "cp1" -> {q \in {reference.key} : is_x_only_point(q)}
    [] OTHER -> {}

\* What decode_spend is given of each: a ck1's key is an output key, and what
\* a legacy signature recovers to is a point.
IsK1(k1) ==
  /\ "form" \in DOMAIN k1
  /\ k1.form \in {"preimage", "ck1", "legacy_ck1", "cw1", "none"}
  /\ k1.form = "preimage" => k1.preimage \in Preimages
  /\ k1.form \in {"ck1", "legacy_ck1"} => DOMAIN k1.key = {"internal", "root"}
  /\ k1.form = "legacy_ck1" => is_x_only_point(k1.key)

\* The spend a k1 stands for: a preimage is its cw1, in short.
decode_spend(k1) ==
  CASE k1.form = "preimage" -> {bearer_cw1(k1.preimage)}
    [] k1.form = "ck1" -> {s \in {k1} : is_x_only_point(s.key)}
    [] k1.form = "legacy_ck1" -> {k1}
    [] k1.form = "cw1" -> {s \in {k1} : output_key_of(s.script, s.control) # {}}
    [] OTHER -> {}

\* Spend::output_key.  A legacy ck1 is the key its signature recovers to.
output_key(spend) ==
  IF spend.form = "cw1" THEN The(output_key_of(spend.script, spend.control))
  ELSE spend.key

\* A mistake to catch: the leaf says which bearer note it is.
bearer_hash_of_any_key(spend) ==
  IF spend.form = "cw1" THEN bearer_hash_of_leaf(spend.script) ELSE {}

\* Spend::bearer_hash.
bearer_hash(spend) ==
  IF spend.form # "cw1" THEN {}
  ELSE {h \in bearer_hash_of_leaf(spend.script) :
          bearer_note(h) = output_key(spend)}

note_id_of(k1) == {output_key(s) : s \in decode_spend(k1)}

\* A mistake to catch: a bearer note is looked up as any other.
note_lookup_by_key(k1) == {cp1(q) : q \in note_id_of(k1)}

note_lookup_of(k1) ==
  IF k1.form = "preimage" THEN {hash(sha256(k1.preimage))}
  ELSE {cp1(q) : q \in note_id_of(k1)}

(***************************************************************************)
(* Whether a spend opens its note at a mint.  A signature is bound to the  *)
(* hostname; a host written with a scheme and a port is reduced to it.     *)
(***************************************************************************)
spend_domain_of(host) == host.name
key_path_sighash(q, domain) == [q |-> q, domain |-> domain]
LegacyMessage == [text |-> "LNURLcash"]

recover_note_ownership_pubkey(spend, host) ==
  IF spend.sig.by # spend.key THEN "no one"
  ELSE IF spend.sig.over = key_path_sighash(spend.key, spend_domain_of(host))
       THEN "owner"
  ELSE IF spend.sig.over = LegacyMessage THEN "legacy owner"
  ELSE "no one"

script_path_verdict(spend) ==
  IF check_leaf(spend.control.version, spend.script) # "None" THEN "Fails"
  ELSE IF bearer_hash_of_leaf(spend.script) = {} THEN "Unevaluated"
  ELSE IF /\ Len(spend.witness) = 1
          /\ spend.witness[1] \notin Oversized
          /\ sha256(spend.witness[1]) \in bearer_hash_of_leaf(spend.script)
       THEN "Opens"
  ELSE "Fails"

\* The verdict of check_spend on a decoded spend.
check_spend(spend, host) ==
  CASE spend.form = "ck1" ->
         CASE recover_note_ownership_pubkey(spend, host) = "owner" -> "Opens"
           [] recover_note_ownership_pubkey(spend, host) = "legacy owner" -> "OpensLegacy"
           [] OTHER -> "Fails"
    [] spend.form = "legacy_ck1" -> "OpensLegacy"
    [] OTHER -> script_path_verdict(spend)

opens(verdict) == verdict \in {"Opens", "OpensLegacy"}

\* sign_note_ownership: the one ck1 of a key as it is, at a mint.
sign_note_ownership(key, host) ==
  [form |-> "ck1", key |-> KeyNote(key),
   sig |-> [by |-> KeyNote(key),
            over |-> key_path_sighash(KeyNote(key), spend_domain_of(host))]]
=============================================================================
