------------------------------ MODULE Protocol ------------------------------
(***************************************************************************)
(* The I/O-free layer, src/protocol.rs: what a request discloses and how a *)
(* SERVICE's answer is read.  A body is a record of what the parsers test. *)
(***************************************************************************)
EXTENDS Errors

MutationKind == {"Melt", "Rotate", "Split", "Merge"}

(***************************************************************************)
(* Answers to the mutating callback.  certs is the set of outputs (0 for   *)
(* p1, 1 for p2) that came back with a certificate, under its current or   *)
(* its legacy name.  The status "none" stands for every 200 that confirms  *)
(* nothing, and for a body that is not JSON at all: both are Ambiguous.    *)
(***************************************************************************)
OkBodies    == [status : {"OK"}, certs : SUBSET {0, 1}]
ErrorBodies == [status : {"ERROR"}, reason : Reasons]
VagueBody   == [status |-> "none"]
Bodies      == OkBodies \cup ErrorBodies \cup {VagueBody}

\* Which outputs of each kind of mutation parse_mutation looks for.
OutputsOf == [Melt |-> {}, Rotate |-> {0}, Merge |-> {0}, Split |-> {0, 1}]

\* owed: a cp1 output is owed its certificate whatever the policy, a bearer
\* output only under Policy::require_signatures.
Owed(kind, keyOutputs, require_signatures) ==
  IF require_signatures THEN OutputsOf[kind] ELSE OutputsOf[kind] \cap keyOutputs

\* A mistake to catch: an answer without a status is a refusal.
parse_strictly(body, kind, keyOutputs, require_signatures) ==
  IF body.status = "ERROR" THEN classify_note_error(body.reason)
  ELSE IF body.status # "OK" THEN "ServiceRejected"
  ELSE IF Owed(kind, keyOutputs, require_signatures) \subseteq body.certs THEN "Ok"
  ELSE "Unverifiable"

\* "Ok", or the variant of the error returned.
parse_mutation(body, kind, keyOutputs, require_signatures) ==
  IF body.status = "ERROR" THEN classify_note_error(body.reason)
  ELSE IF body.status # "OK" THEN "Ambiguous"
  ELSE IF Owed(kind, keyOutputs, require_signatures) \subseteq body.certs THEN "Ok"
  ELSE "Unverifiable"

(***************************************************************************)
(* Answers to the informational GET: an ERROR, or a withdrawRequest that   *)
(* may be malformed (a field missing or of the wrong type, or a minimum    *)
(* above the maximum), echo another note's spend, or publish no usable     *)
(* mintPubkey.                                                             *)
(***************************************************************************)
InfoBodies == ErrorBodies \cup
              [status : {"info"}, shaped : BOOLEAN, echo : {"same", "other"},
               mintPubkey : {"compressed", "malformed", "absent"}]

check_mint_pubkey(key, require_mint_pubkey) ==
  require_mint_pubkey => key = "compressed"

parse_note_info(body, require_mint_pubkey) ==
  IF body.status = "ERROR" THEN classify_note_error(body.reason)
  ELSE IF /\ body.shaped
          /\ body.echo = "same"
          /\ check_mint_pubkey(body.mintPubkey, require_mint_pubkey)
       THEN "Ok"
  ELSE "Protocol"
=============================================================================
