---------------------------- MODULE Certificates ----------------------------
(***************************************************************************)
(* Offline verification, src/signature.rs: which certificate vouches for   *)
(* which note, for how much and at which mint.  The node key on record is  *)
(* one; a signature by any other key recovers to something else, and is    *)
(* left out.                                                               *)
(***************************************************************************)
EXTENDS Spends, Amounts

(***************************************************************************)
(* What a certificate is over: an id, which is an output key or a bearer   *)
(* hash, an amount, and the domain unless it is of before domains were     *)
(* signed.  Its 65 bytes have the recovery id at either end, and small     *)
(* says whether the last of them could be one.  Its text states an amount, *)
(* or is of the fixed prefix or plain hex, which state none.               *)
(***************************************************************************)
NoDomain == "none"
Fixed == [text |-> "cs1"]
Hex == [text |-> "hex"]

note_signature_message(id, host, amount_msat) ==
  [id |-> id, domain |-> spend_domain_of(host), amount |-> amount_msat]

legacy_note_signature_message(id, amount_msat) ==
  [id |-> id, domain |-> NoDomain, amount |-> amount_msat]

IdOfHash(h) == [hash |-> h]

\* decode_cs1_with_amount: the amount a certificate states, if it reads as
\* one that states any.
decode_cs1_with_amount(cs1) ==
  IF cs1.prefix \in {Fixed, Hex} \/ ~ cs1.sig.small THEN {}
  ELSE decode_amount_suffix(cs1.prefix)

encode_cs1_with_amount(amount_msat, sig) ==
  [prefix |-> encode_amount_suffix(amount_msat), sig |-> sig]

\* A mistake to catch: what the prefix states is for display only.
certificate_bytes_unstated(cs1, amount_msat, lenient) ==
  IF decode_cs1_with_amount(cs1) # {} \/ lenient THEN {cs1.sig} ELSE {}

\* The signature in a text.  One that states another amount is refused; one
\* whose last byte is no recovery id is looked at leniently, as of before the
\* layout was settled, and what its prefix states is then not.
certificate_bytes(cs1, amount_msat, lenient) ==
  IF decode_cs1_with_amount(cs1) # {}
  THEN {s \in {cs1.sig} : decode_cs1_with_amount(cs1) = {amount_msat}}
  ELSE {s \in {cs1.sig} : lenient}

recovers_to(message, sig, both_layouts) ==
  /\ sig.over = message
  /\ both_layouts \/ sig.layout = "trailing"

verify_note_signature_hash(id, host, amount_msat, cs1) ==
  \E sig \in certificate_bytes(cs1, amount_msat, FALSE) :
    recovers_to(note_signature_message(id, host, amount_msat), sig, FALSE)

verify_legacy_note_signature_hash(id, amount_msat, cs1) ==
  \E sig \in certificate_bytes(cs1, amount_msat, TRUE) :
    recovers_to(legacy_note_signature_message(id, amount_msat), sig, TRUE)

certified_over(key, bearer, host, amount_msat, cs1) ==
  IF verify_note_signature_hash(key, host, amount_msat, cs1) THEN {"OutputKey"}
  ELSE IF verify_legacy_note_signature_hash(key, amount_msat, cs1)
       THEN {"LegacyOutputKey"}
  ELSE {over \in {"LegacyHash"} :
          \E h \in bearer : verify_legacy_note_signature_hash(IdOfHash(h), amount_msat, cs1)}

check_note_certificate(reference, host, amount_msat, cs1) ==
  UNION {certified_over(q, IF reference.form = "hash" THEN {reference.h} ELSE {},
                        host, amount_msat, cs1) : q \in decode_note(reference)}

\* NoteCheck.
check_note(k1, host, amount_msat, cs1) ==
  UNION {{[output_key |-> output_key(s), spend |-> check_spend(s, host),
           certificate |-> over] :
            over \in certified_over(output_key(s), bearer_hash(s), host, amount_msat, cs1)} :
         s \in decode_spend(k1)}

is_verified(check) == opens(check.spend)
=============================================================================
