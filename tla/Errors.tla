------------------------------- MODULE Errors -------------------------------
(***************************************************************************)
(* The error taxonomy of src/errors.rs: what a failure says about whether  *)
(* the request could have been processed, and which failures hand back the *)
(* secrets a mutation generated.                                           *)
(*                                                                         *)
(* An error is its variant's name.  The message and reason texts are left  *)
(* out, except for what classify_note_error tells apart in a SERVICE's     *)
(* reason: a reason is the set of Marks that its text bears, so the empty  *)
(* reason and any wording no rule matches are both the set {}.             *)
(***************************************************************************)
EXTENDS Naturals, FiniteSets

Marks == {"isPending",    \* the lowered text is exactly "pending"
          "isInUse",      \* trimmed and lowered it is exactly "already in use"
          "saysInUse",    \* contains "already in use"
          "saysSpent",    \* contains "spent"
          "saysUnknown",  \* contains "unknown"
          "saysNotFound"} \* contains "not found"

\* An exact wording bears no other wording than the one it contains.
Reasons == {r \in SUBSET Marks :
              /\ "isPending" \in r => r = {"isPending"}
              /\ "isInUse" \in r => r = {"isInUse", "saysInUse"}}

Variants == {"RequestRefused", "Protocol", "ServiceRejected", "NotePending",
             "NoteSpent", "NoteUnknown", "Unverifiable", "Ambiguous"}

(***************************************************************************)
(* classify_note_error, whose tests are made in this order.                *)
(***************************************************************************)
classify_note_error(reason) ==
  IF "isPending" \in reason THEN "NotePending"
  ELSE IF reason \cap {"saysSpent", "isInUse"} # {} THEN "NoteSpent"
  ELSE IF reason \cap {"saysUnknown", "saysNotFound"} # {} THEN "NoteUnknown"
  ELSE "ServiceRejected"

\* The variants that have a new_secrets field for with_secrets to fill.
SecretCarriers == {"Ambiguous", "Unverifiable", "NoteSpent", "NoteUnknown"}

\* A mistake to catch: a refusal is taken at its word.
with_secrets_if_unsure(err, secrets) ==
  IF err \in {"Ambiguous", "Unverifiable"} THEN secrets ELSE {}

\* Error::with_secrets, then Error::new_secrets: what the caller can read back.
with_secrets(err, secrets) == IF err \in SecretCarriers THEN secrets ELSE {}

is_ambiguous(err) == err = "Ambiguous"

is_definitive(err) == err \in {"ServiceRejected", "NotePending", "NoteSpent",
                               "NoteUnknown", "RequestRefused"}
=============================================================================
