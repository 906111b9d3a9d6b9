-------------------------------- MODULE Ffi --------------------------------
(***************************************************************************)
(* The foreign surface, src/ffi.rs, as far as it is more than a call of    *)
(* the function beneath it: the caller performs the GET, so the secrets of *)
(* a request leave with it and come back with the body.                    *)
(***************************************************************************)
EXTENDS Minting

\* FfiRequest::new_secrets of the request that names these outputs: all that the
\* generating builders were given, none where the caller named a hash or a cp1.
new_secrets(outputs, byHash) == IF byHash THEN {} ELSE outputs

\* The error as it crosses the boundary, with the secrets it carries.
LnurlcashError(err, secrets) ==
  [verdict |-> err, secrets |-> with_secrets(err, secrets)]

\* A body that is no JSON is Ambiguous whatever it was the answer to.
parse_body(readable) == IF readable THEN "Ok" ELSE "Ambiguous"

\* A mistake to catch: the error of an unreadable body goes back as it came.
ffi_parse_mutation_bare(body, readable, secrets, kind, keyOutputs, require_signatures) ==
  IF parse_body(readable) # "Ok" THEN LnurlcashError("Ambiguous", {})
  ELSE LnurlcashError(parse_mutation(body, kind, keyOutputs, require_signatures),
                      secrets)

ffi_parse_mutation(body, readable, secrets, kind, keyOutputs, require_signatures) ==
  IF parse_body(readable) # "Ok" THEN LnurlcashError("Ambiguous", secrets)
  ELSE LnurlcashError(parse_mutation(body, kind, keyOutputs, require_signatures),
                      secrets)

\* The other parsers hand on the error of the body, or of the parser beneath.
ffi_parse(readable, parsed) ==
  IF parse_body(readable) # "Ok" THEN LnurlcashError("Ambiguous", {})
  ELSE LnurlcashError(parsed, {})

\* A mistake to catch: the caller of a failed GET is told to keep nothing.
ambiguous_outcome_bare(secrets) == LnurlcashError("Ambiguous", {})

ambiguous_outcome(secrets) == LnurlcashError("Ambiguous", secrets)
=============================================================================
