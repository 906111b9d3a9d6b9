------------------------------ MODULE Minting ------------------------------
(***************************************************************************)
(* The rest of src/protocol.rs: asking a SERVICE for a mint invoice and    *)
(* reading its answers, looking a note up by what names it, and sending a  *)
(* whole note to an address at its own mint.  Nothing here is mutating but *)
(* the transfer.  A parser's result is "Ok" or the variant of its error.   *)
(***************************************************************************)
EXTENDS Protocol

\* What a commitment takes in a comment: a SHA-256 in hex.
MINT_COMMENT_LENGTH == 64

(***************************************************************************)
(* A payRequest.  A commentAllowed that is absent or no u64 is read as     *)
(* None, and None compares as 0 does; a withdrawLink may also be present   *)
(* and no string.  sendable is whether an amount at hand is in its range.  *)
(* withdrawLink and callback are URLs of their own, each on the domain of  *)
(* the note's mint ("here") or not; a callback may also be one that        *)
(* callback_url refuses.                                                   *)
(***************************************************************************)
Links == {"absent", "notText", "here", "elsewhere"}
Callbacks == {"absent", "refused", "here", "elsewhere"}
PayBodies == [status : {"pay"}, callback : Callbacks, withdrawLink : Links,
              commentAllowed : Nat, sendable : BOOLEAN]

names_mint_output(body) == body.commentAllowed >= MINT_COMMENT_LENGTH

\* A mistake to catch: nobody asks whether the commitment fits.
parse_pay_request_roomless(body) ==
  IF body.status = "pay" /\ body.callback # "absent" /\ body.withdrawLink # "notText"
  THEN "Ok" ELSE "Protocol"

parse_pay_request(body) ==
  IF body.status = "ERROR" THEN "ServiceRejected"
  ELSE IF /\ body.status = "pay"
          /\ body.callback # "absent"
          /\ body.withdrawLink # "notText"
          /\ body.withdrawLink # "absent" => names_mint_output(body)
       THEN "Ok"
  ELSE "Protocol"

(***************************************************************************)
(* Invoices.  stated is the amount in the human-readable part; 0 stands    *)
(* for none, as an invoice never states it.  One that states an amount     *)
(* which is no whole number of msat below 2^64 is not readable.  serial    *)
(* tells invoices apart; the casing of one, which does not, is left out.   *)
(***************************************************************************)
Invoices(serials, amounts) ==
  [serial : serials, stated : amounts \cup {0}, readable : BOOLEAN]

decode_bolt11_amount_msat(pr) ==
  IF pr.readable /\ pr.stated # 0 THEN {pr.stated} ELSE {}

\* A mistake to catch: any settled invoice will do.
any_invoice(a, b) == TRUE

same_invoice(a, b) == a.serial = b.serial

\* A mistake to catch: the invoice is taken as it comes.
parse_invoice_unread(body, requested) ==
  IF body.status = "ERROR" THEN "ServiceRejected"
  ELSE IF body.status # "invoice" THEN "Protocol" ELSE "Ok"

\* An amount that does not decode is not compared.
parse_invoice(body, requested) ==
  IF body.status = "ERROR" THEN "ServiceRejected"
  ELSE IF body.status # "invoice" THEN "Protocol"
  ELSE IF decode_bolt11_amount_msat(body.pr) \subseteq {requested} THEN "Ok"
  ELSE "Protocol"

\* Whether a verify answer reads as one.
parse_verify(body) ==
  IF body.status = "ERROR" THEN "ServiceRejected"
  ELSE IF body.status = "verify" THEN "Ok"
  ELSE "Protocol"

(***************************************************************************)
(* The informational GET that names a note by ?p=: nothing to echo.        *)
(***************************************************************************)
\* A mistake to catch: the parser of the other informational GET, whose answer
\* must echo the k1 that was asked about.
parse_note_info_echoed(body, require_mint_pubkey) ==
  IF body.status = "ERROR" THEN classify_note_error(body.reason)
  ELSE IF body.shaped /\ body.echo = "same" THEN "Ok" ELSE "Protocol"

parse_note_info_by_hash(body, require_mint_pubkey) ==
  IF body.status = "ERROR" THEN classify_note_error(body.reason)
  ELSE IF /\ body.shaped
          /\ check_mint_pubkey(body.mintPubkey, require_mint_pubkey)
       THEN "Ok"
  ELSE "Protocol"

(***************************************************************************)
(* Internal transfers.                                                     *)
(***************************************************************************)
\* A mistake to catch: a note is sent whichever mint the address is at.
transfer_anywhere(body) ==
  parse_pay_request(body) = "Ok" /\ body.sendable /\ body.callback # "refused"

\* A mistake to catch: the callback is called whatever URL it is.
transfer_unpermitted(body) ==
  parse_pay_request(body) = "Ok" /\ body.withdrawLink = "here" /\ body.sendable

\* Whether internal_transfer_request makes a request of a spend and the full
\* value of its note, rather than refusing.  It is the withdrawLink whose domain
\* is compared with the note's; the request goes to the callback.
internal_transfer_request(body) ==
  /\ parse_pay_request(body) = "Ok"
  /\ body.withdrawLink = "here"
  /\ body.sendable
  /\ body.callback # "refused"

\* A mistake to catch: whatever is no refusal is an OK.
parse_transfer_kindly(body) ==
  IF body.status = "ERROR" THEN classify_note_error(body.reason) ELSE "Ok"

parse_internal_transfer(body) ==
  IF body.status = "ERROR" THEN classify_note_error(body.reason)
  ELSE IF body.status = "OK" THEN "Ok"
  ELSE "Ambiguous"
=============================================================================
