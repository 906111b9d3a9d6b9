----------------------------- MODULE PurseProofs -----------------------------
(***************************************************************************)
(* Proofs about Purse: for every finite set of notes, every set of calls,  *)
(* every number of GETs, and every SERVICE that module Mint describes.     *)
(***************************************************************************)
EXTENDS PurseInv, FiniteSetTheorems, TLAPS

(***************************************************************************)
(* What the actions come to, with the parsers and the answers taken out.   *)
(***************************************************************************)
\* What classify_note_error can come to, whatever the SERVICE's wording.
LEMMA ClassifyType ==
  \A r : classify_note_error(r) \in
           {"NotePending", "NoteSpent", "NoteUnknown", "ServiceRejected"}
BY DEF classify_note_error

\* What building a request for these notes does to the wallet's records.
Builds(o, kind, ins, outs) ==
  /\ request' = [request EXCEPT ![o] = [kind |-> kind, inputs |-> ins, outputs |-> outs]]
  /\ staked' = [staked EXCEPT ![o] = ins \cap Live]
  /\ purse' = [n \in Notes |-> IF n \in ins THEN "sent"
                               ELSE IF n \in outs THEN "fresh" ELSE purse[n]]
  /\ \A n \in ins : purse[n] \in {"live", "sent"}
  /\ kind \in {"Melt", "Transfer"} => outs = {}
  /\ kind = "Melt" => \E n \in Notes : ins = {n}
  /\ kind = "Mint" => ins = {}
  /\ kind \in {"Rotate", "Split", "Merge"} => outs # {}

\* A call is for the notes its kind calls for, and all its outputs are recorded.
LEMMA BuildShape ==
  ASSUME NEW o \in Ops, Build(o)
  PROVE  \E kind \in Kinds, ins \in SUBSET (Stored \ InUse), outs \in SUBSET Undrawn :
           Builds(o, kind, ins, outs)
<1>1. PICK kind \in Kinds, ins \in SUBSET (Stored \ InUse), outs \in SUBSET Undrawn,
           h \in BOOLEAN : Build(o)!2!(kind, ins, outs, h)
  BY DEF Build
<1>2. new_secrets(outs, h) \cup (IF h THEN outs ELSE {}) = outs
  BY DEF new_secrets
<1>3. IsFiniteSet(ins) /\ IsFiniteSet(outs)
  BY PurseAssumption, FS_Subset DEF Stored, Undrawn
<1>4. <<Cardinality(ins), Cardinality(outs)>> \in Shapes[kind]
  BY <1>1
<1>5. /\ kind \in {"Melt", "Transfer"} => Cardinality(ins) = 1 /\ Cardinality(outs) = 0
      /\ kind = "Mint" => Cardinality(ins) = 0
      /\ kind \in {"Rotate", "Split", "Merge"} => Cardinality(outs) # 0
  BY <1>4 DEF Shapes
<1>6. /\ kind \in {"Melt", "Transfer"} => outs = {}
      /\ kind = "Melt" => \E n \in Notes : ins = {n}
      /\ kind = "Mint" => ins = {}
      /\ kind \in {"Rotate", "Split", "Merge"} => outs # {}
  BY <1>3, <1>5, FS_EmptySet, FS_Singleton DEF Stored
<1>7. purse' = [n \in Notes |-> IF n \in ins THEN "sent"
                                ELSE IF n \in outs THEN "fresh" ELSE purse[n]]
  BY <1>1, <1>2, Zenon
<1> WITNESS kind \in Kinds, ins \in SUBSET (Stored \ InUse), outs \in SUBSET Undrawn
<1> QED BY <1>1, <1>6, <1>7 DEF Builds

\* A note that a lookup finds can be spent.
LEMMA FoundIsThere ==
  ASSUME NEW n, Found(n)
  PROVE  n \in outstanding \ melting
<1>1. LookupAnswers(n) # {}
  BY DEF Found
<1>2. \E b \in InfoAnswers(n) : b.status = "info"
  BY <1>1 DEF LookupAnswers
<1> QED BY <1>2 DEF InfoAnswers

\* The call has nothing, or nothing more, to wait for, and says that it was not
\* done: some secrets are forgotten, and some inputs are balance again.
Refused(o) ==
  \E drop \in SUBSET request[o].outputs, ret \in SUBSET staked[o] :
    purse' = [n \in Notes |-> IF n \in drop THEN "none"
                              ELSE IF n \in ret THEN "live" ELSE purse[n]]

\* An error changes no record, unless it was a refusal of the only GET.
LEMMA UnsettledShape ==
  ASSUME TypeOK, NEW o \in Ops, NEW verdict, NEW kept,
         doubt[o] \/ verdict \in SecretCarriers => request[o].outputs \subseteq kept,
         purse' = Unsettled(o, verdict, kept)
  PROVE  \/ UNCHANGED purse
         \/ ~ doubt[o] /\ verdict \notin SecretCarriers /\ Refused(o)
<1>1. purse = [n \in Notes |-> purse[n]]
  BY DEF TypeOK
<1>2. CASE doubt[o] \/ verdict \in SecretCarriers
  <2>1. request[o].outputs \ kept = {} /\ (doubt[o] \/ verdict # "ServiceRejected")
    BY <1>2 DEF SecretCarriers
  <2> QED BY <1>1, <2>1 DEF Unsettled
<1>3. CASE ~ doubt[o] /\ verdict \notin SecretCarriers
  <2> DEFINE drop == request[o].outputs \ kept
             ret == IF verdict = "ServiceRejected" THEN staked[o] ELSE {}
  <2>1. purse' = [n \in Notes |-> IF n \in drop THEN "none"
                                  ELSE IF n \in ret THEN "live" ELSE purse[n]]
    BY <1>3 DEF Unsettled
  <2>2. drop \in SUBSET request[o].outputs /\ ret \in SUBSET staked[o]
    OBVIOUS
  <2> QED BY <1>3, <2>1, <2>2 DEF Refused
<1> QED BY <1>2, <1>3

\* How an answer is taken.
LEMMA ReceiveShape ==
  ASSUME TypeOK, NEW o \in Ops, Receive(o)
  PROVE  \/ /\ answer[o].status = "OK" /\ request[o].kind = "Melt"
            /\ Goto(o, "melted") /\ UNCHANGED purse
         \/ /\ answer[o].status = "OK" /\ request[o].kind # "Melt"
            /\ Goto(o, "done") /\ purse' = Settled(o)
         \/ Goto(o, "done") /\ UNCHANGED purse
         \/ /\ ~ doubt[o] /\ answer[o].status = "ERROR"
            /\ Goto(o, "done") /\ Refused(o)
<1> DEFINE secrets == new_secrets(request[o].outputs, byHash[o])
           R(readable) == ffi_parse_mutation(answer[o], readable, secrets, request[o].kind,
                            IF byHash[o] THEN {0, 1} ELSE {}, require_signatures)
<1>1. PICK readable \in BOOLEAN :
        \/ /\ R(readable).verdict = "Ok" /\ request[o].kind = "Melt"
           /\ Goto(o, "melted") /\ UNCHANGED purse
        \/ /\ R(readable).verdict = "Ok" /\ request[o].kind # "Melt"
           /\ Goto(o, "done") /\ purse' = Settled(o)
        \/ /\ R(readable).verdict # "Ok"
           /\ Goto(o, "done")
           /\ purse' = Unsettled(o, R(readable).verdict, Kept(o, R(readable)))
  BY DEF Receive
<1> DEFINE r == R(readable)
<1>2. PICK v : /\ r = LnurlcashError(v, secrets)
               /\ v = "Ok" => answer[o].status = "OK"
               /\ v \notin SecretCarriers \cup {"Ok"} => answer[o].status = "ERROR"
  BY ClassifyType DEF ffi_parse_mutation, parse_mutation, SecretCarriers
<1>3. r.verdict = v /\ r.secrets = with_secrets(v, secrets)
  BY <1>2 DEF LnurlcashError
<1>4. doubt[o] \/ v \in SecretCarriers => request[o].outputs \subseteq Kept(o, r)
  BY <1>3 DEF Kept, with_secrets, new_secrets
<1> HIDE DEF R
<1>5. CASE r.verdict = "Ok"
  BY <1>1, <1>2, <1>3, <1>5
<1>6. CASE r.verdict # "Ok"
  <2>1. Goto(o, "done") /\ purse' = Unsettled(o, v, Kept(o, r))
    BY <1>1, <1>3, <1>6
  <2> QED BY <1>2, <1>3, <1>4, <1>6, <2>1, UnsettledShape
<1> QED BY <1>5, <1>6

LEMMA ReceiveTransferShape ==
  ASSUME TypeOK, NEW o \in Ops, ReceiveTransfer(o), request[o].outputs = {}
  PROVE  \/ answer[o].status = "OK" /\ purse' = Settled(o)
         \/ UNCHANGED purse
         \/ ~ doubt[o] /\ answer[o].status = "ERROR" /\ Refused(o)
<1> DEFINE R(readable) == ffi_parse(readable, parse_internal_transfer(answer[o]))
<1>1. PICK readable \in BOOLEAN :
        purse' = IF R(readable).verdict = "Ok" THEN Settled(o)
                 ELSE Unsettled(o, R(readable).verdict, {})
  BY DEF ReceiveTransfer
<1> DEFINE v == R(readable).verdict
<1>2. /\ v = "Ok" => answer[o].status = "OK"
      /\ v \notin SecretCarriers \cup {"Ok"} => answer[o].status = "ERROR"
  BY ClassifyType DEF ffi_parse, parse_internal_transfer, SecretCarriers, LnurlcashError
<1> HIDE DEF R
<1> QED BY <1>1, <1>2, UnsettledShape

\* A GET that fails costs no record.
LEMMA GetFailsShape ==
  ASSUME TypeOK, NEW o \in Ops, GetFails(o)
  PROVE  UNCHANGED purse
<1> DEFINE r == ambiguous_outcome(new_secrets(request[o].outputs, byHash[o]))
<1>1. request[o].outputs \subseteq Kept(o, r)
  BY DEF Kept, ambiguous_outcome, LnurlcashError, with_secrets, new_secrets, SecretCarriers
<1>2. purse' = Unsettled(o, "Ambiguous", Kept(o, r))
  BY DEF GetFails
<1> QED BY <1>1, <1>2, UnsettledShape DEF SecretCarriers

\* What a verify endpoint says of the call's own invoice is so.
LEMMA VerifyShape ==
  ASSUME TypeOK, \A p \in Ops : bill[p].pr.serial = p, NEW o \in Ops, Verify(o)
  PROVE  bill[o].state = "settled"
<1>1. PICK body \in VerifyAnswers : same_invoice(body.pr, bill[o].pr)
  BY DEF Verify
<1>2. PICK q \in Ops : bill[q].state = "settled" /\ body.pr = bill[q].pr
  BY <1>1 DEF VerifyAnswers
<1>3. bill[q].pr.serial = bill[o].pr.serial
  BY <1>1, <1>2 DEF same_invoice
<1> QED BY <1>2, <1>3

\* An invoice is taken only for what was asked, of a SERVICE with room for the
\* commitment.
LEMMA QuoteShape ==
  ASSUME TypeOK, NEW o \in Ops, Quote(o)
  PROVE  \/ /\ Goto(o, "done") /\ UNCHANGED bill
            /\ purse' = Record(request[o].outputs, "none")
         \/ /\ Goto(o, "quoted") /\ UNCHANGED purse
            /\ \E b \in Bills :
                 /\ bill' = [bill EXCEPT ![o] = b]
                 /\ b.state = "open" /\ b.paid = 0 /\ b.room
                 /\ b.pr.serial = o
                 /\ b.pr.readable => b.pr.stated \in {0, b.asked}
<1>1. CASE /\ Goto(o, "done")
           /\ purse' = Record(request[o].outputs, "none")
           /\ UNCHANGED bill
  BY <1>1
<1>2. CASE /\ Quote(o)!3!1!1
           /\ Goto(o, "quoted")
           /\ UNCHANGED purse
  <2>0. PICK pay \in MintPayRequests, asked \in Amounts, body \in InvoiceAnswers(o) :
          /\ ffi_parse(TRUE, parse_pay_request(pay)).verdict = "Ok"
          /\ pay.withdrawLink # "absent"
          /\ ffi_parse(TRUE, parse_invoice(body, asked)).verdict = "Ok"
          /\ bill' = [bill EXCEPT ![o] = [state |-> "open", asked |-> asked, paid |-> 0,
                                          pr |-> body.pr, room |-> names_mint_output(pay)]]
    BY <1>2
  <2> DEFINE b == [state |-> "open", asked |-> asked, paid |-> 0,
                   pr |-> body.pr, room |-> names_mint_output(pay)]
  <2>1. parse_pay_request(pay) = "Ok" /\ parse_invoice(body, asked) = "Ok"
    BY <2>0 DEF ffi_parse, LnurlcashError
  <2>2. names_mint_output(pay) = TRUE
    BY <2>0, <2>1 DEF parse_pay_request, names_mint_output, MintPayRequests, MINT_COMMENT_LENGTH
  <2>3. body.status = "invoice" /\ decode_bolt11_amount_msat(body.pr) \subseteq {asked}
    BY <2>1 DEF parse_invoice
  <2>4. body.pr \in Invoices({o}, Amounts)
    BY <2>3 DEF InvoiceAnswers, VagueBody
  <2>5. body.pr.serial = o /\ (body.pr.readable => body.pr.stated \in {0, asked})
    BY <2>3, <2>4 DEF Invoices, decode_bolt11_amount_msat
  <2>6. body.pr \in Invoices(Ops, Amounts)
    BY <2>4 DEF Invoices
  <2>7. b \in Bills
    BY <2>2, <2>6 DEF Bills
  <2> QED BY <1>2, <2>0, <2>2, <2>5, <2>7
<1> QED BY <1>1, <1>2 DEF Quote

\* What the answer to a GET does to the wire and to the call.
Answered(m, body) ==
  /\ wire' = wire \ {m}
  /\ answer' = IF Awaited(m) THEN [answer EXCEPT ![m.op] = body] ELSE answer
  /\ body \in Bodies

\* A SERVICE carries out what it can, once; confirms again what it did; or
\* refuses.
LEMMA ServeShape ==
  ASSUME TypeOK, NEW m \in wire, Serve(m)
  PROVE  \E body :
           /\ Answered(m, body)
           /\ \/ /\ Apply(m, Awaited(m)) /\ body.status \in {"OK", "none"}
                 /\ bill' = IF m.req.kind = "Melt"
                            THEN [bill EXCEPT ![m.op].state = "inflight"] ELSE bill
              \/ /\ Repeats(m.req) /\ body.status \in {"OK", "none"}
                 /\ UNCHANGED <<outstanding, spent, melting, applied, bill>>
              \/ /\ body.status = "ERROR"
                 /\ UNCHANGED <<outstanding, spent, melting, applied, bill>>
<1>1. \A body \in Confirmations : body \in Bodies /\ body.status \in {"OK", "none"}
  <2>1. Confirmations \subseteq Bodies
    BY MintAssumption DEF Confirmations, Bodies, OkBodies
  <2>2. \A body \in Confirmations : body.status \in {"OK", "none"}
    BY DEF Confirmations, VagueBody
  <2> QED BY <2>1, <2>2
<1>2. CASE Apply(m, Awaited(m)) /\ bill' = IF m.req.kind = "Melt"
                 THEN [bill EXCEPT ![m.op].state = "inflight"] ELSE bill
  <2>1. PICK body \in Confirmations : Reply(m, Awaited(m), body)
    BY <1>2 DEF Apply
  <2> QED BY <1>1, <1>2, <2>1, Zenon DEF Reply, Answered
<1>3. CASE Replay(m, Awaited(m)) /\ UNCHANGED bill
  <2>1. PICK body \in Confirmations : Reply(m, Awaited(m), body)
    BY <1>3 DEF Replay
  <2>2. Repeats(m.req) /\ UNCHANGED <<outstanding, spent, melting, applied, bill>>
    BY <1>3 DEF Replay
  <2> QED BY <1>1, <2>1, <2>2 DEF Reply, Answered
<1>4. CASE Decline(m, Awaited(m)) /\ UNCHANGED bill
  <2>1. PICK reason \in ReasonsAgainst(m.req) :
          Reply(m, Awaited(m), [status |-> "ERROR", reason |-> reason])
    BY <1>4 DEF Decline
  <2>2. {"isPending"} \in Reasons
    BY DEF Reasons, Marks
  <2>3. reason \in Reasons
    BY <2>2, MintAssumption DEF ReasonsAgainst
  <2> DEFINE body == [status |-> "ERROR", reason |-> reason]
  <2>4. body \in Bodies /\ body.status = "ERROR"
    BY <2>3 DEF Bodies, ErrorBodies
  <2>5. UNCHANGED <<outstanding, spent, melting, applied, bill>>
    BY <1>4 DEF Decline
  <2> HIDE DEF body
  <2>6. Reply(m, Awaited(m), body)
    BY <2>1 DEF body
  <2> QED BY <2>4, <2>5, <2>6 DEF Reply, Answered
<1> QED BY <1>2, <1>3, <1>4 DEF Serve

\* A note's own mint burns it, or says nothing that sounds like it; another
\* SERVICE may say anything.
LEMMA ServeTransferShape ==
  ASSUME TypeOK, NEW p \in posted, ServeTransfer(p)
  PROVE  \E body \in Bodies :
           /\ ReplyTransfer(p, body)
           /\ \/ Burn(p) /\ body.status \in {"OK", "none"}
              \/ /\ UNCHANGED <<outstanding, spent>>
                 /\ body.status = "OK" => ~ SentTo(p, "here")
<1>1. p \in Ops
  BY DEF TypeOK
<1>2. Confirmed \in Bodies /\ VagueBody \in Bodies /\ Confirmed.status = "OK"
      /\ VagueBody.status = "none"
  BY DEF Confirmed, VagueBody, Bodies, OkBodies
<1>3. \A body \in IdleReplies(p) :
        body \in Bodies /\ (body.status = "OK" => ~ SentTo(p, "here"))
  BY <1>2, MintAssumption DEF IdleReplies, Bodies, ErrorBodies
<1>4. CASE Burn(p) /\ \E body \in {Confirmed, VagueBody} : ReplyTransfer(p, body)
  BY <1>2, <1>4
<1>5. CASE /\ UNCHANGED <<outstanding, spent>>
           /\ \E body \in IdleReplies(p) : ReplyTransfer(p, body)
  BY <1>3, <1>5
<1> QED BY <1>4, <1>5 DEF ServeTransfer

\* Where the spend of a transfer is, if it was sent at all.
LEMMA SentSomewhere ==
  ASSUME TypeOK, Ledger, NEW o \in Ops, address[o] # NotSent
  PROVE  SentTo(o, "here") \/ (SentTo(o, "elsewhere") /\ request[o].inputs \subseteq Misled)
<1>1. address[o] \in [withdrawLink : {"here"}, callback : {"here", "elsewhere"}]
  BY DEF Ledger, Wired
<1>2. CASE address[o].callback = "elsewhere"
  <2>1. Astray(o)
    BY <1>1, <1>2 DEF Astray
  <2> QED BY <1>2, <2>1 DEF Misled, SentTo
<1> QED BY <1>1, <1>2 DEF SentTo

(***************************************************************************)
(* The type invariant.                                                     *)
(***************************************************************************)
\* The end of a call changes records within their type.
LEMMA RecordTypes ==
  ASSUME TypeOK, NEW o \in Ops, NEW S, NEW r \in Records
  PROVE  /\ Record(S, r) \in [Notes -> Records]
         /\ Settled(o) \in [Notes -> Records]
         /\ Refused(o) => purse' \in [Notes -> Records]
<1>1. purse \in [Notes -> Records] /\ {"none", "live"} \subseteq Records
  BY DEF TypeOK, Records
<1> QED BY <1>1 DEF Record, Settled, Refused

LEMMA BillTypes ==
  ASSUME NEW b \in Bills, NEW s \in {"none", "open", "inflight", "settled", "failed"}
  PROVE  [b EXCEPT !.state = s] \in Bills
BY DEF Bills

LEMMA TypeStep == TypeOK /\ [Next]_vars => TypeOK'
<1> SUFFICES ASSUME TypeOK, [Next]_vars PROVE TypeOK'
  OBVIOUS
<1>1. {"none", "fresh", "live", "sent"} = Records
  BY DEF Records
<1>2. ASSUME NEW o \in Ops, Build(o) PROVE TypeOK'
  <2>1. PICK kind \in Kinds, ins \in SUBSET (Stored \ InUse), outs \in SUBSET Undrawn :
          Builds(o, kind, ins, outs)
    BY <1>2, BuildShape
  <2>2. ins \subseteq Notes /\ outs \subseteq Notes
    BY DEF Stored, Undrawn
  <2>3. [kind |-> kind, inputs |-> ins, outputs |-> outs] \in Calls
    BY <2>2 DEF Calls
  <2>4. request' \in [Ops -> Calls] /\ staked' \in [Ops -> SUBSET Notes]
    BY <2>1, <2>2, <2>3 DEF Builds, TypeOK
  <2>5. purse' \in [Notes -> Records]
    BY <1>1, <2>1 DEF Builds, TypeOK
  <2>6. byHash' \in [Ops -> BOOLEAN] /\ pc' \in [Ops -> Stages]
    BY <1>2 DEF Build, Goto, TypeOK, Stages
  <2> QED BY <1>2, <2>4, <2>5, <2>6 DEF Build, TypeOK, MintTypeOK, mintVars
<1>3. ASSUME NEW o \in Ops, Get(o) PROVE TypeOK'
  <2>1. Message(o) \in Messages
    BY <1>3 DEF Get, Message, Messages, Requests, Calls, TypeOK
  <2> QED BY <1>3, <2>1 DEF Get, Goto, TypeOK, MintTypeOK, Stages
<1>4. ASSUME NEW o \in Ops, Receive(o) PROVE TypeOK'
  <2>1. pc' \in [Ops -> Stages]
    BY <1>4, ReceiveShape DEF Goto, TypeOK, Stages
  <2>2. purse' \in [Notes -> Records]
    <3>1. UNCHANGED purse \/ purse' = Settled(o) \/ Refused(o)
      BY <1>4, ReceiveShape
    <3> QED BY <1>1, <3>1, RecordTypes DEF TypeOK
  <2> QED BY <1>4, <2>1, <2>2 DEF Receive, TypeOK, MintTypeOK
<1>5. ASSUME NEW o \in Ops, GetFails(o) PROVE TypeOK'
  <2>1. UNCHANGED purse
    BY <1>5, GetFailsShape
  <2> QED BY <1>5, <2>1 DEF GetFails, Goto, TypeOK, MintTypeOK, Stages
<1>6. ASSUME NEW o \in Ops, Abandon(o) PROVE TypeOK'
  BY <1>6 DEF Abandon, Goto, TypeOK, MintTypeOK, mintVars, Stages
<1>7. ASSUME NEW o \in Ops, Quote(o) PROVE TypeOK'
  <2>1. purse' \in [Notes -> Records] /\ pc' \in [Ops -> Stages]
    BY <1>1, <1>7, QuoteShape, RecordTypes DEF Goto, TypeOK, Stages
  <2>2. bill' \in [Ops -> Bills]
    BY <1>7, QuoteShape DEF TypeOK
  <2> QED BY <1>7, <2>1, <2>2 DEF Quote, TypeOK, MintTypeOK, mintVars
<1>8. ASSUME NEW o \in Ops, Pay(o) PROVE TypeOK'
  <2>1. bill[o] \in Bills
    BY DEF TypeOK
  <2>2. [bill[o] EXCEPT !.state = "inflight",
                        !.paid = IF bill[o].pr.stated = 0 THEN bill[o].asked
                                 ELSE bill[o].pr.stated] \in Bills
    BY <2>1 DEF Bills, Invoices
  <2>3. bill' \in [Ops -> Bills]
    BY <1>8, <2>2 DEF Pay, TypeOK
  <2> QED BY <1>8, <2>3 DEF Pay, Goto, TypeOK, MintTypeOK, mintVars, Stages
<1>9. ASSUME NEW o \in Ops, Transfer(o) PROVE TypeOK'
  <2>1. posted' \subseteq Ops
    BY <1>9 DEF Transfer, TypeOK
  <2>2. address' \in [Ops -> Postings]
    <3>1. ASSUME NEW pay \in Addresses, internal_transfer_request(pay)
          PROVE  [withdrawLink |-> pay.withdrawLink, callback |-> pay.callback] \in Postings
      BY <3>1 DEF internal_transfer_request, parse_pay_request, Addresses, Callbacks, Links,
                  Postings
    <3> QED BY <1>9, <3>1 DEF Transfer, TypeOK
  <2>3. purse' \in [Notes -> Records] /\ pc' \in [Ops -> Stages]
    BY <1>1, <1>9, RecordTypes DEF Transfer, Goto, TypeOK, Stages
  <2> QED BY <1>9, <2>1, <2>2, <2>3 DEF Transfer, TypeOK, MintTypeOK, mintVars
<1>10. ASSUME NEW o \in Ops, ReceiveTransfer(o) PROVE TypeOK'
  <2>1. \A verdict, kept : Unsettled(o, verdict, kept) \in [Notes -> Records]
    BY <1>1 DEF Unsettled, TypeOK
  <2>2. purse' \in [Notes -> Records]
    BY <1>1, <1>10, <2>1, RecordTypes DEF ReceiveTransfer
  <2> QED BY <1>10, <2>2 DEF ReceiveTransfer, Goto, TypeOK, MintTypeOK, Stages
<1>11. ASSUME NEW o \in Ops, Verify(o) PROVE TypeOK'
  BY <1>1, <1>11, RecordTypes DEF Verify, Goto, TypeOK, MintTypeOK, mintVars, Stages
<1>12. ASSUME NEW o \in Ops, LookupMelted(o) PROVE TypeOK'
  BY <1>1, <1>12, RecordTypes DEF LookupMelted, Goto, TypeOK, MintTypeOK, mintVars, Stages
<1>13. ASSUME NEW n \in Notes, Lookup(n) PROVE TypeOK'
  <2>1. purse' \in [Notes -> Records]
    BY <1>1, <1>13 DEF Lookup, Record, TypeOK
  <2> QED BY <1>13, <2>1 DEF Lookup, TypeOK, MintTypeOK, mintVars
<1>14. ASSUME NEW o \in Ops, PaymentSettles(o) \/ PaymentFails(o) PROVE TypeOK'
  <2>1. bill' \in [Ops -> Bills]
    <3>1. PICK s \in {"settled", "failed"} : BillBecomes(o, s)
      BY <1>14 DEF PaymentSettles, PaymentFails
    <3>2. [bill[o] EXCEPT !.state = s] \in Bills
      BY BillTypes DEF TypeOK
    <3> QED BY <3>1, <3>2 DEF BillBecomes, TypeOK
  <2>2. request[o].inputs \subseteq Notes /\ request[o].outputs \subseteq Notes
    BY DEF TypeOK, Calls
  <2>3. MintTypeOK'
    BY <1>14, <2>2 DEF PaymentSettles, PaymentFails, MeltSettles, MeltFails, mintVars,
                       TypeOK, MintTypeOK
  <2> QED BY <1>14, <2>1, <2>3 DEF PaymentSettles, PaymentFails, walletVars, TypeOK
<1>15. ASSUME NEW m \in wire, Serve(m) PROVE TypeOK'
  <2>1. m \in Messages /\ m.op \in Ops /\ m.req.inputs \subseteq Notes
        /\ m.req.outputs \subseteq Notes
    BY DEF TypeOK, MintTypeOK, Messages, Requests
  <2>2. PICK body : Answered(m, body) /\ bill' \in {bill, [bill EXCEPT ![m.op].state = "inflight"]}
    BY <1>15, ServeShape
  <2>3. wire' \subseteq Messages /\ answer' \in [Ops -> Bodies \cup {NoAnswer}]
    BY <2>1, <2>2 DEF Answered, TypeOK, MintTypeOK
  <2>4. bill' \in [Ops -> Bills]
    <3>1. [bill[m.op] EXCEPT !.state = "inflight"] \in Bills
      BY <2>1, BillTypes DEF TypeOK
    <3> QED BY <2>1, <2>2, <3>1 DEF TypeOK
  <2>5. /\ outstanding' \subseteq Notes /\ spent' \subseteq Notes
        /\ melting' \subseteq Notes /\ applied' \subseteq Messages
    BY <1>15, <2>1 DEF Serve, Apply, Replay, Decline, TypeOK, MintTypeOK
  <2> QED BY <1>15, <2>3, <2>4, <2>5 DEF Serve, walletVars, TypeOK, MintTypeOK
<1>16. ASSUME NEW p \in posted, ServeTransfer(p) PROVE TypeOK'
  <2>1. p \in Ops /\ request[p].inputs \subseteq Notes
    BY DEF TypeOK, Calls
  <2>2. PICK body \in Bodies : ReplyTransfer(p, body)
    BY <1>16, ServeTransferShape
  <2>3. answer' \in [Ops -> Bodies \cup {NoAnswer}] /\ posted' \subseteq posted
    BY <2>1, <2>2 DEF ReplyTransfer, TypeOK, MintTypeOK
  <2>4. outstanding' \subseteq Notes /\ spent' \subseteq Notes
    BY <1>16, <2>1 DEF ServeTransfer, Burn, TypeOK, MintTypeOK
  <2> QED BY <1>16, <2>3, <2>4 DEF ServeTransfer, walletVars, TypeOK, MintTypeOK
<1>17. CASE Crash
  BY <1>17 DEF Crash, TypeOK, MintTypeOK, Stages
<1>18. CASE UNCHANGED vars
  BY <1>18 DEF vars, mintVars, walletVars, TypeOK, MintTypeOK
<1>19. ASSUME NEW o \in Ops, Collect(o) PROVE TypeOK'
  <2>1. request[o].inputs \subseteq Notes
    BY DEF TypeOK, Calls
  <2>2. outstanding' \subseteq Notes /\ spent' \subseteq Notes
    BY <1>19, <2>1 DEF Collect, Burn, TypeOK, MintTypeOK
  <2> QED BY <1>19, <2>2 DEF Collect, walletVars, TypeOK, MintTypeOK
<1> QED BY <1>2, <1>3, <1>4, <1>5, <1>6, <1>7, <1>8, <1>9, <1>10, <1>11, <1>12, <1>13,
           <1>14, <1>15, <1>16, <1>17, <1>18, <1>19 DEF Next, Wallet

LEMMA TypeInit == Init => TypeOK
<1> SUFFICES ASSUME Init PROVE TypeOK
  OBVIOUS
<1>1. MintTypeOK
  BY MintAssumption DEF Init, MintInit, MintTypeOK
<1>2. NoCall \in Calls
  BY DEF NoCall, Calls, Kinds, MutationKind
<1>3. \A o \in Ops : NoBill(o) \in Bills
  BY DEF NoBill, Bills, Invoices
<1>4. NotSent \in Postings
  BY DEF NotSent, Postings, Links
<1> QED BY <1>1, <1>2, <1>3, <1>4 DEF Init, TypeOK, Records, Stages

\* Every variable keeps its type: the wallet's records, its calls, its bills,
\* and the books of the SERVICE (ffi.rs, the caller's side).
THEOREM PurseTypeCorrect == Spec => []TypeOK
BY TypeInit, TypeStep, PTL DEF Spec

(***************************************************************************)
(* What a step may do to the calls and to the records.                     *)
(***************************************************************************)
\* A request is written once, and a call that has ended stays ended.
LEMMA OnlyBuilds ==
  ASSUME TypeOK, [Next]_vars, \A o \in Ops : ~ Build(o)
  PROVE  /\ UNCHANGED <<request, staked>>
         /\ \A o \in Ops : pc'[o] \in {"idle", "built"} => pc'[o] = pc[o]
         /\ \A o \in Ops : pc[o] = "idle" => pc'[o] = "idle"
         /\ \A o \in Ops : Active(o)' => Active(o)
<1>1. ASSUME NEW o \in Ops, Wallet(o)
      PROVE  /\ UNCHANGED <<request, staked>>
             /\ \E stage \in Stages \ {"idle", "built"} : Goto(o, stage)
             /\ Active(o)
  BY <1>1 DEF Wallet, Get, Receive, GetFails, Abandon, Quote, Pay, Transfer,
              ReceiveTransfer, Verify, LookupMelted, Goto, Stages, Active
<1>2. CASE \E o \in Ops : Wallet(o)
  <2>1. PICK o \in Ops : Wallet(o)
    BY <1>2
  <2>2. PICK stage \in Stages \ {"idle", "built"} : pc' = [pc EXCEPT ![o] = stage]
    BY <1>1, <2>1 DEF Goto
  <2> QED BY <1>1, <2>1, <2>2 DEF TypeOK, Active
<1>3. CASE Crash
  BY <1>3 DEF Crash, Active, TypeOK
<1>4. CASE UNCHANGED <<request, staked, pc>>
  BY <1>4 DEF Active
<1>5. ASSUME ~ \E o \in Ops : Wallet(o), ~ Crash
      PROVE  UNCHANGED <<request, staked, pc>>
  BY <1>5 DEF Next, vars, walletVars, PaymentSettles, PaymentFails, Lookup, Serve,
                   ServeTransfer, Collect
<1> QED BY <1>2, <1>3, <1>4, <1>5

\* A payRequest is read once, and its note goes where its callback is.
LEMMA OnlyTransfers ==
  ASSUME TypeOK, [Next]_vars, \A o \in Ops : ~ Transfer(o)
  PROVE  UNCHANGED address
BY DEF Next, vars, walletVars, Wallet, Build, Get, Receive, GetFails, Abandon, Quote, Pay,
       ReceiveTransfer, Verify, LookupMelted, Lookup, Crash, PaymentSettles, PaymentFails,
       Serve, ServeTransfer, Collect

\* A note that was given out of hand once stays so, and it was no balance then.
LEMMA MisledGrows ==
  ASSUME TypeOK, Ledger, [Next]_vars
  PROVE  /\ Misled \subseteq Misled'
         /\ (\A o \in Ops : ~ Transfer(o)) => Misled' = Misled
         /\ \A n \in Misled' \ Misled : purse[n] = "sent"
<1>1. ASSUME NEW o \in Ops, Astray(o) PROVE Astray(o)' /\ request'[o] = request[o]
  <2>1. pc[o] \notin {"idle", "built"}
    BY <1>1 DEF Astray, NotSent, Ledger, Wired
  <2>2. ASSUME NEW p \in Ops, Build(p) PROVE request'[o] = request[o] /\ UNCHANGED address
    BY <2>1, <2>2 DEF Build, TypeOK
  <2>3. ASSUME NEW p \in Ops, Transfer(p) PROVE request'[o] = request[o] /\ address'[o] = address[o]
    BY <2>1, <2>3 DEF Transfer, TypeOK
  <2> QED BY <1>1, <2>2, <2>3, OnlyBuilds, OnlyTransfers DEF Astray
<1>2. Misled \subseteq Misled'
  BY <1>1 DEF Misled
<1>3. CASE \A o \in Ops : ~ Transfer(o)
  <2>1. UNCHANGED address
    BY <1>3, OnlyTransfers
  <2>2. \A o \in Ops : Astray(o)' <=> Astray(o)
    BY <2>1 DEF Astray
  <2> QED BY <1>1, <1>3, <2>2 DEF Misled
<1>4. ASSUME NEW o \in Ops, Transfer(o) PROVE \A n \in Misled' \ Misled : purse[n] = "sent"
  <2>1. UNCHANGED request /\ Active(o)
    BY <1>4 DEF Transfer, Active
  <2>2. \A p \in Ops \ {o} : address'[p] = address[p]
    BY <1>4 DEF Transfer, TypeOK
  <2>3. \A n \in Misled' \ Misled : n \in request[o].inputs
    BY <2>1, <2>2 DEF Misled, Astray
  <2> QED BY <2>1, <2>3 DEF Ledger, Reserved
<1> QED BY <1>2, <1>3, <1>4

\* The end of a call that changes records, with what makes it right.
Closes(o) ==
  /\ Active(o)
  /\ Goto(o, "done")
  /\ UNCHANGED <<outstanding, spent, melting, applied, wire, request, staked, bill, posted>>
  /\ \/ /\ purse' = Settled(o)
        /\ request[o].inputs \subseteq spent \cup Misled
        /\ request[o].outputs \subseteq outstanding \cup spent
     \/ /\ Refused(o)
        /\ \A n \in staked[o] \ Misled : n \in outstanding \ melting /\ Quiet(n)
        /\ bill[o].state = "none" \/ request[o].outputs = {}
        /\ \A m \in wire \cup applied : m.op = o => request[o].outputs = {}

\* Inputs that were balance are balance again if the call left them alone, and
\* nothing it sent is still under way.
LEMMA StakeReturns ==
  ASSUME TypeOK, Ledger, NEW o \in Ops, Active(o),
         \A m \in wire : m.op # o, o \notin posted, ~ Landed(o),
         request[o].kind = "Transfer" => pc[o] = "built" \/ answer[o].status = "ERROR"
  PROVE  \A n \in staked[o] \ Misled : n \in outstanding \ melting /\ Quiet(n)
BY DEF Ledger, Spendable, Quiet

\* A settled call has burned its inputs, and its outputs exist.
LEMMA LandedIsDone ==
  ASSUME TypeOK, Ledger, NEW o \in Ops, Landed(o), request[o].kind # "Melt"
  PROVE  /\ request[o].inputs \subseteq spent
         /\ request[o].outputs \subseteq outstanding \cup spent
BY DEF Ledger, Wired, Booked, Landed

LEMMA ReceiveCloses ==
  ASSUME TypeOK, Ledger, NEW o \in Ops, Receive(o)
  PROVE  Closes(o) \/ UNCHANGED purse
<1>1. /\ Active(o) /\ answer[o] # NoAnswer /\ request[o].kind \in MutationKind
      /\ UNCHANGED <<outstanding, spent, melting, applied, wire, request, staked, bill, posted>>
  BY DEF Receive, Active
<1>2. CASE /\ answer[o].status = "OK" /\ request[o].kind # "Melt"
           /\ Goto(o, "done") /\ purse' = Settled(o)
  <2>1. Landed(o)
    BY <1>1, <1>2 DEF Ledger, AnswersTrue
  <2> QED BY <1>1, <1>2, <2>1, LandedIsDone DEF Closes
<1>3. CASE /\ ~ doubt[o] /\ answer[o].status = "ERROR"
           /\ Goto(o, "done") /\ Refused(o)
  <2>1. /\ ~ Landed(o)
        /\ \A m \in wire : m.op # o
        /\ o \notin posted
    BY <1>1, <1>3 DEF Ledger, AnswersTrue
  <2>2. \A n \in staked[o] \ Misled : n \in outstanding \ melting /\ Quiet(n)
    BY <1>1, <1>3, <2>1, StakeReturns
  <2>3. bill[o].state = "none" \/ request[o].outputs = {}
    BY <1>1 DEF Ledger, Billed, Requested, MutationKind
  <2> QED BY <1>1, <1>3, <2>1, <2>2, <2>3 DEF Closes, Landed
<1> QED BY <1>2, <1>3, ReceiveShape

LEMMA ReceiveTransferCloses ==
  ASSUME TypeOK, Ledger, NEW o \in Ops, ReceiveTransfer(o)
  PROVE  Closes(o) \/ UNCHANGED purse
<1>1. /\ Active(o) /\ Goto(o, "done") /\ answer[o] # NoAnswer
      /\ request[o].kind = "Transfer"
      /\ UNCHANGED <<outstanding, spent, melting, applied, wire, request, staked, bill, posted>>
  BY DEF ReceiveTransfer, Active
<1>2. request[o].outputs = {}
  BY <1>1 DEF Ledger, Requested
<1>3. CASE answer[o].status = "OK" /\ purse' = Settled(o)
  <2>1. request[o].inputs \subseteq spent \cup Misled
    BY <1>1, <1>3 DEF Ledger, AnswersTrue
  <2> QED BY <1>1, <1>2, <1>3, <2>1 DEF Closes
<1>4. CASE ~ doubt[o] /\ answer[o].status = "ERROR" /\ Refused(o)
  <2>1. /\ ~ Landed(o)
        /\ \A m \in wire : m.op # o
        /\ o \notin posted
    BY <1>1, <1>4 DEF Ledger, AnswersTrue
  <2>2. \A n \in staked[o] \ Misled : n \in outstanding \ melting /\ Quiet(n)
    BY <1>1, <1>4, <2>1, StakeReturns
  <2> QED BY <1>1, <1>2, <1>4, <2>2 DEF Closes
<1> QED BY <1>2, <1>3, <1>4, ReceiveTransferShape

\* A call from which nothing has been sent.
LEMMA NothingSent ==
  ASSUME TypeOK, Ledger, NEW o \in Ops, pc[o] = "built"
  PROVE  /\ \A m \in wire \cup applied : m.op # o
         /\ o \notin posted
         /\ ~ Landed(o)
         /\ bill[o].state = "none"
BY DEF Ledger, Wired, Billed, Landed

\* Secrets alone, or inputs alone, are a case of both.
LEMMA RefusedInPart ==
  ASSUME NEW o \in Ops,
         purse' = Record(request[o].outputs, "none") \/ purse' = Record(staked[o], "live")
  PROVE  Refused(o)
<1>1. CASE purse' = Record(request[o].outputs, "none")
  <2>1. purse' = [n \in Notes |-> IF n \in request[o].outputs THEN "none"
                                  ELSE IF n \in {} THEN "live" ELSE purse[n]]
    BY <1>1 DEF Record
  <2>2. {} \in SUBSET staked[o]
    OBVIOUS
  <2> QED BY <2>1, <2>2 DEF Refused
<1>2. CASE purse' = Record(staked[o], "live")
  <2>1. purse' = [n \in Notes |-> IF n \in {} THEN "none"
                                  ELSE IF n \in staked[o] THEN "live" ELSE purse[n]]
    BY <1>2 DEF Record
  <2>2. {} \in SUBSET request[o].outputs
    OBVIOUS
  <2> QED BY <2>1, <2>2 DEF Refused
<1> QED BY <1>1, <1>2

LEMMA OthersClose ==
  ASSUME TypeOK, Ledger, NEW o \in Ops,
         Quote(o) \/ Transfer(o) \/ Verify(o) \/ LookupMelted(o)
  PROVE  Closes(o) \/ UNCHANGED purse
<1>1. /\ Active(o)
      /\ UNCHANGED <<outstanding, spent, melting, applied, wire, request, staked>>
  BY DEF Quote, Transfer, Verify, LookupMelted, Active, mintVars
<1>2. CASE Quote(o)
  <2>1. pc[o] = "built" /\ request[o].kind = "Mint" /\ UNCHANGED posted
    BY <1>2 DEF Quote
  <2>2. staked[o] = {}
    BY <2>1 DEF Ledger, Requested
  <2>3. CASE Goto(o, "done") /\ UNCHANGED bill /\ purse' = Record(request[o].outputs, "none")
    <3>1. Refused(o)
      BY <2>3, RefusedInPart
    <3> QED BY <1>1, <2>1, <2>2, <2>3, <3>1, NothingSent DEF Closes
  <2> QED BY <1>2, <2>3, QuoteShape
<1>3. CASE Transfer(o)
  <2>1. pc[o] = "built" /\ request[o].kind = "Transfer" /\ UNCHANGED bill
    BY <1>3 DEF Transfer
  <2>2. CASE Goto(o, "done") /\ UNCHANGED posted /\ purse' = Record(staked[o], "live")
    <3>1. Refused(o)
      BY <2>2, RefusedInPart
    <3>2. \A n \in staked[o] \ Misled : n \in outstanding \ melting /\ Quiet(n)
      BY <1>1, <2>1, NothingSent, StakeReturns
    <3> QED BY <1>1, <2>1, <2>2, <3>1, <3>2, NothingSent DEF Closes
  <2> QED BY <1>3, <2>2 DEF Transfer
<1>4. CASE Verify(o)
  <2>1. /\ pc[o] \in {"melted", "paying"} /\ Goto(o, "done") /\ UNCHANGED <<bill, posted>>
        /\ purse' = Settled(o)
    BY <1>4 DEF Verify
  <2>2. bill[o].state = "settled"
    BY <1>4, VerifyShape DEF Ledger, Billed
  <2>3. /\ request[o].inputs \subseteq spent
        /\ request[o].outputs \subseteq outstanding \cup spent
    BY <2>1, <2>2 DEF Ledger, Billed, Requested
  <2> QED BY <1>1, <2>1, <2>3 DEF Closes
<1>5. CASE LookupMelted(o)
  <2>1. /\ pc[o] = "melted" /\ Goto(o, "done") /\ UNCHANGED <<bill, posted>>
        /\ purse' = Record(staked[o], "live")
        /\ \A n \in staked[o] : Found(n)
    BY <1>5 DEF LookupMelted
  <2>2. request[o].kind = "Melt" /\ request[o].outputs = {} /\ ~ doubt[o]
    BY <2>1 DEF Ledger, Billed, Requested, Doubts
  <2>3. Refused(o)
    BY <2>1, RefusedInPart
  <2>4. (\A m \in wire : m.op # o) /\ o \notin posted
    BY <2>1, <2>2 DEF Ledger, AnswersTrue, Wired
  <2>5. \A n \in staked[o] \ Misled : n \in outstanding \ melting /\ Quiet(n)
    BY <1>1, <2>1, <2>4, FoundIsThere DEF Ledger, Spendable, Quiet
  <2> QED BY <1>1, <2>1, <2>2, <2>3, <2>5 DEF Closes
<1> QED BY <1>2, <1>3, <1>4, <1>5

\* Every change of the records.
LEMMA RecordSteps ==
  ASSUME TypeOK, Ledger, [Next]_vars
  PROVE  \/ \E o \in Ops : Build(o)
         \/ \E o \in Ops : Closes(o)
         \/ \E n \in Notes : Lookup(n)
         \/ UNCHANGED purse
<1>1. ASSUME NEW o \in Ops, Wallet(o)
      PROVE  Build(o) \/ Closes(o) \/ UNCHANGED purse
  <2>1. CASE Get(o) \/ Abandon(o) \/ Pay(o)
    BY <2>1 DEF Get, Abandon, Pay
  <2> QED BY <1>1, <2>1, ReceiveCloses, ReceiveTransferCloses, OthersClose, GetFailsShape
        DEF Wallet
<1> QED BY <1>1 DEF Next, vars, walletVars, PaymentSettles, PaymentFails, Serve,
                    ServeTransfer, Collect, Crash

(***************************************************************************)
(* Every part of the invariant is kept by every step.                      *)
(***************************************************************************)
\* Building draws outputs nobody had, and takes no note of another call.
LEMMA BuildDraws ==
  ASSUME TypeOK, Ledger, NEW o \in Ops, Build(o)
  PROVE  /\ pc[o] = "idle" /\ pc' = [pc EXCEPT ![o] = "built"]
         /\ request[o] = NoCall
         /\ UNCHANGED <<mintVars, doubt, gets, bill, address, posted>>
         /\ \E kind \in Kinds, ins \in SUBSET (Stored \ InUse), outs \in SUBSET Undrawn :
              /\ Builds(o, kind, ins, outs)
              /\ ins \subseteq Drawn /\ outs \subseteq Notes /\ outs \cap Drawn = {}
              /\ Drawn' = Drawn \cup outs
<1>1. pc[o] = "idle" /\ pc' = [pc EXCEPT ![o] = "built"]
      /\ UNCHANGED <<mintVars, doubt, gets, bill, address, posted>>
  BY DEF Build, Goto
<1>2. request[o] = NoCall
  BY <1>1 DEF Ledger, Requested
<1>3. PICK kind \in Kinds, ins \in SUBSET (Stored \ InUse), outs \in SUBSET Undrawn :
        Builds(o, kind, ins, outs)
  BY BuildShape
<1>4. ins \subseteq Drawn /\ outs \subseteq Notes /\ outs \cap Drawn = {}
  BY DEF Ledger, Reserved, Undrawn, Drawn
<1>5. Drawn' = Drawn \cup outs
  <2>1. /\ request'[o].outputs = outs
        /\ request[o].outputs = {}
        /\ \A p \in Ops \ {o} : request'[p] = request[p]
    BY <1>2, <1>3 DEF Builds, NoCall, TypeOK
  <2> QED BY <2>1 DEF Drawn
<1> QED BY <1>1, <1>2, <1>3, <1>4, <1>5

LEMMA RequestedStep ==
  ASSUME TypeOK, Ledger, [Next]_vars
  PROVE  Requested'
<1>1. CASE \A o \in Ops : ~ Build(o)
  BY <1>1, OnlyBuilds DEF Ledger, Requested, Drawn
<1>2. ASSUME NEW o \in Ops, Build(o) PROVE Requested'
  <2>1. PICK kind \in Kinds, ins \in SUBSET (Stored \ InUse), outs \in SUBSET Undrawn :
          /\ Builds(o, kind, ins, outs)
          /\ ins \subseteq Drawn /\ outs \subseteq Notes /\ outs \cap Drawn = {}
          /\ Drawn' = Drawn \cup outs
    BY <1>2, BuildDraws
  <2>2. /\ request'[o] = [kind |-> kind, inputs |-> ins, outputs |-> outs]
        /\ staked'[o] \subseteq ins
        /\ pc'[o] = "built"
        /\ \A p \in Ops \ {o} :
             request'[p] = request[p] /\ staked'[p] = staked[p] /\ pc'[p] = pc[p]
    BY <1>2, <2>1, BuildDraws DEF Builds, TypeOK
  <2>3. \A p \in Ops \ {o} : request[p].outputs \cap outs = {}
    BY <2>1 DEF Drawn
  <2>4. outs \cap Genesis = {}
    BY <2>1 DEF Drawn
  <2> QED BY <2>1, <2>2, <2>3, <2>4 DEF Ledger, Requested, Builds
<1> QED BY <1>1, <1>2

LEMMA ReservedStep ==
  ASSUME TypeOK, Ledger, [Next]_vars
  PROVE  Reserved'
<1>1. ASSUME NEW o \in Ops, Build(o) PROVE Reserved'
  <2>1. PICK kind \in Kinds, ins \in SUBSET (Stored \ InUse), outs \in SUBSET Undrawn :
          /\ Builds(o, kind, ins, outs)
          /\ ins \subseteq Drawn /\ outs \subseteq Notes /\ outs \cap Drawn = {}
          /\ Drawn' = Drawn \cup outs
    BY <1>1, BuildDraws
  <2>2. /\ request'[o] = [kind |-> kind, inputs |-> ins, outputs |-> outs]
        /\ \A p \in Ops \ {o} : request'[p] = request[p] /\ pc'[p] = pc[p]
    BY <1>1, <2>1, BuildDraws DEF Builds, TypeOK
  <2>3. /\ \A n \in ins : n \in Notes /\ purse'[n] = "sent"
        /\ \A n \in outs : purse'[n] = "fresh"
        /\ \A n \in Notes \ (ins \cup outs) : purse'[n] = purse[n]
    BY <2>1 DEF Builds, Stored
  <2>4. \A p \in Ops : request[p].inputs \cup request[p].outputs \subseteq Drawn
    BY DEF Ledger, Requested, Drawn
  <2>5. \A p \in Ops \ {o} : Active(p)' => Active(p) /\
          (request[p].inputs \cup request[p].outputs) \cap (ins \cup outs) = {}
    BY <2>1, <2>2, <2>4 DEF Active, InUse
  <2>6. \A p \in Ops : request[p].inputs \subseteq Notes /\ request[p].outputs \subseteq Notes
    BY DEF TypeOK, Calls
  <2>7. \A p \in Ops : Active(p)' =>
          /\ \A n \in request'[p].outputs : purse'[n] = "fresh"
          /\ \A n \in request'[p].inputs : purse'[n] = "sent"
    BY <2>2, <2>3, <2>5, <2>6 DEF Ledger, Reserved
  <2>8. \A p, q \in Ops : Active(p)' /\ Active(q)' /\ p # q =>
          request'[p].inputs \cap request'[q].inputs = {}
    BY <2>2, <2>5 DEF Ledger, Reserved
  <2>9. ASSUME NEW n \in Notes, purse'[n] = "fresh", NEW p \in Ops
        PROVE  n \notin request'[p].inputs
    BY <2>1, <2>2, <2>3, <2>4, <2>9 DEF Ledger, Reserved
  <2>10. Stored' \subseteq Drawn'
    BY <2>1, <2>3 DEF Ledger, Reserved, Stored
  <2> QED BY <2>7, <2>8, <2>9, <2>10 DEF Reserved
<1>2. ASSUME \A o \in Ops : ~ Build(o),
             \A n \in Notes : \/ purse'[n] = purse[n]
                              \/ /\ purse[n] # "none" /\ purse'[n] # "fresh"
                                 /\ \A p \in Ops : Active(p)' =>
                                      n \notin request[p].inputs \cup request[p].outputs
      PROVE  Reserved'
  <2>1. UNCHANGED request /\ \A p \in Ops : Active(p)' => Active(p)
    BY <1>2, OnlyBuilds
  <2>2. \A p \in Ops : request[p].inputs \subseteq Notes /\ request[p].outputs \subseteq Notes
    BY DEF TypeOK, Calls
  <2>3. Stored' \subseteq Stored /\ Drawn' = Drawn
    BY <1>2, <2>1 DEF Stored, Drawn
  <2> QED BY <1>2, <2>1, <2>2, <2>3 DEF Ledger, Reserved
<1>3. ASSUME NEW o \in Ops, Closes(o), \A p \in Ops : ~ Build(p) PROVE Reserved'
  <2>1. /\ Active(o) /\ pc' = [pc EXCEPT ![o] = "done"]
        /\ staked[o] \subseteq request[o].inputs
    BY <1>3 DEF Closes, Goto, Ledger, Requested
  <2>2. \A n \in Notes : \/ purse'[n] = purse[n]
                         \/ /\ n \in request[o].inputs \cup request[o].outputs
                            /\ purse'[n] \in {"none", "live"}
    BY <1>3, <2>1 DEF Closes, Settled, Refused
  <2>3. \A n \in request[o].inputs \cup request[o].outputs : purse[n] # "none"
    BY <2>1 DEF Ledger, Reserved
  <2>4. ~ Active(o)' /\ \A p \in Ops : Active(p)' => Active(p)
    BY <1>3, <2>1, OnlyBuilds DEF Active, TypeOK
  <2>5. \A p \in Ops : Active(p) /\ p # o =>
          (request[p].inputs \cup request[p].outputs)
            \cap (request[o].inputs \cup request[o].outputs) = {}
    BY <2>1 DEF Ledger, Reserved, Requested
  <2> QED BY <1>2, <1>3, <2>2, <2>3, <2>4, <2>5
<1>4. ASSUME NEW n \in Notes, Lookup(n), \A p \in Ops : ~ Build(p) PROVE Reserved'
  <2>1. /\ purse[n] = "fresh" /\ n \notin InUse /\ UNCHANGED pc
        /\ purse' = [k \in Notes |-> IF k = n THEN "live" ELSE purse[k]]
    BY <1>4 DEF Lookup, Record
  <2>2. \A p \in Ops : Active(p)' => n \notin request[p].inputs \cup request[p].outputs
    BY <2>1 DEF InUse, Active
  <2> QED BY <1>2, <1>4, <2>1, <2>2
<1>5. CASE UNCHANGED purse /\ \A p \in Ops : ~ Build(p)
  BY <1>2, <1>5
<1> QED BY <1>1, <1>3, <1>4, <1>5, RecordSteps

LEMMA DoubtsStep ==
  ASSUME TypeOK, Ledger, [Next]_vars
  PROVE  Doubts'
<1>1. ASSUME NEW o \in Ops, Build(o) PROVE Doubts'
  <2>1. /\ pc[o] = "idle" /\ pc' = [pc EXCEPT ![o] = "built"] /\ UNCHANGED <<gets, doubt>>
        /\ \A p \in Ops \ {o} : request'[p].kind = request[p].kind
    BY <1>1, BuildDraws DEF Builds, TypeOK
  <2> QED BY <2>1 DEF Ledger, Doubts, TypeOK
<1>2. ASSUME NEW o \in Ops, Get(o) PROVE Doubts'
  <2>1. /\ pc' = [pc EXCEPT ![o] = "waiting"] /\ UNCHANGED <<doubt, request>>
        /\ gets' = [gets EXCEPT ![o] = gets[o] + 1]
        /\ pc[o] = "built" \/ (pc[o] = "uncertain" /\ request[o].kind # "Melt")
    BY <1>2 DEF Get, Goto
  <2> QED BY <2>1 DEF Ledger, Doubts, TypeOK
<1>3. ASSUME NEW o \in Ops, Receive(o) PROVE Doubts'
  <2>1. /\ pc[o] = "waiting" /\ UNCHANGED <<doubt, request, gets>>
        /\ \/ pc' = [pc EXCEPT ![o] = "done"]
           \/ pc' = [pc EXCEPT ![o] = "melted"]
    BY <1>3 DEF Receive, Goto
  <2> QED BY <2>1 DEF Ledger, Doubts, TypeOK
<1>4. ASSUME NEW o \in Ops, GetFails(o) PROVE Doubts'
  <2>1. /\ pc[o] = "waiting" /\ UNCHANGED <<request, gets>>
        /\ pc' = [pc EXCEPT ![o] = "uncertain"] /\ doubt' = [doubt EXCEPT ![o] = TRUE]
    BY <1>4 DEF GetFails, Goto
  <2> QED BY <2>1 DEF Ledger, Doubts, TypeOK
<1>5. ASSUME NEW o \in Ops, Transfer(o) PROVE Doubts'
  <2>1. /\ pc[o] = "built" /\ request[o].kind = "Transfer"
        /\ UNCHANGED <<doubt, request, gets>>
        /\ \/ pc' = [pc EXCEPT ![o] = "done"]
           \/ pc' = [pc EXCEPT ![o] = "waiting"]
    BY <1>5 DEF Transfer, Goto
  <2> QED BY <2>1 DEF Ledger, Doubts, TypeOK
<1>6. ASSUME NEW o \in Ops, Abandon(o) \/ Quote(o) \/ Pay(o) \/ ReceiveTransfer(o)
                            \/ Verify(o) \/ LookupMelted(o)
      PROVE  Doubts'
  <2>1. /\ UNCHANGED <<doubt, request, gets>>
        /\ \E stage \in {"done", "quoted", "paying"} : pc' = [pc EXCEPT ![o] = stage]
    BY <1>6 DEF Abandon, Quote, Pay, ReceiveTransfer, Verify, LookupMelted, Goto
  <2> QED BY <2>1 DEF Ledger, Doubts, TypeOK
<1>7. CASE Crash
  BY <1>7 DEF Crash, Ledger, Doubts, TypeOK
<1>8. CASE UNCHANGED walletVars \/ \E n \in Notes : Lookup(n)
  BY <1>8 DEF Lookup, walletVars, Ledger, Doubts
<1> QED BY <1>1, <1>2, <1>3, <1>4, <1>5, <1>6, <1>7, <1>8
        DEF Next, Wallet, vars, PaymentSettles, PaymentFails, Serve, ServeTransfer, Collect

LEMMA WiredStep ==
  ASSUME TypeOK, Ledger, [Next]_vars
  PROVE  Wired'
<1>0. /\ \A m \in wire \cup applied : m.op \in Ops /\ m.att \in Nat
      /\ posted \subseteq Ops
      /\ \A p \in Ops : gets[p] \in Nat
  BY DEF TypeOK, MintTypeOK, Messages
<1>1. ASSUME NEW o \in Ops, Build(o) PROVE Wired'
  <2>1. /\ pc[o] = "idle" /\ pc' = [pc EXCEPT ![o] = "built"]
        /\ UNCHANGED <<wire, applied, gets, address, posted>>
        /\ \A p \in Ops \ {o} : request'[p] = request[p]
    BY <1>1, BuildDraws DEF Builds, TypeOK, mintVars
  <2> QED BY <1>0, <2>1 DEF Ledger, Wired, TypeOK
<1>2. ASSUME NEW o \in Ops, Get(o) PROVE Wired'
  <2>1. /\ pc' = [pc EXCEPT ![o] = "waiting"] /\ UNCHANGED <<request, applied, address, posted>>
        /\ gets' = [gets EXCEPT ![o] = gets[o] + 1]
        /\ wire' = wire \cup {Message(o)}
    BY <1>2 DEF Get, Goto
  <2>2. Message(o).op = o /\ Message(o).att = gets[o] /\ Message(o).req = request[o]
    BY DEF Message
  <2>3. Message(o) \notin applied
    BY <1>0, <2>2 DEF Ledger, Wired
  <2>4. \A p \in Ops : gets'[p] \in Nat /\ gets'[p] >= gets[p] /\ gets'[o] = gets[o] + 1
    BY <1>0, <2>1 DEF TypeOK
  <2>5. ASSUME NEW m \in wire' \cup applied'
        PROVE  m.req = request'[m.op] /\ m.att < gets'[m.op] /\ pc'[m.op] \notin {"idle", "built"}
    <3>1. CASE m \in wire \cup applied
      BY <1>0, <2>1, <2>4, <3>1 DEF Ledger, Wired, TypeOK
    <3>2. CASE m = Message(o)
      BY <1>0, <2>1, <2>2, <2>4, <3>2 DEF TypeOK
    <3> QED BY <2>1, <3>1, <3>2
  <2>6. wire' \cap applied' = {}
    BY <2>1, <2>3 DEF Ledger, Wired
  <2> QED BY <1>0, <2>1, <2>5, <2>6 DEF Ledger, Wired, TypeOK
<1>3. ASSUME UNCHANGED <<request, gets, address>>,
             \A o \in Ops : pc'[o] \in {"idle", "built"} => pc'[o] = pc[o],
             wire' \cup applied' \subseteq wire \cup applied, wire' \cap applied' = {},
             posted' \subseteq posted
      PROVE  Wired'
  BY <1>0, <1>3 DEF Ledger, Wired
<1>4. ASSUME NEW o \in Ops, Transfer(o) PROVE Wired'
  <2>1. /\ pc[o] = "built" /\ request[o].kind = "Transfer"
        /\ UNCHANGED <<wire, applied, request, gets>>
        /\ \E stage \in {"done", "waiting"} : pc' = [pc EXCEPT ![o] = stage]
    BY <1>4 DEF Transfer, Goto, mintVars
  <2>2. \/ UNCHANGED <<address, posted>>
        \/ /\ posted' = posted \cup {o}
           /\ \E a \in [withdrawLink : {"here"}, callback : {"here", "elsewhere"}] :
                address' = [address EXCEPT ![o] = a]
    <3>1. ASSUME NEW pay \in Addresses, internal_transfer_request(pay)
          PROVE  [withdrawLink |-> pay.withdrawLink, callback |-> pay.callback]
                   \in [withdrawLink : {"here"}, callback : {"here", "elsewhere"}]
      BY <3>1 DEF internal_transfer_request, parse_pay_request, Addresses, Callbacks
    <3> QED BY <1>4, <3>1 DEF Transfer
  <2>3. \A p \in Ops : pc'[p] \in {"idle", "built"} => p # o /\ pc'[p] = pc[p]
    BY <2>1 DEF TypeOK
  <2>4. \A p \in Ops : address'[p] # NotSent =>
          /\ address'[p] \in [withdrawLink : {"here"}, callback : {"here", "elsewhere"}]
          /\ request'[p].kind = "Transfer"
          /\ pc'[p] \notin {"idle", "built"}
    BY <2>1, <2>2, <2>3 DEF Ledger, Wired, TypeOK
  <2>5. \A p \in posted' : address'[p] # NotSent
    BY <1>0, <2>2 DEF Ledger, Wired, TypeOK, NotSent
  <2>6. \A m \in wire' \cup applied' :
          m.req = request'[m.op] /\ m.att < gets'[m.op] /\ pc'[m.op] \notin {"idle", "built"}
    BY <1>0, <2>1, <2>3 DEF Ledger, Wired
  <2> QED BY <2>1, <2>4, <2>5, <2>6 DEF Ledger, Wired
<1>5. CASE \A o \in Ops : ~ Build(o) /\ ~ Get(o) /\ ~ Transfer(o)
  <2>1. UNCHANGED request /\ \A o \in Ops : pc'[o] \in {"idle", "built"} => pc'[o] = pc[o]
    BY <1>5, OnlyBuilds
  <2>2. UNCHANGED gets /\ posted' \subseteq posted
    BY <1>5 DEF Next, vars, walletVars, Wallet, Receive, GetFails, Abandon, Quote, Pay,
                ReceiveTransfer, Verify, LookupMelted, Lookup, Crash, PaymentSettles,
                PaymentFails, Serve, ServeTransfer, ReplyTransfer, Collect
  <2>3. ASSUME NEW m \in wire, Serve(m)
        PROVE  wire' \cup applied' \subseteq wire \cup applied /\ wire' \cap applied' = {}
    <3>1. wire' = wire \ {m} /\ applied' \in {applied, applied \cup {m}}
      BY <2>3, ServeShape DEF Answered, Apply
    <3> QED BY <3>1 DEF Ledger, Wired
  <2>4. (\E m \in wire : Serve(m)) \/ UNCHANGED <<wire, applied>>
    BY <1>5 DEF Next, vars, mintVars, Wallet, Receive, GetFails, Abandon, Quote, Pay,
                ReceiveTransfer, Verify, LookupMelted, Lookup, Crash, PaymentSettles,
                PaymentFails, MeltSettles, MeltFails, ServeTransfer, Collect
  <2>5. wire' \cup applied' \subseteq wire \cup applied /\ wire' \cap applied' = {}
    BY <2>3, <2>4 DEF Ledger, Wired
  <2>6. UNCHANGED address
    BY <1>5, OnlyTransfers
  <2> QED BY <1>3, <2>1, <2>2, <2>5, <2>6
<1> QED BY <1>1, <1>2, <1>4, <1>5

\* Steps of the wallet, and answers that change no books.
LEMMA BooksUntouched ==
  ASSUME TypeOK, Ledger, UNCHANGED <<outstanding, spent, melting, applied>>,
         \A o \in Ops : /\ request[o].inputs \subseteq request'[o].inputs
                        /\ request[o].outputs \subseteq request'[o].outputs
                        /\ Minted(o) => Minted(o)'
  PROVE  Booked'
<1>1. /\ outstanding \subseteq Notes /\ spent \subseteq Notes /\ melting \subseteq Notes
  BY DEF TypeOK, MintTypeOK
<1> QED BY <1>1 DEF Ledger, Booked

LEMMA BookedStep ==
  ASSUME TypeOK, Ledger, [Next]_vars
  PROVE  Booked'
<1>1. ASSUME NEW o \in Ops, Build(o) PROVE Booked'
  <2>1. /\ pc[o] = "idle" /\ request[o] = NoCall
        /\ UNCHANGED <<outstanding, spent, melting, applied, bill>>
        /\ \A p \in Ops \ {o} : request'[p] = request[p]
    BY <1>1, BuildDraws DEF Builds, TypeOK, mintVars
  <2>2. ~ Minted(o)
    BY <2>1 DEF Ledger, Wired, Minted, Landed, NoCall
  <2>3. \A p \in Ops :
          /\ request[p].inputs \subseteq request'[p].inputs
          /\ request[p].outputs \subseteq request'[p].outputs
          /\ Minted(p) => Minted(p)'
    BY <2>1, <2>2 DEF NoCall, Minted, Landed
  <2> QED BY <2>1, <2>3, BooksUntouched
<1>2. ASSUME UNCHANGED <<outstanding, spent, melting, applied, request>>,
             \A o \in Ops : bill[o].state = "settled" => bill'[o].state = "settled"
      PROVE  Booked'
  <2>1. \A p \in Ops : Minted(p) => Minted(p)'
    BY <1>2 DEF Minted, Landed
  <2> QED BY <1>2, <2>1, BooksUntouched
<1>3. ASSUME NEW o \in Ops, Quote(o) PROVE Booked'
  <2>1. bill[o].state = "none" /\ UNCHANGED <<outstanding, spent, melting, applied, request>>
    BY <1>3 DEF Quote, Ledger, Billed, mintVars
  <2>2. UNCHANGED bill \/ \E b \in Bills : bill' = [bill EXCEPT ![o] = b]
    BY <1>3, QuoteShape
  <2> QED BY <1>2, <2>1, <2>2 DEF TypeOK
<1>4. ASSUME NEW o \in Ops, Pay(o) PROVE Booked'
  <2>1. bill[o].state = "open" /\ UNCHANGED <<outstanding, spent, melting, applied, request>>
    BY <1>4 DEF Pay, Ledger, Billed, mintVars
  <2>2. \A p \in Ops \ {o} : bill'[p] = bill[p]
    BY <1>4 DEF Pay, TypeOK
  <2> QED BY <1>2, <2>1, <2>2
<1>5. ASSUME NEW o \in Ops, PaymentSettles(o) PROVE Booked'
  <2>1. /\ bill[o].state = "inflight" /\ UNCHANGED <<applied, request>>
        /\ bill'[o].state = "settled"
        /\ \A p \in Ops \ {o} : bill'[p] = bill[p]
    BY <1>5 DEF PaymentSettles, BillBecomes, MeltSettles, walletVars, TypeOK, Bills
  <2>2. \A p \in Ops : Minted(p) => Minted(p)'
    BY <2>1 DEF Minted, Landed
  <2>3. CASE /\ request[o].kind = "Mint"
             /\ outstanding' = outstanding \cup (IF bill[o].room THEN request[o].outputs ELSE {})
             /\ UNCHANGED <<spent, melting>>
    <3>1. ~ Minted(o) /\ Minted(o)'
      BY <2>1, <2>3 DEF Minted, Landed, Ledger, Wired, TypeOK, MintTypeOK, Messages, Requests,
                        MutationKind
    <3>2. request[o].outputs \cap (outstanding \cup spent) = {}
      BY <3>1 DEF Ledger, Booked, Requested
    <3>3. outstanding' \subseteq outstanding \cup request[o].outputs
      BY <2>3
    <3>4. outstanding \subseteq outstanding'
      BY <2>3
    <3> QED BY <2>1, <2>2, <2>3, <3>1, <3>2, <3>3, <3>4 DEF Ledger, Booked
  <2>4. CASE /\ request[o].kind = "Melt"
             /\ \E n \in request[o].inputs : MeltSettles(n)
    <3>1. PICK n \in request[o].inputs : MeltSettles(n)
      BY <2>4
    <3>2. /\ n \in melting /\ n \in outstanding
          /\ melting' = melting \ {n} /\ outstanding' = outstanding \ {n}
          /\ spent' = spent \cup {n}
      BY <3>1 DEF MeltSettles, Ledger, Booked
    <3> QED BY <2>1, <2>2, <3>2 DEF Ledger, Booked
  <2> QED BY <1>5, <2>3, <2>4 DEF PaymentSettles
<1>6. ASSUME NEW o \in Ops, PaymentFails(o) PROVE Booked'
  <2>1. /\ bill[o].state = "inflight" /\ UNCHANGED <<applied, request, outstanding, spent>>
        /\ \A p \in Ops \ {o} : bill'[p] = bill[p]
        /\ melting' \subseteq melting
    BY <1>6 DEF PaymentFails, BillBecomes, MeltFails, walletVars, mintVars, TypeOK
  <2>2. \A p \in Ops : Minted(p) => Minted(p)'
    BY <2>1 DEF Minted, Landed
  <2> QED BY <2>1, <2>2 DEF Ledger, Booked
<1>7. ASSUME NEW m \in wire, Serve(m) PROVE Booked'
  <2>1. m.op \in Ops /\ m.req = request[m.op] /\ UNCHANGED request
    BY <1>7 DEF TypeOK, MintTypeOK, Messages, Ledger, Wired, Serve, walletVars
  <2>2. CASE UNCHANGED <<outstanding, spent, melting, applied, bill>>
    BY <1>2, <2>1, <2>2
  <2>3. CASE /\ Apply(m, Awaited(m))
             /\ bill' = IF m.req.kind = "Melt"
                        THEN [bill EXCEPT ![m.op].state = "inflight"] ELSE bill
    <3>1. /\ applied' = applied \cup {m}
          /\ m.req.inputs \subseteq outstanding \ melting
          /\ m.req.outputs \cap (outstanding \cup spent) = {}
      BY <2>3 DEF Apply, Honourable
    <3>2. \A p \in Ops : request[p].kind # "Melt" => bill'[p] = bill[p]
      BY <2>1, <2>3 DEF TypeOK
    <3>3. \A p \in Ops : Minted(p) => Minted(p)'
      BY <2>1, <3>1, <3>2 DEF Minted, Landed
    <3>4. CASE m.req.kind = "Melt"
      <4>1. melting' = melting \cup m.req.inputs /\ UNCHANGED <<outstanding, spent>>
        BY <2>3, <3>4 DEF Apply
      <4> QED BY <2>1, <3>1, <3>3, <3>4, <4>1 DEF Ledger, Booked
    <3>5. CASE m.req.kind # "Melt"
      <4>1. /\ outstanding' = (outstanding \ m.req.inputs) \cup m.req.outputs
            /\ spent' = spent \cup m.req.inputs /\ UNCHANGED melting
        BY <2>3, <3>5 DEF Apply
      <4>2. Minted(m.op)'
        BY <3>1 DEF Minted, Landed
      <4>3. outstanding' \cap spent' = {} /\ melting' \subseteq outstanding'
        BY <3>1, <4>1 DEF Ledger, Booked
      <4>4. \A n \in spent' \cup melting' : \E p \in Ops : n \in request'[p].inputs
        BY <2>1, <4>1 DEF Ledger, Booked
      <4>5. \A n \in outstanding' \cup spent' :
              n \in Genesis \/ \E p \in Ops : n \in request'[p].outputs /\ Minted(p)'
        BY <2>1, <3>1, <3>3, <4>1, <4>2 DEF Ledger, Booked
      <4>6. \A k \in applied' : k.req.kind # "Melt" =>
              /\ k.req.inputs \subseteq spent'
              /\ k.req.outputs \subseteq outstanding' \cup spent'
        BY <3>1, <4>1 DEF Ledger, Booked
      <4> QED BY <4>3, <4>4, <4>5, <4>6 DEF Booked
    <3> QED BY <3>4, <3>5
  <2> QED BY <1>7, <2>2, <2>3, ServeShape
<1>8. ASSUME NEW o \in Ops, ServeTransfer(o) \/ Collect(o) PROVE Booked'
  <2>1. UNCHANGED <<melting, applied, request, bill>>
    BY <1>8 DEF ServeTransfer, Collect, walletVars
  <2>2. CASE UNCHANGED <<outstanding, spent>>
    BY <1>2, <2>1, <2>2
  <2>3. CASE Burn(o)
    <3>1. \A q \in Ops : Minted(q) <=> Minted(q)'
      BY <2>1 DEF Minted, Landed
    <3> QED BY <2>1, <2>3, <3>1 DEF Ledger, Booked, Burn
  <2> QED BY <1>8, <2>2, <2>3 DEF ServeTransfer, Collect
<1>9. CASE UNCHANGED <<outstanding, spent, melting, applied, request, bill>>
  BY <1>2, <1>9
<1>10. posted \subseteq Ops
  BY DEF TypeOK
<1> QED BY <1>1, <1>3, <1>4, <1>5, <1>6, <1>7, <1>8, <1>9, <1>10
        DEF Next, vars, mintVars, walletVars, Wallet, Get, Receive, GetFails, Abandon,
            Transfer, ReceiveTransfer, Verify, LookupMelted, Lookup, Crash

\* A note that is or was one stays so.
LEMMA NotesAreForGood ==
  ASSUME TypeOK, [Next]_vars
  PROVE  outstanding \cup spent \subseteq outstanding' \cup spent'
<1>1. ASSUME NEW o, ServeTransfer(o) \/ Collect(o)
      PROVE  outstanding \cup spent \subseteq outstanding' \cup spent'
  BY <1>1 DEF ServeTransfer, Collect, Burn
<1>2. ASSUME NEW m \in wire, Serve(m)
      PROVE  outstanding \cup spent \subseteq outstanding' \cup spent'
  BY <1>2 DEF Serve, Apply, Replay, Decline
<1>3. ASSUME NEW o \in Ops, PaymentSettles(o) \/ PaymentFails(o)
      PROVE  outstanding \cup spent \subseteq outstanding' \cup spent'
  BY <1>3 DEF PaymentSettles, PaymentFails, MeltSettles, MeltFails, mintVars
<1> QED BY <1>1, <1>2, <1>3
      DEF Next, vars, mintVars, Wallet, Build, Get, Receive, GetFails, Abandon, Quote, Pay,
          Transfer, ReceiveTransfer, Verify, LookupMelted, Lookup, Crash

LEMMA RealStep ==
  ASSUME TypeOK, Ledger, [Next]_vars
  PROVE  Real'
<1>1. outstanding \cup spent \subseteq outstanding' \cup spent'
  BY NotesAreForGood
<1>2. ASSUME NEW o \in Ops, Build(o) PROVE Real'
  <2>1. PICK kind \in Kinds, ins \in SUBSET (Stored \ InUse), outs \in SUBSET Undrawn :
          Builds(o, kind, ins, outs)
    BY <1>2, BuildShape
  <2>2. ins \subseteq outstanding \cup spent
    BY <2>1 DEF Builds, Stored, Ledger, Real
  <2>3. \A n \in Notes : purse'[n] \in {"live", "sent"} => n \in ins \/ purse'[n] = purse[n]
    BY <2>1 DEF Builds
  <2>4. /\ request'[o].inputs = ins
        /\ \A p \in Ops \ {o} : request'[p] = request[p]
    BY <2>1 DEF Builds, TypeOK
  <2> QED BY <1>1, <2>2, <2>3, <2>4 DEF Ledger, Real
<1>3. CASE \A o \in Ops : ~ Build(o)
  <2>1. UNCHANGED request
    BY <1>3, OnlyBuilds
  <2>2. ASSUME NEW n \in Notes, purse'[n] \in {"live", "sent"}
        PROVE  n \in outstanding' \cup spent'
    <3>1. CASE UNCHANGED purse
      BY <1>1, <2>2, <3>1 DEF Ledger, Real
    <3>2. ASSUME NEW o \in Ops, Closes(o) PROVE n \in outstanding' \cup spent'
      <4>1. staked[o] \subseteq outstanding \cup spent
        BY DEF Ledger, Requested, Real
      <4>2. \/ purse'[n] = purse[n]
            \/ n \in staked[o]
            \/ n \in request[o].outputs /\ request[o].outputs \subseteq outstanding \cup spent
        BY <2>2, <3>2 DEF Closes, Settled, Refused
      <4> QED BY <1>1, <2>2, <4>1, <4>2 DEF Ledger, Real
    <3>3. ASSUME NEW k \in Notes, Lookup(k) PROVE n \in outstanding' \cup spent'
      <4>1. Found(k) /\ (purse'[n] = purse[n] \/ n = k)
        BY <3>3 DEF Lookup, Record
      <4> QED BY <1>1, <2>2, <4>1, FoundIsThere DEF Ledger, Real
    <3> QED BY <1>3, <3>1, <3>2, <3>3, RecordSteps
  <2> QED BY <1>1, <2>1, <2>2 DEF Ledger, Real
<1> QED BY <1>2, <1>3

\* Steps that leave the bills alone, and burn or mint.
LEMMA BillsUntouched ==
  ASSUME TypeOK, Ledger, UNCHANGED <<bill, request>>,
         outstanding \cup spent \subseteq outstanding' \cup spent',
         spent \subseteq spent', melting \subseteq melting',
         \A o \in Ops : \/ pc'[o] = pc[o] \/ pc'[o] \in {"waiting", "uncertain", "done"}
                        \/ pc'[o] = "melted" /\ request[o].kind = "Melt"
  PROVE  Billed'
BY DEF Ledger, Billed

\* The end of the payment of a melt, which frees its note or burns it.
LEMMA BillEnds ==
  ASSUME TypeOK, Ledger, UNCHANGED <<request, pc>>,
         NEW o \in Ops, bill[o].state = "inflight", request[o].kind = "Melt",
         NEW s \in {"settled", "failed"}, bill' = [bill EXCEPT ![o].state = s],
         NEW n, melting' = melting \ {n},
         outstanding \cup spent \subseteq outstanding' \cup spent', spent \subseteq spent',
         s = "settled" => request[o].inputs \subseteq spent',
         \A p \in Ops \ {o} : request[p].kind = "Melt" /\ bill[p].state = "inflight" =>
           n \notin request[p].inputs
  PROVE  Billed'
<1>1. /\ bill'[o].state = s
      /\ bill'[o].pr = bill[o].pr /\ bill'[o].room = bill[o].room
      /\ bill'[o].paid = bill[o].paid /\ bill'[o].asked = bill[o].asked
      /\ \A p \in Ops \ {o} : bill'[p] = bill[p]
  BY DEF TypeOK, Bills
<1>2. \A p \in Ops : bill'[p].state = "inflight" => p # o /\ bill[p].state = "inflight"
  BY <1>1
<1>3. \A p \in Ops : request[p].kind = "Melt" =>
        /\ bill'[p].state = "inflight" => request[p].inputs \subseteq melting'
        /\ bill'[p].state = "settled" => request[p].inputs \subseteq spent'
  BY <1>1, <1>2 DEF Ledger, Billed
<1>4. \A p \in Ops : request[p].kind = "Mint" => p # o
  OBVIOUS
<1>5. \A p \in Ops : request[p].kind = "Mint" /\ bill'[p].state = "settled" =>
        request[p].outputs \subseteq outstanding' \cup spent'
  BY <1>1, <1>4 DEF Ledger, Billed
<1>6. \A p, q \in Ops :
        /\ p # q
        /\ request[p].kind = "Melt" /\ bill'[p].state = "inflight"
        /\ request[q].kind = "Melt" /\ bill'[q].state = "inflight"
        => request[p].inputs \cap request[q].inputs = {}
  BY <1>2 DEF Ledger, Billed
<1>7. \A p \in Ops :
        /\ bill'[p].pr = bill[p].pr /\ bill'[p].room = bill[p].room
        /\ bill'[p].paid = bill[p].paid /\ bill'[p].asked = bill[p].asked
        /\ bill'[p].state = "open" => bill[p].state = "open"
        /\ pc[p] \in {"idle", "built", "quoted"} => bill'[p].state = bill[p].state
        /\ bill'[p].state # "none" => bill[p].state # "none"
  BY <1>1 DEF Ledger, Billed
<1> QED BY <1>3, <1>5, <1>6, <1>7 DEF Ledger, Billed

LEMMA BilledStep ==
  ASSUME TypeOK, Ledger, [Next]_vars
  PROVE  Billed'
<1>1. ASSUME NEW o \in Ops, Build(o) PROVE Billed'
  <2>1. /\ pc[o] = "idle" /\ pc' = [pc EXCEPT ![o] = "built"]
        /\ UNCHANGED <<outstanding, spent, melting, bill>>
        /\ \A p \in Ops \ {o} : request'[p] = request[p]
    BY <1>1, BuildDraws DEF Builds, TypeOK, mintVars
  <2>2. bill[o].state = "none"
    BY <2>1 DEF Ledger, Billed
  <2> QED BY <2>1, <2>2 DEF Ledger, Billed, TypeOK
<1>2. ASSUME NEW o \in Ops, Receive(o) PROVE Billed'
  <2>1. /\ UNCHANGED <<bill, request, outstanding, spent, melting>>
        /\ \/ pc' = [pc EXCEPT ![o] = "melted"] /\ request[o].kind = "Melt"
           \/ pc' = [pc EXCEPT ![o] = "done"]
    BY <1>2 DEF Receive, Goto
  <2> QED BY <2>1, BillsUntouched DEF TypeOK
<1>3. ASSUME NEW o \in Ops, Quote(o) PROVE Billed'
  <2>1. /\ request[o].kind = "Mint"
        /\ UNCHANGED <<request, outstanding, spent, melting>>
    BY <1>3 DEF Quote, mintVars
  <2>2. CASE Goto(o, "done") /\ UNCHANGED bill
    BY <2>1, <2>2, BillsUntouched DEF Goto, TypeOK
  <2>3. ASSUME NEW b \in Bills, Goto(o, "quoted"), bill' = [bill EXCEPT ![o] = b],
               b.state = "open", b.paid = 0, b.room, b.pr.serial = o,
               b.pr.readable => b.pr.stated \in {0, b.asked}
        PROVE  Billed'
    BY <2>1, <2>3 DEF Ledger, Billed, Goto, TypeOK
  <2> QED BY <1>3, <2>2, <2>3, QuoteShape
<1>4. ASSUME NEW o \in Ops, Pay(o) PROVE Billed'
  <2>1. /\ UNCHANGED <<request, outstanding, spent, melting>>
        /\ pc[o] = "quoted" /\ pc' = [pc EXCEPT ![o] = "paying"]
        /\ bill[o].pr.readable
    BY <1>4 DEF Pay, Goto, mintVars
  <2>2. /\ request[o].kind = "Mint" /\ bill[o].state = "open" /\ bill[o].room
        /\ bill[o].pr.stated \in {0, bill[o].asked}
    BY <2>1 DEF Ledger, Billed
  <2> DEFINE b == [bill[o] EXCEPT !.state = "inflight",
                                  !.paid = IF bill[o].pr.stated = 0 THEN bill[o].asked
                                           ELSE bill[o].pr.stated]
  <2>3. bill' = [bill EXCEPT ![o] = b]
    BY <1>4 DEF Pay
  <2>4. bill[o] \in Bills
    BY DEF TypeOK
  <2>5. /\ b.state = "inflight" /\ b.paid = b.asked /\ b.room
        /\ b.pr.serial = o
    BY <2>2, <2>4 DEF Bills, Ledger, Billed
  <2> HIDE DEF b
  <2> QED BY <2>1, <2>2, <2>3, <2>5 DEF Ledger, Billed, TypeOK
<1>5. ASSUME NEW o \in Ops, NEW s \in {"inflight", "settled", "failed"},
             bill' = [bill EXCEPT ![o].state = s]
      PROVE  /\ bill'[o].state = s
             /\ bill'[o].pr = bill[o].pr /\ bill'[o].room = bill[o].room
             /\ bill'[o].paid = bill[o].paid /\ bill'[o].asked = bill[o].asked
             /\ \A p \in Ops \ {o} : bill'[p] = bill[p]
  BY <1>5 DEF TypeOK, Bills
<1>6. ASSUME NEW o \in Ops, PaymentSettles(o) PROVE Billed'
  <2>1. /\ UNCHANGED <<request, pc>> /\ bill[o].state = "inflight"
        /\ bill' = [bill EXCEPT ![o].state = "settled"]
    BY <1>6 DEF PaymentSettles, BillBecomes, walletVars
  <2>2. CASE /\ request[o].kind = "Mint"
             /\ outstanding' = outstanding \cup (IF bill[o].room THEN request[o].outputs ELSE {})
             /\ UNCHANGED <<spent, melting>>
    <3>1. bill[o].room
      BY <2>1, <2>2 DEF Ledger, Billed
    <3> QED BY <1>5, <2>1, <2>2, <3>1 DEF Ledger, Billed
  <2>3. CASE request[o].kind = "Melt" /\ \E n \in request[o].inputs : MeltSettles(n)
    <3>1. PICK n \in request[o].inputs : MeltSettles(n)
      BY <2>3
    <3>2. pc[o] # "idle"
      BY <2>1 DEF Ledger, Billed
    <3>3. request[o].inputs = {n}
      BY <2>3, <3>1, <3>2 DEF Ledger, Requested
    <3>4. /\ melting' = melting \ {n} /\ outstanding' = outstanding \ {n}
          /\ spent' = spent \cup {n}
      BY <3>1 DEF MeltSettles
    <3>5. \A p \in Ops \ {o} : request[p].kind = "Melt" /\ bill[p].state = "inflight" =>
            n \notin request[p].inputs
      BY <2>1, <2>3 DEF Ledger, Billed
    <3> QED BY <2>1, <2>3, <3>3, <3>4, <3>5, BillEnds
  <2> QED BY <1>6, <2>2, <2>3 DEF PaymentSettles
<1>7. ASSUME NEW o \in Ops, PaymentFails(o) PROVE Billed'
  <2>1. /\ UNCHANGED <<request, pc, outstanding, spent>> /\ bill[o].state = "inflight"
        /\ bill' = [bill EXCEPT ![o].state = "failed"]
    BY <1>7 DEF PaymentFails, BillBecomes, walletVars, MeltFails, mintVars
  <2>2. CASE request[o].kind = "Mint" /\ UNCHANGED mintVars
    BY <1>5, <2>1, <2>2 DEF Ledger, Billed, mintVars
  <2>3. CASE request[o].kind = "Melt" /\ \E n \in request[o].inputs : MeltFails(n)
    <3>1. PICK n \in request[o].inputs : melting' = melting \ {n}
      BY <2>3 DEF MeltFails
    <3>2. \A p \in Ops \ {o} : request[p].kind = "Melt" /\ bill[p].state = "inflight" =>
            n \notin request[p].inputs
      BY <2>1, <2>3 DEF Ledger, Billed
    <3> QED BY <2>1, <2>3, <3>1, <3>2, BillEnds
  <2> QED BY <1>7, <2>2, <2>3 DEF PaymentFails
<1>8. ASSUME NEW m \in wire, Serve(m) PROVE Billed'
  <2>1. /\ m.op \in Ops /\ m.req = request[m.op] /\ UNCHANGED <<request, pc>>
        /\ pc[m.op] \notin {"idle", "built"}
    BY <1>8 DEF TypeOK, MintTypeOK, Messages, Ledger, Wired, Serve, walletVars
  <2>2. CASE UNCHANGED <<outstanding, spent, melting, applied, bill>>
    BY <2>1, <2>2, BillsUntouched
  <2>3. CASE Apply(m, Awaited(m)) /\ m.req.kind # "Melt" /\ UNCHANGED bill
    <3>1. /\ outstanding' = (outstanding \ m.req.inputs) \cup m.req.outputs
          /\ spent' = spent \cup m.req.inputs /\ UNCHANGED melting
      BY <2>3 DEF Apply
    <3> QED BY <2>1, <2>3, <3>1, BillsUntouched
  <2>4. CASE /\ Apply(m, Awaited(m)) /\ m.req.kind = "Melt"
             /\ bill' = [bill EXCEPT ![m.op].state = "inflight"]
    <3>1. /\ melting' = melting \cup m.req.inputs /\ UNCHANGED <<outstanding, spent>>
          /\ m.req.inputs \cap melting = {}
      BY <2>4 DEF Apply, Honourable
    <3>2. \A p \in Ops : request[p].kind = "Melt" /\ bill[p].state = "inflight" =>
            request[p].inputs \cap m.req.inputs = {}
      BY <3>1 DEF Ledger, Billed
    <3> QED BY <1>5, <2>1, <2>4, <3>1, <3>2 DEF Ledger, Billed
  <2> QED BY <1>8, <2>2, <2>3, <2>4, ServeShape
<1>9. ASSUME NEW o \in Ops, ServeTransfer(o) \/ Collect(o) PROVE Billed'
  <2>1. UNCHANGED <<bill, request, pc, melting>>
    BY <1>9 DEF ServeTransfer, Collect, walletVars
  <2>2. /\ outstanding \cup spent \subseteq outstanding' \cup spent'
        /\ spent \subseteq spent'
    BY <1>9 DEF ServeTransfer, Collect, Burn
  <2> QED BY <2>1, <2>2, BillsUntouched
<1>10. ASSUME NEW o \in Ops, \/ Get(o) \/ GetFails(o) \/ Abandon(o) \/ Transfer(o)
                             \/ ReceiveTransfer(o) \/ Verify(o) \/ LookupMelted(o)
       PROVE  Billed'
  <2>1. /\ UNCHANGED <<bill, request, outstanding, spent, melting>>
        /\ \E stage \in {"waiting", "uncertain", "done"} : pc' = [pc EXCEPT ![o] = stage]
    BY <1>10 DEF Get, GetFails, Abandon, Transfer, ReceiveTransfer, Verify, LookupMelted,
                 Goto, mintVars
  <2> QED BY <2>1, BillsUntouched DEF TypeOK
<1>11. CASE Crash
  BY <1>11, BillsUntouched DEF Crash
<1>12. CASE UNCHANGED vars \/ \E n \in Notes : Lookup(n)
  BY <1>12, BillsUntouched DEF vars, mintVars, walletVars, Lookup
<1>13. posted \subseteq Ops
  BY DEF TypeOK
<1> QED BY <1>1, <1>2, <1>3, <1>4, <1>6, <1>7, <1>8, <1>9, <1>10, <1>11, <1>12, <1>13
        DEF Next, Wallet

\* Steps on which no answer comes and nothing is sent.
LEMMA AnswersLeft ==
  ASSUME TypeOK, Ledger, UNCHANGED <<request, applied>>,
         wire' \subseteq wire, posted' \subseteq posted,
         spent \cup Misled \subseteq spent' \cup Misled',
         \A o \in Ops :
           /\ (doubt'[o] <=> doubt[o]) \/ (answer'[o] = NoAnswer /\ pc'[o] # "melted")
           /\ answer'[o] = NoAnswer \/ (answer'[o] = answer[o] /\ pc'[o] = pc[o])
           /\ pc'[o] = "melted" => pc[o] = "melted" \/ answer[o] # NoAnswer
  PROVE  AnswersTrue'
BY DEF Ledger, AnswersTrue, Landed, NoAnswer

\* No call both sends a message and posts a transfer.
LEMMA SentOneWay ==
  ASSUME TypeOK, Ledger
  PROVE  \A m \in wire \cup applied : m.op \notin posted
BY DEF TypeOK, MintTypeOK, Messages, Requests, MutationKind, Ledger, Wired

\* The only message of a call that was never in doubt.
LEMMA OnlyMessage ==
  ASSUME TypeOK, Ledger, NEW m \in wire \cup applied, NEW k \in wire \cup applied,
         k.op = m.op, ~ doubt[m.op]
  PROVE  k = m
<1>1. m \in Messages /\ k \in Messages /\ m.op \in Ops
  BY DEF TypeOK, MintTypeOK, Messages
<1>2. k.req = m.req /\ k.att < gets[m.op] /\ m.att < gets[m.op]
  BY DEF Ledger, Wired
<1>3. gets[m.op] \in {0, 1}
  BY <1>1 DEF Ledger, Doubts
<1>4. k.att \in Nat /\ m.att \in Nat
  BY <1>1 DEF Messages
<1>5. k.att = m.att
  BY <1>2, <1>3, <1>4
<1> QED BY <1>1, <1>2, <1>5 DEF Messages

LEMMA AnswersTrueStep ==
  ASSUME TypeOK, Ledger, [Next]_vars
  PROVE  AnswersTrue'
<1>0. Misled \subseteq Misled' /\ posted \subseteq Ops
  BY MisledGrows DEF TypeOK
<1>1. ASSUME NEW o \in Ops, Build(o) PROVE AnswersTrue'
  <2>1. /\ pc[o] = "idle" /\ pc' = [pc EXCEPT ![o] = "built"]
        /\ UNCHANGED <<spent, answer, wire, applied, doubt, posted>>
        /\ \A p \in Ops \ {o} : request'[p] = request[p] /\ pc'[p] = pc[p]
        /\ pc'[o] = "built"
    BY <1>1, BuildDraws DEF Builds, TypeOK, mintVars
  <2>2. answer[o] = NoAnswer
    BY <2>1 DEF Ledger, AnswersTrue
  <2> QED BY <1>0, <2>1, <2>2 DEF Ledger, AnswersTrue, Landed, NoAnswer
<1>2. ASSUME NEW o \in Ops, Get(o) PROVE AnswersTrue'
  <2>1. /\ pc[o] \in {"built", "uncertain"} /\ pc'[o] = "waiting"
        /\ \A p \in Ops \ {o} : pc'[p] = pc[p]
        /\ UNCHANGED <<spent, answer, applied, request, doubt, posted>>
        /\ wire' = wire \cup {Message(o)} /\ Message(o).op = o
    BY <1>2 DEF Get, Goto, Message, TypeOK
  <2>2. answer[o] = NoAnswer
    BY <2>1 DEF Ledger, AnswersTrue
  <2> QED BY <1>0, <2>1, <2>2 DEF Ledger, AnswersTrue, Landed, NoAnswer
<1>3. ASSUME NEW o \in Ops, Transfer(o) PROVE AnswersTrue'
  <2>1. /\ pc[o] = "built" /\ pc'[o] \in {"waiting", "done"}
        /\ \A p \in Ops \ {o} : pc'[p] = pc[p]
        /\ UNCHANGED <<spent, answer, wire, applied, request, doubt>>
        /\ posted' \subseteq posted \cup {o}
    BY <1>3 DEF Transfer, Goto, TypeOK, mintVars
  <2>2. answer[o] = NoAnswer
    BY <2>1 DEF Ledger, AnswersTrue
  <2> QED BY <1>0, <2>1, <2>2 DEF Ledger, AnswersTrue, Landed, NoAnswer
<1>4. ASSUME NEW o \in Ops, Receive(o) \/ GetFails(o) \/ ReceiveTransfer(o) PROVE AnswersTrue'
  <2>1. /\ UNCHANGED <<request, applied, wire, posted, spent>>
        /\ answer'[o] = NoAnswer
        /\ \A p \in Ops \ {o} :
             answer'[p] = answer[p] /\ pc'[p] = pc[p] /\ (doubt'[p] <=> doubt[p])
        /\ (doubt'[o] <=> doubt[o]) \/ pc'[o] # "melted"
        /\ pc'[o] = "melted" => answer[o] # NoAnswer
    BY <1>4 DEF Receive, GetFails, ReceiveTransfer, Goto, TypeOK, MintTypeOK
  <2> QED BY <1>0, <2>1, AnswersLeft
<1>5. ASSUME NEW o \in Ops, \/ Abandon(o) \/ Quote(o) \/ Pay(o) \/ Verify(o)
                            \/ LookupMelted(o)
      PROVE  AnswersTrue'
  <2>1. /\ UNCHANGED <<request, applied, wire, posted, spent, answer, doubt>>
        /\ pc[o] # "waiting"
        /\ \A p \in Ops \ {o} : pc'[p] = pc[p]
        /\ pc'[o] # "melted"
    BY <1>5 DEF Abandon, Quote, Pay, Verify, LookupMelted, Goto, TypeOK, mintVars
  <2>2. answer[o] = NoAnswer
    BY <2>1 DEF Ledger, AnswersTrue
  <2> QED BY <1>0, <2>1, <2>2, AnswersLeft
<1>6. CASE Crash
  <2>1. /\ UNCHANGED <<request, applied, wire, posted, spent, doubt>>
        /\ \A o \in Ops : answer'[o] = NoAnswer /\ pc'[o] # "melted"
    BY <1>6 DEF Crash, Active, TypeOK
  <2> QED BY <1>0, <2>1, AnswersLeft
<1>7. ASSUME NEW o \in Ops, PaymentSettles(o) \/ PaymentFails(o) PROVE AnswersTrue'
  <2>1. /\ UNCHANGED <<request, applied, wire, posted, answer, doubt, pc>>
        /\ spent \subseteq spent'
    BY <1>7 DEF PaymentSettles, PaymentFails, MeltSettles, MeltFails, walletVars, mintVars
  <2> QED BY <1>0, <2>1, AnswersLeft
<1>8. CASE UNCHANGED vars \/ \E n \in Notes : Lookup(n)
  BY <1>0, <1>8, AnswersLeft DEF vars, mintVars, walletVars, Lookup
<1>9. ASSUME NEW m \in wire, Serve(m) PROVE AnswersTrue'
  <2>1. /\ m.op \in Ops /\ m.req = request[m.op] /\ m.req.kind \in MutationKind
        /\ UNCHANGED <<request, pc, doubt, posted>>
    BY <1>9 DEF TypeOK, MintTypeOK, Messages, Requests, Ledger, Wired, Serve, walletVars
  <2>2. PICK body :
           /\ Answered(m, body)
           /\ \/ /\ Apply(m, Awaited(m)) /\ body.status \in {"OK", "none"}
              \/ /\ Repeats(m.req) /\ body.status \in {"OK", "none"}
                 /\ UNCHANGED <<spent, applied>>
              \/ /\ body.status = "ERROR"
                 /\ UNCHANGED <<spent, applied>>
    BY <1>9, ServeShape
  <2>3. wire' = wire \ {m} /\ spent \subseteq spent' /\ applied' \in {applied, applied \cup {m}}
    BY <2>2 DEF Answered, Apply
  <2>4. ASSUME Repeats(m.req) PROVE Landed(m.op)
    <3>1. PICK k \in applied : k.req = m.req
      BY <2>4 DEF Repeats
    <3>2. k.op \in Ops /\ request[k.op] = request[m.op]
      BY <2>1, <3>1 DEF TypeOK, MintTypeOK, Messages, Ledger, Wired
    <3>3. request[m.op].outputs # {}
      BY <2>1, <2>4 DEF Repeats, MutationKind, Ledger, Requested
    <3>4. k.op = m.op
      BY <2>1, <3>2, <3>3 DEF Ledger, Requested
    <3> QED BY <3>1, <3>4 DEF Landed
  <2>5. ASSUME NEW o \in Ops, answer'[o] = answer[o]
        PROVE  /\ answer'[o] # NoAnswer => pc'[o] = "waiting"
               /\ answer'[o] # NoAnswer => o \notin posted'
               /\ ~ doubt'[o] /\ (answer'[o] # NoAnswer \/ pc'[o] = "melted") =>
                    \A k \in wire' : k.op # o
               /\ ~ doubt'[o] /\ answer'[o].status = "ERROR" => ~ Landed(o)'
               /\ answer'[o].status = "OK" =>
                    /\ request'[o].kind \in MutationKind => Landed(o)'
                    /\ request'[o].kind = "Transfer" =>
                         request'[o].inputs \subseteq spent' \cup Misled'
    <3>1. ~ doubt[o] /\ answer[o].status = "ERROR" => m.op # o
      BY DEF Ledger, AnswersTrue, NoAnswer
    <3> QED BY <1>0, <2>1, <2>3, <2>5, <3>1 DEF Ledger, AnswersTrue, Landed
  <2>6. CASE ~ Awaited(m)
    <3>1. UNCHANGED answer
      BY <2>2, <2>6 DEF Answered
    <3> QED BY <2>5, <3>1 DEF AnswersTrue
  <2>7. CASE Awaited(m)
    <3>1. /\ answer'[m.op] = body
          /\ \A o \in Ops \ {m.op} : answer'[o] = answer[o]
      BY <2>1, <2>2, <2>7 DEF Answered, TypeOK, MintTypeOK
    <3>2. pc[m.op] = "waiting" /\ m.op \notin posted
      BY <2>7, SentOneWay DEF Awaited
    <3>3. ~ doubt[m.op] => \A k \in wire' : k.op # m.op
      BY <2>3, OnlyMessage
    <3>4. ~ doubt[m.op] => ~ Landed(m.op)
      BY OnlyMessage DEF Landed, Ledger, Wired
    <3>5. body.status = "ERROR" => applied' = applied
      BY <2>2
    <3>6. body.status = "OK" => Landed(m.op)'
      BY <2>2, <2>4 DEF Landed, Apply
    <3>7. request[m.op].kind # "Transfer"
      BY <2>1 DEF MutationKind
    <3>8. Landed(m.op)' <=> \E k \in applied' : k.op = m.op
      BY DEF Landed
    <3> QED BY <2>1, <2>5, <3>1, <3>2, <3>3, <3>4, <3>5, <3>6, <3>7, <3>8
          DEF AnswersTrue, Landed
  <2> QED BY <2>6, <2>7
<1>10. ASSUME NEW p \in Ops, p \in posted, ServeTransfer(p) PROVE AnswersTrue'
  <2>1. request[p].kind = "Transfer" /\ UNCHANGED <<request, pc, doubt, wire, applied>>
    BY <1>10 DEF Ledger, Wired, ServeTransfer, walletVars
  <2>2. PICK body \in Bodies :
           /\ ReplyTransfer(p, body)
           /\ Burn(p) \/ (UNCHANGED spent /\ (body.status = "OK" => ~ SentTo(p, "here")))
    BY <1>10, ServeTransferShape
  <2>3. body.status = "OK" => request[p].inputs \subseteq spent' \cup Misled'
    <3>1. address[p] # NotSent
      BY <1>10 DEF Ledger, Wired
    <3> QED BY <1>0, <2>2, <3>1, SentSomewhere DEF Burn
  <2>4. spent \subseteq spent' /\ posted' = posted \ {p}
    BY <2>2 DEF Burn, ReplyTransfer
  <2>5. CASE pc[p] # "waiting"
    <3>1. UNCHANGED answer
      BY <2>2, <2>5 DEF ReplyTransfer
    <3> QED BY <1>0, <2>1, <2>4, <3>1, AnswersLeft
  <2>6. CASE pc[p] = "waiting"
    <3>1. /\ answer'[p] = body
          /\ \A o \in Ops \ {p} : answer'[o] = answer[o]
      BY <2>2, <2>6 DEF ReplyTransfer, TypeOK, MintTypeOK
    <3>2. \A m \in wire \cup applied : m.op # p
      BY <1>10, SentOneWay
    <3>3. "Transfer" \notin MutationKind
      BY DEF MutationKind
    <3>4. ~ Landed(p)
      BY <3>2 DEF Landed
    <3> QED BY <1>0, <2>1, <2>3, <2>4, <2>6, <3>1, <3>2, <3>3, <3>4
          DEF Ledger, AnswersTrue, Landed
  <2> QED BY <2>5, <2>6
<1>11. ASSUME NEW o \in Ops, Collect(o) PROVE AnswersTrue'
  <2>1. /\ UNCHANGED <<request, applied, wire, posted, answer, doubt, pc>>
        /\ spent \subseteq spent'
    BY <1>11 DEF Collect, Burn, walletVars
  <2> QED BY <1>0, <2>1, AnswersLeft
<1> QED BY <1>0, <1>1, <1>2, <1>3, <1>4, <1>5, <1>6, <1>7, <1>8, <1>9, <1>10, <1>11
        DEF Next, Wallet

\* A call that has ended, and of which nothing can come.
Unmade(o) ==
  /\ pc[o] = "done"
  /\ bill[o].state = "none"
  /\ \A m \in wire \cup applied : m.op # o

LEMMA UnmadeStays ==
  ASSUME TypeOK, Ledger, [Next]_vars, NEW o \in Ops, Unmade(o)
  PROVE  Unmade(o)' /\ request'[o] = request[o]
<1>1. \A m \in wire : m.op \in Ops /\ m.op # o
  BY DEF TypeOK, MintTypeOK, Messages, Unmade
<1>2. ASSUME NEW p \in Ops, Build(p) PROVE Unmade(o)' /\ request'[o] = request[o]
  <2>1. /\ p # o /\ pc'[o] = pc[o] /\ request'[o] = request[o]
        /\ UNCHANGED <<bill, wire, applied>>
    BY <1>2, BuildDraws DEF Builds, Unmade, TypeOK, mintVars
  <2> QED BY <2>1 DEF Unmade
<1>3. CASE \A p \in Ops : ~ Build(p)
  <2>1. request'[o] = request[o] /\ pc'[o] = "done"
    <3>1. pc'[o] \notin {"idle", "built"} /\ ~ Active(o)'
      BY <1>3, OnlyBuilds DEF Unmade, Active
    <3> QED BY <1>3, <3>1, OnlyBuilds DEF Active
  <2>2. ASSUME NEW m \in wire, Serve(m)
        PROVE  bill'[o] = bill[o] /\ \A k \in wire' \cup applied' : k.op # o
    <3>1. /\ bill' \in {bill, [bill EXCEPT ![m.op].state = "inflight"]}
          /\ wire' = wire \ {m} /\ applied' \in {applied, applied \cup {m}}
      BY <2>2, ServeShape DEF Answered, Apply
    <3> QED BY <1>1, <3>1 DEF Unmade, TypeOK
  <2>3. ASSUME NEW p \in Ops, Quote(p) \/ Pay(p) PROVE bill'[o] = bill[o]
    <3>1. p # o
      BY <2>3 DEF Quote, Pay, Unmade
    <3>2. UNCHANGED bill \/ \E b : bill' = [bill EXCEPT ![p] = b]
      BY <2>3, QuoteShape DEF Pay
    <3> QED BY <3>1, <3>2 DEF TypeOK
  <2>4. ASSUME NEW p \in Ops, PaymentSettles(p) \/ PaymentFails(p) PROVE bill'[o] = bill[o]
    <3>1. p # o /\ \E s : bill' = [bill EXCEPT ![p].state = s]
      BY <2>4 DEF PaymentSettles, PaymentFails, BillBecomes, Unmade
    <3> QED BY <3>1 DEF TypeOK
  <2>5. ASSUME NEW p \in Ops, Get(p) PROVE \A k \in wire' \cup applied' : k.op # o
    <3>1. p # o /\ wire' = wire \cup {Message(p)} /\ Message(p).op = p /\ UNCHANGED applied
      BY <2>5 DEF Get, Message, Unmade
    <3> QED BY <3>1 DEF Unmade
  <2>6. bill'[o] = bill[o]
    BY <1>3, <2>2, <2>3, <2>4
      DEF Next, vars, Wallet, Get, Receive, GetFails, Abandon, Transfer, ReceiveTransfer,
          Verify, LookupMelted, Lookup, Crash, ServeTransfer, Collect
  <2>7. \A k \in wire' \cup applied' : k.op # o
    <3>1. CASE UNCHANGED <<wire, applied>>
      BY <3>1 DEF Unmade
    <3>2. \/ UNCHANGED <<wire, applied>>
          \/ \E m \in wire : Serve(m)
          \/ \E p \in Ops : Get(p)
      BY <1>3
        DEF Next, vars, mintVars, Wallet, Receive, GetFails, Abandon, Quote, Pay, Transfer,
            ReceiveTransfer, Verify, LookupMelted, Lookup, Crash, ServeTransfer, Collect,
            PaymentSettles, PaymentFails, MeltSettles, MeltFails
    <3> QED BY <2>2, <2>5, <3>1, <3>2
  <2> QED BY <2>1, <2>6, <2>7 DEF Unmade
<1> QED BY <1>2, <1>3

\* What is burned stays burned.
LEMMA SpentGrows ==
  ASSUME TypeOK, [Next]_vars
  PROVE  spent \subseteq spent'
<1>1. ASSUME NEW o, ServeTransfer(o) \/ Collect(o) PROVE spent \subseteq spent'
  BY <1>1 DEF ServeTransfer, Collect, Burn
<1>2. ASSUME NEW m \in wire, Serve(m) PROVE spent \subseteq spent'
  BY <1>2 DEF Serve, Apply, Replay, Decline
<1>3. ASSUME NEW o \in Ops, PaymentSettles(o) \/ PaymentFails(o) PROVE spent \subseteq spent'
  BY <1>3 DEF PaymentSettles, PaymentFails, MeltSettles, MeltFails, mintVars
<1> QED BY <1>1, <1>2, <1>3
      DEF Next, vars, mintVars, Wallet, Build, Get, Receive, GetFails, Abandon, Quote, Pay,
          Transfer, ReceiveTransfer, Verify, LookupMelted, Lookup, Crash

LEMMA ForgottenStep ==
  ASSUME TypeOK, Ledger, [Next]_vars
  PROVE  Forgotten'
<1> DEFINE Excused(n) == n \in spent \cup Misled \/ \E o \in Ops : n \in request[o].outputs /\ Unmade(o)
<1>1. \A n \in Drawn : purse[n] = "none" => Excused(n)
  BY DEF Ledger, Forgotten, Unmade
<1>2. \A n : Excused(n) => Excused(n)'
  <2> SUFFICES ASSUME NEW n, Excused(n) PROVE Excused(n)'
    OBVIOUS
  <2>1. CASE n \in spent \cup Misled
    BY <2>1, SpentGrows, MisledGrows
  <2>2. ASSUME NEW o \in Ops, n \in request[o].outputs, Unmade(o)
        PROVE  n \in request'[o].outputs /\ Unmade(o)'
    BY <2>2, UnmadeStays
  <2> QED BY <2>1, <2>2
<1>3. Drawn \subseteq Notes
  BY MintAssumption DEF Drawn, TypeOK, Calls
<1>4. \A n \in Drawn' : purse'[n] = "none" => Excused(n)'
  <2>1. ASSUME NEW o \in Ops, Build(o), NEW n \in Drawn', purse'[n] = "none"
        PROVE  Excused(n)'
    <3>1. PICK kind \in Kinds, ins \in SUBSET (Stored \ InUse), outs \in SUBSET Undrawn :
            /\ Builds(o, kind, ins, outs)
            /\ ins \subseteq Drawn /\ outs \subseteq Notes /\ outs \cap Drawn = {}
            /\ Drawn' = Drawn \cup outs
      BY <2>1, BuildDraws
    <3>2. n \in Drawn /\ purse[n] = "none"
      BY <1>3, <2>1, <3>1 DEF Builds
    <3> QED BY <1>1, <1>2, <3>2
  <2>2. CASE \A o \in Ops : ~ Build(o)
    <3>1. UNCHANGED request /\ Drawn' = Drawn
      BY <2>2, OnlyBuilds DEF Drawn
    <3>2. ASSUME NEW o \in Ops, Closes(o), NEW n \in Drawn, purse'[n] = "none"
          PROVE  Excused(n)'
      <4>1. CASE purse[n] = "none"
        BY <1>1, <1>2, <4>1
      <4>2. CASE purse' = Settled(o) /\ request[o].inputs \subseteq spent \cup Misled
        BY <1>1, <1>2, <1>3, <3>2, <4>2 DEF Settled
      <4>3. CASE /\ Refused(o)
                 /\ bill[o].state = "none" \/ request[o].outputs = {}
                 /\ \A m \in wire \cup applied : m.op = o => request[o].outputs = {}
        <5>1. n \in request[o].outputs \/ purse[n] = "none"
          BY <1>3, <3>2, <4>3 DEF Refused
        <5>2. ASSUME n \in request[o].outputs PROVE Unmade(o)'
          BY <3>2, <4>3, <5>2 DEF Closes, Goto, Unmade, TypeOK
        <5> QED BY <3>1, <4>1, <5>1, <5>2
      <4> QED BY <3>2, <4>2, <4>3 DEF Closes
    <3>3. ASSUME NEW k \in Notes, Lookup(k), NEW n \in Drawn, purse'[n] = "none"
          PROVE  Excused(n)'
      <4>1. purse[n] = "none"
        BY <1>3, <3>3 DEF Lookup, Record
      <4> QED BY <1>1, <1>2, <4>1
    <3>4. CASE UNCHANGED purse
      BY <1>1, <1>2, <3>1, <3>4
    <3> QED BY <2>2, <3>1, <3>2, <3>3, <3>4, RecordSteps
  <2> QED BY <2>1, <2>2
<1> QED BY <1>4 DEF Forgotten, Unmade

\* What was carried out stays on the books.
LEMMA AppliedGrows ==
  ASSUME TypeOK, [Next]_vars
  PROVE  applied \subseteq applied'
<1>1. ASSUME NEW m \in wire, Serve(m) PROVE applied \subseteq applied'
  BY <1>1 DEF Serve, Apply, Replay, Decline
<1> QED BY <1>1
      DEF Next, vars, mintVars, Wallet, Build, Get, Receive, GetFails, Abandon, Quote, Pay,
          Transfer, ReceiveTransfer, Verify, LookupMelted, Lookup, Crash, ServeTransfer, Collect,
          PaymentSettles, PaymentFails, MeltSettles, MeltFails

\* What is sent is sent by a call under way.
LEMMA WhatIsSent ==
  ASSUME TypeOK, [Next]_vars
  PROVE  /\ \A m \in wire' : m \in wire \/
              \E o \in Ops : Active(o) /\ m.op = o /\ m.req = request[o]
         /\ \A p \in posted' : p \in posted \/ (p \in Ops /\ pc[p] = "built")
<1>1. ASSUME NEW o \in Ops, Get(o)
      PROVE  /\ Active(o) /\ UNCHANGED posted
             /\ \A m \in wire' : m \in wire \/ (m.op = o /\ m.req = request[o])
  BY <1>1 DEF Get, Message, Active
<1>2. ASSUME NEW o \in Ops, Transfer(o)
      PROVE  /\ pc[o] = "built" /\ UNCHANGED wire
             /\ posted' \subseteq posted \cup {o}
  BY <1>2 DEF Transfer, mintVars
<1>3. ASSUME NEW m \in wire, Serve(m) PROVE wire' \subseteq wire /\ UNCHANGED posted
  BY <1>3, ServeShape DEF Answered, Serve
<1>4. ASSUME NEW p \in posted, ServeTransfer(p) PROVE posted' \subseteq posted /\ UNCHANGED wire
  BY <1>4 DEF ServeTransfer, ReplyTransfer
<1>5. CASE UNCHANGED <<wire, posted>>
  BY <1>5
<1> QED BY <1>1, <1>2, <1>3, <1>4, <1>5
      DEF Next, vars, mintVars, Wallet, Build, Receive, GetFails, Abandon, Quote, Pay,
          ReceiveTransfer, Verify, LookupMelted, Lookup, Crash, PaymentSettles, PaymentFails,
          MeltSettles, MeltFails, Collect

\* A transfer is answered when it is handled.
LEMMA WhatIsAnswered ==
  ASSUME TypeOK, Ledger, [Next]_vars, NEW o \in Ops, request[o].kind = "Transfer",
         answer'[o].status = "ERROR"
  PROVE  answer[o].status = "ERROR" \/ o \in posted
<1>1. ASSUME NEW m \in wire, Serve(m) PROVE answer'[o] = answer[o]
  <2>1. m.op \in Ops /\ m.op # o
    BY DEF TypeOK, MintTypeOK, Messages, Requests, MutationKind, Ledger, Wired
  <2> QED BY <1>1, <2>1, ServeShape DEF Answered, TypeOK, MintTypeOK
<1>2. ASSUME NEW p \in posted, ServeTransfer(p)
      PROVE  p = o \/ answer'[o] = answer[o]
  <2>1. p \in Ops
    BY DEF TypeOK
  <2> QED BY <1>2, <2>1, ServeTransferShape DEF ReplyTransfer, TypeOK, MintTypeOK
<1>3. ASSUME NEW p \in Ops, Receive(p) \/ GetFails(p) \/ ReceiveTransfer(p)
      PROVE  answer'[o] = answer[o]
  BY <1>3 DEF Receive, GetFails, ReceiveTransfer, TypeOK, MintTypeOK, NoAnswer
<1>4. ~ Crash
  BY DEF Crash, NoAnswer
<1>5. CASE UNCHANGED answer
  BY <1>5
<1> QED BY <1>1, <1>2, <1>3, <1>4, <1>5
      DEF Next, vars, mintVars, Wallet, Build, Get, Abandon, Quote, Pay, Transfer, Verify,
          LookupMelted, Lookup, PaymentSettles, PaymentFails, MeltSettles, MeltFails, Collect

\* A note stops being spendable only when something that was sent burns or locks it.
LEMMA WhatIsBurned ==
  ASSUME TypeOK, Ledger, [Next]_vars,
         NEW n \in outstanding \ melting, n \notin outstanding' \ melting', n \notin Misled
  PROVE  /\ UNCHANGED <<purse, pc, request, staked>>
         /\ \/ \E m \in wire : n \in m.req.inputs /\ Landed(m.op)'
            \/ \E p \in posted :
                 /\ n \in request[p].inputs
                 /\ posted' = posted \ {p}
                 /\ answer'[p].status # "ERROR"
<1>1. ASSUME NEW m \in wire, Serve(m) PROVE n \in m.req.inputs /\ Landed(m.op)'
  <2>1. Apply(m, Awaited(m))
    BY <1>1, ServeShape
  <2>2. m \in applied'
    BY <2>1 DEF Apply
  <2>3. n \in m.req.inputs
    BY <2>1 DEF Apply
  <2> QED BY <2>2, <2>3 DEF Landed
<1>2. ASSUME NEW p \in posted, ServeTransfer(p)
      PROVE  /\ n \in request[p].inputs /\ posted' = posted \ {p}
             /\ answer'[p].status # "ERROR"
  <2>1. p \in Ops /\ UNCHANGED melting
    BY <1>2 DEF TypeOK, ServeTransfer
  <2>2. PICK body \in Bodies :
          /\ ReplyTransfer(p, body)
          /\ \/ Burn(p) /\ body.status \in {"OK", "none"}
             \/ UNCHANGED outstanding
    BY <1>2, ServeTransferShape
  <2>3. n \in request[p].inputs /\ body.status \in {"OK", "none"}
    BY <2>1, <2>2 DEF Burn
  <2>4. pc[p] # "waiting" => answer[p] = NoAnswer
    BY <2>1 DEF Ledger, AnswersTrue
  <2>5. answer'[p].status # "ERROR"
    BY <2>1, <2>2, <2>3, <2>4 DEF ReplyTransfer, NoAnswer, TypeOK, MintTypeOK
  <2> QED BY <2>2, <2>3, <2>5 DEF ReplyTransfer
<1>3. ASSUME NEW o \in Ops, PaymentSettles(o) \/ PaymentFails(o) PROVE FALSE
  BY <1>3 DEF PaymentSettles, PaymentFails, MeltSettles, MeltFails, mintVars
<1>4. ASSUME NEW o \in Ops, Collect(o) PROVE FALSE
  <2>1. n \in request[o].inputs /\ SentTo(o, "elsewhere")
    BY <1>4 DEF Collect, Burn
  <2>2. address[o] # NotSent /\ ~ SentTo(o, "here")
    BY <2>1 DEF SentTo, NotSent
  <2> QED BY <2>1, <2>2, SentSomewhere
<1>5. CASE UNCHANGED <<outstanding, melting>>
  BY <1>5
<1>6. (\E m \in wire : Serve(m)) \/ \E p \in posted : ServeTransfer(p)
  BY <1>3, <1>4, <1>5
      DEF Next, vars, mintVars, Wallet, Build, Get, Receive, GetFails, Abandon, Quote, Pay,
          Transfer, ReceiveTransfer, Verify, LookupMelted, Lookup, Crash
<1>7. UNCHANGED <<purse, pc, request, staked>>
  BY <1>6 DEF Serve, ServeTransfer, walletVars
<1> QED BY <1>1, <1>2, <1>6, <1>7

\* Nothing is sent about a note of the balance.
LEMMA BalanceIsQuiet ==
  ASSUME TypeOK, Ledger, [Next]_vars, NEW n \in Live \ Misled
  PROVE  n \in outstanding' \ melting' /\ Quiet(n)'
<1>1. n \in outstanding \ melting /\ Quiet(n)
  BY DEF Ledger, Spendable
<1>2. n \in outstanding' \ melting'
  BY <1>1, WhatIsBurned DEF Quiet
<1>3. \A o \in Ops : Active(o) => n \notin request[o].inputs
  BY DEF Ledger, Reserved, Live
<1>4. \A p \in posted : p \in Ops /\ pc[p] \notin {"idle", "built"}
  BY DEF TypeOK, Ledger, Wired
<1>5. \A o \in Ops : pc[o] # "idle" => request'[o] = request[o]
  <2>1. ASSUME NEW p \in Ops, Build(p) PROVE \A o \in Ops \ {p} : request'[o] = request[o]
    BY <2>1, BuildDraws DEF Builds, TypeOK
  <2> QED BY <2>1, OnlyBuilds, BuildDraws
<1>6. \A m \in wire' : n \notin m.req.inputs
  BY <1>1, <1>3, WhatIsSent DEF Quiet
<1>7. \A p \in posted' : n \notin request'[p].inputs
  BY <1>1, <1>3, <1>4, <1>5, WhatIsSent DEF Quiet, Active
<1> QED BY <1>2, <1>6, <1>7 DEF Quiet

\* A note that becomes balance can be spent, and nothing is under way about it.
LEMMA NewBalance ==
  ASSUME TypeOK, Ledger, [Next]_vars, NEW n \in Live', n \notin Live, n \notin Misled
  PROVE  n \in outstanding' \ melting' /\ Quiet(n)'
<1>1. n \in Notes /\ purse'[n] = "live" /\ purse[n] # "live"
  BY DEF Live
<1>2. ASSUME purse[n] = "fresh" PROVE n \notin spent \cup melting /\ Quiet(n)
  <2>1. \A o \in Ops : n \notin request[o].inputs
    BY <1>1, <1>2 DEF Ledger, Reserved
  <2>2. \A m \in wire : m.op \in Ops /\ m.req = request[m.op]
    BY DEF TypeOK, MintTypeOK, Messages, Ledger, Wired
  <2> QED BY <2>1, <2>2 DEF Ledger, Booked, Quiet, TypeOK
<1>3. ASSUME NEW o \in Ops, Closes(o) PROVE n \in outstanding' \ melting' /\ Quiet(n)'
  <2>1. /\ Active(o) /\ UNCHANGED <<outstanding, melting, wire, request, posted>>
        /\ Quiet(n)' <=> Quiet(n)
    BY <1>3 DEF Closes, Quiet
  <2>2. CASE purse' = Settled(o) /\ request[o].outputs \subseteq outstanding \cup spent
    <3>1. n \in request[o].outputs /\ purse[n] = "fresh"
      BY <1>1, <2>1, <2>2 DEF Settled, Ledger, Reserved
    <3> QED BY <1>2, <2>1, <2>2, <3>1
  <2>3. CASE Refused(o) /\ \A k \in staked[o] \ Misled : k \in outstanding \ melting /\ Quiet(k)
    <3>1. n \in staked[o]
      BY <1>1, <2>3 DEF Refused
    <3> QED BY <2>1, <2>3, <3>1
  <2> QED BY <1>3, <2>2, <2>3 DEF Closes
<1>4. ASSUME NEW k \in Notes, Lookup(k) PROVE n \in outstanding' \ melting' /\ Quiet(n)'
  <2>1. k = n /\ purse[n] = "fresh" /\ Found(n)
    BY <1>1, <1>4 DEF Lookup, Record
  <2>2. UNCHANGED <<outstanding, melting, wire, request, posted>>
    BY <1>4 DEF Lookup, mintVars
  <2> QED BY <1>2, <2>1, <2>2, FoundIsThere DEF Quiet
<1>5. ASSUME NEW o \in Ops, Build(o) PROVE FALSE
  BY <1>1, <1>5, BuildShape DEF Builds
<1> QED BY <1>1, <1>3, <1>4, <1>5, RecordSteps

LEMMA SpendableStep ==
  ASSUME TypeOK, Ledger, [Next]_vars
  PROVE  Spendable'
<1>0. Misled \subseteq Misled'
  BY MisledGrows
<1>1. \A n \in Live' \ Misled' : n \in outstanding' \ melting' /\ Quiet(n)'
  BY <1>0, BalanceIsQuiet, NewBalance
<1> DEFINE Untouched(o) ==
             /\ ~ Landed(o)
             /\ request[o].kind = "Transfer" =>
                  \/ pc[o] = "built"
                  \/ answer[o].status = "ERROR"
                  \/ o \in posted
           Stake(o, n) ==
             /\ \A m \in wire : n \in m.req.inputs => m.op = o
             /\ \A p \in posted : n \in request[p].inputs => p = o
             /\ Untouched(o) => n \in outstanding \ melting
<1>2. \A o \in Ops : Active(o) => \A n \in staked[o] \ Misled : Stake(o, n)
  BY DEF Ledger, Spendable
<1>3. ASSUME NEW q \in Ops, Build(q), NEW o \in Ops, Active(o)', NEW n \in staked'[o] \ Misled
      PROVE  Stake(o, n)'
  <2>1. PICK kind \in Kinds, ins \in SUBSET (Stored \ InUse), outs \in SUBSET Undrawn :
          Builds(q, kind, ins, outs)
    BY <1>3, BuildDraws
  <2>2. /\ pc[q] = "idle" /\ pc' = [pc EXCEPT ![q] = "built"]
        /\ UNCHANGED <<outstanding, melting, applied, wire, answer, posted>>
        /\ staked'[q] = ins \cap Live
        /\ \A p \in Ops \ {q} :
             request'[p] = request[p] /\ staked'[p] = staked[p] /\ pc'[p] = pc[p]
    BY <1>3, <2>1, BuildDraws DEF Builds, TypeOK, mintVars
  <2>3. \A p \in posted : p \in Ops /\ p # q
    BY <2>2 DEF TypeOK, Ledger, Wired
  <2>4. CASE o = q
    <3>1. n \in Live
      BY <1>3, <2>2, <2>4
    <3>2. n \in outstanding \ melting /\ Quiet(n)
      BY <3>1 DEF Ledger, Spendable
    <3> QED BY <2>2, <2>3, <3>2 DEF Quiet
  <2>5. CASE o # q
    <3>1. Active(o) /\ n \in staked[o]
      BY <1>3, <2>2, <2>5 DEF Active
    <3>2. Landed(o)' <=> Landed(o)
      BY <2>2 DEF Landed
    <3> QED BY <1>2, <2>2, <2>3, <2>5, <3>1, <3>2
  <2> QED BY <2>4, <2>5
<1>4. ASSUME \A q \in Ops : ~ Build(q), NEW o \in Ops, Active(o)',
             NEW n \in staked'[o] \ Misled
      PROVE  Stake(o, n)'
  <2>1. /\ UNCHANGED <<request, staked>> /\ Active(o)
        /\ pc'[o] = "built" => pc[o] = "built"
    BY <1>4, OnlyBuilds
  <2>2. n \in staked[o] /\ n \in request[o].inputs /\ Stake(o, n)
    BY <1>2, <1>4, <2>1 DEF Ledger, Requested
  <2>3. \A q \in Ops : Active(q) /\ n \in request[q].inputs => q = o
    BY <2>1, <2>2 DEF Ledger, Reserved
  <2>4. \A m \in wire' : n \in m.req.inputs => m.op = o
    BY <2>2, <2>3, WhatIsSent
  <2>5. \A p \in posted' : n \in request'[p].inputs => p = o
    BY <2>1, <2>2, <2>3, WhatIsSent DEF Active
  <2>6. ASSUME Untouched(o)' PROVE n \in outstanding' \ melting'
    <3>1. ~ Landed(o)
      <4>1. applied \subseteq applied'
        BY AppliedGrows
      <4> QED BY <2>6, <4>1 DEF Landed
    <3>2. request[o].kind = "Transfer" =>
            \/ pc[o] = "built" \/ answer[o].status = "ERROR" \/ o \in posted
      BY <2>1, <2>6, WhatIsSent, WhatIsAnswered
    <3>3. n \in outstanding \ melting
      BY <2>2, <3>1, <3>2
    <3>4. ~ \E m \in wire : n \in m.req.inputs /\ Landed(m.op)'
      BY <2>2, <2>6
    <3>5. ASSUME NEW p \in posted, n \in request[p].inputs, posted' = posted \ {p},
                 UNCHANGED pc, answer'[p].status # "ERROR"
          PROVE  FALSE
      <4>1. p = o /\ o \notin posted'
        BY <2>2, <3>5
      <4>2. request[o].kind = "Transfer" /\ pc[o] # "built"
        BY <4>1 DEF Ledger, Wired
      <4> QED BY <2>1, <2>6, <3>5, <4>1, <4>2
    <3> QED BY <3>3, <3>4, <3>5, WhatIsBurned
  <2> QED BY <2>4, <2>5, <2>6
<1>5. \A o \in Ops : Active(o)' => \A n \in staked'[o] \ Misled' : Stake(o, n)'
  BY <1>0, <1>3, <1>4
<1> QED BY <1>1, <1>5 DEF Spendable

(***************************************************************************)
(* The invariant, and what it says of the properties.                      *)
(***************************************************************************)
LEMMA LedgerInit == Init => TypeOK /\ Ledger
<1> SUFFICES ASSUME Init PROVE TypeOK /\ Ledger
  OBVIOUS
<1>1. TypeOK
  BY TypeInit
<1>2. /\ outstanding = Genesis /\ spent = {} /\ melting = {} /\ applied = {} /\ wire = {}
      /\ posted = {}
      /\ \A o \in Ops : /\ pc[o] = "idle" /\ request[o] = NoCall /\ staked[o] = {}
                        /\ ~ doubt[o] /\ gets[o] = 0 /\ bill[o] = NoBill(o)
                        /\ answer[o] = NoAnswer /\ address[o] = NotSent
  BY DEF Init, MintInit
<1>3. \A n \in Notes : purse[n] = IF n \in Genesis THEN "live" ELSE "none"
  BY DEF Init
<1>4. Genesis \subseteq Notes
  BY MintAssumption
<1>5. Requested
  BY <1>2 DEF Requested, NoCall
<1>6. Drawn = Genesis
  BY <1>2 DEF Drawn, NoCall
<1>7. Reserved
  BY <1>2, <1>3, <1>6 DEF Reserved, Active, Stored
<1>8. Doubts /\ Wired
  BY <1>2 DEF Doubts, Wired, NoCall
<1>9. Booked
  BY <1>2 DEF Booked
<1>10. Real
  BY <1>2, <1>3, <1>4 DEF Real, NoCall
<1>11. Billed
  <2>1. \A o : NoBill(o).state = "none" /\ NoBill(o).paid = 0 /\ NoBill(o).pr.serial = o
    BY DEF NoBill
  <2>2. \A o \in Ops :
          /\ bill[o].state = "none" /\ bill[o].paid = 0 /\ bill[o].pr.serial = o
          /\ request[o].kind = "Melt" /\ pc[o] = "idle"
    BY <1>2, <2>1 DEF NoCall
  <2> QED BY <2>2 DEF Billed
<1>12. AnswersTrue
  BY <1>2 DEF AnswersTrue, NoAnswer
<1>13. Forgotten
  BY <1>3, <1>4, <1>6 DEF Forgotten
<1>14. Spendable
  BY <1>2, <1>3 DEF Spendable, Live, Quiet, Active
<1> QED BY <1>1, <1>5, <1>7, <1>8, <1>9, <1>10, <1>11, <1>12, <1>13, <1>14 DEF Ledger

\* The invariant holds of every behaviour.
THEOREM LedgerHolds == Spec => []Ledger
<1>1. TypeOK /\ Ledger /\ [Next]_vars => (TypeOK /\ Ledger)'
  BY TypeStep, RequestedStep, ReservedStep, DoubtsStep, WiredStep, BookedStep, RealStep,
     BilledStep, AnswersTrueStep, ForgottenStep, SpendableStep DEF Ledger
<1> QED BY <1>1, LedgerInit, PTL DEF Spec

\* A note that exists and was not given away is on record, even while a call that mints it goes on.
LEMMA AliveIsKept == TypeOK /\ Ledger => outstanding \ Misled \subseteq Stored
<1> SUFFICES ASSUME TypeOK, Ledger, NEW n \in outstanding \ Misled, n \notin Stored
             PROVE  FALSE
  OBVIOUS
<1>1. n \in Notes /\ purse[n] = "none" /\ n \notin spent
  BY DEF TypeOK, MintTypeOK, Stored, Ledger, Booked
<1>2. n \in Genesis \/ \E p \in Ops : n \in request[p].outputs /\ Minted(p)
  BY DEF Ledger, Booked
<1>3. n \in Drawn
  BY <1>2 DEF Drawn
<1>4. PICK o \in Ops :
        /\ n \in request[o].outputs
        /\ bill[o].state = "none"
        /\ \A m \in applied : m.op # o
  BY <1>1, <1>3 DEF Ledger, Forgotten
<1>5. PICK p \in Ops : n \in request[p].outputs /\ Minted(p)
  BY <1>2, <1>4 DEF Ledger, Requested
<1>6. p = o
  BY <1>4, <1>5 DEF Ledger, Requested
<1> QED BY <1>4, <1>5, <1>6 DEF Minted, Landed

\* No crash, lost answer, unreadable body or refusal leaves a note that exists
\* without the secret that spends it, on disk or in a call that goes on
\* (ffi.rs, steps 1 to 4 at its head), but for a note sent by a payRequest whose
\* callback is not where its withdrawLink is: NothingStranded, for every instance.
THEOREM NothingStrandedHolds == Spec => []NothingStranded
<1>1. TypeOK /\ Ledger => NothingStranded
  BY AliveIsKept DEF NothingStranded
<1> QED BY <1>1, PurseTypeCorrect, LedgerHolds, PTL

\* What the wallet counts as balance can be spent now (errors.rs, which answers are
\* outcomes), unless it was once sent by a payRequest whose callback is not where
\* its withdrawLink is: BelievedIsLive, for every instance.
THEOREM BelievedIsLiveHolds == Spec => []BelievedIsLive
<1>1. Ledger => BelievedIsLive
  BY DEF Ledger, Spendable, BelievedIsLive
<1> QED BY <1>1, LedgerHolds, PTL

\* A mint never costs another amount than was asked for (protocol.rs,
\* parse_invoice): PaysWhatItAsked, for every instance.
THEOREM PaysWhatItAskedHolds == Spec => []PaysWhatItAsked
<1>1. Ledger => PaysWhatItAsked
  BY DEF Ledger, Billed, PaysWhatItAsked
<1> QED BY <1>1, LedgerHolds, PTL

\* Money paid for a note is a note (protocol.rs, parse_pay_request):
\* PaidIsMinted, for every instance.
THEOREM PaidIsMintedHolds == Spec => []PaidIsMinted
<1>1. Ledger => PaidIsMinted
  BY DEF Ledger, Billed, PaidIsMinted
<1> QED BY <1>1, LedgerHolds, PTL

(***************************************************************************)
(* Purse implements Safekeeping.  A step of the SERVICE or of Lightning    *)
(* that touches the books is an exchange, a lock or the end of one; every  *)
(* other step is one of the wallet, or nothing the promise speaks of.      *)
(***************************************************************************)
LEMMA PromiseInit == Init => Promise!Init
<1> SUFFICES ASSUME Init PROVE Promise!Init
  OBVIOUS
<1>1. Stored = Genesis /\ Live = Genesis
  BY MintAssumption DEF Init, Stored, Live
<1>2. Drawn = Genesis
  BY DEF Init, Drawn, NoCall
<1>3. Misled = {}
  BY DEF Init, Misled, Astray, NotSent
<1> QED BY <1>1, <1>2, <1>3 DEF Init, MintInit, Promise!Init

\* AliveIsKept, of the state a step leads to.
LEMMA AliveIsKeptNext == (TypeOK /\ Ledger => outstanding \ Misled \subseteq Stored)'
BY AliveIsKept, PTL

\* Only building draws notes, and only what is drawn comes on record.
LEMMA RecordsGrow ==
  ASSUME TypeOK, Ledger, [Next]_vars
  PROVE  Drawn \subseteq Drawn' /\ Stored' \ Stored = Drawn' \ Drawn
<1>1. ASSUME NEW o \in Ops, Build(o)
      PROVE  Drawn \subseteq Drawn' /\ Stored' \ Stored = Drawn' \ Drawn
  <2>1. PICK kind \in Kinds, ins \in SUBSET (Stored \ InUse), outs \in SUBSET Undrawn :
          /\ Builds(o, kind, ins, outs)
          /\ ins \subseteq Drawn /\ outs \subseteq Notes /\ outs \cap Drawn = {}
          /\ Drawn' = Drawn \cup outs
    BY <1>1, BuildDraws
  <2>2. Stored' = Stored \cup outs
    BY <2>1 DEF Builds, Stored
  <2>3. outs \cap Stored = {}
    BY <2>1 DEF Ledger, Reserved
  <2> QED BY <2>1, <2>2, <2>3
<1>2. CASE \A o \in Ops : ~ Build(o)
  <2>1. Drawn' = Drawn
    BY <1>2, OnlyBuilds DEF Drawn
  <2>2. ASSUME NEW o \in Ops, Closes(o) PROVE Stored' \subseteq Stored
    <3>1. \A n \in request[o].outputs \cup staked[o] : purse[n] # "none"
      BY <2>2 DEF Closes, Ledger, Requested, Reserved
    <3> QED BY <2>2, <3>1 DEF Closes, Settled, Refused, Stored
  <2>3. ASSUME NEW n \in Notes, Lookup(n) PROVE Stored' \subseteq Stored
    BY <2>3 DEF Lookup, Record, Stored
  <2>4. Stored' \subseteq Stored
    BY <1>2, <2>2, <2>3, RecordSteps DEF Stored
  <2> QED BY <2>1, <2>4
<1> QED BY <1>1, <1>2

\* Where the books stay as they are, it is a step of the wallet.
LEMMA StepOfWallet ==
  ASSUME TypeOK, Ledger, [Next]_vars, TypeOK', Ledger',
         UNCHANGED <<outstanding, melting, spent>>
  PROVE  Promise!Wallet
<1> DEFINE new == Drawn' \ Drawn
           old == Stored \ Stored'
<1>1. Drawn \subseteq Drawn' /\ Stored' \ Stored = new
  BY RecordsGrow
<1>2. new \in SUBSET (Notes \ Drawn)
  BY MintAssumption DEF TypeOK, Calls, Drawn
<1>3. outstanding \ Misled' \subseteq Stored'
  BY AliveIsKeptNext
<1>4. old \in SUBSET (Stored \ (outstanding \ Misled'))
  BY <1>3
<1>5. Drawn' = Drawn \cup new /\ Stored' = (Stored \ old) \cup new
  BY <1>1
<1>6. Live' \ Misled' \subseteq outstanding \ melting /\ Live' \subseteq Stored'
  BY DEF Ledger, Spendable, Live, Stored
<1>7. PICK gone \in SUBSET (Stored \ Live) : Misled' = Misled \cup gone
  <2>1. Misled' \ Misled \subseteq Notes
    BY DEF TypeOK, Calls, Misled
  <2>2. Misled' = Misled \cup (Misled' \ Misled) /\ Misled' \ Misled \in SUBSET (Stored \ Live)
    BY <2>1, MisledGrows DEF Stored, Live
  <2> QED BY <2>2
<1> HIDE DEF new, old
<1> QED BY <1>2, <1>4, <1>5, <1>6, <1>7 DEF Promise!Wallet, Promise!books

\* Notes are burned and minted in one step, and none of them is balance but what
\* was given away.
LEMMA StepExchanges ==
  ASSUME Ledger, TypeOK', Ledger', UNCHANGED <<purse, request, address, melting>>,
         NEW S \in SUBSET (outstanding \ melting), NEW T, T \cap (outstanding \cup spent) = {},
         outstanding' = (outstanding \ S) \cup T, spent' = spent \cup S
  PROVE  Promise!Service
<1>1. UNCHANGED <<Drawn, Stored, Live, Misled>>
  BY DEF Drawn, Stored, Live, Misled, Astray
<1>2. Live \ Misled \subseteq outstanding' /\ Live \ Misled \subseteq outstanding
  BY <1>1 DEF Ledger, Spendable
<1>3. S \in SUBSET Promise!Staked
  BY <1>2 DEF Promise!Staked
<1>4. T \in SUBSET (Stored \ (outstanding \cup spent))
  <2>1. T \cap Misled = {}
    BY DEF Misled, Ledger, Real
  <2> QED BY <1>1, <2>1, AliveIsKeptNext
<1>5. Promise!Exchange(S, T)
  BY DEF Promise!Exchange
<1> QED BY <1>1, <1>3, <1>4, <1>5 DEF Promise!Service, Promise!records

\* What the SERVICE carries out, and nothing else that it does, is seen.
LEMMA StepServes ==
  ASSUME TypeOK, Ledger, [Next]_vars, TypeOK', Ledger', NEW m \in wire, Serve(m)
  PROVE  Promise!Next
<1>1. UNCHANGED <<purse, request, address>>
  BY DEF Serve, walletVars
<1>2. CASE UNCHANGED <<outstanding, spent, melting>>
  BY <1>2, StepOfWallet DEF Promise!Next
<1>3. CASE Apply(m, Awaited(m)) /\ m.req.kind # "Melt"
  <2>1. /\ m.req.inputs \in SUBSET (outstanding \ melting)
        /\ m.req.outputs \cap (outstanding \cup spent) = {}
        /\ outstanding' = (outstanding \ m.req.inputs) \cup m.req.outputs
        /\ spent' = spent \cup m.req.inputs
        /\ UNCHANGED melting
    BY <1>3 DEF Apply, Honourable
  <2> QED BY <1>1, <2>1, StepExchanges DEF Promise!Next
<1>4. CASE Apply(m, Awaited(m)) /\ m.req.kind = "Melt"
  <2>1. /\ m.req.inputs \subseteq outstanding \ melting
        /\ melting' = melting \cup m.req.inputs
        /\ UNCHANGED <<outstanding, spent>>
    BY <1>4 DEF Apply, Honourable
  <2>2. UNCHANGED <<Drawn, Stored, Live, Misled>>
    BY <1>1 DEF Drawn, Stored, Live, Misled, Astray
  <2>3. (Live \ Misled) \cap melting' = {}
    BY <2>2 DEF Ledger, Spendable
  <2>4. m.req.inputs \in SUBSET Promise!Staked
    BY <2>1, <2>3 DEF Promise!Staked
  <2>5. Promise!Lock(m.req.inputs)
    BY <2>1 DEF Promise!Lock
  <2> QED BY <2>2, <2>4, <2>5 DEF Promise!Next, Promise!Service, Promise!records
<1> QED BY <1>2, <1>3, <1>4, ServeShape

\* The end of a payment: a mint is an exchange for nothing, a melt a burned or a
\* released note.
LEMMA StepPays ==
  ASSUME TypeOK, Ledger, [Next]_vars, TypeOK', Ledger', NEW o \in Ops,
         PaymentSettles(o) \/ PaymentFails(o)
  PROVE  Promise!Next
<1>1. UNCHANGED <<purse, request, address>> /\ bill[o].state = "inflight"
  BY DEF PaymentSettles, PaymentFails, walletVars
<1>2. UNCHANGED <<Drawn, Stored, Live, Misled>>
  BY <1>1 DEF Drawn, Stored, Live, Misled, Astray
<1>3. CASE UNCHANGED mintVars
  BY <1>3, StepOfWallet DEF Promise!Next, mintVars
<1>4. CASE /\ request[o].kind = "Mint"
           /\ outstanding' = outstanding \cup (IF bill[o].room THEN request[o].outputs ELSE {})
           /\ UNCHANGED <<spent, melting>>
  <2>1. ~ Minted(o)
    BY <1>1, <1>4 DEF Minted, Landed, Ledger, Wired, TypeOK, MintTypeOK, Messages, Requests,
                      MutationKind
  <2>2. request[o].outputs \cap (outstanding \cup spent) = {}
    BY <2>1 DEF Ledger, Booked, Requested
  <2>3. PICK T \in {request[o].outputs, {}} : outstanding' = outstanding \cup T
    BY <1>4
  <2>4. T \cap (outstanding \cup spent) = {}
    BY <2>2, <2>3
  <2>5. /\ {} \in SUBSET (outstanding \ melting)
        /\ outstanding' = (outstanding \ {}) \cup T /\ spent' = spent \cup {}
    BY <1>4, <2>3
  <2> QED BY <1>1, <1>4, <2>4, <2>5, StepExchanges DEF Promise!Next
<1>5. ASSUME NEW n \in request[o].inputs, MeltSettles(n) PROVE Promise!Next
  <2>1. n \in melting /\ Promise!Settle(n)
    BY <1>5 DEF MeltSettles, Promise!Settle
  <2> QED BY <1>2, <2>1 DEF Promise!Next, Promise!Service, Promise!records
<1>6. ASSUME NEW n \in request[o].inputs, MeltFails(n) PROVE Promise!Next
  <2>1. n \in melting /\ Promise!Release(n)
    BY <1>6 DEF MeltFails, Promise!Release
  <2> QED BY <1>2, <2>1 DEF Promise!Next, Promise!Service, Promise!records
<1> QED BY <1>3, <1>4, <1>5, <1>6 DEF PaymentSettles, PaymentFails

LEMMA PromiseStep ==
  TypeOK /\ Ledger /\ [Next]_vars /\ TypeOK' /\ Ledger' => Promise!Next
<1> SUFFICES ASSUME TypeOK, Ledger, [Next]_vars, TypeOK', Ledger' PROVE Promise!Next
  OBVIOUS
<1>1. CASE UNCHANGED <<outstanding, melting, spent>>
  BY <1>1, StepOfWallet DEF Promise!Next
<1>2. ASSUME NEW o, Burn(o), UNCHANGED <<melting, walletVars>> PROVE Promise!Next
  <2>1. /\ UNCHANGED <<purse, request, address, melting>>
        /\ request[o].inputs \in SUBSET (outstanding \ melting)
        /\ outstanding' = (outstanding \ request[o].inputs) \cup {}
        /\ spent' = spent \cup request[o].inputs
        /\ {} \cap (outstanding \cup spent) = {}
    BY <1>2 DEF Burn, walletVars
  <2> QED BY <2>1, StepExchanges DEF Promise!Next
<1>3. ASSUME NEW o, ServeTransfer(o) \/ Collect(o) PROVE Promise!Next
  BY <1>1, <1>2, <1>3 DEF ServeTransfer, Collect
<1>4. (\E m \in wire : Serve(m)) \/ (\E o \in posted : ServeTransfer(o))
      \/ (\E o \in Ops : Collect(o) \/ PaymentSettles(o) \/ PaymentFails(o))
      \/ UNCHANGED <<outstanding, melting, spent>>
  BY DEF Next, vars, mintVars, Wallet, Build, Get, Receive, GetFails, Abandon, Quote, Pay,
         Transfer, ReceiveTransfer, Verify, LookupMelted, Lookup, Crash
<1> QED BY <1>1, <1>3, <1>4, StepServes, StepPays

\* A wallet that goes by the head of ffi.rs keeps its notes safe, whatever is
\* late, lost, repeated or refused and wherever it stops, but for those it sent by
\* a payRequest whose callback is not where its withdrawLink is: Purse implements
\* Safekeeping, for every instance.
THEOREM KeepsNotesSafeHolds == Spec => KeepsNotesSafe
<1>1. TypeOK /\ Ledger /\ [Next]_vars /\ TypeOK' /\ Ledger'
      => [Promise!Next]_<<Promise!books, Promise!records>>
  BY PromiseStep
<1> QED BY <1>1, PromiseInit, PurseTypeCorrect, LedgerHolds, PTL
      DEF Spec, KeepsNotesSafe, Promise!Spec
=============================================================================
