------------------------------- MODULE Purse -------------------------------
(***************************************************************************)
(* A wallet on the far side of src/ffi.rs, which does what the head of     *)
(* that file asks of it: it stores new_secrets durably, then performs the  *)
(* GET, then hands the body back.  The crate persists nothing, so what     *)
(* survives a crash is what the wallet stored on the crate's word; the     *)
(* library's part is which secrets a request hands over, how an answer is  *)
(* read, and whether the secrets come back with it.                        *)
(*                                                                         *)
(* The wallet moves notes (rotate, split, merge, melt), mints them over    *)
(* Lightning, and sends whole notes to addresses.  Every fresh note is its *)
(* own; nobody else holds a copy of any but of those it sent to a callback *)
(* that is not at their mint.                                              *)
(***************************************************************************)
EXTENDS Mint, Ffi

CONSTANTS
  Amounts,             \* the amounts a mint invoice may be asked for
  MaxGets,             \* the GETs of one rotate, split or merge
  require_signatures   \* Policy::require_signatures

ASSUME PurseAssumption ==
  /\ IsFiniteSet(Notes)
  /\ Amounts \subseteq Nat \ {0}
  /\ MaxGets \in Nat
  /\ require_signatures \in BOOLEAN

VARIABLES
  purse,     \* durable: what the wallet has on record of each note
  pc,        \* volatile: where each of its calls is
  request,   \* what a call asks for; written once
  byHash,    \* whether its outputs were named by a cp1 or a hash
  staked,    \* the inputs that were balance when it was built
  doubt,     \* whether one of its GETs was left without an answer
  gets,      \* the GETs performed
  bill,      \* the Lightning invoice behind a mint
  address,   \* the payRequest a transfer was sent by; written once
  posted     \* transfers sent and not yet handled

walletVars == <<purse, pc, request, byHash, staked, doubt, gets, address>>
vars == <<mintVars, walletVars, bill, posted>>

(***************************************************************************)
(* A note's record: no secret stored; the secret stored before the note    *)
(* was known to exist; balance; or handed to a SERVICE, outcome unknown.   *)
(***************************************************************************)
Records == {"none", "fresh", "live", "sent"}
Stored == {n \in Notes : purse[n] # "none"}
Live == {n \in Notes : purse[n] = "live"}

Kinds == MutationKind \cup {"Mint", "Transfer"}
Calls == [kind : Kinds, inputs : SUBSET Notes, outputs : SUBSET Notes]
NoCall == [kind |-> "Melt", inputs |-> {}, outputs |-> {}]

Stages == {"idle", "built", "waiting", "uncertain", "melted", "quoted", "paying", "done"}
Active(o) == pc[o] \notin {"idle", "done"}
InUse == UNION {request[o].inputs \cup request[o].outputs : o \in {p \in Ops : Active(p)}}

\* Notes nobody has drawn yet.
Undrawn == (Notes \ Genesis) \ UNION {request[o].outputs : o \in Ops}

Bills == [state : {"none", "open", "inflight", "settled", "failed"},
          pr : Invoices(Ops, Amounts), room : BOOLEAN,
          asked : Amounts \cup {0}, paid : Amounts \cup {0}]
NoBill(o) == [state |-> "none", room |-> FALSE, asked |-> 0, paid |-> 0,
              pr |-> [serial |-> o, stated |-> 0, readable |-> TRUE]]

\* What a transfer goes by: where its payRequest says that it is, and where its
\* spend is sent.
Postings == [withdrawLink : Links, callback : {"nowhere", "here", "elsewhere"}]
NotSent == [withdrawLink |-> "absent", callback |-> "nowhere"]
SentTo(o, callback) == address[o].callback = callback

\* The notes sent by a payRequest that has its withdrawLink at their mint and its
\* callback elsewhere.
Astray(o) == address[o] = [withdrawLink |-> "here", callback |-> "elsewhere"]
Misled == UNION {request[o].inputs : o \in {p \in Ops : Astray(p)}}

TypeOK ==
  /\ MintTypeOK
  /\ purse \in [Notes -> Records]
  /\ pc \in [Ops -> Stages]
  /\ request \in [Ops -> Calls]
  /\ byHash \in [Ops -> BOOLEAN]
  /\ staked \in [Ops -> SUBSET Notes]
  /\ doubt \in [Ops -> BOOLEAN]
  /\ gets \in [Ops -> Nat]
  /\ bill \in [Ops -> Bills]
  /\ address \in [Ops -> Postings]
  /\ posted \subseteq Ops

Init ==
  /\ MintInit
  /\ purse = [n \in Notes |-> IF n \in Genesis THEN "live" ELSE "none"]
  /\ pc = [o \in Ops |-> "idle"]
  /\ request = [o \in Ops |-> NoCall]
  /\ byHash = [o \in Ops |-> FALSE]
  /\ staked = [o \in Ops |-> {}]
  /\ doubt = [o \in Ops |-> FALSE]
  /\ gets = [o \in Ops |-> 0]
  /\ bill = [o \in Ops |-> NoBill(o)]
  /\ address = [o \in Ops |-> NotSent]
  /\ posted = {}

Goto(o, stage) == pc' = [pc EXCEPT ![o] = stage]

\* The records of the notes in S become r.
Record(S, r) == [n \in Notes |-> IF n \in S THEN r ELSE purse[n]]

(***************************************************************************)
(* Building a request: the secrets that came with it are stored with it.   *)
(* Those of outputs named by a cp1 or a hash were stored beforehand.       *)
(***************************************************************************)
Shapes == [Melt |-> {<<1, 0>>}, Transfer |-> {<<1, 0>>}, Rotate |-> {<<1, 1>>},
           Merge |-> {<<2, 1>>}, Split |-> {<<1, 2>>}, Mint |-> {<<0, 1>>}]

Build(o) ==
  /\ pc[o] = "idle"
  /\ \E kind \in Kinds, ins \in SUBSET (Stored \ InUse), outs \in SUBSET Undrawn, h \in BOOLEAN :
       /\ <<Cardinality(ins), Cardinality(outs)>> \in Shapes[kind]
       /\ \A n \in ins : purse[n] \in {"live", "sent"}
       /\ outs = {} => ~ h
       /\ request' = [request EXCEPT ![o] = [kind |-> kind, inputs |-> ins, outputs |-> outs]]
       /\ byHash' = [byHash EXCEPT ![o] = h]
       /\ staked' = [staked EXCEPT ![o] = ins \cap Live]
       /\ purse' = [n \in Notes |->
                      IF n \in ins THEN "sent"
                      ELSE IF n \in new_secrets(outs, h) \cup (IF h THEN outs ELSE {})
                      THEN "fresh" ELSE purse[n]]
  /\ Goto(o, "built")
  /\ UNCHANGED <<mintVars, doubt, gets, bill, address, posted>>

(***************************************************************************)
(* The mutating callback.                                                  *)
(***************************************************************************)
Message(o) == [op |-> o, att |-> gets[o], req |-> request[o]]

\* The first GET, or the same request again after one that failed.  A melt is
\* never repeated: a SERVICE has no replay for it.
Get(o) ==
  /\ request[o].kind \in MutationKind
  /\ \/ pc[o] = "built"
     \/ pc[o] = "uncertain" /\ request[o].kind # "Melt" /\ gets[o] < MaxGets
  /\ wire' = wire \cup {Message(o)}
  /\ gets' = [gets EXCEPT ![o] = @ + 1]
  /\ Goto(o, "waiting")
  /\ UNCHANGED <<outstanding, spent, melting, applied, answer,
                 purse, request, byHash, staked, doubt, bill, address, posted>>

\* What the error leaves in the wallet's hands, with what it must not forget
\* by itself: outputs the library never saw the secret of, and those of a
\* request whose earlier GET may still be carried out.
Kept(o, r) ==
  r.secrets \cup
  (IF doubt[o] \/ (byHash[o] /\ r.verdict \in SecretCarriers)
   THEN request[o].outputs ELSE {})

\* Done: the inputs are burned and the outputs are balance.
Settled(o) ==
  [n \in Notes |-> IF n \in request[o].outputs THEN "live"
                   ELSE IF n \in request[o].inputs THEN "none" ELSE purse[n]]

\* Not done, as far as verdict says.  A plain refusal of the only GET gives the
\* inputs back.
Unsettled(o, verdict, kept) ==
  LET returned == IF verdict = "ServiceRejected" /\ ~ doubt[o] THEN staked[o] ELSE {}
  IN  [n \in Notes |-> IF n \in request[o].outputs \ kept THEN "none"
                       ELSE IF n \in returned THEN "live" ELSE purse[n]]

\* An answer is handed back to the matching parser, readable or not.  The OK of
\* a melt says that its payment is in flight.
Receive(o) ==
  /\ pc[o] = "waiting"
  /\ request[o].kind \in MutationKind
  /\ answer[o] # NoAnswer
  /\ \E readable \in BOOLEAN :
       LET r == ffi_parse_mutation(answer[o], readable,
                  new_secrets(request[o].outputs, byHash[o]), request[o].kind,
                  IF byHash[o] THEN {0, 1} ELSE {}, require_signatures)
       IN \/ /\ r.verdict = "Ok" /\ request[o].kind = "Melt"
             /\ Goto(o, "melted")
             /\ UNCHANGED purse
          \/ /\ r.verdict = "Ok" /\ request[o].kind # "Melt"
             /\ Goto(o, "done")
             /\ purse' = Settled(o)
          \/ /\ r.verdict # "Ok"
             /\ Goto(o, "done")
             /\ purse' = Unsettled(o, r.verdict, Kept(o, r))
  /\ answer' = [answer EXCEPT ![o] = NoAnswer]
  /\ UNCHANGED <<outstanding, spent, melting, applied, wire,
                 request, byHash, staked, doubt, gets, bill, address, posted>>

\* The GET fails on the wallet's side; what became of it is not known.
GetFails(o) ==
  /\ pc[o] = "waiting"
  /\ Goto(o, "uncertain")
  /\ purse' = Unsettled(o, "Ambiguous",
                Kept(o, ambiguous_outcome(new_secrets(request[o].outputs, byHash[o]))))
  /\ doubt' = [doubt EXCEPT ![o] = TRUE]
  /\ answer' = [answer EXCEPT ![o] = NoAnswer]
  /\ UNCHANGED <<outstanding, spent, melting, applied, wire,
                 request, byHash, staked, gets, bill, address, posted>>

\* The wallet leaves a call where it is, and keeps its records.
Abandon(o) ==
  /\ pc[o] \in {"uncertain", "melted", "quoted", "paying"}
  /\ Goto(o, "done")
  /\ UNCHANGED <<mintVars, purse, request, byHash, staked, doubt, gets, bill, address, posted>>

\* The process stops: every call is gone, and every answer with it.  What is
\* on the wire, and on Lightning, goes on.
Crash ==
  /\ \E o \in Ops : Active(o)
  /\ pc' = [o \in Ops |-> IF Active(o) THEN "done" ELSE pc[o]]
  /\ answer' = [o \in Ops |-> NoAnswer]
  /\ UNCHANGED <<outstanding, spent, melting, applied, wire,
                 purse, request, byHash, staked, doubt, gets, bill, address, posted>>

(***************************************************************************)
(* Minting: a payRequest, an invoice for the amount asked, and its payment.*)
(* A SERVICE without room for the commitment credits nobody.               *)
(***************************************************************************)
MintPayRequests == [status : {"pay"}, callback : {"absent", "here"},
                    withdrawLink : Links \ {"elsewhere"},
                    commentAllowed : {MINT_COMMENT_LENGTH - 1, MINT_COMMENT_LENGTH},
                    sendable : {TRUE}]

InvoiceAnswers(o) ==
  [status : {"ERROR"}, reason : Whims] \cup
  [status : {"invoice"}, pr : Invoices({o}, Amounts)] \cup {VagueBody}

\* An invoice that is not taken is never paid, and its secret is forgotten; there
\* is always an answer that is not taken, as one that cannot be read.
Quote(o) ==
  /\ pc[o] = "built"
  /\ request[o].kind = "Mint"
  /\ \/ /\ \E pay \in MintPayRequests, asked \in Amounts, body \in InvoiceAnswers(o) :
             /\ ffi_parse(TRUE, parse_pay_request(pay)).verdict = "Ok"
             /\ pay.withdrawLink # "absent"
             /\ ffi_parse(TRUE, parse_invoice(body, asked)).verdict = "Ok"
             /\ bill' = [bill EXCEPT ![o] = [state |-> "open", asked |-> asked, paid |-> 0,
                                             pr |-> body.pr, room |-> names_mint_output(pay)]]
        /\ Goto(o, "quoted")
        /\ UNCHANGED purse
     \/ /\ Goto(o, "done")
        /\ purse' = Record(request[o].outputs, "none")
        /\ UNCHANGED bill
  /\ UNCHANGED <<mintVars, request, byHash, staked, doubt, gets, address, posted>>

\* A Lightning wallet pays what an invoice states, or what it is told to where
\* none is stated, and cannot pay one it cannot read.
Pay(o) ==
  /\ pc[o] = "quoted"
  /\ bill[o].pr.readable
  /\ bill' = [bill EXCEPT ![o].state = "inflight",
                          ![o].paid = IF bill[o].pr.stated = 0 THEN bill[o].asked
                                      ELSE bill[o].pr.stated]
  /\ Goto(o, "paying")
  /\ UNCHANGED <<mintVars, purse, request, byHash, staked, doubt, gets, address, posted>>

(***************************************************************************)
(* Internal transfers: the note itself is sent to an address.  Whoever     *)
(* serves its payRequest writes both URLs.                                 *)
(***************************************************************************)
Addresses == [status : {"pay"}, callback : Callbacks, withdrawLink : Links,
              commentAllowed : {MINT_COMMENT_LENGTH}, sendable : BOOLEAN]

Transfer(o) ==
  /\ pc[o] = "built"
  /\ request[o].kind = "Transfer"
  /\ \E pay \in Addresses :
       \/ /\ internal_transfer_request(pay)
          /\ address' = [address EXCEPT ![o] = [withdrawLink |-> pay.withdrawLink,
                                              callback |-> pay.callback]]
          /\ posted' = posted \cup {o}
          /\ Goto(o, "waiting")
          /\ UNCHANGED purse
       \/ /\ ~ internal_transfer_request(pay)
          /\ purse' = Record(staked[o], "live")
          /\ Goto(o, "done")
          /\ UNCHANGED <<address, posted>>
  /\ UNCHANGED <<mintVars, request, byHash, staked, doubt, gets, bill>>

ReceiveTransfer(o) ==
  /\ pc[o] = "waiting"
  /\ request[o].kind = "Transfer"
  /\ answer[o] # NoAnswer
  /\ \E readable \in BOOLEAN :
       LET r == ffi_parse(readable, parse_internal_transfer(answer[o]))
       IN purse' = IF r.verdict = "Ok" THEN Settled(o)
                   ELSE Unsettled(o, r.verdict, {})
  /\ answer' = [answer EXCEPT ![o] = NoAnswer]
  /\ Goto(o, "done")
  /\ UNCHANGED <<outstanding, spent, melting, applied, wire,
                 request, byHash, staked, doubt, gets, bill, address, posted>>

(***************************************************************************)
(* Learning what became of a note: verify an invoice, or look the note up. *)
(***************************************************************************)
\* A verify endpoint reports on an invoice that was settled, perhaps another.
VerifyAnswers ==
  [status : {"verify"}, settled : {TRUE},
   pr : {bill[p].pr : p \in {q \in Ops : bill[q].state = "settled"}}]

Verify(o) ==
  /\ pc[o] \in {"melted", "paying"}
  /\ \E body \in VerifyAnswers :
       /\ ffi_parse(TRUE, parse_verify(body)).verdict = "Ok"
       /\ same_invoice(body.pr, bill[o].pr)
  /\ purse' = Settled(o)
  /\ Goto(o, "done")
  /\ UNCHANGED <<mintVars, request, byHash, staked, doubt, gets, bill, address, posted>>

\* Nothing is echoed where nothing was asked by its spend.
LookupAnswers(n) ==
  {[b EXCEPT !.echo = "absent"] : b \in {a \in InfoAnswers(n) : a.status = "info"}}

Found(n) ==
  \E body \in LookupAnswers(n) :
    ffi_parse(TRUE, parse_note_info_by_hash(body, TRUE)).verdict = "Ok"

\* A fresh note that is found is the wallet's: nobody else can spend it.  That
\* one is not found says nothing.
Lookup(n) ==
  /\ purse[n] = "fresh"
  /\ n \notin InUse
  /\ Found(n)
  /\ purse' = Record({n}, "live")
  /\ UNCHANGED <<mintVars, pc, request, byHash, staked, doubt, gets, bill, address, posted>>

\* The melt was taken on, and its note can be spent again: the payment failed.
LookupMelted(o) ==
  /\ pc[o] = "melted"
  /\ request[o].inputs = staked[o]
  /\ \A n \in staked[o] : Found(n)
  /\ purse' = Record(staked[o], "live")
  /\ Goto(o, "done")
  /\ UNCHANGED <<mintVars, request, byHash, staked, doubt, gets, bill, address, posted>>

Wallet(o) ==
  \/ Build(o) \/ Get(o) \/ Receive(o) \/ GetFails(o) \/ Abandon(o)
  \/ Quote(o) \/ Pay(o) \/ Transfer(o) \/ ReceiveTransfer(o)
  \/ Verify(o) \/ LookupMelted(o)

(***************************************************************************)
(* The SERVICE, and Lightning.                                             *)
(***************************************************************************)
Awaited(m) == pc[m.op] = "waiting" /\ gets[m.op] = m.att + 1

Serve(m) ==
  \/ /\ Apply(m, Awaited(m))
     /\ bill' = IF m.req.kind = "Melt"
                THEN [bill EXCEPT ![m.op].state = "inflight"] ELSE bill
     /\ UNCHANGED <<walletVars, posted>>
  \/ /\ Replay(m, Awaited(m)) \/ Decline(m, Awaited(m))
     /\ UNCHANGED <<walletVars, bill, posted>>

ReplyTransfer(o, body) ==
  /\ posted' = posted \ {o}
  /\ answer' = IF pc[o] = "waiting" THEN [answer EXCEPT ![o] = body] ELSE answer

Confirmed == [status |-> "OK", certs |-> {}]

\* What a transfer may be answered with by a SERVICE that burns nothing: a refusal,
\* a body that confirms nothing, or an OK of one that the note does not live at.
IdleReplies(o) ==
  LET dead == ~ request[o].inputs \subseteq outstanding
  IN  {VagueBody} \cup (IF SentTo(o, "here") THEN {} ELSE {Confirmed}) \cup
      [status : {"ERROR"}, reason : Whims \cup (IF dead THEN DeadNoteReasons ELSE {})]

\* The note is burned; for its payee, if this is its own mint's doing.
Burn(o) ==
  /\ request[o].inputs \subseteq outstanding \ melting
  /\ outstanding' = outstanding \ request[o].inputs
  /\ spent' = spent \cup request[o].inputs

ServeTransfer(o) ==
  /\ o \in posted
  /\ \/ /\ SentTo(o, "here")
        /\ Burn(o)
        /\ \E body \in {Confirmed, VagueBody} : ReplyTransfer(o, body)
     \/ /\ \E body \in IdleReplies(o) : ReplyTransfer(o, body)
        /\ UNCHANGED <<outstanding, spent>>
  /\ UNCHANGED <<melting, applied, wire, walletVars, bill>>

\* Whoever was sent a spend from elsewhere may use it, whatever was answered.
Collect(o) ==
  /\ SentTo(o, "elsewhere")
  /\ Burn(o)
  /\ UNCHANGED <<melting, applied, wire, answer, walletVars, bill, posted>>

BillBecomes(o, state) == bill' = [bill EXCEPT ![o].state = state]

\* The payment of a mint's or a melt's invoice arrives.
PaymentSettles(o) ==
  /\ bill[o].state = "inflight"
  /\ BillBecomes(o, "settled")
  /\ \/ /\ request[o].kind = "Mint"
        /\ outstanding' = outstanding \cup (IF bill[o].room THEN request[o].outputs ELSE {})
        /\ UNCHANGED <<spent, melting, applied, wire, answer>>
     \/ /\ request[o].kind = "Melt"
        /\ \E n \in request[o].inputs : MeltSettles(n)
  /\ UNCHANGED <<walletVars, posted>>

PaymentFails(o) ==
  /\ bill[o].state = "inflight"
  /\ BillBecomes(o, "failed")
  /\ \/ request[o].kind = "Mint" /\ UNCHANGED mintVars
     \/ request[o].kind = "Melt" /\ \E n \in request[o].inputs : MeltFails(n)
  /\ UNCHANGED <<walletVars, posted>>

Next ==
  \/ \E o \in Ops : Wallet(o) \/ PaymentSettles(o) \/ PaymentFails(o) \/ Collect(o)
  \/ \E n \in Notes : Lookup(n)
  \/ \E m \in wire : Serve(m)
  \/ \E o \in posted : ServeTransfer(o)
  \/ Crash

Spec == Init /\ [][Next]_vars

\* A wallet that keeps looking, at a SERVICE that keeps answering.
FairSpec == Spec /\ \A n \in Notes : WF_vars(Lookup(n))

(***************************************************************************)
(* Properties.                                                             *)
(***************************************************************************)
\* No crash, lost answer, unreadable body or refusal leaves a note that exists
\* without the secret that spends it, on disk or in a call that goes on
\* (ffi.rs, steps 1 to 4 at its head).  Only a payRequest that names the note's
\* mint in its withdrawLink and another SERVICE in its callback can have the
\* wallet give up a note for nothing.
NothingStranded ==
  outstanding \ Misled \subseteq
    Stored \cup UNION {request[o].outputs : o \in {p \in Ops : Active(p)}}

\* What the wallet counts as balance can be spent now, unless it was once sent by
\* such a payRequest: no answer that came too early, for another invoice, or of a
\* refusal that was none, is taken for it.
BelievedIsLive == Live \ Misled \subseteq outstanding \ melting

\* internal_transfer_request, as its comment has it: "Refused, before anything is
\* sent, unless the payRequest's `withdrawLink` is on `note_domain`"; "Anywhere
\* else this hands a bearer secret to a SERVICE that does not hold the note."
StaysAtItsMint == \A o \in Ops : ~ SentTo(o, "elsewhere")

\* A mint never costs another amount than was asked for (protocol.rs,
\* parse_invoice).
PaysWhatItAsked ==
  \A o \in Ops : bill[o].paid # 0 => bill[o].paid = bill[o].asked

\* Money paid for a note is a note, at every SERVICE whose payRequest is taken
\* (protocol.rs, parse_pay_request).
PaidIsMinted ==
  \A o \in Ops :
    request[o].kind = "Mint" /\ bill[o].state = "settled" =>
      request[o].outputs \subseteq outstanding \cup spent

\* Whatever was lost on the way, a note that exists and whose secret was stored
\* is found again once no call is about it (ffi.rs, parse_note_info_by_hash).
Recovers ==
  \A n \in Notes :
    (n \in outstanding /\ purse[n] = "fresh" /\ n \notin InUse) ~> purse[n] # "fresh"
=============================================================================
