# A formal model of lnurlcash-core

`lnurlcash-core` is the wallet side of LNURL cash: bearer notes that live at a
mint (the SERVICE of LUD-25), and the calls that melt, rotate, split and merge
them. A note is whoever knows its secret. For every mutation the wallet draws
the secret of the new note itself and discloses only what names it, so between
the moment the SERVICE acts and the moment the caller stores the secret, the
only copy of the money is a string inside a call that may fail. What an error
says, and whether it still carries that string, is the safety-critical part of
the crate, and it is the core of this model. Around it stands what a wallet does
with nobody to ask: verify a note offline, rewrite the URL it is carried in,
find and open from a seed what a mint credited to a public key.

Sources are quoted below relative to `src/` of the crate unless said otherwise.

## Inventory

| part | state it keeps | operations | made correct by |
| --- | --- | --- | --- |
| `errors.rs` | none | `classify_note_error`, `with_secrets`, `is_ambiguous`, `is_definitive` | what a variant says of the operation is true; secrets stay with every error that may have minted |
| `protocol.rs` | none | builders of every request, parsers of every answer | a request names notes that can be spent; an answer is never read as saying more than it does |
| `client.rs` | one future per call: the request, the retry round | the four mutations, `settle_note`, `probe_burned_note`, the plain fetches | at most one effect per call, no stranded note, bounded waiting |
| `ffi.rs`, `uniffi/` | none | the I/O-free layer: requests with their secrets, parsers of bodies | a foreign caller that stores, sends and hands back loses nothing |
| `fees.rs` | locals of one search | token parsing, fee, gross-up | exact fee, smallest invoice, termination |
| `note.rs` | none | note URLs: read, rebuild, look up | a rebuilt URL describes one note only, and tells a SERVICE no secret it need not know |
| `spend.rs` | none | note names, spends, leaf rules, time claims | the verdict agrees with consensus and with the mint's rules |
| `signature.rs` | none | certificates of three eras, address proofs | a certificate covers the note it is accepted for; a proof works at one mint |
| `recoverable.rs`, `cash.rs` | none | strings, amounts, key derivation | watcher and holder derive the same keys |
| `bolt11.rs` | none | invoice amounts, comparing invoices | exact amounts |
| `secrets.rs` | none | random secrets, hashes | fresh |
| `urls.rs`, `long_bech32.rs` | none | URL and LNURL syntax; checksum constants | |
| the SERVICE | notes outstanding, spent, melting; a replay log; shares on file | burns and mints atomically; pays melts later; credits addresses | external: not in the repository |

**Interaction.** A caller starts calls concurrently, in one wallet or in several
holding copies of one note. `Client::run_mutation` clones its `Request` and
hands it to `run`, one HTTP GET with a time-out; the SERVICE acts on the GET,
and the answer, if it arrives, goes through `protocol::parse_mutation`, which
classifies refusals with `errors::classify_note_error`. Ambiguous outcomes
go round the loop; the last one, or the first that is not ambiguous, is
returned with `with_secrets`. `settle_note` is an informational GET followed by a
rotate whose refusals it swallows. `probe_burned_note` is an informational GET
made to learn what became of a burned input. A foreign caller has no client: it
gets an `FfiRequest` with its `new_secrets`, stores them, performs the GET and
hands body and secrets to the matching parser. Offline, `check_note_url` reads a
URL (`note.rs`), decodes its spend and derives its key (`spend.rs`,
`recoverable.rs`) and looks for a certificate over it (`signature.rs`).

**What is hard.** The network loses a request or an answer and the client cannot
tell which; the request may still be under way when it gives up; the SERVICE may
or may not implement LUD-25's replay rule; its refusals are prose; a retry is
answered about the retry, not about the call; two holders contend for one note;
a melt locks its note and is paid or fails later; the process stops at any point;
formats of three eras are accepted side by side, and one string may be read as
either; private and public derivation must fail together. `PROJECT.json` lists
each hazard at its line, with the properties that watch it.

## Modules

```
Errors <- Protocol <- Mint <- Client <- ClientInv <- ClientProofs <- ContractProofs
              ^         ^        ^          ^
           Minting      |     Custody    MCClient
              ^         |
             Ffi <---- Purse <- PurseInv <- PurseProofs, MCPurse
                                   ^
                              Safekeeping

Leaves <- Spends <- Certificates <- NoteUrls <- Holding <- OfflineProofs <- HoldingProofs
Amounts <-----------'                                 ^- MCOffline

Curve <- Tree <- Shares <- SharesProofs, MCShares        DataLemmas <- OfflineProofs, SharesProofs

Fees <- FeesProofs, MCFees
```

*Calls and answers*

* **Errors** — the variants as names, a SERVICE's reason as the set of wordings
  (`Marks`) that `classify_note_error` tests for, and its tests in their order.
  `with_secrets` followed by `new_secrets` is one operator.
* **Protocol** — answer bodies as records of what the parsers test, and
  `parse_mutation` and `parse_note_info` as functions from a body to `"Ok"` or a
  variant. All answers that confirm nothing, and bodies that are not JSON, are
  one body (`VagueBody`): each of them is `Ambiguous` in the code.
* **Minting** — the parsers of the calls that mint over Lightning, look a note up
  by what names it, and send a whole note to an address. The two URLs of a payRequest
  are independent: a withdrawLink and a callback, each at the note's mint or not, or
  one that cannot be used. Invoices are told apart by a serial and carry what their
  amount reads as.
* **Mint** — the SERVICE and the wire. External: what it may do is what the
  client's comments and the flags of the mock mint in `tests/protocol.rs` say.
  It carries a mutation out atomically (`Apply`), recognises a repeat by the whole
  request (`Repeats`) and may answer it as the first time (`Replay`) or refuse it
  (`Decline`, with `RefusalsOfRepeats`), locks the note of a melt and
  later finalises or restores it. Every answer may be lost, and an attempt may be
  handled when nobody waits for it any more. A note and its secret are one value;
  an output named by its hash stays fresh because only the secret's owner has it.
* **Client** — one record of state per call. `Call` and `CallSettle` are the
  entry points up to the first `await`; `Look` is settle's GET; `Send` is
  one round's GET going out; `Receive` and `GiveUp` are the two ways a round
  ends, both through `Conclude`, the loop of `run_mutation`; `Probe` is
  `probe_burned_note`. `Mutate` draws the fresh secrets and refuses, before
  anything is sent, the requests that `callback_url` and `run` refuse.
* **Custody** — the abstract specification: per call, when it took effect, what
  was reported, whether the secrets are in the caller's hands.
* **ClientInv**, **ClientProofs** — the inductive invariants and the proofs;
  **ContractProofs**, that Client implements Custody and that a note found alive is
  the last word.
* **MCClient** — names for wordings, the symmetry, for TLC.

*A foreign wallet*

* **Ffi** — which secrets leave with a request (`new_secrets`), the error as it
  crosses the boundary, a body that cannot be read.
* **Purse** — a wallet that does what the head of `ffi.rs` asks of it, at the
  SERVICE of `Mint` and with Lightning: it records every note it has a secret of
  (`purse`, durable), and runs any number of calls (`pc`, volatile). `Build` is the
  builder and the storing of the secrets; `Get` performs the GET, again after a
  failure; `Receive` hands the body to `ffi_parse_mutation` and applies the result
  to the records; `Quote` and `Pay` are `parse_pay_request`, `parse_invoice` and a
  Lightning payment; `Transfer` and `ReceiveTransfer` are
  `internal_transfer_request` and its parser. A transfer goes to the callback of its
  payRequest (`address`), while what was compared with the note's mint is the
  withdrawLink; a callback elsewhere may answer anything and use the spend it was
  sent at any time (`Collect`). `Misled` has the notes of such transfers, and
  `NothingStranded`, `BelievedIsLive` and `KeepsNotesSafe` are about all others.
  `Verify`, `Lookup` and `LookupMelted`
  are how a wallet learns afterwards. `Crash` ends every call and loses every
  answer at any moment, while what is on the wire goes on. The wallet
  is external to the crate; the library's part is every verdict it acts on, and
  the properties fail if one of these is changed (see the mutants).
* **Safekeeping** — the abstract specification of that wallet: the books of the SERVICE
  and the wallet's records, with no calls, messages or crashes. The SERVICE burns and
  mints in one step whenever it likes; the wallet learns of it later, or never.
  `drawn`, `kept`, `balance` and `misled` are `Drawn`, `Stored`, `Live` and `Misled`
  of Purse; a note of `misled` may be burned or forgotten whatever the wallet counts
  it as.
* **PurseInv**, **PurseProofs**, **MCPurse** — the inductive invariant and the
  refinement mapping (`Promise`), the proofs, and an instance.

*Fees*

* **Fees** — `parse_token`, `parse_mint_fee`, the fee arithmetic in words of
  `MAX_u64`, and `gross_up_for_mint_fee` one loop turn per step.
  `Million` stands for 1 000 000 and `MAX_u64` for `u64::MAX`, so that TLC can try
  every amount of a small word and the proofs cover the real one.
* **FeesProofs**, **MCFees** — its proofs, and a family of metadata for TLC.

*Offline*

* **Amounts** — amount suffixes: writing one, and the two readers (`cs1` prefixes
  and bolt11). The code has the multipliers in three tables and checks for overflow
  in two ways, and so has the module; its constants are the smallest multiplier
  (`Nano`) and the step from one to the next (`Kilo`).
* **Leaves** — `check_leaf` on scripts byte by byte, `is_op_success`, and
  `check_time_claim` under a clock that starts at or before the crediting clock.
* **Spends** — output keys, bearer notes, the forms of a `k1` and of what names a
  note, `check_spend`, `note_id_of`, `note_lookup_of`. Hashes are records of what
  they are over and signatures of who made them, so that nothing holds by chance.
* **Certificates** — the message and the layout of each era, what a text states
  against what its signature is over, `certified_over` in its order, `check_note`.
* **NoteUrls** — a URL as a host and a sequence of parameters, and every function
  of `note.rs` on it.
* **Holding** — a URL from hand to hand: notes certified in each era (`Issue`), a URL
  somebody puts together (`Arrive`), the swap of its secret (`Swap`), the secret
  kept on a device (`SwapToDevice`) and filled in (`Fill`). Whoever writes URLs
  writes k1s that can be read (`IsK1`): a ck1 names some output key, and a legacy
  signature recovers to a point. What a wallet draws is a key or a preimage short
  enough for a stack element, as `secrets.rs` draws 32 bytes.
* **MCOffline**, **OfflineProofs** (amounts, leaves, clocks, certificates),
  **HoldingProofs** (URLs).

*Derivation*

* **Curve** — a cyclic group of any order with points that have an x coordinate,
  and tweaking of private and public keys, with the cases in which it fails.
* **Tree** — `derive_cash_child` and its public half, the walk to a mint's root and
  its four domain levels, shares, note keys, the superseded branches, the tweak of
  a script tree, and address proofs. Every hash is a constant operator.
* **Shares** — wallets that prove (`Prove`), mints that file (`Register`, `Update`,
  `Unregister`) and credit (`Credit`, `Mint`, `CreditLegacy`). Proofs never vanish,
  so each may arrive anywhere, late and again.
* **MCShares**, **SharesProofs**.

**DataLemmas** has what these proofs need of numbers and sequences.

Definitions that a comment calls *a mistake to catch* are not part of the model:
each is a plausible bug, and the properties are checked to notice it.

## Runs

| run | what it shows | bounds |
| --- | --- | --- |
| `service` | `TypeOK`, `SecretsSurvive`, `RefusalBurnsNothing`, `SuccessNamesTheNote`, `OneLanding`, `LiveProbeIsFinal`, the invariant `Wiring`, `Bookkeeping`, `RetriesAreIdentical`, and `KeepsTheContract` (refinement of Custody) | 2 calls of any kind, 2 notes, 4 fresh secrets, 1 retry |
| `late` | `SecretsSurvive` and `CallsReturn` when attempts outlive the wait for them | 2 calls, 1 contended note, 2 retries |
| `purse` | `NothingStranded`, `BelievedIsLive`, `PaysWhatItAsked`, `PaidIsMinted`, the invariant `Ledger`, `TypeOK`, `KeepsNotesSafe` (refinement of Safekeeping), and that what was lost sight of is found again (`Recovers`) | 2 calls of any kind, 2 notes and 2 to come, 2 GETs per call, 2 amounts, a crash at any point, payRequests with either URL at the mint, elsewhere or unusable; 752 157 states |
| `offline` | `UrlTellsTheTruth`, `VerifiedMeansIssued`, `StatedIsCertified`, `LookupHidesTheSpend`, `WatcherAgrees`, the invariant `Lineage`; `LeafRuleIsExact`, `NeverEarly`, `DueStaysDue`; `TypeOK` | 2 issued notes of 2 amounts, 3 hosts, 15 spends; every script of 4 bytes over 8, clocks up to 8; 338 625 states |
| `shares` | `EveryCreditOpens`, `OnFileIsSomebodys`, `FoundElsewhere`, `TypeOK` | a group of 13, 2 wallets, 2 mints, 3 ways to write a host, 3 wallet steps, 3 notes per share; 201 283 states |
| `gross_up` | `TypeOK`, `SplitIsExact`, `SmallestGross`, `FallbackIsLate`, `Terminates` | every amount below 2^8, denominator 12 |
| `output_in_use`, `settle_late`, `probe_late`, `definitive`, `gross_up_fallback`, `transfer_astray` | the findings below, one counterexample each | one call; as `gross_up`; as `purse` |

*Why the bounds are enough.* The hazards of a call are about one call against its
own retry, and about one other party that uses the same note meanwhile: two calls, a
note that both can name, and one lost answer before one retry. The second genesis
note of `service` lets a split or merge have two inputs of which one is gone; four
fresh secrets let two splits run to their end. A second retry (in `late`) lets an
attempt be overtaken by two others. Secrets nobody holds yet are interchangeable,
and so are calls: `service` uses that symmetry (its temporal properties are about
steps, and no name stands out in them), the runs with liveness do not. In `purse` the second call is the one that contends, mints with an
invoice to be confused with the first, or uses what the first has left; its bounds
matter little, as `PurseProofs` covers all of them but for liveness.

In `offline` the eight bytes are a zero, direct pushes of one and two, the three
pushes that carry a length, a reserved opcode and one that is none; four bytes
hold a push whose length is written, is cut short, or hides an opcode. A hash is
one byte long there, once a byte that would be a reserved opcode and once a
small push. Multipliers of 16, 8, 4 and 2 make amounts that are writable in several
units and in none. Hosts differ in name or only in their port. The spends are each form a
`k1` has had, and each way to get one wrong: another key's
signature, another mint's, a wrong internal key, leaf version or path, a
preimage that does not fit. In `shares` the order 13 makes a few
children missing on either side, hashes beyond the group order, points with odd
and even y; `MaxIndex` reaches an index that is skipped.

In `gross_up`, 12 squared fits the word as 10^12 fits 64 bits, and a naive
product does not; the fees include 0, almost 100% and a base fee above the net.
Every message sequence is finite since each call sends a bounded number of
attempts, so no state constraint is needed. Deadlock is not
checked: the calls return, the bounds are used up, and nothing is left to do.

*What `late` leaves out.* With late delivery, what a refusal says stops being true
(the runs `settle_late` and `probe_late`), and `NotePending` drops the secrets of
an attempt that lands after the melt has failed, so its entries are without melts
and its SERVICE never declines on a whim; `SecretsSurvive` then holds
because every remaining refusal carries the secrets. The wallet of `purse` needs
no such restriction: after a failed GET it distrusts every refusal of a repeat, as
the head of `ffi.rs` and the comment on `ambiguous_outcome` tell it to.

*Fairness.* `FairSpec` of Client assumes of each started call that its future is
polled: what is due is sent, and a wait ends at the latest when the HTTP client's
time-out (`ClientConfig::timeout`, passed to `reqwest`) expires, which is `GiveUp`.
It assumes nothing of the SERVICE, the network, or the starting of calls.
`FairSpec` of Purse is weak fairness of `Lookup` and of nothing else: a wallet that
keeps looking for the notes it has no verdict about, at a SERVICE that answers some
look at a note that stays there. No call, GET, answer or payment is assumed to
make progress, and crashes may go on for ever. The search
in `Fees` is sequential code: weak fairness of its next step.

## What is proved

**`ClientProofs`**, for every set of notes and calls, every number of retries, every
policy, every SERVICE and network the constants describe:

* `TypeCorrect`: `[]TypeOK`.
* `WiringCorrect`: the invariant `Wiring`. Every attempt on the wire or carried out
  is its call's present request (`Provenance`), no two calls share an output
  (`Freshness`), and only one attempt per call is carried out (`SingleLanding`).
  It is needed because the SERVICE recognises a repeat by comparing requests: that
  this finds the call's own earlier attempt, and nobody else's, rests on requests
  being cloned and outputs being fresh. `OneLandingHolds` and
  `RetriesAreIdenticalHolds` follow. A melt has no replay, so for it the argument is
  that it has one attempt.
* Under `Decisive` (no attempt outlives the wait for its answer, and a repeat is
  not refused in a wording that drops secrets), `BookkeepingCorrect`: answers on
  their way back and results returned tell the truth about what landed. From it
  `SecretsSurviveHolds`, `RefusalBurnsNothingHolds` and `SuccessNamesTheNoteHolds`.
  Both halves of `Decisive` are needed: the runs `settle_late` and `output_in_use`
  each drop one half and find a counterexample.

**`ContractProofs`**: `KeepsTheContractHolds`, the refinement of Custody, under
`Decisive`. The SERVICE carrying a request out is `Land`, a call coming to `"done"` is
`Return` (`StepReturns`), and every other step changes nothing Custody sees
(`StepStutters`). What is needed of a return is `ReportsTrue`, which follows from
`Wiring`, `Bookkeeping` and one invariant more, `Apart`: a `settle_note` that keeps its
old note is told apart from one that made a new note by the secret it hands back,
and the two never coincide because the new one was drawn afresh.

**The last word** (also `ContractProofs`), for every finite set of notes, with no late delivery and nothing
assumed of the SERVICE's wordings: `BurnedCorrect` (a burned note is never
outstanding again; this one with late delivery too) and `LiveProbeIsFinalHolds`. A
live answer about an input means that no mutation of the call has landed (`Burned`) and
nothing of a returned call is on the wire to land later (`Timely`); a melt has no
outputs to lose (`MeltsMakeNothing`). The run `probe_late` shows the assumption is
needed.

**`PurseProofs`**, for every finite set of notes, every set of calls, every number of
GETs, with or without the signature policy, at every SERVICE `Mint` describes and
over a network that delivers as late as it likes, with crashes anywhere. Nothing
like `Decisive` is assumed. What three of the theorems leave out is said by `Misled`,
which goes by a note's history and not by its state: a note once sent by a payRequest
whose withdrawLink is at its mint and whose callback is not. Finding 6 shows that
nothing can be promised of it; every other note is covered, those sent to an
address of their own mint included.

* `PurseTypeCorrect` and `LedgerHolds`. `Ledger` has ten parts: calls have outputs
  of their own (`Requested`) and their notes to themselves (`Reserved`); a call that
  was never in doubt made one GET (`Doubts`); what is on the wire is what its
  call asks for (`Wired`); the books of the SERVICE (`Booked`) and of Lightning
  (`Billed`); what a call uses or the wallet counts was minted once (`Real`); what an answer on its way back says of its call (`AnswersTrue`); a
  secret is forgotten only when its note is burned or can never be minted
  (`Forgotten`); what is balance, or was when a call took it, can be spent
  unless that call is carried out (`Spendable`).
* From it `NothingStrandedHolds`, `BelievedIsLiveHolds`, `PaysWhatItAskedHolds` and
  `PaidIsMintedHolds`. Neither of the first two is inductive. That a refusal may
  return the inputs to the balance needs that the refusal is of the only GET and
  that nothing of the call is left on the wire (`OnlyMessage`), and that no other
  call had the note (`Reserved`); that a secret may be dropped needs that nothing
  can mint it any more (`UnmadeStays`).
* `KeepsNotesSafeHolds`, the refinement of Safekeeping. It says of steps what the
  invariants say of states. A secret that was forgotten never comes back, and its
  note is never minted afterwards, however late the request arrives: what an exchange
  mints is on record when it happens (`AliveIsKept`). What it burns was staked by a
  call and is not balance (`StepExchanges`). A step that leaves the books of the
  SERVICE alone is the wallet's (`StepOfWallet`), which gains no secret but those
  it draws (`RecordsGrow`); the SERVICE's and Lightning's steps are an exchange, a
  lock, or the end of one (`StepServes`, `StepPays`).
* The lemmas named `...Shape` take the parsers out of the actions first; what
  remains of every change of the records is `RecordSteps`: a build, the end of a
  call with what makes it right (`Closes`), or a lookup.

**`SharesProofs`**, for every group, every hash and every index: `HalvesAgree` (one step of
public derivation is the public half of one step of private derivation, and they
fail together), `ShareHalves` (so does the whole way from a share to a note),
`LegacyHalves` and `TaprootHalves`. The argument is that negating an odd key and
lifting its x coordinate meet in the even point (`LiftIsEvenKey`), and that tweaks
add on both sides (`TweakHalves`). Then, for all wallets, mints and hosts:
`SharesTypeCorrect`, `OnFileIsSomebodysHolds`, `EveryCreditOpensHolds` and
`FoundElsewhereHolds`. The mint's side of a credit is turned into the wallet's by
the theorems on halves; what was on file when it was credited was somebody's; and the
walk of any BIP-32 wallet (`CkdWalks`) along the published path passes through the
crate's domain node and share (`PathToNote`), so it reaches the same key.

**`OfflineProofs`**, for every amount, clock, string and certificate:
`AmountSurvivesPrefix` (what is written is divided by a multiplier that divides it,
or is in tenths of an msat, and the reader's table has what the writer's has,
`TablesMatch`), `ReadersAgree` (the tables of the two readers agree unit by unit, and
a product that is refused as it is made would be refused afterwards; they differ
where the digits alone are more than a u64, which the invoice's refuses), `LeafTypeCorrect`, `NeverEarlyHolds`,
`DueStaysDueHolds`, `LeafRuleIsExactHolds`, and `WatcherIsToldTheSame`: per
`k1`, a watcher's verdict is the holder's, but for an old certificate over the
hash of a note whose spend is written as a cw1. `LeafRuleIsExactHolds` is about
scripts of any length. `check_leaf` and consensus walk them by the same instructions,
and the walk only goes forward (`AfterIsLater`); so, from the end of a script back to
its beginning, what is said of each place is right (`ReservedOpens`,
`OpensReserved`).

**`HoldingProofs`**, for every set of notes, hosts and spends, and URLs of any number
of parameters: `LineageHolds`. None of the properties of a URL is inductive. A URL
that verifies is about an issued note because its certificate was issued
with one, and a rewritten URL says nothing of an earlier note because nothing in it is
of another; both are said by `Lineage`, of all parameters of the URL, whichever of
them is read. What each builder of `note.rs` leaves of a query and adds to it is
stated once (`WithoutParams`, `AppendedParams`, `BuiltParams`, `LookupParams`,
`RewrittenParams`). From `Lineage` follow `UrlTellsTheTruthHolds`, for which the
fresh certificate has to be accepted (`FreshIsAccepted`) and the fresh spend has to
open its note (`FreshOpens`; of a bearer note, because no mint refuses its leaf,
`BearerLeafIsKept`), `VerifiedMeansIssuedHolds`, `StatedIsCertifiedHolds`,
`LookupHidesTheSpendHolds` and `WatcherAgreesHolds`; and `TypeHolds`.

**`DataLemmas`**: the induction that these proofs need. A theorem over an operator
parameter cannot be instantiated by the provers at hand, so induction is stated of
sets: a set with 0 and all successors has every number (`SetInduction`), which is
proved by counting, as the successor function on a gapped interval would be one-to-one
and not onto. From it follow the least element of a set of numbers, what
`SetToSeq`, `FlattenSeq` and concatenation have for elements, and the existence of
the functions `check_leaf` and `ckd_priv` are computed by.

**`FeesProofs`**, for every word and denominator with `Million * Million <= MAX_u64`
and every fee that parses: `SplitIsExactHolds` (exact floor, no overflow),
`SmallestGrossHolds` and `FallbackIsLateHolds`. The argument is that the fee grows
by at most one per msat (`DivideMonotone`), so what is credited never falls
(`ApplyMonotone`), so the bracket of the bisection is sound (`Narrowed`).

Only model-checked: liveness (`CallsReturn`, `Recovers`, `Terminates`), as the provers
do not reason about fairness here. Every invariant and every action property that a
passing run checks is proved.

## Findings

1. **`output_in_use`** — `run_mutation` (`client.rs:209`) hands a refused retry to
   `with_secrets`, which keeps nothing for a `ServiceRejected`. A SERVICE without
   replay that checks outputs before inputs refuses the retry of a rotate it did
   carry out with `Output already in use.`: the fresh secret, the only key to the
   new note, is dropped. Without the retry the error would have been `Ambiguous`
   and would have carried it.
2. **`settle_late`** — `settle_note` reads the refusal of a retry as the end of the
   rotate; an earlier attempt still under way can burn the k1 it returned.
3. **`probe_late`** — `NoteFate::Live` says the fresh secrets "can be discarded";
   an attempt still under way can mint them afterwards.
4. **`definitive`** — `is_definitive` says "the operation did not happen" and is true
   of `NoteSpent`, which `errors.rs:57-61` says may mean that it did.
5. **`gross_up_fallback`** — the arm of `gross_up_for_mint_fee` marked unreachable is
   reached by large amounts, and its result is not the smallest invoice then.
6. **`transfer_astray`** — `internal_transfer_request` compares the domain of the
   payRequest's withdrawLink with the note's and sends the k1 to its callback, whose
   host it compares with nothing (`protocol.rs:591`). With the withdrawLink at the
   note's mint and the callback elsewhere, a bearer secret goes to a host that does
   not hold the note, which the comment on the function says it refuses. On an OK
   from there the wallet forgets a note that exists, and on a refusal it counts as
   balance a note that somebody else can spend.

Noticed while reading, modelled as the code has it, and without a run of their own:

* `check_time_claim` says that an earlier clock counts as nothing elapsed; a
  relative lock of zero is refused then, as the difference is negative.
* `parse_invoice` takes an invoice whose stated amount does not decode for one that
  states none. In `Purse` no Lightning wallet can pay such an invoice.
* An old `cs1` whose last byte is no recovery id is read leniently, and the amount
  its prefix states is then not compared; `decode_cs1_with_amount` does not read
  it either, so the URL declares what its `amount` says and the signature decides.
* The `cp1` that a bearer note's cw1 is looked up by does not disclose its hash: a
  certificate of the oldest era over that hash is visible to the holder and not to a
  watcher (`WatcherAgrees` excepts it).

## Not modelled

* `urls.rs`, and the escaping and splitting in `note.rs`: text in, text out. Whether a
  URL is permitted is a free choice where the client asks.
* The bech32m strings of `recoverable.rs` and `long_bech32.rs`: bytes in and the
  same bytes out. The splitting of an invoice's text into prefix and data.
* Curve arithmetic, hashes and signature schemes: an abstract group, injective
  records or free constants, and records of who signed what. `script_path_sighash`
  and the digests are left out with them.
* JSON, hex and record conversion at the foreign boundary, and the display formatting
  of fees. A `MintFee` built by a foreign caller is passed on as it is; the crate
  promises nothing of one that did not come from its parser, so there is nothing to
  check it against.
* The mint address record, which is read for display only.
* The process of a native caller of `client.rs` that stops, or drops a future,
  between sending and returning: the fresh secret is lost, as the crate stores
  nothing. It leaves that to the `_with_hash` builders and to the order of
  `ffi.rs`, and with those it is modelled in `Purse`.
* The build tool.

What could be added next: a second wallet in `Purse` that holds copies of its notes.
