------------------------------- MODULE Holding -------------------------------
(***************************************************************************)
(* A note URL from hand to hand.  A node certifies notes for the mints it  *)
(* runs, in each of the ways that were current; somebody puts a URL        *)
(* together from what certificates and spends are about; a wallet takes    *)
(* it, swaps its secret, and keeps the new one itself or on a device.      *)
(***************************************************************************)
EXTENDS NoteUrls

CONSTANTS
  Hosts,      \* hosts as URLs have them, records with a name
  Amounts,    \* the values of notes
  Credits,    \* the notes there are: what a mint credits them to
  Spendings,  \* the k1s that whoever writes URLs has or can make up
  Fresh,      \* what a wallet draws for a new note: a key or a preimage
  MaxIssued   \* how many notes are certified: a bound of the model

ASSUME HoldingAssumption ==
  /\ Hosts # {}
  /\ Amounts \subseteq 1..MaxAmount
  /\ MaxIssued \in Nat
  /\ \A r \in Credits : decode_note(r) # {}
  /\ \A s \in Fresh : s.kind \in {"key", "preimage"}
  /\ \A s \in Fresh : s.secret \in IF s.kind = "key" THEN Keys ELSE Preimages \ Oversized
  /\ \A k1 \in Spendings : IsK1(k1)

Eras == {"domain", "key", "hash"}

VARIABLES
  issued,  \* the notes certified: for whom, how much, at which mint, in which way
  url,     \* the URL in hand
  held     \* an Option: the note the wallet knows the URL to be about

holdVars == <<issued, url, held>>

Domains == {spend_domain_of(host) : host \in Hosts}
References == {cp1(KeyNote(k)) : k \in Keys} \cup {hash(sha256(p)) : p \in Preimages}
Certified == [reference : References, amount : Amounts, era : Eras,
              domain : Domains \cup {NoDomain}]

KeyOf(i) == The(decode_note(i.reference))

\* What the node signed for a note.
MessageOf(i) ==
  [id |-> IF i.era = "hash" THEN IdOfHash(i.reference.h) ELSE KeyOf(i),
   amount |-> i.amount, domain |-> i.domain]

Signatures(i) ==
  {s \in [over : {MessageOf(i)}, layout : {"trailing", "leading"}, small : BOOLEAN] :
     /\ s.layout = "trailing" => s.small
     /\ s.layout = "leading" => i.era # "domain"}

\* A signature as text, under any prefix somebody puts it.
Texts(i) ==
  [prefix : {encode_amount_suffix(a) : a \in Amounts} \cup {Fixed, Hex},
   sig : Signatures(i)]

NoUrl == [host |-> CHOOSE h \in Hosts : TRUE, query |-> <<>>]

HoldTypeOK ==
  /\ issued \subseteq Certified
  /\ url.host \in Hosts
  /\ url.query \in Seq(Range(url.query))
  /\ \A i \in DOMAIN url.query :
       url.query[i].name \in {"k1", "amount", "c", "sig", "tag"}
  /\ \A n \in held : n.key \in
       [internal : Keys, root : {AsIs}] \cup
       [internal : {NUMS}, root : {tapleaf_hash(bearer_leaf(sha256(p)), TAPLEAF_VERSION) :
                                     p \in Preimages}]
  /\ \A m, n \in held : m = n

TypeOK == LeafTypeOK /\ HoldTypeOK

HoldInit == issued = {} /\ url = NoUrl /\ held = {}

\* A mint credits a note and certifies it as it did in its day.
Issue ==
  /\ url = NoUrl
  /\ Cardinality(issued) < MaxIssued
  /\ \E i \in Certified :
       /\ i.reference \in Credits
       /\ i.era = "hash" => i.reference.form = "hash"
       /\ i.era = "domain" <=> i.domain # NoDomain
       /\ issued' = issued \cup {i}
  /\ UNCHANGED <<url, held>>

\* Somebody writes a URL, with the certificate under today's name or both it
\* has had, and with an amount of its own or none.
Arrive ==
  /\ url = NoUrl
  /\ \E i \in issued, host \in Hosts, k1 \in Spendings, amount \in SUBSET Amounts :
       \E cs1 \in Texts(i), names \in {<<"c">>, <<"sig", "c">>} :
         /\ Cardinality(amount) <= 1
         /\ url' = [host |-> host,
                    query |-> <<Param("k1", k1), Param("tag", [text |-> "w"])>>
                              \o SetToSeq({Param("amount", [msat |-> a]) : a \in amount})
                              \o [n \in DOMAIN names |-> Param(names[n], cs1)]]
         /\ is_valid_note_input(url')
  /\ UNCHANGED <<issued, held>>

\* The k1 a wallet writes for what it drew, at the mint of the URL.
SpendOf(fresh, host) ==
  IF fresh.kind = "key" THEN sign_note_ownership(fresh.secret, host)
  ELSE [form |-> "preimage", preimage |-> fresh.secret]

\* A fresh note at that mint, as it is certified ...
Issuance(fresh, amount, host) ==
  [reference |-> IF fresh.kind = "key" THEN cp1(KeyNote(fresh.secret))
                 ELSE hash(sha256(fresh.secret)),
   amount |-> amount, domain |-> spend_domain_of(host), era |-> "domain"]

\* ... and as the wallet holds it, with its certificate if it has one.
Rotated(fresh, amount, certified, host) ==
  LET k1 == SpendOf(fresh, host)
      sig == [over |-> MessageOf(Issuance(fresh, amount, host)), layout |-> "trailing",
              small |-> TRUE]
  IN [key |-> The(note_id_of(k1)), k1 |-> k1, amount |-> amount,
      cs1 |-> IF certified THEN {encode_cs1_with_amount(amount, sig)} ELSE {}]

\* The mint burns the note of the URL and credits a fresh one, the rotated
\* note or the first of a split, certifying it or not.
Mutated(fresh, amount, certified) ==
  /\ \E k1 \in note_k1(url) :
       \E s \in decode_spend(k1) :
         /\ opens(check_spend(s, url.host))
         /\ output_key(s) \in {KeyOf(i) : i \in issued}
  /\ issued' = issued \cup {i \in {Issuance(fresh, amount, url.host)} : certified}
  /\ held' = {Rotated(fresh, amount, certified, url.host)}

\* The wallet keeps the new secret in the URL ...
Swap ==
  /\ Cardinality(issued) <= MaxIssued
  /\ \E fresh \in Fresh, amount \in Amounts, certified \in BOOLEAN :
       /\ Mutated(fresh, amount, certified)
       /\ url' = with_new_k1(url, SpendOf(fresh, url.host), amount, The(held').cs1)

\* ... or on a device, and a URL without it.
SwapToDevice ==
  /\ Cardinality(issued) <= MaxIssued
  /\ \E fresh \in Fresh, amount \in Amounts, certified \in BOOLEAN :
       /\ Mutated(fresh, amount, certified)
       /\ url' = without_k1(url, amount, The(held').cs1)

\* The device hands its secret back, and the amount is written or not.
Fill ==
  /\ note_k1(url) = {}
  /\ \E n \in held, amount \in SUBSET Amounts :
       /\ amount \subseteq {n.amount}
       /\ url' = build_note_url(url, n.k1, amount)
  /\ UNCHANGED <<issued, held>>

HoldNext == Issue \/ Arrive \/ Swap \/ SwapToDevice \/ Fill

HoldSpec == HoldInit /\ [][HoldNext]_holdVars

Values(u, names) == {p.value : p \in {r \in Range(u.query) : r.name \in names}}

\* What a URL in hand is made of: k1s that may be read, the tag, certificates
\* of notes issued; and once the wallet holds a note, nothing that is of
\* another (the parameters note.rs takes over, replaces and leaves out).
Lineage ==
  /\ \A k1 \in Values(url, {"k1"}) : IsK1(k1)
  /\ Values(url, {"tag"}) = IF url.query = <<>> THEN {} ELSE {[text |-> "w"]}
  /\ \A cs1 \in Values(url, {"c", "sig"}) : \E i \in issued : cs1 \in Texts(i)
  /\ \A i \in issued : i.era = "hash" => i.reference.form = "hash"
  /\ \A n \in held :
       /\ url.query # <<>>
       /\ \E fresh \in Fresh, amount \in Amounts, certified \in BOOLEAN :
            /\ n = Rotated(fresh, amount, certified, url.host)
            /\ certified => Issuance(fresh, amount, url.host) \in issued
       /\ Values(url, {"k1"}) \subseteq {n.k1}
       /\ Values(url, {"c", "sig"}) = n.cs1
       /\ Values(url, {"amount"}) \subseteq {[msat |-> n.amount]}

\* A URL the wallet wrote is about the note it holds and no other: whatever
\* it was made from, it carries no spend and no certificate of an earlier
\* note, declares no other amount, and loses no certificate that the note has,
\* with which it verifies offline (note.rs, with_new_k1, without_k1 and
\* build_note_url).
UrlTellsTheTruth ==
  \A n \in held :
    /\ Values(url, {"k1"}) \subseteq {n.k1}
    /\ Values(url, {"c", "sig"}) = n.cs1
    /\ note_declared_amount(url) \subseteq {n.amount}
    /\ n.cs1 # {} /\ note_k1(url) # {} =>
         \E check \in check_note_url(url) :
           is_verified(check) /\ check.certificate = "OutputKey"

\* A URL that verifies offline, whoever put it together, is about a note that
\* was issued for the amount it declares and, if its certificate names the
\* mint, at that mint (signature.rs, check_note).
VerifiedMeansIssued ==
  \A check \in check_note_url(url) :
    is_verified(check) =>
      \E i \in issued :
        /\ check.output_key = KeyOf(i)
        /\ note_declared_amount(url) = {i.amount}
        /\ check.certificate = "OutputKey" => i.domain = spend_domain_of(url.host)

\* A certificate that reads as stating an amount verifies for no other
\* (signature.rs, certificate_bytes).
StatedIsCertified ==
  \A check \in check_note_url(url), cs1 \in note_signature(url) :
    decode_cs1_with_amount(cs1) \subseteq note_declared_amount(url)

\* The URL a note is looked up by names the note of the spend, and carries
\* neither the spend nor a certificate, whatever was in the URL it is made
\* from (note.rs, build_note_info_url_by_hash; recoverable.rs, note_lookup_of).
LookupHidesTheSpend ==
  \A k1 \in note_k1(url) :
    \A reference \in note_lookup_of(k1) :
      LET lookup == build_note_info_url_by_hash(url, reference)
      IN /\ \A i \in DOMAIN lookup.query :
              lookup.query[i].value \notin Values(url, {"k1", "c", "sig"})
         /\ UNION {decode_note(p) : p \in first_param(lookup, "p")} = note_id_of(k1)

\* A watcher that knows what the note is looked up by is told what the holder
\* is told of its certificate, but for an old one over a bearer hash, which
\* the cp1 of a bearer note's cw1 does not disclose (signature.rs,
\* check_note_certificate).
WatcherAgrees ==
  \A k1 \in note_k1(url), amount \in note_declared_amount(url),
     cs1 \in note_signature(url) :
    LET holder == {check.certificate : check \in check_note(k1, url.host, amount, cs1)}
        watcher == UNION {check_note_certificate(reference, url.host, amount, cs1) :
                            reference \in note_lookup_of(k1)}
    IN watcher = IF k1.form = "cw1" THEN holder \ {"LegacyHash"} ELSE holder
=============================================================================
