------------------------------ MODULE NoteUrls ------------------------------
(***************************************************************************)
(* Note URLs, src/note.rs: a host and the parameters of its query, in the  *)
(* order they stand in, where a name may stand more than once.             *)
(***************************************************************************)
EXTENDS Certificates, SequencesExt

Param(name, value) == [name |-> name, value |-> value]

\* Where the parameters of a name stand.
Named(url, name) == {i \in DOMAIN url.query : url.query[i].name = name}

first_param(url, name) ==
  {url.query[i].value : i \in {j \in Named(url, name) :
                                \A n \in Named(url, name) : j <= n}}

Without(url, names) ==
  FlattenSeq([i \in DOMAIN url.query |->
                IF url.query[i].name \in names THEN <<>> ELSE <<url.query[i]>>])

note_k1(url) == first_param(url, "k1")

\* c, or else the sig of before it was called that.
note_signature(url) ==
  IF first_param(url, "c") # {} THEN first_param(url, "c") ELSE first_param(url, "sig")

\* The amount declared on its own, or else in the prefix of the certificate.
note_declared_amount(url) ==
  IF first_param(url, "amount") # {} THEN {a.msat : a \in first_param(url, "amount")}
  ELSE UNION {decode_cs1_with_amount(c) : c \in note_signature(url)}

\* resolve_note_input, of a URL that may be fetched: whether it is a note.
is_valid_note_input(url) == \E k1 \in note_k1(url) : note_id_of(k1) # {}

Appended(query, name, values) == query \o SetToSeq({Param(name, v) : v \in values})

build_note_url(link, k1, amount) ==
  [host |-> link.host,
   query |-> Appended(Append(Without(link, {"k1", "amount"}), Param("k1", k1)),
                      "amount", {[msat |-> a] : a \in amount})]

\* A mistake to catch: only what build_note_url replaces is left out.
info_url_beside_the_spend(link, reference) ==
  [host |-> link.host,
   query |-> Append(Without(link, {"amount", "p", "h"}), Param("p", reference))]

\* Of a reference that decode_note takes.
build_note_info_url_by_hash(link, reference) ==
  [host |-> link.host,
   query |-> Append(Without(link, {"k1", "amount", "c", "sig", "p", "h"}),
                    Param("p", reference))]

\* What becomes of the parameter at i when a note's secret is swapped out.
\* k1 and cs1 are Options, and a certificate that states its amount replaces it.
Swapped(query, i, k1, amount_msat, cs1) ==
  LET stated == \E c \in cs1 : decode_cs1_with_amount(c) # {}
      certs == {"c", "sig"}
  IN CASE query[i].name = "k1" -> Appended(<<>>, "k1", k1)
       [] query[i].name = "amount" ->
            Appended(<<>>, "amount", IF stated THEN {} ELSE {[msat |-> amount_msat]})
       [] query[i].name \in certs ->
            Appended(<<>>, "c",
                     IF \E j \in 1..(i - 1) : query[j].name \in certs THEN {} ELSE cs1)
       [] OTHER -> <<query[i]>>

\* A mistake to catch: without a new certificate, the old one stays.
rewritten_keeping(url, k1, amount_msat, cs1) ==
  LET kept == IF cs1 = {} THEN note_signature(url) ELSE cs1
  IN [host |-> url.host,
      query |-> Appended(Appended(Without(url, {"k1", "amount", "c", "sig"}), "k1", k1)
                           \o <<Param("amount", [msat |-> amount_msat])>>, "c", kept)]

\* with_new_k1 and, where there is no new secret to write, without_k1.
Rewritten(url, k1, amount_msat, cs1) ==
  LET stated == \E c \in cs1 : decode_cs1_with_amount(c) # {}
      Saw(names) == \E i \in DOMAIN url.query : url.query[i].name \in names
      swapped == FlattenSeq([i \in DOMAIN url.query |->
                               Swapped(url.query, i, k1, amount_msat, cs1)])
      withK1 == IF Saw({"k1"}) THEN swapped ELSE Appended(swapped, "k1", k1)
      withAmount ==
        IF Saw({"amount"}) \/ stated THEN withK1
        ELSE Append(withK1, Param("amount", [msat |-> amount_msat]))
  IN [host |-> url.host,
      query |-> IF Saw({"c", "sig"}) THEN withAmount ELSE Appended(withAmount, "c", cs1)]

with_new_k1(url, k1, amount_msat, cs1) == Rewritten(url, {k1}, amount_msat, cs1)
without_k1(url, amount_msat, cs1) == Rewritten(url, {}, amount_msat, cs1)

\* NoteCheck, of a URL that may be fetched.
check_note_url(url) ==
  UNION {check_note(k1, url.host, amount, cs1) :
           k1 \in note_k1(url), amount \in note_declared_amount(url),
           cs1 \in note_signature(url)}
=============================================================================
