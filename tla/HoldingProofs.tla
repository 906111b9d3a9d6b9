---------------------------- MODULE HoldingProofs ----------------------------
(***************************************************************************)
(* A note URL from hand to hand: for every set of notes, hosts, spends and *)
(* secrets, and whatever URL a wallet is handed, what it makes of it is    *)
(* about its own note, and what verifies is about a note that was issued.  *)
(* Everything rests on Lineage, which says what a URL is made of.          *)
(***************************************************************************)
EXTENDS OfflineProofs

(***************************************************************************)
(* Queries: what each builder leaves of one and writes into it.            *)
(***************************************************************************)
\* What is read first under a name stands there, and something does if any
\* parameter has that name.
LEMMA FirstParams ==
  ASSUME NEW u, IsList(u.query), NEW name
  PROVE  /\ \A v \in first_param(u, name) :
              \E p \in Range(u.query) : p.name = name /\ p.value = v
         /\ \A p \in Range(u.query) : p.name = name => first_param(u, name) # {}
<1> DEFINE q == u.query
<1>1. /\ Len(q) \in Nat /\ DOMAIN q = 1..Len(q)
      /\ \A i \in DOMAIN q : q[i] \in Range(q)
      /\ \A x \in Range(q) : \E i \in DOMAIN q : q[i] = x
  BY ListElements
<1>2. ASSUME NEW v \in first_param(u, name)
      PROVE  \E p \in Range(q) : p.name = name /\ p.value = v
  BY <1>1, <1>2 DEF first_param, Named
<1>3. ASSUME NEW p \in Range(q), p.name = name
      PROVE  first_param(u, name) # {}
  <2>1. Named(u, name) \in SUBSET Nat /\ Named(u, name) # {}
    BY <1>1, <1>3 DEF Named
  <2>2. PICK least \in Named(u, name) : \A n \in Named(u, name) : least <= n
    BY <2>1, LeastElement
  <2> QED BY <2>2 DEF first_param
<1> QED BY <1>2, <1>3

\* Of two that are read first under a name, both are one.
LEMMA FirstIsOne ==
  ASSUME NEW u, IsList(u.query), NEW name,
         NEW x \in first_param(u, name), NEW y \in first_param(u, name)
  PROVE  x = y
<1>1. DOMAIN u.query \subseteq Nat
  BY ListElements
<1> QED BY <1>1 DEF first_param, Named

\* What is left out is left out, and nothing else.
LEMMA WithoutParams ==
  ASSUME NEW u, IsList(u.query), NEW names
  PROVE  /\ IsList(Without(u, names))
         /\ Range(Without(u, names)) = {p \in Range(u.query) : p.name \notin names}
<1> DEFINE q == u.query
           n == Len(q)
           kept == [i \in DOMAIN q |-> IF q[i].name \in names THEN <<>> ELSE <<q[i]>>]
<1>1. /\ n \in Nat /\ DOMAIN q = 1..n
      /\ \A i \in DOMAIN q : q[i] \in Range(q)
      /\ \A x \in Range(q) : \E i \in DOMAIN q : q[i] = x
  BY ListElements
<1>2. /\ kept = [i \in 1..n |-> kept[i]]
      /\ \A i \in 1..n : IsList(kept[i])
      /\ \A i \in 1..n : Range(kept[i]) = IF q[i].name \in names THEN {} ELSE {q[i]}
  BY <1>1, ShortLists
<1>3. Without(u, names) = FlattenSeq(kept)
  BY DEF Without
<1> HIDE DEF kept
<1>4. IsList(FlattenSeq(kept))
      /\ Range(FlattenSeq(kept)) = UNION {Range(kept[i]) : i \in 1..n}
  BY <1>1, <1>2, FlattenLists
<1>5. ASSUME NEW p
      PROVE  p \in UNION {Range(kept[i]) : i \in 1..n}
               <=> p \in Range(q) /\ p.name \notin names
  <2>1. p \in UNION {Range(kept[i]) : i \in 1..n} <=> \E i \in 1..n : p \in Range(kept[i])
    OBVIOUS
  <2>2. \A i \in 1..n : p \in Range(kept[i]) <=> q[i].name \notin names /\ p = q[i]
    BY <1>2
  <2>3. p \in Range(q) <=> \E i \in 1..n : p = q[i]
    BY <1>1
  <2> HIDE DEF n, q
  <2> QED BY <2>1, <2>2, <2>3
<1> QED BY <1>3, <1>4, <1>5

\* What is appended, if anything, is one parameter more.
LEMMA AppendedParams ==
  ASSUME NEW query, IsList(query), NEW name, NEW values, IsFiniteSet(values)
  PROVE  /\ IsList(Appended(query, name, values))
         /\ Range(Appended(query, name, values))
              = Range(query) \cup {Param(name, v) : v \in values}
<1> DEFINE T == {Param(name, v) : v \in values}
<1>1. IsFiniteSet(T)
  <2> DEFINE f == [v \in values |-> Param(name, v)]
  <2>1. f \in Surjection(values, T)
    BY DEF Surjection
  <2> QED BY <2>1, FS_Surjection
<1>2. SetToSeq(T) \in Seq(T) /\ Range(SetToSeq(T)) = T
  BY <1>1, ListOfSet
<1>3. IsList(SetToSeq(T))
  BY <1>2, SequenceIsList
<1> HIDE DEF T
<1>4. IsList(query \o SetToSeq(T)) /\ Range(query \o SetToSeq(T)) = Range(query) \cup T
  BY <1>2, <1>3, ConcatLists
<1> QED BY <1>4 DEF Appended, T

\* A mint's link with a k1 and an amount in it.
LEMMA BuiltParams ==
  ASSUME NEW u, IsList(u.query), NEW k1, NEW amount, IsFiniteSet(amount)
  PROVE  LET built == build_note_url(u, k1, amount)
         IN /\ built.host = u.host /\ IsList(built.query)
            /\ Range(built.query) = {p \in Range(u.query) : p.name \notin {"k1", "amount"}}
                                    \cup {Param("k1", k1)}
                                    \cup {Param("amount", [msat |-> a]) : a \in amount}
<1> DEFINE kept == Without(u, {"k1", "amount"})
           values == {[msat |-> a] : a \in amount}
<1>1. /\ IsList(kept)
      /\ Range(kept) = {p \in Range(u.query) : p.name \notin {"k1", "amount"}}
  BY WithoutParams
<1>2. IsFiniteSet(values)
  <2> DEFINE f == [a \in amount |-> [msat |-> a]]
  <2>1. f \in Surjection(amount, values)
    BY DEF Surjection
  <2> QED BY <2>1, FS_Surjection
<1>3. {Param("amount", v) : v \in values} = {Param("amount", [msat |-> a]) : a \in amount}
  OBVIOUS
<1> DEFINE built == build_note_url(u, k1, amount)
<1>4. built.host = u.host /\ built.query = Appended(Append(kept, Param("k1", k1)), "amount", values)
  BY DEF build_note_url
<1> HIDE DEF kept, values, built
<1>5. /\ IsList(Append(kept, Param("k1", k1)))
      /\ Range(Append(kept, Param("k1", k1))) = Range(kept) \cup {Param("k1", k1)}
  BY <1>1, AppendList
<1>6. /\ IsList(built.query)
      /\ Range(built.query) = Range(kept) \cup {Param("k1", k1)}
                               \cup {Param("amount", v) : v \in values}
  BY <1>2, <1>4, <1>5, AppendedParams
<1> QED BY <1>1, <1>3, <1>4, <1>6 DEF built

\* The URL a note is looked up by.
LEMMA LookupParams ==
  ASSUME NEW u, IsList(u.query), NEW reference
  PROVE  LET lookup == build_note_info_url_by_hash(u, reference)
         IN /\ IsList(lookup.query)
            /\ Range(lookup.query)
                 = {p \in Range(u.query) : p.name \notin {"k1", "amount", "c", "sig", "p", "h"}}
                   \cup {Param("p", reference)}
<1> DEFINE kept == Without(u, {"k1", "amount", "c", "sig", "p", "h"})
           lookup == build_note_info_url_by_hash(u, reference)
<1>1. /\ IsList(kept)
      /\ Range(kept) = {p \in Range(u.query) :
                          p.name \notin {"k1", "amount", "c", "sig", "p", "h"}}
  BY WithoutParams
<1>2. lookup.query = Append(kept, Param("p", reference))
  BY DEF build_note_info_url_by_hash
<1> HIDE DEF kept, lookup
<1>3. /\ IsList(lookup.query)
      /\ Range(lookup.query) = Range(kept) \cup {Param("p", reference)}
  BY <1>1, <1>2, AppendList
<1> QED BY <1>1, <1>3 DEF lookup

\* What a swap writes: its k1, its certificate, and its amount unless the
\* certificate states it.
Written(k1, amount, cs1) ==
  {Param("k1", v) : v \in k1} \cup {Param("c", c) : c \in cs1}
  \cup {p \in {Param("amount", [msat |-> amount])} :
          \A c \in cs1 : decode_cs1_with_amount(c) = {}}

Others(query) == {p \in Range(query) : p.name \notin {"k1", "amount", "c", "sig"}}

\* Each of them is written exactly where the URL had one, or else at its end.
LEMMA RewrittenParams ==
  ASSUME NEW u, IsList(u.query), NEW k1, IsFiniteSet(k1), NEW amount,
         NEW cs1, IsFiniteSet(cs1)
  PROVE  LET r == Rewritten(u, k1, amount, cs1)
         IN /\ r.host = u.host /\ IsList(r.query)
            /\ Range(r.query) = Others(u.query) \cup Written(k1, amount, cs1)
<1> DEFINE q == u.query
           n == Len(q)
           stated == \E c \in cs1 : decode_cs1_with_amount(c) # {}
           certs == {"c", "sig"}
           K == {Param("k1", v) : v \in k1}
           C == {Param("c", c) : c \in cs1}
           A == {p \in {Param("amount", [msat |-> amount])} : ~ stated}
           Saw(names) == \E i \in DOMAIN q : q[i].name \in names
           pieces == [i \in DOMAIN q |-> Swapped(q, i, k1, amount, cs1)]
<1>1. /\ n \in Nat /\ DOMAIN q = 1..n
      /\ \A i \in DOMAIN q : q[i] \in Range(q)
      /\ \A x \in Range(q) : \E i \in DOMAIN q : q[i] = x
  BY ListElements
<1>2. ASSUME NEW i \in 1..n
      PROVE  /\ IsList(pieces[i])
             /\ Range(pieces[i]) =
                  CASE q[i].name = "k1" -> K
                    [] q[i].name = "amount" -> A
                    [] q[i].name \in certs ->
                         IF \E j \in 1..(i - 1) : q[j].name \in certs THEN {} ELSE C
                    [] OTHER -> {q[i]}
  <2>0. pieces[i] = Swapped(q, i, k1, amount, cs1)
    BY <1>1
  <2>1. CASE q[i].name = "k1"
    <3>1. pieces[i] = Appended(<<>>, "k1", k1)
      BY <2>0, <2>1 DEF Swapped
    <3> QED BY <2>1, <3>1, ShortLists, AppendedParams
  <2>2. CASE q[i].name = "amount"
    <3> DEFINE values == IF stated THEN {} ELSE {[msat |-> amount]}
    <3>1. pieces[i] = Appended(<<>>, "amount", values)
      BY <2>0, <2>2 DEF Swapped
    <3>2. IsFiniteSet(values) /\ {Param("amount", v) : v \in values} = A
      BY FS_EmptySet, FS_Singleton
    <3> HIDE DEF values, A, pieces
    <3>3. IsList(pieces[i]) /\ Range(pieces[i]) = {Param("amount", v) : v \in values}
      BY <3>1, <3>2, ShortLists, AppendedParams
    <3>4. IsList(pieces[i]) /\ Range(pieces[i]) = A
      BY <3>2, <3>3, Zenon
    <3> QED BY <2>2, <3>4
  <2>3. CASE q[i].name \in certs
    <3> DEFINE values == IF \E j \in 1..(i - 1) : q[j].name \in certs THEN {} ELSE cs1
    <3>1. pieces[i] = Appended(<<>>, "c", values)
      BY <2>0, <2>3 DEF Swapped
    <3>2. IsFiniteSet(values)
      BY FS_EmptySet
    <3>3. {Param("c", v) : v \in values}
            = IF \E j \in 1..(i - 1) : q[j].name \in certs THEN {} ELSE C
      OBVIOUS
    <3> HIDE DEF values, C
    <3>4. IsList(pieces[i]) /\ Range(pieces[i]) = {Param("c", v) : v \in values}
      BY <3>1, <3>2, ShortLists, AppendedParams
    <3> QED BY <2>3, <3>3, <3>4
  <2>4. CASE q[i].name \notin certs \cup {"k1", "amount"}
    <3>1. pieces[i] = <<q[i]>>
      BY <2>0, <2>4 DEF Swapped
    <3> QED BY <2>4, <3>1, ShortLists
  <2> QED BY <2>1, <2>2, <2>3, <2>4
<1> DEFINE swapped == FlattenSeq(pieces)
<1>3. pieces = [i \in 1..n |-> pieces[i]]
  BY <1>1
<1> HIDE DEF pieces
<1>4. IsList(swapped) /\ Range(swapped) = UNION {Range(pieces[i]) : i \in 1..n}
  BY <1>1, <1>2, <1>3, FlattenLists
<1> DEFINE first == \E i \in 1..n : q[i].name \in certs
                                     /\ \A j \in 1..(i - 1) : q[j].name \notin certs
<1>5. Saw(certs) <=> first
  <2>1. first => Saw(certs)
    BY <1>1
  <2>2. ASSUME Saw(certs) PROVE first
    <3> DEFINE T == {i \in 1..n : q[i].name \in certs}
    <3>1. T \in SUBSET Nat /\ T # {}
      BY <1>1, <2>2
    <3>2. PICK least \in T : \A i \in T : least <= i
      <4> HIDE DEF T
      <4> QED BY <3>1, LeastElement
    <3>3. \A j \in 1..(least - 1) : j \in 1..n /\ ~ (least <= j)
      BY <1>1
    <3> QED BY <3>2, <3>3
  <2> QED BY <2>1, <2>2
<1>6. Range(swapped) = Others(q) \cup {p \in K : Saw({"k1"})}
                       \cup {p \in A : Saw({"amount"})} \cup {p \in C : Saw(certs)}
  <2> HIDE DEF K, A, C
  <2>1. ASSUME NEW p
        PROVE  p \in Range(swapped) <=> \E i \in 1..n : p \in Range(pieces[i])
    BY <1>4
  <2>2. ASSUME NEW p, NEW i \in 1..n
        PROVE  p \in Range(pieces[i]) <=>
                 \/ q[i].name = "k1" /\ p \in K
                 \/ q[i].name = "amount" /\ p \in A
                 \/ /\ q[i].name \in certs /\ p \in C
                    /\ \A j \in 1..(i - 1) : q[j].name \notin certs
                 \/ q[i].name \notin certs \cup {"k1", "amount"} /\ p = q[i]
    BY <1>2
  <2>3. ASSUME NEW p
        PROVE  p \in Others(q) <=>
                 \E i \in 1..n : q[i].name \notin certs \cup {"k1", "amount"} /\ p = q[i]
    BY <1>1 DEF Others
  <2>4. /\ Saw({"k1"}) <=> \E i \in 1..n : q[i].name = "k1"
        /\ Saw({"amount"}) <=> \E i \in 1..n : q[i].name = "amount"
    BY <1>1
  <2> HIDE DEF Saw, swapped, q, n
  <2> QED BY <1>5, <2>1, <2>2, <2>3, <2>4
<1> DEFINE withK1 == IF Saw({"k1"}) THEN swapped ELSE Appended(swapped, "k1", k1)
           withAmount == IF Saw({"amount"}) \/ stated THEN withK1
                         ELSE Append(withK1, Param("amount", [msat |-> amount]))
           r == Rewritten(u, k1, amount, cs1)
<1>7. /\ r.host = u.host
      /\ r.query = IF Saw(certs) THEN withAmount ELSE Appended(withAmount, "c", cs1)
  BY DEF Rewritten, pieces
<1>8. IsList(withK1) /\ Range(withK1) = Range(swapped) \cup {p \in K : ~ Saw({"k1"})}
  <2> HIDE DEF swapped, Saw
  <2> QED BY <1>4, AppendedParams
<1> HIDE DEF withK1
<1>9. /\ IsList(withAmount)
      /\ Range(withAmount) = Range(withK1) \cup {p \in A : ~ Saw({"amount"})}
  <2> HIDE DEF Saw, stated
  <2> QED BY <1>8, AppendList
<1> HIDE DEF withAmount
<1>10. IsList(r.query) /\ Range(r.query) = Range(withAmount) \cup {p \in C : ~ Saw(certs)}
  <2> HIDE DEF Saw, r
  <2> QED BY <1>7, <1>9, AppendedParams
<1>11. Written(k1, amount, cs1) = K \cup C \cup A
  BY DEF Written
<1> HIDE DEF K, C, A, Saw, r
<1>12. Range(r.query) = Others(q) \cup Written(k1, amount, cs1)
  BY <1>6, <1>8, <1>9, <1>10, <1>11
<1> QED BY <1>7, <1>10, <1>12 DEF r

(***************************************************************************)
(* What a wallet draws, and the note it gets for it.                       *)
(***************************************************************************)
HashRoots == {tapleaf_hash(bearer_leaf(sha256(p)), TAPLEAF_VERSION) : p \in Preimages}
HeldKeys == [internal : Keys, root : {AsIs}] \cup [internal : {NUMS}, root : HashRoots]

\* The key of a bearer note is nobody's, tweaked by its leaf.
LEMMA BearerKey ==
  ASSUME NEW h
  PROVE  /\ output_key_of(bearer_leaf(h), bearer_control) = {bearer_note(h)}
         /\ bearer_note(h) = [internal |-> NUMS,
                              root |-> tapleaf_hash(bearer_leaf(h), TAPLEAF_VERSION)]
<1> DEFINE leafHash == tapleaf_hash(bearer_leaf(h), TAPLEAF_VERSION)
           path == bearer_control.path
           IsNode(f) == f = [i \in 0..Len(path) |->
                               IF i = 0
                               THEN tapleaf_hash(bearer_leaf(h), bearer_control.version)
                               ELSE tapbranch_hash(f[i - 1], path[i])]
           node == CHOOSE f : IsNode(f)
<1>1. Len(path) = 0 /\ bearer_control.version = TAPLEAF_VERSION
      /\ bearer_control.parity = TRUE /\ bearer_control.internal = NUMS
  BY DEF bearer_control
<1>2. IsNode([i \in 0..0 |-> leafHash])
  BY <1>1
<1>3. IsNode(node)
  <2> HIDE DEF IsNode
  <2> QED BY <1>2
<1>4. node[0] = leafHash
  <2>1. 0 \in 0..Len(path)
    BY <1>1
  <2> HIDE DEF path, node
  <2> QED BY <1>1, <1>3, <2>1
<1>5. output_key_of(bearer_leaf(h), bearer_control) = taproot_tweak(NUMS, node[0])
  <2>1. output_key_of(bearer_leaf(h), bearer_control)
          = IF bearer_control.parity
            THEN taproot_tweak(bearer_control.internal, node[Len(path)]) ELSE {}
    BY DEF output_key_of
  <2> HIDE DEF node, path
  <2> QED BY <1>1, <2>1
<1>6. taproot_tweak(NUMS, node[0]) = {[internal |-> NUMS, root |-> leafHash]}
  <2> HIDE DEF node, leafHash
  <2> QED BY <1>4, SpendsAssumption DEF taproot_tweak
<1> HIDE DEF node, leafHash
<1> QED BY <1>5, <1>6 DEF bearer_note, The, leafHash

\* The reference of a certified note names one output key.
LEMMA KeyOfReference ==
  /\ \A k \in Keys : decode_note(cp1(KeyNote(k))) = {KeyNote(k)}
  /\ \A h : decode_note(hash(h)) = {bearer_note(h)}
  /\ \A i : /\ \A k \in Keys : i.reference = cp1(KeyNote(k)) => KeyOf(i) = KeyNote(k)
            /\ \A h : i.reference = hash(h) => KeyOf(i) = bearer_note(h)
<1>1. \A k \in Keys : decode_note(cp1(KeyNote(k))) = {KeyNote(k)}
  BY SpendsAssumption DEF decode_note, cp1, KeyNote, is_x_only_point
<1>2. \A h : decode_note(hash(h)) = {bearer_note(h)}
  BY DEF decode_note, hash
<1> QED BY <1>1, <1>2 DEF KeyOf, The

\* What a wallet writes for what it drew is a k1 of the one note that it is
\* certified as, at the key a wallet can hold.
LEMMA FreshSpend ==
  ASSUME NEW fresh \in Fresh, NEW host, NEW amount
  PROVE  LET k1 == SpendOf(fresh, host)
             issuance == Issuance(fresh, amount, host)
         IN /\ IsK1(k1)
            /\ \E s : decode_spend(k1) = {s} /\ output_key(s) = KeyOf(issuance)
            /\ The(note_id_of(k1)) = KeyOf(issuance)
            /\ KeyOf(issuance) \in HeldKeys
            /\ issuance.reference \in References
<1> DEFINE k1 == SpendOf(fresh, host)
           issuance == Issuance(fresh, amount, host)
           secret == fresh.secret
<1>1. CASE fresh.kind = "key"
  <2>1. secret \in Keys
    BY <1>1, HoldingAssumption
  <2>2. k1 = sign_note_ownership(secret, host) /\ issuance.reference = cp1(KeyNote(secret))
    BY <1>1 DEF SpendOf, Issuance
  <2>3. k1.form = "ck1" /\ k1.key = KeyNote(secret) /\ "form" \in DOMAIN k1
    BY <2>2 DEF sign_note_ownership
  <2>4. is_x_only_point(KeyNote(secret)) /\ DOMAIN KeyNote(secret) = {"internal", "root"}
    BY <2>1, SpendsAssumption DEF KeyNote, is_x_only_point
  <2>5. IsK1(k1)
    BY <2>3, <2>4 DEF IsK1
  <2>6. decode_spend(k1) = {k1} /\ output_key(k1) = KeyNote(secret)
    BY <2>3, <2>4 DEF decode_spend, output_key
  <2>7. KeyOf(issuance) = KeyNote(secret)
    BY <2>1, <2>2, KeyOfReference
  <2>8. The(note_id_of(k1)) = KeyNote(secret)
    BY <2>6 DEF note_id_of, The
  <2>9. KeyNote(secret) \in HeldKeys /\ issuance.reference \in References
    BY <2>1, <2>2 DEF HeldKeys, KeyNote, References
  <2> QED BY <2>5, <2>6, <2>7, <2>8, <2>9
<1>2. CASE fresh.kind = "preimage"
  <2>1. secret \in Preimages
    BY <1>2, HoldingAssumption
  <2>2. k1 = [form |-> "preimage", preimage |-> secret]
        /\ issuance.reference = hash(sha256(secret))
    BY <1>2 DEF SpendOf, Issuance
  <2>3. IsK1(k1)
    BY <2>1, <2>2 DEF IsK1
  <2>4. decode_spend(k1) = {bearer_cw1(secret)}
    BY <2>2 DEF decode_spend
  <2>5. output_key(bearer_cw1(secret)) = bearer_note(sha256(secret))
    BY <2>1, BearerSpend
  <2>6. KeyOf(issuance) = bearer_note(sha256(secret))
    BY <2>2, KeyOfReference
  <2>7. The(note_id_of(k1)) = bearer_note(sha256(secret))
    BY <2>4, <2>5 DEF note_id_of, The
  <2>8. bearer_note(sha256(secret)) \in HeldKeys
    BY <2>1, BearerKey DEF HeldKeys, HashRoots
  <2>9. issuance.reference \in References
    BY <2>1, <2>2 DEF References
  <2> QED BY <2>3, <2>4, <2>5, <2>6, <2>7, <2>8, <2>9
<1> QED BY <1>1, <1>2, HoldingAssumption

\* A certificate states the amount it is written with.
LEMMA CertificateStates ==
  ASSUME NEW amount \in Amounts, NEW sig, sig.small = TRUE
  PROVE  decode_cs1_with_amount(encode_cs1_with_amount(amount, sig)) = {amount}
<1> DEFINE c == encode_cs1_with_amount(amount, sig)
           prefix == encode_amount_suffix(amount)
<1>1. c.prefix = prefix /\ c.sig = sig
  BY DEF encode_cs1_with_amount
<1>2. amount \in 0..MaxAmount
  BY HoldingAssumption, AmountsAssumption
<1>3. decode_amount_suffix(prefix) = {amount}
  BY <1>2, AmountSurvivesPrefix
<1>4. DOMAIN prefix = {"digits", "unit"}
  BY DEF encode_amount_suffix
<1>5. DOMAIN Fixed = {"text"} /\ DOMAIN Hex = {"text"}
  BY DEF Fixed, Hex
<1>6. prefix \notin {Fixed, Hex}
  <2> HIDE DEF prefix
  <2> QED BY <1>4, <1>5
<1> HIDE DEF prefix, c
<1> QED BY <1>1, <1>3, <1>6 DEF decode_cs1_with_amount, c

\* A fresh note is of those there can be, and so is its certificate.
LEMMA FreshCertificate ==
  ASSUME NEW fresh \in Fresh, NEW host \in Hosts, NEW amount \in Amounts,
         NEW certified \in BOOLEAN
  PROVE  LET n == Rotated(fresh, amount, certified, host)
             issuance == Issuance(fresh, amount, host)
         IN /\ issuance \in Certified /\ issuance.era = "domain"
            /\ n.k1 = SpendOf(fresh, host) /\ n.amount = amount /\ n.key = KeyOf(issuance)
            /\ IsFiniteSet(n.cs1)
            /\ n.cs1 # {} => certified
            /\ \A c \in n.cs1 : c \in Texts(issuance) /\ decode_cs1_with_amount(c) = {amount}
<1> DEFINE n == Rotated(fresh, amount, certified, host)
           issuance == Issuance(fresh, amount, host)
           sig == [over |-> MessageOf(issuance), layout |-> "trailing", small |-> TRUE]
           c == encode_cs1_with_amount(amount, sig)
<1>1. issuance.reference \in References /\ The(note_id_of(SpendOf(fresh, host))) = KeyOf(issuance)
  BY FreshSpend
<1>2. /\ issuance = [reference |-> issuance.reference, amount |-> amount,
                     domain |-> spend_domain_of(host), era |-> "domain"]
      /\ issuance.era = "domain"
  BY DEF Issuance
<1>3. spend_domain_of(host) \in Domains
  BY DEF Domains
<1>4. issuance \in Certified
  <2> HIDE DEF issuance
  <2> QED BY <1>1, <1>2, <1>3 DEF Certified, Eras
<1>5. /\ n.k1 = SpendOf(fresh, host) /\ n.amount = amount /\ n.key = KeyOf(issuance)
      /\ n.cs1 = IF certified THEN {c} ELSE {}
  BY <1>1 DEF Rotated
<1>6. sig \in Signatures(issuance)
  <2> HIDE DEF issuance
  <2> QED BY DEF Signatures
<1>7. c \in Texts(issuance)
  <2>1. encode_amount_suffix(amount) \in {encode_amount_suffix(a) : a \in Amounts}
    OBVIOUS
  <2> HIDE DEF sig, issuance
  <2> QED BY <1>6, <2>1 DEF Texts, encode_cs1_with_amount
<1>8. decode_cs1_with_amount(c) = {amount}
  BY CertificateStates
<1>9. IsFiniteSet({c}) /\ IsFiniteSet({})
  BY FS_Singleton, FS_EmptySet
<1> HIDE DEF n, c, sig, issuance
<1> QED BY <1>2, <1>4, <1>5, <1>7, <1>8, <1>9 DEF n, issuance

(***************************************************************************)
(* Lineage, step by step.                                                  *)
(***************************************************************************)
Names == {"k1", "amount", "c", "sig", "tag"}

\* At first there is no URL, and no note.
LEMMA InitLineage == HoldInit => HoldTypeOK /\ Lineage
<1> SUFFICES ASSUME HoldInit PROVE HoldTypeOK /\ Lineage
  OBVIOUS
<1>1. issued = {} /\ held = {} /\ url.query = <<>> /\ url.host \in Hosts
  BY HoldingAssumption DEF HoldInit, NoUrl
<1>2. Range(url.query) = {} /\ url.query \in Seq(Range(url.query)) /\ DOMAIN url.query = {}
  BY <1>1 DEF Range
<1>3. \A names : Values(url, names) = {}
  BY <1>2 DEF Values
<1>4. HoldTypeOK
  BY <1>1, <1>2 DEF HoldTypeOK
<1>5. Lineage
  BY <1>1, <1>3 DEF Lineage
<1> QED BY <1>4, <1>5

\* A note more that is certified takes nothing from a URL.
LEMMA IssueLineage == HoldTypeOK /\ Lineage /\ Issue => HoldTypeOK' /\ Lineage'
<1> SUFFICES ASSUME HoldTypeOK, Lineage, Issue PROVE HoldTypeOK' /\ Lineage'
  OBVIOUS
<1>1. PICK i \in Certified : issued' = issued \cup {i} /\ (i.era = "hash" => i.reference.form = "hash")
  BY DEF Issue
<1>2. url' = url /\ held' = held
  BY DEF Issue
<1>3. HoldTypeOK'
  BY <1>1, <1>2 DEF HoldTypeOK
<1>4. Lineage'
  BY <1>1, <1>2 DEF Lineage
<1> QED BY <1>3, <1>4

\* A URL is typed and of good lineage if each of its parameters is and it has
\* a tag; nothing else is asked while the wallet holds no note.
LEMMA ArriveLineage == HoldTypeOK /\ Lineage /\ Arrive => HoldTypeOK' /\ Lineage'
<1> SUFFICES ASSUME HoldTypeOK, Lineage, Arrive PROVE HoldTypeOK' /\ Lineage'
  OBVIOUS
<1>1. held = {} /\ held' = {} /\ issued' = issued
  <2>1. url.query = <<>>
    BY DEF Arrive, NoUrl
  <2> QED BY <2>1 DEF Arrive, Lineage
<1>2. PICK i \in issued, host \in Hosts, k1 \in Spendings, amount \in SUBSET Amounts :
        \E cs1 \in Texts(i), names \in {<<"c">>, <<"sig", "c">>} :
          url' = [host |-> host,
                  query |-> <<Param("k1", k1), Param("tag", [text |-> "w"])>>
                            \o SetToSeq({Param("amount", [msat |-> a]) : a \in amount})
                            \o [n \in DOMAIN names |-> Param(names[n], cs1)]]
  BY DEF Arrive
<1>3. PICK cs1 \in Texts(i), names \in {<<"c">>, <<"sig", "c">>} :
        url' = [host |-> host,
                query |-> <<Param("k1", k1), Param("tag", [text |-> "w"])>>
                          \o SetToSeq({Param("amount", [msat |-> a]) : a \in amount})
                          \o [n \in DOMAIN names |-> Param(names[n], cs1)]]
  BY <1>2
<1> DEFINE head == <<Param("k1", k1), Param("tag", [text |-> "w"])>>
           stated == {Param("amount", [msat |-> a]) : a \in amount}
           certs == [n \in DOMAIN names |-> Param(names[n], cs1)]
<1>4. IsList(head) /\ Range(head) = {Param("k1", k1), Param("tag", [text |-> "w"])}
  <2> DEFINE S == {Param("k1", k1), Param("tag", [text |-> "w"])}
  <2>1. head \in Seq(S)
    OBVIOUS
  <2>2. Range(head) = S
    BY DEF Range
  <2> QED BY <2>1, <2>2, SequenceIsList
<1>5. IsList(SetToSeq(stated)) /\ Range(SetToSeq(stated)) = stated
  <2>1. IsFiniteSet(amount)
    <3>1. IsFiniteSet(1..MaxAmount)
      BY AmountsAssumption, FS_Interval
    <3>2. amount \subseteq 1..MaxAmount
      BY HoldingAssumption
    <3> QED BY <3>1, <3>2, FS_Subset
  <2>2. IsFiniteSet(stated)
    <3> DEFINE f == [a \in amount |-> Param("amount", [msat |-> a])]
    <3>1. f \in Surjection(amount, stated)
      BY DEF Surjection
    <3> QED BY <2>1, <3>1, FS_Surjection
  <2> HIDE DEF stated
  <2> QED BY <2>2, ListOfSet, SequenceIsList
<1>6. IsList(certs) /\ Range(certs) \subseteq {Param("c", cs1), Param("sig", cs1)}
  <2> DEFINE S == {Param("c", cs1), Param("sig", cs1)}
  <2>1. certs \in Seq(S)
    BY <1>3
  <2> HIDE DEF certs, S
  <2>2. IsList(certs) /\ Range(certs) \subseteq S
    BY <2>1, SequenceIsList
  <2> QED BY <2>2 DEF S
<1>7. url'.host = host /\ url'.query = head \o SetToSeq(stated) \o certs
  BY <1>3
<1> HIDE DEF head, certs
<1>8. /\ IsList(head \o SetToSeq(stated))
      /\ Range(head \o SetToSeq(stated)) = Range(head) \cup stated
  <2> HIDE DEF stated
  <2> QED BY <1>4, <1>5, ConcatLists
<1>9. /\ IsList(url'.query)
      /\ Range(url'.query) = Range(head) \cup stated \cup Range(certs)
  <2> HIDE DEF stated
  <2> QED BY <1>6, <1>7, <1>8, ConcatLists
<1>10. \A p \in Range(url'.query) :
         \/ p = Param("k1", k1)
         \/ p = Param("tag", [text |-> "w"])
         \/ p.name = "amount"
         \/ p.name \in {"c", "sig"} /\ p.value = cs1
  BY <1>4, <1>6, <1>9 DEF Param
<1>11. Param("tag", [text |-> "w"]) \in Range(url'.query)
  BY <1>4, <1>9
<1>12. \A i1 \in DOMAIN url'.query : url'.query[i1].name \in Names
  BY <1>9, <1>10, ListElements DEF Param, Names
<1>13. HoldTypeOK'
  BY <1>1, <1>7, <1>9, <1>12 DEF HoldTypeOK, IsList, Names
<1>14. Values(url', {"tag"}) = {[text |-> "w"]} /\ url'.query # <<>>
  BY <1>10, <1>11, ShortLists DEF Values, Param
<1>15. Values(url', {"k1"}) \subseteq {k1} /\ Values(url', {"c", "sig"}) \subseteq {cs1}
  BY <1>10 DEF Values, Param
<1>16. IsK1(k1)
  BY HoldingAssumption
<1>17. Lineage'
  BY <1>1, <1>3, <1>14, <1>15, <1>16 DEF Lineage
<1> QED BY <1>13, <1>17

\* A swap leaves nothing of the note before in the URL, on a device or not.
LEMMA SwapLineage ==
  ASSUME HoldTypeOK, Lineage,
         NEW fresh \in Fresh, NEW amount \in Amounts, NEW certified \in BOOLEAN,
         Mutated(fresh, amount, certified),
         NEW k1, k1 \in {{SpendOf(fresh, url.host)}, {}},
         url' = Rewritten(url, k1, amount, The(held').cs1)
  PROVE  HoldTypeOK' /\ Lineage'
<1> DEFINE host == url.host
           n == Rotated(fresh, amount, certified, host)
           issuance == Issuance(fresh, amount, host)
<1>1. IsList(url.query) /\ host \in Hosts
  BY DEF HoldTypeOK, IsList
<1>2. url.query # <<>> /\ held' = {n} /\ issued' = issued \cup {i \in {issuance} : certified}
  <2>1. PICK v \in first_param(url, "k1") : TRUE
    BY DEF Mutated, note_k1
  <2>2. Range(url.query) # {}
    BY <1>1, <2>1, FirstParams
  <2> QED BY <2>2, ShortLists DEF Mutated
<1>3. The(held') = n
  BY <1>2 DEF The
<1>4. /\ issuance \in Certified /\ issuance.era = "domain"
      /\ n.k1 = SpendOf(fresh, host) /\ n.amount = amount /\ n.key = KeyOf(issuance)
      /\ IsFiniteSet(n.cs1)
      /\ n.cs1 # {} => certified
      /\ \A c \in n.cs1 : c \in Texts(issuance) /\ decode_cs1_with_amount(c) = {amount}
  BY <1>1, FreshCertificate
<1>5. /\ IsK1(SpendOf(fresh, host)) /\ KeyOf(issuance) \in HeldKeys
  BY FreshSpend
<1>6. n \in {Rotated(fresh, amount, certified, host)}
  OBVIOUS
<1> HIDE DEF n, issuance
<1>7. IsFiniteSet(k1)
  <2>1. IsFiniteSet({}) /\ IsFiniteSet({SpendOf(fresh, url.host)})
    BY FS_Singleton, FS_EmptySet
  <2>2. k1 = {} \/ k1 = {SpendOf(fresh, url.host)}
    OBVIOUS
  <2> QED BY <2>1, <2>2, Zenon
<1>8. /\ url'.host = host /\ IsList(url'.query)
      /\ Range(url'.query) = Others(url.query) \cup Written(k1, amount, n.cs1)
  BY <1>1, <1>3, <1>4, <1>7, RewrittenParams
<1>9. \A p \in Others(url.query) : p.name = "tag" /\ p.value \in Values(url, {"tag"})
  <2>1. \A p \in Range(url.query) : p.name \in Names
    BY <1>1, ListElements DEF HoldTypeOK, Names
  <2> QED BY <2>1 DEF Others, Names, Values
<1>10. \A p \in Range(url'.query) :
         \/ p.name = "tag" /\ p.value \in Values(url, {"tag"})
         \/ p.name = "k1" /\ p.value \in k1
         \/ p.name = "c" /\ p.value \in n.cs1
         \/ p.name = "amount" /\ p.value = [msat |-> amount]
  BY <1>8, <1>9 DEF Written, Param
<1>11. Values(url', {"k1"}) \subseteq k1
  BY <1>10 DEF Values
<1>12. Values(url', {"c", "sig"}) = n.cs1
  <2>1. \A c \in n.cs1 : Param("c", c) \in Range(url'.query)
    BY <1>8 DEF Written
  <2>2. \A c \in n.cs1 : Param("c", c).name = "c" /\ Param("c", c).value = c
    BY DEF Param
  <2>3. n.cs1 \subseteq Values(url', {"c", "sig"})
    BY <2>1, <2>2 DEF Values
  <2>4. Values(url', {"c", "sig"}) \subseteq n.cs1
    BY <1>10 DEF Values
  <2> QED BY <2>3, <2>4
<1>13. Values(url', {"amount"}) \subseteq {[msat |-> amount]}
  BY <1>10 DEF Values
<1>14. Values(url', {"tag"}) = {[text |-> "w"]} /\ url'.query # <<>>
  <2>1. Values(url, {"tag"}) = {[text |-> "w"]}
    BY <1>2 DEF Lineage
  <2>2. PICK p \in Range(url.query) : p.name = "tag"
    BY <2>1 DEF Values
  <2>3. p \in Range(url'.query)
    BY <1>8, <2>2 DEF Others
  <2>4. p.value \in Values(url', {"tag"})
    BY <2>2, <2>3 DEF Values
  <2>5. Values(url', {"tag"}) \subseteq Values(url, {"tag"})
    BY <1>10 DEF Values
  <2> QED BY <2>1, <2>3, <2>4, <2>5, ShortLists
<1>15. \A i \in DOMAIN url'.query : url'.query[i].name \in Names
  BY <1>8, <1>10, ListElements DEF Names
<1>16. HoldTypeOK'
  <2>1. issued' \subseteq Certified
    BY <1>2, <1>4 DEF HoldTypeOK
  <2>2. \A m \in held' : m.key \in HeldKeys
    BY <1>2, <1>4, <1>5
  <2> QED BY <1>1, <1>2, <1>8, <1>15, <2>1, <2>2
          DEF HoldTypeOK, IsList, Names, HeldKeys, HashRoots
<1>17. Lineage'
  <2>1. \A v \in Values(url', {"k1"}) : IsK1(v) /\ v = n.k1
    BY <1>4, <1>5, <1>11
  <2>2. \A c \in Values(url', {"c", "sig"}) : \E i \in issued' : c \in Texts(i)
    BY <1>2, <1>4, <1>12
  <2>3. \A i \in issued' : i.era = "hash" => i.reference.form = "hash"
    BY <1>2, <1>4 DEF Lineage
  <2>4. n = Rotated(fresh, amount, certified, url'.host)
    BY <1>6, <1>8
  <2>5. certified => Issuance(fresh, amount, url'.host) \in issued'
    BY <1>2, <1>8 DEF issuance
  <2> QED BY <1>2, <1>4, <1>12, <1>13, <1>14, <2>1, <2>2, <2>3, <2>4, <2>5 DEF Lineage
<1> QED BY <1>16, <1>17

\* What is filled in is the spend of the note held, and its amount.
LEMMA FillLineage == HoldTypeOK /\ Lineage /\ Fill => HoldTypeOK' /\ Lineage'
<1> SUFFICES ASSUME HoldTypeOK, Lineage, Fill PROVE HoldTypeOK' /\ Lineage'
  OBVIOUS
<1>1. issued' = issued /\ held' = held
  BY DEF Fill
<1>2. PICK n \in held, amount \in SUBSET Amounts :
        amount \subseteq {n.amount} /\ url' = build_note_url(url, n.k1, amount)
  BY DEF Fill
<1>3. IsList(url.query) /\ url.host \in Hosts /\ held = {n}
  BY DEF HoldTypeOK, IsList
<1>4. PICK fresh \in Fresh, amt \in Amounts, certified \in BOOLEAN :
        n = Rotated(fresh, amt, certified, url.host)
  BY DEF Lineage
<1>5. n.k1 = SpendOf(fresh, url.host) /\ IsK1(n.k1)
  BY <1>3, <1>4, FreshCertificate, FreshSpend
<1>6. IsFiniteSet(amount)
  <2>1. amount = {} \/ amount = {n.amount}
    BY <1>2
  <2>2. IsFiniteSet({}) /\ IsFiniteSet({n.amount})
    BY FS_EmptySet, FS_Singleton
  <2> QED BY <2>1, <2>2, Zenon
<1>7. /\ url'.host = url.host /\ IsList(url'.query)
      /\ Range(url'.query) = {p \in Range(url.query) : p.name \notin {"k1", "amount"}}
                             \cup {Param("k1", n.k1)}
                             \cup {Param("amount", [msat |-> a]) : a \in amount}
  BY <1>2, <1>3, <1>6, BuiltParams
<1>8. \A p \in Range(url.query) : p.name \in Names
  BY <1>3, ListElements DEF HoldTypeOK, Names
<1>9. \A p \in Range(url'.query) :
        \/ p \in Range(url.query) /\ p.name \in {"tag", "c", "sig"}
        \/ p.name = "k1" /\ p.value = n.k1
        \/ p.name = "amount" /\ p.value = [msat |-> n.amount]
  BY <1>2, <1>7, <1>8 DEF Param, Names
<1>10. \A p \in Range(url.query) : p.name \in {"tag", "c", "sig"} => p \in Range(url'.query)
  BY <1>7
<1>11. /\ Values(url', {"k1"}) \subseteq {n.k1}
       /\ Values(url', {"amount"}) \subseteq {[msat |-> n.amount]}
       /\ Values(url', {"tag"}) = Values(url, {"tag"})
       /\ Values(url', {"c", "sig"}) = Values(url, {"c", "sig"})
  BY <1>9, <1>10 DEF Values
<1>12. url'.query # <<>> /\ url.query # <<>>
  BY <1>7, ShortLists DEF Lineage
<1>13. \A i \in DOMAIN url'.query : url'.query[i].name \in Names
  BY <1>7, <1>8, <1>9, ListElements DEF Names
<1>14. HoldTypeOK'
  BY <1>1, <1>3, <1>7, <1>13 DEF HoldTypeOK, IsList, Names
<1>15. Lineage'
  BY <1>1, <1>3, <1>5, <1>7, <1>11, <1>12 DEF Lineage
<1> QED BY <1>14, <1>15

\* What a URL in hand is made of is what Lineage says, always.
THEOREM LineageHolds == HoldSpec => [](HoldTypeOK /\ Lineage)
<1>1. HoldTypeOK /\ Lineage /\ [HoldNext]_holdVars => HoldTypeOK' /\ Lineage'
  <2> SUFFICES ASSUME HoldTypeOK, Lineage, [HoldNext]_holdVars
               PROVE  HoldTypeOK' /\ Lineage'
    OBVIOUS
  <2>1. CASE Issue
    BY <2>1, IssueLineage
  <2>2. CASE Arrive
    BY <2>2, ArriveLineage
  <2>3. CASE Swap
    <3>1. PICK fresh \in Fresh, amount \in Amounts, certified \in BOOLEAN :
            /\ Mutated(fresh, amount, certified)
            /\ url' = Rewritten(url, {SpendOf(fresh, url.host)}, amount, The(held').cs1)
      BY <2>3 DEF Swap, with_new_k1
    <3> QED BY <3>1, SwapLineage
  <2>4. CASE SwapToDevice
    <3>1. PICK fresh \in Fresh, amount \in Amounts, certified \in BOOLEAN :
            /\ Mutated(fresh, amount, certified)
            /\ url' = Rewritten(url, {}, amount, The(held').cs1)
      BY <2>4 DEF SwapToDevice, without_k1
    <3> QED BY <3>1, SwapLineage
  <2>5. CASE Fill
    BY <2>5, FillLineage
  <2>6. CASE UNCHANGED holdVars
    BY <2>6 DEF holdVars, HoldTypeOK, Lineage
  <2> QED BY <2>1, <2>2, <2>3, <2>4, <2>5, <2>6 DEF HoldNext
<1> QED BY <1>1, InitLineage, PTL DEF HoldSpec

\* The notes certified, the URL in hand and the note held keep their types,
\* and the clock and the claim theirs.
THEOREM TypeHolds == HoldSpec /\ LeafSpec => []TypeOK
BY LineageHolds, LeafTypeCorrect, PTL DEF TypeOK

(***************************************************************************)
(* What is read of a URL of good lineage.                                  *)
(***************************************************************************)
\* What is read of a URL stands in it, and is one.
LEMMA ReadParams ==
  ASSUME HoldTypeOK
  PROVE  /\ note_k1(url) \subseteq Values(url, {"k1"})
         /\ note_signature(url) \subseteq Values(url, {"c", "sig"})
         /\ Values(url, {"k1"}) # {} => note_k1(url) # {}
         /\ Values(url, {"c", "sig"}) # {} => note_signature(url) # {}
         /\ \A x, y \in note_signature(url) : x = y
<1>1. IsList(url.query)
  BY DEF HoldTypeOK, IsList
<1>2. ASSUME NEW name
      PROVE  /\ first_param(url, name) \subseteq Values(url, {name})
             /\ Values(url, {name}) # {} => first_param(url, name) # {}
             /\ \A x, y \in first_param(url, name) : x = y
  BY <1>1, FirstParams, FirstIsOne DEF Values
<1>3. \A v \in Values(url, {"c", "sig"}) : v \in Values(url, {"c"}) \/ v \in Values(url, {"sig"})
  BY DEF Values
<1>4. Values(url, {"c"}) \cup Values(url, {"sig"}) \subseteq Values(url, {"c", "sig"})
  BY DEF Values
<1> QED BY <1>2, <1>3, <1>4 DEF note_k1, note_signature

\* A URL declares at most one amount: one it says, or one its certificate does.
LEMMA DeclaredAmount ==
  ASSUME HoldTypeOK
  PROVE  /\ \A x, y \in note_declared_amount(url) : x = y
         /\ \A a \in note_declared_amount(url) :
              \/ \E v \in Values(url, {"amount"}) : a = v.msat
              \/ \E c \in note_signature(url) : a \in decode_cs1_with_amount(c)
         /\ Values(url, {"amount"}) = {} =>
              note_declared_amount(url) = UNION {decode_cs1_with_amount(c) :
                                                   c \in note_signature(url)}
         /\ Values(url, {"amount"}) # {} => note_declared_amount(url) # {}
<1>1. IsList(url.query)
  BY DEF HoldTypeOK, IsList
<1>2. /\ first_param(url, "amount") \subseteq Values(url, {"amount"})
      /\ Values(url, {"amount"}) # {} => first_param(url, "amount") # {}
      /\ \A x, y \in first_param(url, "amount") : x = y
  BY <1>1, FirstParams, FirstIsOne DEF Values
<1>3. \A x, y \in note_signature(url) : x = y
  BY ReadParams
<1>4. \A c : \A x, y \in decode_cs1_with_amount(c) : x = y
  BY DEF decode_cs1_with_amount, decode_amount_suffix
<1>5. CASE first_param(url, "amount") # {}
  <2>1. note_declared_amount(url) = {a.msat : a \in first_param(url, "amount")}
    BY <1>5 DEF note_declared_amount
  <2> QED BY <1>2, <1>5, <2>1
<1>6. CASE first_param(url, "amount") = {}
  <2>1. note_declared_amount(url) = UNION {decode_cs1_with_amount(c) : c \in note_signature(url)}
    BY <1>6 DEF note_declared_amount
  <2> QED BY <1>2, <1>3, <1>4, <1>6, <2>1
<1> QED BY <1>5, <1>6

\* Whatever URL is in hand, what its certificate reads as is what the note is
\* declared and verified to be worth.
THEOREM StatedIsCertifiedHolds == HoldSpec => []StatedIsCertified
<1>1. HoldTypeOK => StatedIsCertified
  <2> SUFFICES ASSUME HoldTypeOK,
                      NEW check \in check_note_url(url), NEW cs1 \in note_signature(url)
               PROVE  decode_cs1_with_amount(cs1) \subseteq note_declared_amount(url)
    BY DEF StatedIsCertified
  <2> DEFINE F(k, a, c) == check_note(k, url.host, a, c)
  <2>1. check \in UNION {F(k1, amount, c) : k1 \in note_k1(url),
                           amount \in note_declared_amount(url), c \in note_signature(url)}
    BY DEF check_note_url
  <2>2. PICK k1 \in note_k1(url), amount \in note_declared_amount(url),
             c \in note_signature(url) : check \in F(k1, amount, c)
    <3> HIDE DEF F
    <3> QED BY <2>1
  <2>3. c = cs1
    BY ReadParams
  <2>4. PICK s \in decode_spend(k1) :
          certified_over(output_key(s), bearer_hash(s), url.host, amount, c) # {}
    BY <2>2 DEF check_note
  <2>5. decode_cs1_with_amount(c) \subseteq {amount}
    BY <2>4, AcceptedStatesTheAmount
  <2> QED BY <2>3, <2>5
<1> QED BY <1>1, LineageHolds, PTL

\* Whatever URL is in hand, the watcher is told what the holder is.
THEOREM WatcherAgreesHolds == HoldSpec => []WatcherAgrees
<1>1. HoldTypeOK /\ Lineage => WatcherAgrees
  <2> SUFFICES ASSUME HoldTypeOK, Lineage,
                      NEW k1 \in note_k1(url), NEW amount \in note_declared_amount(url),
                      NEW cs1 \in note_signature(url)
               PROVE  LET holder == {check.certificate :
                                       check \in check_note(k1, url.host, amount, cs1)}
                          watcher == UNION {check_note_certificate(reference, url.host, amount, cs1) :
                                              reference \in note_lookup_of(k1)}
                      IN watcher = IF k1.form = "cw1" THEN holder \ {"LegacyHash"} ELSE holder
    BY DEF WatcherAgrees
  <2>1. IsK1(k1)
    BY ReadParams DEF Lineage
  <2> QED BY <2>1, WatcherIsToldTheSame DEF IsK1
<1> QED BY <1>1, LineageHolds, PTL

\* What a spend is looked up by names its note.
LEMMA LookupNamesTheNote ==
  ASSUME NEW k1, IsK1(k1), NEW reference \in note_lookup_of(k1)
  PROVE  /\ decode_note(reference) = note_id_of(k1)
         /\ "form" \in DOMAIN reference /\ reference.form \in {"hash", "cp1"}
<1>1. CASE k1.form = "preimage"
  <2>1. decode_spend(k1) = {bearer_cw1(k1.preimage)} /\ reference = hash(sha256(k1.preimage))
    BY <1>1 DEF decode_spend, note_lookup_of
  <2>2. output_key(bearer_cw1(k1.preimage)) = bearer_note(sha256(k1.preimage))
    BY <1>1, BearerSpend DEF IsK1
  <2>3. decode_note(reference) = {bearer_note(sha256(k1.preimage))}
    BY <2>1 DEF decode_note, hash
  <2> QED BY <2>1, <2>2, <2>3 DEF note_id_of, hash
<1>2. CASE k1.form # "preimage"
  <2>1. PICK s \in decode_spend(k1) : reference = cp1(output_key(s))
    BY <1>2 DEF note_lookup_of, note_id_of
  <2>2. decode_spend(k1) = {s}
    BY <1>2, <2>1 DEF decode_spend
  <2>3. decode_note(cp1(output_key(s))) = {output_key(s)}
    BY <1>2, SpendsNamePoints DEF IsK1
  <2> QED BY <2>1, <2>2, <2>3 DEF note_id_of, cp1
<1> QED BY <1>1, <1>2

\* Looking a note up discloses neither its spend nor a certificate, and names
\* that note, whatever URL is in hand.
THEOREM LookupHidesTheSpendHolds == HoldSpec => []LookupHidesTheSpend
<1>1. HoldTypeOK /\ Lineage => LookupHidesTheSpend
  <2> SUFFICES ASSUME HoldTypeOK, Lineage,
                      NEW k1 \in note_k1(url), NEW reference \in note_lookup_of(k1)
               PROVE  LET lookup == build_note_info_url_by_hash(url, reference)
                      IN /\ \A i \in DOMAIN lookup.query :
                              lookup.query[i].value \notin Values(url, {"k1", "c", "sig"})
                         /\ UNION {decode_note(p) : p \in first_param(lookup, "p")}
                              = note_id_of(k1)
    BY DEF LookupHidesTheSpend
  <2> DEFINE lookup == build_note_info_url_by_hash(url, reference)
             kept == {p \in Range(url.query) :
                        p.name \notin {"k1", "amount", "c", "sig", "p", "h"}}
  <2>1. IsK1(k1)
    BY ReadParams DEF Lineage
  <2>2. /\ decode_note(reference) = note_id_of(k1)
        /\ "form" \in DOMAIN reference /\ reference.form \in {"hash", "cp1"}
    BY <2>1, LookupNamesTheNote
  <2>3. IsList(url.query)
    BY DEF HoldTypeOK, IsList
  <2>4. IsList(lookup.query) /\ Range(lookup.query) = kept \cup {Param("p", reference)}
    BY <2>3, LookupParams
  <2>5. \A p \in kept : p.name = "tag" /\ p.value \in Values(url, {"tag"})
    <3>1. \A p \in Range(url.query) : p.name \in Names
      BY <2>3, ListElements DEF HoldTypeOK, Names
    <3> QED BY <3>1 DEF Names, Values
  <2>6. \A p \in kept : p.value = [text |-> "w"]
    BY <2>5 DEF Lineage
  <2>7. \A v \in Values(url, {"k1", "c", "sig"}) :
          v \in Values(url, {"k1"}) \/ v \in Values(url, {"c", "sig"})
    BY DEF Values
  <2>8. \A v \in Values(url, {"k1", "c", "sig"}) : v # [text |-> "w"] /\ v # reference
    <3>1. \A v : IsK1(v) => v # [text |-> "w"] /\ v # reference
      BY <2>2 DEF IsK1
    <3>2. \A i : \A v \in Texts(i) : v # [text |-> "w"] /\ v # reference
      <4>1. \A i : \A v \in Texts(i) : DOMAIN v = {"prefix", "sig"}
        BY DEF Texts
      <4>2. DOMAIN [text |-> "w"] = {"text"}
        OBVIOUS
      <4> QED BY <2>2, <4>1, <4>2
    <3> QED BY <2>7, <3>1, <3>2 DEF Lineage
  <2> HIDE DEF lookup, kept
  <2>9. ASSUME NEW i \in DOMAIN lookup.query
        PROVE  lookup.query[i].value \notin Values(url, {"k1", "c", "sig"})
    <3>1. lookup.query[i] \in kept \cup {Param("p", reference)}
      BY <2>4, ListElements
    <3>2. lookup.query[i].value \in {[text |-> "w"], reference}
      BY <2>6, <3>1 DEF Param
    <3> QED BY <2>8, <3>2
  <2>10. first_param(lookup, "p") = {reference}
    <3>1. \A v \in first_param(lookup, "p") :
            \E p \in Range(lookup.query) : p.name = "p" /\ p.value = v
      BY <2>4, FirstParams
    <3>2. Param("p", reference) \in Range(lookup.query) /\ Param("p", reference).name = "p"
      BY <2>4 DEF Param
    <3>3. first_param(lookup, "p") # {}
      BY <2>4, <3>2, FirstParams
    <3>4. \A p \in Range(lookup.query) : p.name = "p" => p.value = reference
      BY <2>4, <2>5 DEF Param
    <3> QED BY <3>1, <3>3, <3>4
  <2> QED BY <2>2, <2>9, <2>10 DEF lookup
<1> QED BY <1>1, LineageHolds, PTL

(***************************************************************************)
(* What a URL that verifies is about.                                      *)
(***************************************************************************)
\* What a certificate that is accepted was signed over.
LEMMA AcceptedIsSigned ==
  ASSUME NEW key, NEW bearer, NEW host, NEW amount, NEW cs1,
         NEW over \in certified_over(key, bearer, host, amount, cs1)
  PROVE  \/ /\ over = "OutputKey"
            /\ cs1.sig.over = note_signature_message(key, host, amount)
         \/ /\ over = "LegacyOutputKey"
            /\ cs1.sig.over = legacy_note_signature_message(key, amount)
         \/ /\ over = "LegacyHash"
            /\ \E h \in bearer : cs1.sig.over = legacy_note_signature_message(IdOfHash(h), amount)
<1>1. \A lenient : certificate_bytes(cs1, amount, lenient) \subseteq {cs1.sig}
  BY DEF certificate_bytes
<1>2. verify_note_signature_hash(key, host, amount, cs1) =>
        cs1.sig.over = note_signature_message(key, host, amount)
  BY <1>1 DEF verify_note_signature_hash, recovers_to
<1>3. \A id : verify_legacy_note_signature_hash(id, amount, cs1) =>
                cs1.sig.over = legacy_note_signature_message(id, amount)
  BY <1>1 DEF verify_legacy_note_signature_hash, recovers_to
<1> QED BY <1>2, <1>3 DEF certified_over

\* The key of a decoded spend is an output key, and not a hash.
LEMMA SpentKeyIsAKey ==
  ASSUME NEW k1, IsK1(k1), NEW s \in decode_spend(k1)
  PROVE  DOMAIN output_key(s) = {"internal", "root"}
<1>1. CASE k1.form = "preimage"
  <2>1. s = bearer_cw1(k1.preimage) /\ k1.preimage \in Preimages
    BY <1>1 DEF decode_spend, IsK1
  <2>2. output_key(s) = bearer_note(sha256(k1.preimage))
    BY <2>1, BearerSpend
  <2> QED BY <2>2, BearerKey
<1>2. CASE k1.form = "cw1"
  <2>1. s = k1 /\ output_key_of(s.script, s.control) # {}
    BY <1>2 DEF decode_spend
  <2>2. \A q \in output_key_of(s.script, s.control) : DOMAIN q = {"internal", "root"}
    BY DEF output_key_of, taproot_tweak
  <2> QED BY <1>2, <2>1, <2>2 DEF output_key, The
<1>3. CASE k1.form \in {"ck1", "legacy_ck1"}
  BY <1>3 DEF decode_spend, output_key, IsK1
<1>4. k1.form # "none"
  BY DEF decode_spend
<1> QED BY <1>1, <1>2, <1>3, <1>4 DEF IsK1

\* So is the key of a note that was certified.
LEMMA IssuedKeyIsAKey ==
  ASSUME NEW i \in Certified
  PROVE  DOMAIN KeyOf(i) = {"internal", "root"}
<1>1. i.reference \in References
  BY DEF Certified
<1>2. CASE \E k \in Keys : i.reference = cp1(KeyNote(k))
  BY <1>2, KeyOfReference DEF KeyNote
<1>3. CASE \E p \in Preimages : i.reference = hash(sha256(p))
  BY <1>3, KeyOfReference, BearerKey
<1> QED BY <1>1, <1>2, <1>3 DEF References

\* A URL that verifies is about a note issued for what it declares, and at the
\* mint it is of if its certificate says so.
THEOREM VerifiedMeansIssuedHolds == HoldSpec => []VerifiedMeansIssued
<1>1. HoldTypeOK /\ Lineage => VerifiedMeansIssued
  <2> SUFFICES ASSUME HoldTypeOK, Lineage, NEW check \in check_note_url(url)
               PROVE  \E i \in issued :
                        /\ check.output_key = KeyOf(i)
                        /\ note_declared_amount(url) = {i.amount}
                        /\ check.certificate = "OutputKey" =>
                             i.domain = spend_domain_of(url.host)
    BY DEF VerifiedMeansIssued
  <2> DEFINE F(k, a, c) == check_note(k, url.host, a, c)
  <2>1. check \in UNION {F(k1, amount, c) : k1 \in note_k1(url),
                           amount \in note_declared_amount(url), c \in note_signature(url)}
    BY DEF check_note_url
  <2>2. PICK k1 \in note_k1(url), amount \in note_declared_amount(url),
             cs1 \in note_signature(url) : check \in F(k1, amount, cs1)
    <3> HIDE DEF F
    <3> QED BY <2>1
  <2>3. PICK s \in decode_spend(k1) :
          \E over \in certified_over(output_key(s), bearer_hash(s), url.host, amount, cs1) :
            check.output_key = output_key(s) /\ check.certificate = over
    BY <2>2 DEF check_note
  <2> DEFINE key == output_key(s)
  <2>4. \/ /\ check.certificate = "OutputKey"
           /\ cs1.sig.over = note_signature_message(key, url.host, amount)
        \/ /\ check.certificate = "LegacyOutputKey"
           /\ cs1.sig.over = legacy_note_signature_message(key, amount)
        \/ /\ check.certificate = "LegacyHash"
           /\ \E h \in bearer_hash(s) :
                cs1.sig.over = legacy_note_signature_message(IdOfHash(h), amount)
    BY <2>3, AcceptedIsSigned
  <2>5. IsK1(k1)
    BY ReadParams DEF Lineage
  <2>6. DOMAIN key = {"internal", "root"}
    BY <2>5, SpentKeyIsAKey
  <2>7. PICK i \in issued : cs1 \in Texts(i)
    BY ReadParams DEF Lineage
  <2>8. cs1.sig.over = MessageOf(i)
    BY <2>7 DEF Texts, Signatures
  <2>9. i \in Certified /\ DOMAIN KeyOf(i) = {"internal", "root"}
    BY IssuedKeyIsAKey DEF HoldTypeOK
  <2>10. \A h : DOMAIN IdOfHash(h) = {"hash"} /\ IdOfHash(h).hash = h
    BY DEF IdOfHash
  <2>11. /\ MessageOf(i).amount = i.amount /\ MessageOf(i).domain = i.domain
         /\ MessageOf(i).id = IF i.era = "hash" THEN IdOfHash(i.reference.h) ELSE KeyOf(i)
    BY DEF MessageOf
  <2>12. note_declared_amount(url) = {amount}
    BY DeclaredAmount
  <2> HIDE DEF key
  <2>13. i.amount = amount
    BY <2>4, <2>8, <2>11 DEF note_signature_message, legacy_note_signature_message
  <2>14. check.certificate = "OutputKey" => i.domain = spend_domain_of(url.host)
    BY <2>4, <2>8, <2>11 DEF note_signature_message
  <2>15. key = KeyOf(i)
    <3>1. CASE cs1.sig.over.id = key
      <4>1. i.era # "hash"
        BY <2>6, <2>8, <2>10, <2>11, <3>1
      <4> QED BY <2>8, <2>11, <3>1, <4>1
    <3>2. CASE \E h \in bearer_hash(s) : cs1.sig.over.id = IdOfHash(h)
      <4>1. PICK h \in bearer_hash(s) : MessageOf(i).id = IdOfHash(h)
        BY <2>8, <3>2
      <4>2. i.era = "hash" /\ i.reference.h = h
        BY <2>9, <2>10, <2>11, <4>1
      <4>3. i.reference.form = "hash"
        BY <4>2 DEF Lineage
      <4>4. i.reference = hash(h)
        BY <2>9, <4>2, <4>3 DEF Certified, References, cp1, hash
      <4>5. KeyOf(i) = bearer_note(h)
        BY <4>4, KeyOfReference
      <4>6. bearer_note(h) = key
        BY <4>1 DEF bearer_hash, key
      <4> QED BY <4>5, <4>6
    <3>3. \/ cs1.sig.over.id = key
          \/ \E h \in bearer_hash(s) : cs1.sig.over.id = IdOfHash(h)
      <4>1. \A id, a : legacy_note_signature_message(id, a).id = id
        BY DEF legacy_note_signature_message
      <4>2. \A id, host, a : note_signature_message(id, host, a).id = id
        BY DEF note_signature_message
      <4> QED BY <2>4, <4>1, <4>2
    <3> QED BY <3>1, <3>2, <3>3
  <2> QED BY <2>3, <2>12, <2>13, <2>14, <2>15 DEF key
<1> QED BY <1>1, LineageHolds, PTL

(***************************************************************************)
(* What the wallet's own URLs say.                                         *)
(***************************************************************************)
\* No mint refuses the leaf of a bearer hash: it has a push of the hash, and
\* no reserved opcode.
LEMMA BearerLeafIsKept ==
  ASSUME NEW h \in [1..HashLen -> 0..255]
  PROVE  check_leaf(TAPLEAF_VERSION, bearer_leaf(h)) = "None"
<1> DEFINE script == bearer_leaf(h)
           N == HashLen + 3
           f == Reserved(script)
<1>1. HashLen \in 1..75 /\ HashLen \in Nat
  BY SpendsAssumption
<1>2. script \in Seq(Nat) /\ Len(script) = N
  BY BearerLeafIsASequence
<1>3. script[1] = 168 /\ script[2] = HashLen /\ script[N] = 135
  <2>1. h \in Seq(0..255) /\ Len(h) = HashLen
    BY <1>1
  <2> QED BY <1>1, <2>1 DEF bearer_leaf
<1>4. ~ is_op_success(168) /\ ~ is_op_success(HashLen) /\ ~ is_op_success(135)
  BY <1>1 DEF is_op_success
<1>5. LengthBytes(168) = 0 /\ LengthBytes(HashLen) = 0 /\ LengthBytes(135) = 0
  <2>1. \A op : op \notin {76, 77, 78} => LengthBytes(op) = 0
    BY Zenon DEF LengthBytes
  <2> QED BY <1>1, <2>1
<1>6. \A i \in Nat : LittleEndian(script, i, 0) = 0
  BY DEF LittleEndian
<1> HIDE DEF script
<1>7. After(script, 1) = 2 /\ After(script, 2) = N
  BY <1>1, <1>3, <1>5, <1>6 DEF After
<1>8. After(script, N) = N + 1
  BY <1>1, <1>3, <1>5, <1>6 DEF After
<1>9. 1 \in 1..N /\ 2 \in 1..N /\ N \in 1..N /\ ~ N + 1 <= N
  BY <1>1
<1> HIDE DEF N
<1>10. \A i \in 1..N : f[i] = Rule(f, script, i)
  BY Zenon, <1>2, ReservedWalks
<1> HIDE DEF f
<1>11. ~ f[N]
  <2>1. ~ Rule(f, script, N)
    BY Zenon, <1>2, <1>3, <1>4, <1>8, <1>9 DEF Rule
  <2> QED BY Zenon, <1>9, <1>10, <2>1
<1>12. ~ f[2]
  <2>1. ~ Rule(f, script, 2)
    BY Zenon, <1>3, <1>4, <1>7, <1>11 DEF Rule
  <2> QED BY Zenon, <1>9, <1>10, <2>1
<1>13. ~ f[1]
  <2>1. ~ Rule(f, script, 1)
    BY Zenon, <1>3, <1>4, <1>7, <1>12 DEF Rule
  <2> QED BY Zenon, <1>9, <1>10, <2>1
<1> QED BY Zenon, <1>13, CheckLeafWalks DEF script, f

\* What a wallet writes for what it drew opens its note, at that mint.
LEMMA FreshOpens ==
  ASSUME NEW fresh \in Fresh, NEW host, NEW s \in decode_spend(SpendOf(fresh, host))
  PROVE  opens(check_spend(s, host))
<1> DEFINE secret == fresh.secret
<1>1. CASE fresh.kind = "key"
  <2>1. SpendOf(fresh, host) = sign_note_ownership(secret, host)
    BY <1>1 DEF SpendOf
  <2>2. s = sign_note_ownership(secret, host)
    BY <2>1 DEF decode_spend, sign_note_ownership
  <2>3. recover_note_ownership_pubkey(s, host) = "owner"
    BY <2>2 DEF sign_note_ownership, recover_note_ownership_pubkey
  <2>4. s.form = "ck1"
    BY <2>2 DEF sign_note_ownership
  <2> QED BY <2>3, <2>4 DEF check_spend, opens
<1>2. CASE fresh.kind = "preimage"
  <2>1. secret \in Preimages /\ secret \notin Oversized
    BY <1>2, HoldingAssumption
  <2>2. SpendOf(fresh, host) = [form |-> "preimage", preimage |-> secret]
    BY <1>2 DEF SpendOf
  <2>3. s = bearer_cw1(secret)
    BY <2>2 DEF decode_spend
  <2>4. /\ s.form = "cw1" /\ s.script = bearer_leaf(sha256(secret))
        /\ s.control.version = TAPLEAF_VERSION /\ s.witness = <<secret>>
    BY <2>3 DEF bearer_cw1, bearer_control
  <2>5. sha256(secret) \in [1..HashLen -> 0..255]
    BY <2>1, SpendsAssumption
  <2>6. /\ check_leaf(s.control.version, s.script) = "None"
        /\ bearer_hash_of_leaf(s.script) = {sha256(secret)}
    BY Zenon, <2>4, <2>5, BearerLeafIsKept, LeafOfHash
  <2>7. script_path_verdict(s) = "Opens"
    BY <2>1, <2>4, <2>6 DEF script_path_verdict
  <2> QED BY <2>4, <2>7 DEF check_spend, opens
<1> QED BY <1>1, <1>2, HoldingAssumption

\* A certificate the mint gives today is accepted for the fresh note.
LEMMA FreshIsAccepted ==
  ASSUME NEW fresh \in Fresh, NEW host \in Hosts, NEW amount \in Amounts,
         NEW certified \in BOOLEAN, NEW bearer,
         NEW cs1 \in Rotated(fresh, amount, certified, host).cs1
  PROVE  certified_over(KeyOf(Issuance(fresh, amount, host)), bearer, host, amount, cs1)
           = {"OutputKey"}
<1> DEFINE issuance == Issuance(fresh, amount, host)
           key == KeyOf(issuance)
           sig == [over |-> MessageOf(issuance), layout |-> "trailing", small |-> TRUE]
<1>1. cs1 = encode_cs1_with_amount(amount, sig)
  BY DEF Rotated
<1>2. cs1.sig = sig /\ sig.layout = "trailing"
  BY <1>1 DEF encode_cs1_with_amount
<1>3. decode_cs1_with_amount(cs1) = {amount}
  BY FreshCertificate
<1>4. sig.over = note_signature_message(key, host, amount)
  BY DEF MessageOf, Issuance, note_signature_message
<1> HIDE DEF sig, key
<1>5. certificate_bytes(cs1, amount, FALSE) = {sig}
  BY <1>2, <1>3 DEF certificate_bytes
<1>6. verify_note_signature_hash(key, host, amount, cs1)
  BY <1>2, <1>4, <1>5 DEF verify_note_signature_hash, recovers_to
<1> QED BY <1>6 DEF certified_over, key

\* A URL the wallet wrote is of the note it holds and of no other, and with
\* its certificate it verifies.
THEOREM UrlTellsTheTruthHolds == HoldSpec => []UrlTellsTheTruth
<1>1. HoldTypeOK /\ Lineage => UrlTellsTheTruth
  <2> SUFFICES ASSUME HoldTypeOK, Lineage, NEW n \in held
               PROVE  /\ Values(url, {"k1"}) \subseteq {n.k1}
                      /\ Values(url, {"c", "sig"}) = n.cs1
                      /\ note_declared_amount(url) \subseteq {n.amount}
                      /\ n.cs1 # {} /\ note_k1(url) # {} =>
                           \E check \in check_note_url(url) :
                             is_verified(check) /\ check.certificate = "OutputKey"
    BY DEF UrlTellsTheTruth
  <2>1. /\ Values(url, {"k1"}) \subseteq {n.k1}
        /\ Values(url, {"c", "sig"}) = n.cs1
        /\ Values(url, {"amount"}) \subseteq {[msat |-> n.amount]}
    BY DEF Lineage
  <2>2. PICK fresh \in Fresh, amount \in Amounts, certified \in BOOLEAN :
          n = Rotated(fresh, amount, certified, url.host)
    BY DEF Lineage
  <2>3. url.host \in Hosts
    BY DEF HoldTypeOK
  <2>4. /\ n.k1 = SpendOf(fresh, url.host) /\ n.amount = amount
        /\ \A c \in n.cs1 : decode_cs1_with_amount(c) = {amount}
    BY <2>2, <2>3, FreshCertificate
  <2>5. note_signature(url) \subseteq n.cs1 /\ note_k1(url) \subseteq {n.k1}
    BY <2>1, ReadParams
  <2>6. note_declared_amount(url) \subseteq {amount}
    <3>1. \A v \in Values(url, {"amount"}) : v.msat = amount
      BY <2>1, <2>4
    <3> QED BY <2>4, <2>5, <3>1, DeclaredAmount
  <2>7. ASSUME n.cs1 # {}, note_k1(url) # {}
        PROVE  \E check \in check_note_url(url) :
                 is_verified(check) /\ check.certificate = "OutputKey"
    <3>1. note_k1(url) = {n.k1}
      BY <2>5, <2>7
    <3>2. PICK cs1 \in note_signature(url) : TRUE
      BY <2>1, <2>7, ReadParams
    <3>3. amount \in note_declared_amount(url)
      <4>1. CASE Values(url, {"amount"}) = {}
        BY <2>4, <2>5, <3>2, <4>1, DeclaredAmount
      <4>2. CASE Values(url, {"amount"}) # {}
        BY <2>6, <4>2, DeclaredAmount
      <4> QED BY <4>1, <4>2
    <3>4. PICK s : /\ decode_spend(n.k1) = {s}
                   /\ output_key(s) = KeyOf(Issuance(fresh, amount, url.host))
      BY <2>4, FreshSpend
    <3>5. opens(check_spend(s, url.host))
      BY <2>4, <3>4, FreshOpens
    <3>6. cs1 \in Rotated(fresh, amount, certified, url.host).cs1
      BY <2>2, <2>5, <3>2
    <3>7. certified_over(output_key(s), bearer_hash(s), url.host, amount, cs1) = {"OutputKey"}
      <4>1. certified_over(KeyOf(Issuance(fresh, amount, url.host)), bearer_hash(s),
                           url.host, amount, cs1) = {"OutputKey"}
        BY <2>3, <3>6, FreshIsAccepted
      <4> QED BY Zenon, <3>4, <4>1
    <3> DEFINE check == [output_key |-> output_key(s), spend |-> check_spend(s, url.host),
                         certificate |-> "OutputKey"]
    <3>8. check \in check_note(n.k1, url.host, amount, cs1)
      BY <3>4, <3>7 DEF check_note
    <3>9. check \in check_note_url(url)
      BY <3>1, <3>2, <3>3, <3>8 DEF check_note_url
    <3>10. is_verified(check) /\ check.certificate = "OutputKey"
      BY <3>5 DEF is_verified
    <3> QED BY <3>9, <3>10
  <2> QED BY <2>1, <2>4, <2>6, <2>7
<1> QED BY <1>1, LineageHolds, PTL
=============================================================================
