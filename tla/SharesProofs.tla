---------------------------- MODULE SharesProofs ----------------------------
(***************************************************************************)
(* Whoever knows only public keys and whoever holds the private ones       *)
(* derive the same notes, in every scheme, and fail at the same indices;   *)
(* every note credited to a share, to a wallet or to a superseded branch   *)
(* opens with the seed, and along the published path; and nothing foreign  *)
(* is put on file: for all wallets, mints, hosts, groups and hashes.       *)
(***************************************************************************)
EXTENDS Shares, DataLemmas


(***************************************************************************)
(* The group.                                                              *)
(***************************************************************************)
\* Scalars add up to scalars.
LEMMA AddType ==
  ASSUME NEW a \in Scalars, NEW b \in Scalars
  PROVE  Add(a, b) \in Scalars
BY CurveAssumption DEF Add, Scalars

\* A point that is not the one at infinity has a secret key.
LEMMA PointHasKey ==
  ASSUME NEW p \in Points, p # Infinity
  PROVE  \E a \in SecretKeys : p = mulG(a)
BY CurveAssumption DEF Scalars, SecretKeys

\* The key that stands for an x-only key has the point it is lifted to.
LEMMA LiftIsEvenKey ==
  ASSUME NEW k \in SecretKeys
  PROVE  /\ EvenKey(k) \in SecretKeys
         /\ lift_x(x(mulG(k))) = mulG(EvenKey(k))
<1>1. Order - k \in SecretKeys
  BY CurveAssumption DEF SecretKeys
<1>2. EvenKey(k) \in SecretKeys
  BY <1>1 DEF EvenKey
<1>3. x(mulG(EvenKey(k))) = x(mulG(k))
  BY <1>1, CurveAssumption DEF EvenKey, SecretKeys
<1>4. even_y(mulG(EvenKey(k)))
  BY CurveAssumption DEF EvenKey
<1>5. mulG(EvenKey(k)) \in Points \ {Infinity}
  BY <1>2, CurveAssumption DEF SecretKeys, Scalars
<1>6. ASSUME NEW p \in Points \ {Infinity}, x(p) = x(mulG(k)), even_y(p)
      PROVE  p = mulG(EvenKey(k))
  <2>1. PICK a \in SecretKeys : p = mulG(a)
    BY <1>6, PointHasKey
  <2>2. a = k \/ a = Order - k
    BY <2>1, <1>6, CurveAssumption
  <2>3. CASE a = k
    BY <2>3, <2>1, <1>6 DEF EvenKey
  <2>4. CASE a = Order - k
    BY <2>4, <2>1, <1>6, CurveAssumption DEF EvenKey
  <2> QED BY <2>2, <2>3, <2>4
<1> QED BY <1>2, <1>3, <1>4, <1>5, <1>6 DEF lift_x

\* A tweak of a key and the same tweak of its point come to a key and its
\* point, or are refused both.
LEMMA TweakHalves ==
  ASSUME NEW k \in SecretKeys, NEW t \in Nat
  PROVE  add_exp_tweak(mulG(k), t) = {mulG(s) : s \in add_tweak(k, t)}
<1>1. CASE t < Order
  <2>1. t \in Scalars /\ k \in Scalars
    BY <1>1, CurveAssumption DEF Scalars, SecretKeys
  <2>2. PointAdd(mulG(k), mulG(t)) = mulG(Add(k, t))
    BY <2>1, CurveAssumption
  <2>3. mulG(Add(k, t)) = Infinity <=> Add(k, t) = 0
    BY <2>1, AddType, CurveAssumption
  <2> QED BY <1>1, <2>2, <2>3 DEF add_exp_tweak, add_tweak
<1>2. CASE ~ (t < Order)
  BY <1>2 DEF add_exp_tweak, add_tweak
<1> QED BY <1>1, <1>2

\* What a tweak comes to is a secret key.
LEMMA TweakType ==
  ASSUME NEW k \in SecretKeys, NEW t \in Nat
  PROVE  add_tweak(k, t) \subseteq SecretKeys
<1>1. CASE t < Order
  <2>1. Add(k, t) \in Scalars
    BY <1>1, AddType, CurveAssumption DEF Scalars, SecretKeys
  <2>2. Add(k, t) # 0 => Add(k, t) \in SecretKeys
    BY <2>1, CurveAssumption DEF Scalars, SecretKeys
  <2> QED BY <2>2 DEF add_tweak
<1>2. CASE ~ (t < Order)
  BY <1>2 DEF add_tweak
<1> QED BY <1>1, <1>2

\* A tweaked point is a point, and not the one at infinity.
LEMMA TweakedPointType ==
  ASSUME NEW p \in Points \ {Infinity}, NEW t \in Nat
  PROVE  add_exp_tweak(p, t) \subseteq Points \ {Infinity}
<1>1. PICK k \in SecretKeys : p = mulG(k)
  BY PointHasKey
<1>2. add_tweak(k, t) \subseteq SecretKeys
  BY TweakType
<1>3. \A s \in SecretKeys : mulG(s) \in Points \ {Infinity}
  BY CurveAssumption DEF SecretKeys, Scalars
<1> QED BY <1>1, <1>2, <1>3, TweakHalves

(***************************************************************************)
(* One step.                                                               *)
(***************************************************************************)
\* A node's key has a point.
LEMMA PublicKeyType ==
  ASSUME NEW node \in Nodes
  PROVE  /\ cash_node_public_key(node) \in Points \ {Infinity}
         /\ node.private_key \in SecretKeys
         /\ node.chain_code \in Chains
BY CurveAssumption DEF cash_node_public_key, Nodes, SecretKeys, Scalars

\* What is hashed on the way down is what the hashes are of.
LEMMA DataType ==
  ASSUME NEW key \in Scalars \cup Points, NEW index \in Indices, NEW h \in BOOLEAN
  PROVE  [hardened |-> h, key |-> key, index |-> index] \in Data
BY DEF Data

\* A child is a node.
LEMMA ChildIsNode ==
  ASSUME NEW node \in Nodes, NEW index \in Indices
  PROVE  derive_cash_child(node, index) \subseteq Nodes
<1> DEFINE data == [hardened |-> index >= HARDENED,
                    key |-> IF index >= HARDENED THEN node.private_key
                            ELSE mulG(node.private_key),
                    index |-> index]
<1>1. node.private_key \in SecretKeys /\ node.private_key \in Scalars
      /\ mulG(node.private_key) \in Points /\ node.chain_code \in Chains
  BY PublicKeyType, CurveAssumption DEF SecretKeys, Scalars, cash_node_public_key
<1>2. data \in Data
  BY <1>1 DEF Data
<1>3. /\ hmac_left(node.chain_code, data) \in Nat
      /\ hmac_right(node.chain_code, data) \in Chains
  BY <1>1, <1>2, TreeAssumption
<1>4. add_tweak(node.private_key, hmac_left(node.chain_code, data)) \subseteq SecretKeys
  BY <1>1, <1>3, TweakType
<1>5. ASSUME NEW k \in add_tweak(node.private_key, hmac_left(node.chain_code, data))
      PROVE  [private_key |-> k, chain_code |-> hmac_right(node.chain_code, data)] \in Nodes
  BY <1>3, <1>4 DEF Nodes
<1>6. derive_cash_child(node, index)
        = {[private_key |-> k, chain_code |-> hmac_right(node.chain_code, data)] :
             k \in add_tweak(node.private_key, hmac_left(node.chain_code, data))}
  BY DEF derive_cash_child
<1>7. ASSUME NEW c \in derive_cash_child(node, index)
      PROVE  c \in Nodes
  <2>1. PICK k \in add_tweak(node.private_key, hmac_left(node.chain_code, data)) :
          c = [private_key |-> k, chain_code |-> hmac_right(node.chain_code, data)]
    BY <1>6
  <2> QED BY <2>1, <1>5
<1> QED BY <1>7

\* So is every child of nodes.
LEMMA ChildrenAreNodes ==
  ASSUME NEW nodes \in SUBSET Nodes, NEW index \in Indices
  PROVE  Child(nodes, index) \subseteq Nodes
BY ChildIsNode DEF Child

\* One step down from a public key leads to the public key of one step down
\* from the private one, at every index that is not hardened; where one of the
\* two has no key, neither has the other (cash.rs, derive_cash_child_pub).
THEOREM HalvesAgree ==
  ASSUME NEW node \in Nodes, NEW index \in 0..(HARDENED - 1)
  PROVE  derive_cash_child_pub(cash_node_public_key(node), node.chain_code, index)
           = {[pubkey |-> cash_node_public_key(c), chain_code |-> c.chain_code] :
                c \in derive_cash_child(node, index)}
<1> DEFINE data == [hardened |-> FALSE, key |-> mulG(node.private_key), index |-> index]
           t == hmac_left(node.chain_code, data)
           r == hmac_right(node.chain_code, data)
<1>1. ~ (index >= HARDENED) /\ index \in Indices
  BY TreeAssumption DEF Indices
<1>2. data \in Data
  BY <1>1, PublicKeyType DEF Data, cash_node_public_key
<1>3. t \in Nat
  BY <1>2, PublicKeyType, TreeAssumption
<1>4. derive_cash_child(node, index)
        = {[private_key |-> k, chain_code |-> r] : k \in add_tweak(node.private_key, t)}
  <2>1. (index >= HARDENED) = FALSE
    BY <1>1
  <2>2. data = [hardened |-> index >= HARDENED,
                key |-> IF index >= HARDENED THEN node.private_key
                        ELSE mulG(node.private_key),
                index |-> index]
    BY <2>1, Zenon
  <2> HIDE DEF data
  <2> QED BY <2>2 DEF derive_cash_child
<1>5. derive_cash_child_pub(cash_node_public_key(node), node.chain_code, index)
        = {[pubkey |-> p, chain_code |-> r] : p \in add_exp_tweak(mulG(node.private_key), t)}
  BY <1>1 DEF derive_cash_child_pub, cash_node_public_key
<1>6. add_exp_tweak(mulG(node.private_key), t)
        = {mulG(s) : s \in add_tweak(node.private_key, t)}
  BY <1>3, PublicKeyType, TweakHalves
<1> DEFINE keys == add_tweak(node.private_key, t)
           Half(k) == [pubkey |-> mulG(k), chain_code |-> r]
           Whole(k) == [private_key |-> k, chain_code |-> r]
<1> HIDE DEF t, r
<1>7. \A k : /\ cash_node_public_key(Whole(k)) = mulG(k)
             /\ Whole(k).chain_code = r
  BY DEF cash_node_public_key
<1> HIDE DEF keys
<1>8. derive_cash_child_pub(cash_node_public_key(node), node.chain_code, index)
        = {Half(k) : k \in keys}
  BY <1>5, <1>6 DEF keys
<1>9. {[pubkey |-> cash_node_public_key(c), chain_code |-> c.chain_code] :
         c \in derive_cash_child(node, index)} = {Half(k) : k \in keys}
  BY <1>4, <1>7 DEF keys
<1> QED BY <1>8, <1>9

(***************************************************************************)
(* The walk.                                                               *)
(***************************************************************************)
\* A seed's root is a node.
LEMMA RootIsNode ==
  ASSUME NEW seed \in Seeds
  PROVE  derive_cash_root(seed) \subseteq Nodes
<1>1. derive_cash_master(seed) \subseteq Nodes
  BY TreeAssumption DEF derive_cash_master, Nodes
<1>2. CASH_PURPOSE + HARDENED \in Indices
  BY TreeAssumption DEF Indices
<1> QED BY <1>1, <1>2, ChildrenAreNodes DEF derive_cash_root

\* So is a mint's.
LEMMA DomainNodeIsNode ==
  ASSUME NEW root \in Nodes, NEW text \in Texts
  PROVE  derive_cash_domain_node(root, text) \subseteq Nodes
<1>1. derive_cash_child(root, 0) \subseteq Nodes
  BY ChildIsNode, TreeAssumption DEF Indices
<1>2. ASSUME NEW d \in cash_domain_indices(root, text)
      PROVE  Child(Child(Child(Child({root}, d[1]), d[2]), d[3]), d[4]) \subseteq Nodes
  <2>1. PICK n \in derive_cash_child(root, 0) : d = hmac_domain(n.private_key, text)
    BY DEF cash_domain_indices
  <2>2. n.private_key \in SecretKeys
    BY <1>1 DEF Nodes
  <2>3. d \in [1..4 -> Indices]
    BY <2>1, <2>2, TreeAssumption
  <2>4. d[1] \in Indices /\ d[2] \in Indices /\ d[3] \in Indices /\ d[4] \in Indices
    BY <2>3
  <2>5. Child({root}, d[1]) \subseteq Nodes
    BY <2>4, ChildrenAreNodes
  <2>6. Child(Child({root}, d[1]), d[2]) \subseteq Nodes
    BY <2>4, <2>5, ChildrenAreNodes
  <2>7. Child(Child(Child({root}, d[1]), d[2]), d[3]) \subseteq Nodes
    BY <2>4, <2>6, ChildrenAreNodes
  <2> QED BY <2>4, <2>7, ChildrenAreNodes
<1> QED BY <1>2 DEF derive_cash_domain_node

\* A share is a node of a path that is in range.
LEMMA ShareIsNode ==
  ASSUME NEW root \in Nodes,
         NEW account \in 0..(HARDENED - 1), NEW share \in 0..(HARDENED - 1)
  PROVE  /\ derive_share_node(root, account, share)
              = Child(Child(Child({root}, account + HARDENED), CHAIN_SHARE), share + HARDENED)
         /\ derive_share_node(root, account, share) \subseteq Nodes
<1>1. /\ Hardened(account) = {account + HARDENED}
      /\ Hardened(share) = {share + HARDENED}
  BY TreeAssumption DEF Hardened, below_hardened
<1>2. derive_share_node(root, account, share)
        = Child(Child(Child({root}, account + HARDENED), CHAIN_SHARE), share + HARDENED)
  <2> DEFINE F(a, s) == Child(Child(Child({root}, a), CHAIN_SHARE), s)
  <2>1. ASSUME NEW n
        PROVE  n \in derive_share_node(root, account, share)
                 <=> \E a \in Hardened(account), s \in Hardened(share) : n \in F(a, s)
    <3> HIDE DEF F
    <3>1. derive_share_node(root, account, share)
            = UNION {F(a, s) : a \in Hardened(account), s \in Hardened(share)}
      BY SMT DEF derive_share_node, F
    <3> QED BY <3>1
  <2> HIDE DEF F
  <2>2. \A n : n \in derive_share_node(root, account, share)
              <=> n \in F(account + HARDENED, share + HARDENED)
    BY <1>1, <2>1
  <2> QED BY <2>1, <2>2 DEF F
<1>3. /\ account + HARDENED \in Indices
      /\ CHAIN_SHARE \in Indices
      /\ share + HARDENED \in Indices
  BY TreeAssumption DEF Indices, CHAIN_SHARE
<1>4. Child({root}, account + HARDENED) \subseteq Nodes
  BY <1>3, ChildrenAreNodes
<1>5. Child(Child({root}, account + HARDENED), CHAIN_SHARE) \subseteq Nodes
  BY <1>3, <1>4, ChildrenAreNodes
<1> QED BY <1>2, <1>3, <1>5, ChildrenAreNodes

\* The path of a share's note.
ShareNotePath(account, share, index) ==
  [chain |-> CHAIN_SHARE, account |-> account, share |-> {share}, index |-> index]

\* Its notes are one step below the share.
LEMMA ShareNoteIsBelow ==
  ASSUME NEW root \in Nodes,
         NEW account \in 0..(HARDENED - 1), NEW share \in 0..(HARDENED - 1),
         NEW index \in 0..(HARDENED - 1)
  PROVE  derive_note_key(root, ShareNotePath(account, share, index))
           = {NoteKey(c) : c \in Child(derive_share_node(root, account, share), index)}
<1> DEFINE path == ShareNotePath(account, share, index)
           steps == <<account + HARDENED, CHAIN_SHARE, share + HARDENED, index>>
<1>1. /\ path.account = account /\ path.chain = CHAIN_SHARE
      /\ path.share = {share} /\ path.index = index /\ path.share # {}
  BY DEF ShareNotePath
<1>2. /\ Hardened(path.account) = {account + HARDENED}
      /\ below_hardened(path.index) = {index}
      /\ UNION {Hardened(n) : n \in path.share} = {share + HARDENED}
  BY <1>1, TreeAssumption DEF Hardened, below_hardened
<1>3. indices(path)
        = {<<a, path.chain, h, i>> : a \in Hardened(path.account),
             h \in UNION {Hardened(n) : n \in path.share}, i \in below_hardened(path.index)}
  BY <1>1, SMT DEF indices
<1>6. indices(path) = {steps}
  <2>1. steps \in indices(path)
    BY <1>1, <1>2, <1>3
  <2>2. ASSUME NEW s \in indices(path)
        PROVE  s = steps
    BY <1>1, <1>2, <1>3
  <2> QED BY <2>1, <2>2
<1>7. /\ steps[1] = account + HARDENED /\ steps[2] = CHAIN_SHARE
      /\ steps[3] = share + HARDENED /\ steps[4] = index
  OBVIOUS
<1> HIDE DEF path, steps
<1>8. derive_note_key(root, path)
        = {NoteKey(n) : n \in Child(Child(Child(Child({root}, steps[1]), steps[2]), steps[3]),
                                     steps[4])}
  BY <1>1, <1>6, Zenon DEF derive_note_key
<1> QED BY <1>7, <1>8, ShareIsNode DEF path

\* Whoever is given a share's public half derives the keys of exactly the notes
\* that the holder derives, at every index (recoverable.rs, derive_note_pubkey
\* and derive_note_key).
THEOREM ShareHalves ==
  ASSUME NEW root \in Nodes,
         NEW account \in 0..(HARDENED - 1), NEW share \in 0..(HARDENED - 1),
         NEW index \in 0..(HARDENED - 1)
  PROVE  {k.output_key : k \in derive_note_key(root, ShareNotePath(account, share, index))}
           = UNION {derive_note_pubkey(cash_node_to_cx1(n), index) :
                      n \in derive_share_node(root, account, share)}
<1>1. ASSUME NEW n \in Nodes
      PROVE  derive_note_pubkey(cash_node_to_cx1(n), index)
               = {NoteKey(c).output_key : c \in derive_cash_child(n, index)}
  <2>1. /\ cash_node_to_cx1(n).pubkey = cash_node_public_key(n)
        /\ cash_node_to_cx1(n).chain_code = n.chain_code
    BY DEF cash_node_to_cx1
  <2>2. derive_note_pubkey(cash_node_to_cx1(n), index)
          = {x(h.pubkey) : h \in {[pubkey |-> cash_node_public_key(c),
                                   chain_code |-> c.chain_code] :
                                     c \in derive_cash_child(n, index)}}
    BY <2>1, HalvesAgree DEF derive_note_pubkey
  <2>3. \A c : /\ NoteKey(c).output_key = x(cash_node_public_key(c))
               /\ [pubkey |-> cash_node_public_key(c),
                   chain_code |-> c.chain_code].pubkey = cash_node_public_key(c)
    BY DEF NoteKey
  <2> QED BY <2>2, <2>3
<1> DEFINE nodes == derive_share_node(root, account, share)
<1>2. nodes \subseteq Nodes
  BY ShareIsNode
<1>3. {k.output_key : k \in derive_note_key(root, ShareNotePath(account, share, index))}
        = {NoteKey(c).output_key : c \in Child(nodes, index)}
  BY ShareNoteIsBelow
<1>4. Child(nodes, index) = UNION {derive_cash_child(n, index) : n \in nodes}
  BY DEF Child
<1> HIDE DEF nodes
<1>5. {NoteKey(c).output_key : c \in Child(nodes, index)}
        = UNION {{NoteKey(c).output_key : c \in derive_cash_child(n, index)} : n \in nodes}
  BY <1>4
<1>6. UNION {{NoteKey(c).output_key : c \in derive_cash_child(n, index)} : n \in nodes}
        = UNION {derive_note_pubkey(cash_node_to_cx1(n), index) : n \in nodes}
  BY <1>1, <1>2
<1> QED BY <1>3, <1>5, <1>6 DEF nodes

\* A watcher of a superseded branch derives the keys that its holder derives
\* (recoverable.rs, legacy_derive_note_pubkey and legacy_derive_note_secret_key).
THEOREM LegacyHalves ==
  ASSUME NEW node \in Nodes, NEW purpose \in Purposes, NEW index \in Indices
  PROVE  legacy_derive_note_pubkey(legacy_cx1_of(node), purpose, index)
           = {x(mulG(s)) : s \in legacy_derive_note_secret_key(node, purpose, index)}
<1> DEFINE q == x(mulG(node.private_key))
           t == tagged_derive(q, node.chain_code, purpose, index)
<1>1. /\ node.private_key \in SecretKeys /\ node.chain_code \in Chains
      /\ mulG(node.private_key) \in Points \ {Infinity}
  BY PublicKeyType DEF cash_node_public_key
<1>2. q \in XCoordinates
  BY <1>1 DEF XCoordinates
<1>3. t \in Nat
  BY <1>1, <1>2, TreeAssumption, CurveAssumption DEF Scalars
<1>4. /\ legacy_cx1_of(node).pubkey_x_only = q
      /\ legacy_cx1_of(node).chain_code = node.chain_code
  BY DEF legacy_cx1_of
<1>5. legacy_derive_note_pubkey(legacy_cx1_of(node), purpose, index)
        = {x(p) : p \in add_exp_tweak(lift_x(q), t)}
  BY <1>4, Zenon DEF legacy_derive_note_pubkey
<1>6. legacy_derive_note_secret_key(node, purpose, index)
        = add_tweak(EvenKey(node.private_key), t)
  BY DEF legacy_derive_note_secret_key
<1>7. add_exp_tweak(lift_x(q), t) = {mulG(s) : s \in add_tweak(EvenKey(node.private_key), t)}
  <2> HIDE DEF t
  <2> QED BY <1>1, <1>3, LiftIsEvenKey, TweakHalves
<1> HIDE DEF q, t
<1> QED BY <1>5, <1>6, <1>7

\* The key of a note with a script tree opens the note of its public half
\* (spend.rs, taproot_tweak and taproot_tweak_secret_key).
THEOREM TaprootHalves ==
  ASSUME NEW key \in SecretKeys, NEW merkle_root \in MerkleRoots
  PROVE  taproot_tweak(x(mulG(key)), merkle_root)
           = {x(mulG(s)) : s \in taproot_tweak_secret_key(key, merkle_root)}
<1> DEFINE q == x(mulG(key))
           t == tagged_tweak(q, merkle_root)
<1>1. mulG(key) \in Points \ {Infinity}
  BY CurveAssumption DEF SecretKeys, Scalars
<1>2. t \in Nat
  BY <1>1, TreeAssumption DEF XCoordinates
<1>3. add_exp_tweak(lift_x(q), t) = {mulG(s) : s \in add_tweak(EvenKey(key), t)}
  <2> HIDE DEF t
  <2> QED BY <1>2, LiftIsEvenKey, TweakHalves
<1>4. /\ taproot_tweak(q, merkle_root) = {x(p) : p \in add_exp_tweak(lift_x(q), t)}
      /\ taproot_tweak_secret_key(key, merkle_root) = add_tweak(EvenKey(key), t)
  BY Zenon DEF taproot_tweak, taproot_tweak_secret_key
<1> HIDE DEF q, t
<1> QED BY <1>3, <1>4 DEF q

(***************************************************************************)
(* What a wallet derives at a mint.                                        *)
(***************************************************************************)
\* A wallet's roots are nodes.
LEMMA RootsType ==
  ASSUME NEW w \in Wallets
  PROVE  Roots(w) \subseteq Nodes
<1>1. w.seed \subseteq Seeds /\ w.identity \subseteq Identities
  BY SharesAssumption
<1>2. \A i \in w.identity : derive_nostr_cash_seed(i) \in Seeds
  BY <1>1, TreeAssumption DEF derive_nostr_cash_seed
<1>3. \A s \in w.seed \cup {derive_nostr_cash_seed(i) : i \in w.identity} :
        derive_cash_root(s) \subseteq Nodes
  BY <1>1, <1>2, RootIsNode
<1> QED BY <1>3 DEF Roots

\* So are its mints' roots.
LEMMA ServiceRootsType ==
  ASSUME NEW w \in Wallets, NEW host \in Hosts
  PROVE  ServiceRoots(w, host) \subseteq Nodes
<1>1. spend_domain_of(host) \in Texts
  BY SharesAssumption
<1>2. \A r \in Roots(w) : derive_service_root(r, host) \subseteq Nodes
  BY <1>1, RootsType, DomainNodeIsNode DEF derive_service_root
<1> QED BY <1>2 DEF ServiceRoots

\* Hosts that come down to one domain have one root.
LEMMA OneDomainOneRoot ==
  ASSUME NEW w, NEW host, NEW other, spend_domain_of(host) = spend_domain_of(other)
  PROVE  /\ ServiceRoots(w, host) = ServiceRoots(w, other)
         /\ SharesOf(w, host) = SharesOf(w, other)
<1>1. \A r : derive_service_root(r, host) = derive_service_root(r, other)
  BY DEF derive_service_root
<1>2. ServiceRoots(w, host) = ServiceRoots(w, other)
  BY <1>1 DEF ServiceRoots
<1>3. \A a, s : ShareNodes(w, host, a, s) = ShareNodes(w, other, a, s)
  BY <1>2 DEF ShareNodes
<1>4. {ShareNodes(w, host, a, s) : a \in Accounts, s \in ShareNumbers}
        = {ShareNodes(w, other, a, s) : a \in Accounts, s \in ShareNumbers}
  BY <1>3
<1> QED BY <1>2, <1>4 DEF SharesOf

\* Shares are nodes.
LEMMA ShareNodesType ==
  ASSUME NEW w \in Wallets, NEW host \in Hosts,
         NEW account \in Accounts, NEW share \in ShareNumbers
  PROVE  ShareNodes(w, host, account, share) \subseteq Nodes
<1>1. account \in 0..(HARDENED - 1) /\ share \in 0..(HARDENED - 1)
  BY SharesAssumption
<1>2. \A s \in ServiceRoots(w, host) : derive_share_node(s, account, share) \subseteq Nodes
  BY <1>1, ServiceRootsType, ShareIsNode
<1> QED BY <1>2 DEF ShareNodes

\* What is in SharesOf is the public half of a share.
LEMMA SharesOfElements ==
  ASSUME NEW w, NEW host, NEW cx1
  PROVE  cx1 \in SharesOf(w, host) <=>
           \E a \in Accounts, s \in ShareNumbers :
             \E n \in ShareNodes(w, host, a, s) : cx1 = cash_node_to_cx1(n)
BY SMT DEF SharesOf

\* The public half of a node.
LEMMA Cx1Type ==
  ASSUME NEW n \in Nodes
  PROVE  cash_node_to_cx1(n) \in Cx1s
BY PublicKeyType DEF cash_node_to_cx1, Cx1s

\* The branches of the superseded scheme are nodes.
LEMMA BranchesType ==
  ASSUME NEW w \in Wallets, NEW host \in Hosts
  PROVE  Branches(w, host) \subseteq Nodes
<1>1. host \in Texts
  BY SharesAssumption
<1>2. \A r \in Roots(w) : legacy_branch_node(r, host) \subseteq Nodes
  BY <1>1, RootsType, DomainNodeIsNode DEF legacy_branch_node
<1> QED BY <1>2 DEF Branches

\* The path of a note of a wallet's own.
OwnPath(chain, account, index) ==
  [chain |-> chain, account |-> account, share |-> {}, index |-> index]

\* Its key is a node's.
LEMMA OwnNoteKeyType ==
  ASSUME NEW root \in Nodes, NEW chain \in {CHAIN_WALLET, CHAIN_CHANGE},
         NEW account \in 0..(HARDENED - 1), NEW index \in 0..(HARDENED - 1),
         NEW k \in derive_note_key(root, OwnPath(chain, account, index))
  PROVE  \E n \in Nodes : k = NoteKey(n)
<1> DEFINE path == OwnPath(chain, account, index)
           steps == <<account + HARDENED, chain, index>>
<1>1. /\ path.account = account /\ path.chain = chain
      /\ path.share = {} /\ path.index = index
  BY DEF OwnPath
<1>2. /\ Hardened(path.account) = {account + HARDENED}
      /\ below_hardened(path.index) = {index}
  BY <1>1, TreeAssumption DEF Hardened, below_hardened
<1>3. indices(path)
        = {<<a, path.chain, i>> : a \in Hardened(path.account), i \in below_hardened(path.index)}
  BY <1>1, SMT DEF indices
<1>4. indices(path) = {steps}
  <2>1. steps \in indices(path)
    BY <1>1, <1>2, <1>3
  <2>2. ASSUME NEW s \in indices(path)
        PROVE  s = steps
    BY <1>1, <1>2, <1>3
  <2> QED BY <2>1, <2>2
<1>5. steps[1] = account + HARDENED /\ steps[2] = chain /\ steps[3] = index
  OBVIOUS
<1> HIDE DEF path, steps
<1>6. derive_note_key(root, path)
        = {NoteKey(n) : n \in Child(Child(Child({root}, steps[1]), steps[2]), steps[3])}
  BY <1>1, <1>4, Zenon DEF derive_note_key
<1>7. steps[1] \in Indices /\ steps[2] \in Indices /\ steps[3] \in Indices
  BY <1>5, TreeAssumption DEF Indices, CHAIN_WALLET, CHAIN_CHANGE
<1>8. Child({root}, steps[1]) \subseteq Nodes
  BY <1>7, ChildrenAreNodes
<1>9. Child(Child({root}, steps[1]), steps[2]) \subseteq Nodes
  BY <1>7, <1>8, ChildrenAreNodes
<1>10. Child(Child(Child({root}, steps[1]), steps[2]), steps[3]) \subseteq Nodes
  BY <1>7, <1>9, ChildrenAreNodes
<1> QED BY <1>6, <1>10 DEF path

\* A credited key is an x coordinate: of a share's notes, of a key with a script
\* tree and of a superseded branch.
LEMMA CreditedKeyType ==
  ASSUME NEW index \in 0..(HARDENED - 1)
  PROVE  /\ \A cx1 \in Cx1s : derive_note_pubkey(cx1, index) \subseteq XCoordinates
         /\ \A k \in SecretKeys, r \in MerkleRoots :
              taproot_tweak(x(mulG(k)), r) \subseteq XCoordinates
         /\ \A n \in Nodes, p \in Purposes :
              legacy_derive_note_pubkey(legacy_cx1_of(n), p, index) \subseteq XCoordinates
<1>0. index \in Indices
  BY TreeAssumption DEF Indices
<1>1. \A s \in SecretKeys : x(mulG(s)) \in XCoordinates
  BY CurveAssumption DEF SecretKeys, Scalars, XCoordinates
<1>2. ASSUME NEW cx1 \in Cx1s
      PROVE  derive_note_pubkey(cx1, index) \subseteq XCoordinates
  <2> DEFINE data == [hardened |-> FALSE, key |-> cx1.pubkey, index |-> index]
  <2>1. cx1.pubkey \in Points \ {Infinity} /\ cx1.chain_code \in Chains
    BY DEF Cx1s
  <2>2. data \in Data
    BY <2>1, <1>0 DEF Data
  <2>3. hmac_left(cx1.chain_code, data) \in Nat
    BY <2>1, <2>2, TreeAssumption
  <2>4. add_exp_tweak(cx1.pubkey, hmac_left(cx1.chain_code, data)) \subseteq Points \ {Infinity}
    BY <2>1, <2>3, TweakedPointType
  <2>5. ~ (index >= HARDENED)
    BY TreeAssumption
  <2>6. derive_cash_child_pub(cx1.pubkey, cx1.chain_code, index)
          = {[pubkey |-> p, chain_code |-> hmac_right(cx1.chain_code, data)] :
               p \in add_exp_tweak(cx1.pubkey, hmac_left(cx1.chain_code, data))}
    BY <2>5 DEF derive_cash_child_pub
  <2> HIDE DEF data
  <2>7. \A c \in derive_cash_child_pub(cx1.pubkey, cx1.chain_code, index) :
          c.pubkey \in Points \ {Infinity}
    BY <2>4, <2>6
  <2> QED BY <2>7 DEF derive_note_pubkey, XCoordinates
<1>3. ASSUME NEW k \in SecretKeys, NEW r \in MerkleRoots
      PROVE  taproot_tweak(x(mulG(k)), r) \subseteq XCoordinates
  <2>1. taproot_tweak_secret_key(k, r) \subseteq SecretKeys
    BY <1>1, LiftIsEvenKey, TweakType, TreeAssumption DEF taproot_tweak_secret_key
  <2> QED BY <2>1, <1>1, TaprootHalves
<1>4. ASSUME NEW n \in Nodes, NEW p \in Purposes
      PROVE  legacy_derive_note_pubkey(legacy_cx1_of(n), p, index) \subseteq XCoordinates
  <2>1. tagged_derive(x(mulG(n.private_key)), n.chain_code, p, index) \in Nat
    BY <1>0, <1>1, PublicKeyType, TreeAssumption, CurveAssumption DEF Scalars
  <2>2. legacy_derive_note_secret_key(n, p, index) \subseteq SecretKeys
    BY <2>1, PublicKeyType, LiftIsEvenKey, TweakType DEF legacy_derive_note_secret_key
  <2> QED BY <1>0, <2>2, <1>1, LegacyHalves
<1> QED BY <1>2, <1>3, <1>4

(***************************************************************************)
(* Types.                                                                  *)
(***************************************************************************)
\* The message of a proof is one, and binds the mint's domain and the share.
LEMMA ProofMessage ==
  ASSUME NEW action \in {"register", "update", "unregister"}, NEW host \in Hosts,
         NEW cx1 \in {{}} \cup {{c} : c \in Cx1s},
         NEW m \in address_proof_message(action, host, Username, cx1)
  PROVE  /\ m \in Messages
         /\ m.action = action /\ m.domain = spend_domain_of(host) /\ m.cx1 = cx1
BY DEF address_proof_message, Messages

\* What a wallet proves keeps the type of proofs.
LEMMA ProveType ==
  ASSUME TypeOK, NEW w \in Wallets, Prove(w)
  PROVE  \A p \in proofs' : p.by \in XCoordinates /\ p.over \in Messages
<1>1. PICK host \in Hosts, account \in Accounts, share \in ShareNumbers :
        \E signer \in ShareNodes(w, host, account, share) :
          \/ proofs' = proofs \cup
               sign_address_proof(signer.private_key, "register", host, Username,
                                  {cash_node_to_cx1(signer)})
          \/ \E cx1 \in SharesOf(w, host) :
               proofs' = proofs \cup
                 sign_address_proof(signer.private_key, "update", host, Username, {cx1})
          \/ proofs' = proofs \cup
               sign_address_proof(signer.private_key, "unregister", host, Username, {})
  BY DEF Prove
<1>2. PICK signer \in ShareNodes(w, host, account, share) :
          \/ proofs' = proofs \cup
               sign_address_proof(signer.private_key, "register", host, Username,
                                  {cash_node_to_cx1(signer)})
          \/ \E cx1 \in SharesOf(w, host) :
               proofs' = proofs \cup
                 sign_address_proof(signer.private_key, "update", host, Username, {cx1})
          \/ proofs' = proofs \cup
               sign_address_proof(signer.private_key, "unregister", host, Username, {})
  BY <1>1
<1>3. signer \in Nodes
  BY ShareNodesType
<1>4. x(mulG(signer.private_key)) \in XCoordinates
  BY <1>3, PublicKeyType DEF cash_node_public_key, XCoordinates
<1>5. ASSUME NEW action \in {"register", "update", "unregister"},
             NEW cx1 \in {{}} \cup {{c} : c \in Cx1s},
             NEW p \in sign_address_proof(signer.private_key, action, host, Username, cx1)
      PROVE  p.by \in XCoordinates /\ p.over \in Messages
  BY <1>4, ProofMessage DEF sign_address_proof, Signed
<1>6. {cash_node_to_cx1(signer)} \in {{}} \cup {{c} : c \in Cx1s}
  BY <1>3, Cx1Type
<1>7. \A cx1 \in SharesOf(w, host) : {cx1} \in {{}} \cup {{c} : c \in Cx1s}
  <2>1. \A cx1 \in SharesOf(w, host) : cx1 \in Cx1s
    BY SharesOfElements, ShareNodesType, Cx1Type
  <2> QED BY <2>1
<1>8. \A p \in proofs : p.by \in XCoordinates /\ p.over \in Messages
  BY DEF TypeOK
<1>9. CASE proofs' = proofs \cup
             sign_address_proof(signer.private_key, "register", host, Username,
                                {cash_node_to_cx1(signer)})
  BY <1>9, <1>5, <1>6, <1>8
<1>10. CASE \E cx1 \in SharesOf(w, host) :
              proofs' = proofs \cup
                sign_address_proof(signer.private_key, "update", host, Username, {cx1})
  BY <1>10, <1>5, <1>7, <1>8
<1>11. CASE proofs' = proofs \cup
              sign_address_proof(signer.private_key, "unregister", host, Username, {})
  BY <1>11, <1>5, <1>8
<1> QED BY <1>2, <1>9, <1>10, <1>11

\* What is filed is a share.
LEMMA PutOnFileType ==
  ASSUME TypeOK, NEW m \in Mints, NEW cx1 \in Cx1s, PutOnFile(m, cx1)
  PROVE  TypeOK'
<1>1. {cx1} \in {{}} \cup {{c} : c \in Cx1s} /\ 0 \in 0..MaxIndex
  BY SharesAssumption
<1> QED BY <1>1 DEF TypeOK, PutOnFile

\* What a proof binds is a share.
LEMMA BoundShareType ==
  ASSUME TypeOK, NEW p \in proofs, NEW cx1 \in p.over.cx1
  PROVE  cx1 \in Cx1s
BY DEF TypeOK, Messages

\* A note credited to the share on file is typed.
LEMMA CreditType ==
  ASSUME TypeOK, NEW m \in Mints, Credit(m)
  PROVE  TypeOK'
<1>1. PICK cx1 \in onFile[m] :
        credited' = credited \cup
          [mint : {m}, kind : {"share"}, key : derive_note_pubkey(cx1, next[m]),
           wallet : {w \in Wallets : cx1 \in SharesOf(w, m)}, host : {m}]
  BY DEF Credit
<1>2. cx1 \in Cx1s /\ next[m] \in 0..(HARDENED - 1) /\ next[m] + 1 \in 0..MaxIndex
  BY SharesAssumption, TreeAssumption DEF TypeOK, Credit
<1>3. m \in Hosts
  BY SharesAssumption
<1>4. derive_note_pubkey(cx1, next[m]) \subseteq XCoordinates
  BY <1>2, CreditedKeyType
<1>5. [mint : {m}, kind : {"share"}, key : derive_note_pubkey(cx1, next[m]),
       wallet : {w \in Wallets : cx1 \in SharesOf(w, m)}, host : {m}] \subseteq Credits
  BY <1>3, <1>4 DEF Credits
<1>6. credited' \subseteq Credits
  BY <1>1, <1>5 DEF TypeOK
<1>7. next' \in [Mints -> 0..MaxIndex]
  BY <1>2 DEF TypeOK, Credit
<1> QED BY <1>6, <1>7 DEF TypeOK, Credit

\* So is one a wallet mints to its own key.
LEMMA MintType ==
  ASSUME TypeOK, NEW w \in Wallets, Mint(w)
  PROVE  TypeOK'
<1> DEFINE Minted(m, k) ==
             \/ credited' = credited \cup
                  {[mint |-> m, kind |-> "own", key |-> k.output_key, wallet |-> w, host |-> m]}
             \/ \E r \in MerkleRoots :
                  credited' = credited \cup
                    [mint : {m}, kind : {"tree"}, key : taproot_tweak(k.output_key, r),
                     wallet : {w}, host : {m}]
<1>0. PICK m \in Mints, chain \in {CHAIN_WALLET, CHAIN_CHANGE}, account \in Accounts,
           i \in 0..(MaxIndex - 1) :
        \E s \in ServiceRoots(w, m) :
          \E k \in derive_note_key(s, OwnPath(chain, account, i)) : Minted(m, k)
  BY DEF Mint, OwnPath
<1>1. PICK s \in ServiceRoots(w, m) :
        \E k \in derive_note_key(s, OwnPath(chain, account, i)) : Minted(m, k)
  BY <1>0
<1>11. PICK k \in derive_note_key(s, OwnPath(chain, account, i)) : Minted(m, k)
  BY <1>1
<1>2. m \in Hosts /\ account \in 0..(HARDENED - 1) /\ i \in 0..(HARDENED - 1)
  BY SharesAssumption, TreeAssumption
<1>3. s \in Nodes
  BY <1>2, ServiceRootsType
<1>4. PICK n \in Nodes : k = NoteKey(n)
  BY <1>2, <1>3, OwnNoteKeyType
<1>5. /\ n.private_key \in SecretKeys
      /\ k.output_key = x(mulG(n.private_key))
      /\ k.output_key \in XCoordinates
  BY <1>4, PublicKeyType DEF NoteKey, cash_node_public_key, XCoordinates
<1>6. [mint |-> m, kind |-> "own", key |-> k.output_key, wallet |-> w, host |-> m] \in Credits
  BY <1>2, <1>5 DEF Credits
<1>7. ASSUME NEW r \in MerkleRoots
      PROVE  [mint : {m}, kind : {"tree"}, key : taproot_tweak(k.output_key, r),
              wallet : {w}, host : {m}] \subseteq Credits
  <2>1. taproot_tweak(k.output_key, r) \subseteq XCoordinates
    BY <1>2, <1>5, CreditedKeyType
  <2> QED BY <2>1, <1>2 DEF Credits
<1>8. credited' \subseteq Credits
  BY <1>11, <1>6, <1>7 DEF TypeOK
<1> QED BY <1>8 DEF TypeOK, Mint

\* And one of a superseded branch.
LEMMA CreditLegacyType ==
  ASSUME TypeOK, NEW w \in Wallets, CreditLegacy(w)
  PROVE  TypeOK'
<1>0. PICK m \in Mints, host \in Hosts, purpose \in Purposes, i \in 0..(MaxIndex - 1) :
        \E n \in Branches(w, host) :
          credited' = credited \cup
            [mint : {m}, kind : {"legacy"},
             key : legacy_derive_note_pubkey(legacy_cx1_of(n), purpose, i),
             wallet : {w}, host : {host}]
  BY DEF CreditLegacy
<1>1. PICK n \in Branches(w, host) :
        credited' = credited \cup
          [mint : {m}, kind : {"legacy"},
           key : legacy_derive_note_pubkey(legacy_cx1_of(n), purpose, i),
           wallet : {w}, host : {host}]
  BY <1>0
<1>2. n \in Nodes
  BY BranchesType
<1>3. i \in 0..(HARDENED - 1)
  BY SharesAssumption, TreeAssumption
<1>4. legacy_derive_note_pubkey(legacy_cx1_of(n), purpose, i) \subseteq XCoordinates
  BY <1>2, <1>3, CreditedKeyType
<1>5. credited' \subseteq Credits
  BY <1>1, <1>4 DEF TypeOK, Credits
<1> QED BY <1>5 DEF TypeOK, CreditLegacy

\* Every variable keeps its type, whatever the group and the hashes.
THEOREM SharesTypeCorrect == Spec => []TypeOK
<1>1. Init => TypeOK
  BY SharesAssumption DEF Init, TypeOK
<1>2. TypeOK /\ [Next]_vars => TypeOK'
  <2> SUFFICES ASSUME TypeOK, [Next]_vars PROVE TypeOK'
    OBVIOUS
  <2>1. ASSUME NEW w \in Wallets, Prove(w) PROVE TypeOK'
    BY <2>1, ProveType DEF TypeOK, Prove
  <2>2. ASSUME NEW w \in Wallets, Mint(w) PROVE TypeOK'
    BY <2>2, MintType
  <2>3. ASSUME NEW w \in Wallets, CreditLegacy(w) PROVE TypeOK'
    BY <2>3, CreditLegacyType
  <2>4. ASSUME NEW m \in Mints, Register(m) PROVE TypeOK'
    BY <2>4, BoundShareType, PutOnFileType DEF Register
  <2>5. ASSUME NEW m \in Mints, Update(m) PROVE TypeOK'
    BY <2>5, BoundShareType, PutOnFileType DEF Update
  <2>6. ASSUME NEW m \in Mints, Unregister(m) PROVE TypeOK'
    BY <2>6 DEF TypeOK, Unregister
  <2>7. ASSUME NEW m \in Mints, Credit(m) PROVE TypeOK'
    BY <2>7, CreditType
  <2>8. CASE UNCHANGED vars
    BY <2>8 DEF vars, TypeOK
  <2> QED BY <2>1, <2>2, <2>3, <2>4, <2>5, <2>6, <2>7, <2>8 DEF Next
<1> QED BY <1>1, <1>2, PTL DEF Spec

(***************************************************************************)
(* What is on file.                                                        *)
(***************************************************************************)
\* Every share a proof binds is one that some wallet has at the mint the proof
\* is for.
ProvenIsSomebodys ==
  \A p \in proofs : \A cx1 \in p.over.cx1 :
    \E w \in Wallets, host \in Hosts :
      /\ p.over.domain = spend_domain_of(host)
      /\ cx1 \in SharesOf(w, host)

\* A wallet signs for its own shares only.
LEMMA ProveBindsOwn ==
  ASSUME TypeOK, ProvenIsSomebodys, NEW w \in Wallets, Prove(w)
  PROVE  ProvenIsSomebodys'
<1> DEFINE Bound(p, host) == \A cx1 \in p.over.cx1 : /\ p.over.domain = spend_domain_of(host)
                                                     /\ cx1 \in SharesOf(w, host)
<1>1. PICK host \in Hosts, account \in Accounts, share \in ShareNumbers :
        \E signer \in ShareNodes(w, host, account, share) :
          \/ proofs' = proofs \cup
               sign_address_proof(signer.private_key, "register", host, Username,
                                  {cash_node_to_cx1(signer)})
          \/ \E cx1 \in SharesOf(w, host) :
               proofs' = proofs \cup
                 sign_address_proof(signer.private_key, "update", host, Username, {cx1})
          \/ proofs' = proofs \cup
               sign_address_proof(signer.private_key, "unregister", host, Username, {})
  BY DEF Prove
<1>2. PICK signer \in ShareNodes(w, host, account, share) :
          \/ proofs' = proofs \cup
               sign_address_proof(signer.private_key, "register", host, Username,
                                  {cash_node_to_cx1(signer)})
          \/ \E cx1 \in SharesOf(w, host) :
               proofs' = proofs \cup
                 sign_address_proof(signer.private_key, "update", host, Username, {cx1})
          \/ proofs' = proofs \cup
               sign_address_proof(signer.private_key, "unregister", host, Username, {})
  BY <1>1
<1>3. cash_node_to_cx1(signer) \in SharesOf(w, host)
  BY SharesOfElements
<1>4. \A cx1 \in SharesOf(w, host) : {cx1} \in {{}} \cup {{c} : c \in Cx1s}
  <2>1. \A cx1 \in SharesOf(w, host) : cx1 \in Cx1s
    BY SharesOfElements, ShareNodesType, Cx1Type
  <2> QED BY <2>1
<1>5. ASSUME NEW action \in {"register", "update", "unregister"},
             NEW bound \in {{}} \cup {{c} : c \in SharesOf(w, host)},
             NEW p \in sign_address_proof(signer.private_key, action, host, Username, bound)
      PROVE  Bound(p, host)
  <2>1. bound \in {{}} \cup {{c} : c \in Cx1s}
    BY <1>4
  <2>2. p.over \in address_proof_message(action, host, Username, bound)
    BY DEF sign_address_proof, Signed
  <2>3. p.over.domain = spend_domain_of(host) /\ p.over.cx1 = bound
    BY <2>1, <2>2, ProofMessage
  <2> QED BY <2>3
<1>6. \A p \in proofs' : p \in proofs \/ Bound(p, host)
  BY <1>2, <1>3, <1>5
<1> QED BY <1>6 DEF ProvenIsSomebodys

\* A share that a proof for this mint binds is somebody's at this mint.
LEMMA VerifiedIsSomebodys ==
  ASSUME ProvenIsSomebodys, NEW m \in Mints, NEW p \in proofs, NEW cx1 \in p.over.cx1,
         NEW signer, NEW action \in {"register", "update"},
         verify_address_proof(signer, p, action, m, Username, {cx1})
  PROVE  \E w \in Wallets : cx1 \in SharesOf(w, m)
<1>1. p.over.domain = spend_domain_of(m)
  BY DEF verify_address_proof, address_proof_message
<1>2. PICK w \in Wallets, host \in Hosts :
        p.over.domain = spend_domain_of(host) /\ cx1 \in SharesOf(w, host)
  BY DEF ProvenIsSomebodys
<1> QED BY <1>1, <1>2, OneDomainOneRoot

\* Filing such a share keeps the register clean.
LEMMA PutOnFileKeeps ==
  ASSUME TypeOK, OnFileIsSomebodys, NEW m \in Mints, NEW cx1,
         \E w \in Wallets : cx1 \in SharesOf(w, m), PutOnFile(m, cx1)
  PROVE  OnFileIsSomebodys'
BY DEF TypeOK, OnFileIsSomebodys, PutOnFile

\* Nothing is on file but a share that somebody has at this very mint, however
\* often and wherever proofs arrive again.
THEOREM OnFileIsSomebodysHolds == Spec => []OnFileIsSomebodys
<1> DEFINE Inv == TypeOK /\ ProvenIsSomebodys /\ OnFileIsSomebodys
<1>1. Init => ProvenIsSomebodys /\ OnFileIsSomebodys
  BY DEF Init, ProvenIsSomebodys, OnFileIsSomebodys
<1>2. TypeOK /\ ProvenIsSomebodys /\ OnFileIsSomebodys /\ [Next]_vars
        => ProvenIsSomebodys' /\ OnFileIsSomebodys'
  <2> SUFFICES ASSUME TypeOK, ProvenIsSomebodys, OnFileIsSomebodys, [Next]_vars
               PROVE  ProvenIsSomebodys' /\ OnFileIsSomebodys'
    OBVIOUS
  <2>1. ASSUME NEW w \in Wallets, Prove(w)
        PROVE  ProvenIsSomebodys' /\ OnFileIsSomebodys'
    <3>1. OnFileIsSomebodys'
      BY <2>1 DEF Prove, OnFileIsSomebodys
    <3> QED BY <3>1, <2>1, ProveBindsOwn
  <2>2. ASSUME NEW w \in Wallets, Mint(w) \/ CreditLegacy(w)
        PROVE  ProvenIsSomebodys' /\ OnFileIsSomebodys'
    BY <2>2 DEF Mint, CreditLegacy, ProvenIsSomebodys, OnFileIsSomebodys
  <2>3. ASSUME NEW m \in Mints, Register(m)
        PROVE  ProvenIsSomebodys' /\ OnFileIsSomebodys'
    <3>1. PICK p \in proofs : \E cx1 \in p.over.cx1 :
            /\ verify_address_proof(cx1, p, "register", m, Username, {cx1})
            /\ PutOnFile(m, cx1)
      BY <2>3 DEF Register
    <3>2. PICK cx1 \in p.over.cx1 :
            /\ verify_address_proof(cx1, p, "register", m, Username, {cx1})
            /\ PutOnFile(m, cx1)
      BY <3>1
    <3>3. \E w \in Wallets : cx1 \in SharesOf(w, m)
      BY <3>2, VerifiedIsSomebodys
    <3>4. OnFileIsSomebodys'
      BY <3>2, <3>3, PutOnFileKeeps
    <3>5. ProvenIsSomebodys'
      BY <3>2 DEF PutOnFile, ProvenIsSomebodys
    <3> QED BY <3>4, <3>5
  <2>4. ASSUME NEW m \in Mints, Update(m)
        PROVE  ProvenIsSomebodys' /\ OnFileIsSomebodys'
    <3>1. PICK old \in onFile[m], p \in proofs, q \in proofs : \E cx1 \in p.over.cx1 :
            /\ verify_address_proof(old, p, "update", m, Username, {cx1})
            /\ PutOnFile(m, cx1)
      BY <2>4 DEF Update
    <3>2. PICK cx1 \in p.over.cx1 :
            /\ verify_address_proof(old, p, "update", m, Username, {cx1})
            /\ PutOnFile(m, cx1)
      BY <3>1
    <3>3. \E w \in Wallets : cx1 \in SharesOf(w, m)
      BY <3>2, VerifiedIsSomebodys
    <3>4. OnFileIsSomebodys'
      BY <3>2, <3>3, PutOnFileKeeps
    <3>5. ProvenIsSomebodys'
      BY <3>2 DEF PutOnFile, ProvenIsSomebodys
    <3> QED BY <3>4, <3>5
  <2>5. ASSUME NEW m \in Mints, Unregister(m)
        PROVE  ProvenIsSomebodys' /\ OnFileIsSomebodys'
    BY <2>5 DEF TypeOK, Unregister, ProvenIsSomebodys, OnFileIsSomebodys
  <2>6. ASSUME NEW m \in Mints, Credit(m)
        PROVE  ProvenIsSomebodys' /\ OnFileIsSomebodys'
    BY <2>6 DEF Credit, ProvenIsSomebodys, OnFileIsSomebodys
  <2>7. CASE UNCHANGED vars
    BY <2>7 DEF vars, ProvenIsSomebodys, OnFileIsSomebodys
  <2> QED BY <2>1, <2>2, <2>3, <2>4, <2>5, <2>6, <2>7 DEF Next
<1> QED BY <1>1, <1>2, SharesTypeCorrect, PTL DEF Spec

(***************************************************************************)
(* What opens.                                                             *)
(***************************************************************************)
\* What EveryCreditOpens says of one credit.
CreditOpens(c) ==
  \A host \in Hosts :
    spend_domain_of(host) = spend_domain_of(c.mint) =>
      \E sk \in SecretsFor(c, c.wallet, host) :
        opens(sign_note_ownership(sk, host), c.key, c.mint)

\* The key of a note opens it at its mint, however the host is written.
LEMMA KeyOpens ==
  ASSUME NEW sk, NEW host, NEW mint, spend_domain_of(host) = spend_domain_of(mint)
  PROVE  opens(sign_note_ownership(sk, host), x(mulG(sk)), mint)
BY DEF opens, sign_note_ownership, Signed

\* A note's key and the secret that opens it.
LEMMA NoteKeyHalves ==
  ASSUME NEW n
  PROVE  NoteKey(n).output_key = x(mulG(NoteKey(n).secret_key))
BY DEF NoteKey, cash_node_public_key

\* A note credited to a share on file opens.
LEMMA ShareCreditOpens ==
  ASSUME NEW m \in Mints, NEW i \in 0..(MaxIndex - 1), NEW w \in Wallets,
         NEW cx1 \in SharesOf(w, m), NEW key \in derive_note_pubkey(cx1, i)
  PROVE  CreditOpens([mint |-> m, kind |-> "share", key |-> key, wallet |-> w, host |-> m])
<1> DEFINE c == [mint |-> m, kind |-> "share", key |-> key, wallet |-> w, host |-> m]
<1> SUFFICES ASSUME NEW host \in Hosts, spend_domain_of(host) = spend_domain_of(m)
             PROVE  \E sk \in SecretsFor(c, w, host) :
                      opens(sign_note_ownership(sk, host), key, m)
  BY DEF CreditOpens
<1>1. cx1 \in SharesOf(w, host)
  BY OneDomainOneRoot
<1>2. PICK a \in Accounts, s \in ShareNumbers :
        \E n \in ShareNodes(w, host, a, s) : cx1 = cash_node_to_cx1(n)
  BY <1>1, SharesOfElements
<1>3. PICK r \in ServiceRoots(w, host) :
        \E n \in derive_share_node(r, a, s) : cx1 = cash_node_to_cx1(n)
  BY <1>2 DEF ShareNodes
<1>4. /\ r \in Nodes /\ a \in 0..(HARDENED - 1) /\ s \in 0..(HARDENED - 1)
      /\ i \in 0..(HARDENED - 1)
  BY ServiceRootsType, SharesAssumption, TreeAssumption
<1>5. key \in {k.output_key : k \in derive_note_key(r, ShareNotePath(a, s, i))}
  BY <1>3, <1>4, ShareHalves
<1>6. PICK k \in derive_note_key(r, ShareNotePath(a, s, i)) : key = k.output_key
  BY <1>5
<1>7. key = x(mulG(k.secret_key))
  BY <1>4, <1>6, ShareNoteIsBelow, NoteKeyHalves
<1>8. k \in ShareNoteKeys(w, host)
  <2> DEFINE F(t, b, n, j) == derive_note_key(t, ShareNotePath(b, n, j))
  <2>1. ShareNoteKeys(w, host)
          = UNION {F(t, b, n, j) : t \in ServiceRoots(w, host), b \in Accounts,
                     n \in ShareNumbers, j \in 0..(MaxIndex - 1)}
    BY SMT DEF ShareNoteKeys, ShareNotePath
  <2>2. k \in F(r, a, s, i)
    BY <1>6
  <2> HIDE DEF F
  <2> QED BY <2>1, <2>2
<1>9. SecretsFor(c, w, host) = {j.secret_key : j \in ShareNoteKeys(w, host)}
  BY DEF SecretsFor
<1> QED BY <1>7, <1>8, <1>9, KeyOpens

\* A note of a wallet's own opens, with a script tree or without.
LEMMA OwnCreditOpens ==
  ASSUME NEW m \in Mints, NEW chain \in {CHAIN_WALLET, CHAIN_CHANGE}, NEW a \in Accounts,
         NEW i \in 0..(MaxIndex - 1), NEW w \in Wallets, NEW r \in ServiceRoots(w, m),
         NEW k \in derive_note_key(r, OwnPath(chain, a, i))
  PROVE  /\ CreditOpens([mint |-> m, kind |-> "own", key |-> k.output_key, wallet |-> w,
                         host |-> m])
         /\ \A root \in MerkleRoots : \A key \in taproot_tweak(k.output_key, root) :
              CreditOpens([mint |-> m, kind |-> "tree", key |-> key, wallet |-> w, host |-> m])
<1>1. /\ m \in Hosts /\ a \in 0..(HARDENED - 1) /\ i \in 0..(HARDENED - 1)
  BY SharesAssumption, TreeAssumption
<1>2. r \in Nodes
  BY <1>1, ServiceRootsType
<1>3. PICK n \in Nodes : k = NoteKey(n)
  BY <1>1, <1>2, OwnNoteKeyType
<1>4. k.secret_key \in SecretKeys /\ k.output_key = x(mulG(k.secret_key))
  BY <1>3, PublicKeyType DEF NoteKey, cash_node_public_key
<1>5. ASSUME NEW host \in Hosts, spend_domain_of(host) = spend_domain_of(m)
      PROVE  k \in OwnNoteKeys(w, host)
  <2>1. r \in ServiceRoots(w, host)
    BY <1>5, OneDomainOneRoot
  <2> DEFINE F(t, c, b, j) == derive_note_key(t, OwnPath(c, b, j))
  <2>2. OwnNoteKeys(w, host)
          = UNION {F(t, c, b, j) : t \in ServiceRoots(w, host),
                     c \in {CHAIN_WALLET, CHAIN_CHANGE}, b \in Accounts,
                     j \in 0..(MaxIndex - 1)}
    BY SMT DEF OwnNoteKeys, OwnPath
  <2>3. k \in F(r, chain, a, i)
    OBVIOUS
  <2> HIDE DEF F
  <2> QED BY <2>1, <2>2, <2>3
<1>6. CreditOpens([mint |-> m, kind |-> "own", key |-> k.output_key, wallet |-> w, host |-> m])
  <2> DEFINE c == [mint |-> m, kind |-> "own", key |-> k.output_key, wallet |-> w, host |-> m]
  <2> SUFFICES ASSUME NEW host \in Hosts, spend_domain_of(host) = spend_domain_of(m)
               PROVE  \E sk \in SecretsFor(c, w, host) :
                        opens(sign_note_ownership(sk, host), k.output_key, m)
    BY DEF CreditOpens
  <2>1. SecretsFor(c, w, host) = {j.secret_key : j \in OwnNoteKeys(w, host)}
    BY DEF SecretsFor
  <2> QED BY <2>1, <1>4, <1>5, KeyOpens
<1>7. ASSUME NEW root \in MerkleRoots, NEW key \in taproot_tweak(k.output_key, root)
      PROVE  CreditOpens([mint |-> m, kind |-> "tree", key |-> key, wallet |-> w, host |-> m])
  <2> DEFINE c == [mint |-> m, kind |-> "tree", key |-> key, wallet |-> w, host |-> m]
  <2> SUFFICES ASSUME NEW host \in Hosts, spend_domain_of(host) = spend_domain_of(m)
               PROVE  \E sk \in SecretsFor(c, w, host) :
                        opens(sign_note_ownership(sk, host), key, m)
    BY DEF CreditOpens
  <2>1. SecretsFor(c, w, host)
          = UNION {taproot_tweak_secret_key(j.secret_key, t) :
                     j \in OwnNoteKeys(w, host), t \in MerkleRoots}
    BY DEF SecretsFor
  <2>2. PICK sk \in taproot_tweak_secret_key(k.secret_key, root) : key = x(mulG(sk))
    BY <1>4, <1>7, TaprootHalves
  <2>3. sk \in SecretsFor(c, w, host)
    BY <2>1, <2>2, <1>5
  <2> QED BY <2>2, <2>3, KeyOpens
<1> QED BY <1>6, <1>7

\* And one of a superseded branch.
LEMMA LegacyCreditOpens ==
  ASSUME NEW m \in Mints, NEW written \in Hosts, NEW purpose \in Purposes,
         NEW i \in 0..(MaxIndex - 1), NEW w \in Wallets, NEW n \in Branches(w, written),
         NEW key \in legacy_derive_note_pubkey(legacy_cx1_of(n), purpose, i)
  PROVE  CreditOpens([mint |-> m, kind |-> "legacy", key |-> key, wallet |-> w,
                      host |-> written])
<1> DEFINE c == [mint |-> m, kind |-> "legacy", key |-> key, wallet |-> w, host |-> written]
<1> SUFFICES ASSUME NEW host \in Hosts, spend_domain_of(host) = spend_domain_of(m)
             PROVE  \E sk \in SecretsFor(c, w, host) :
                      opens(sign_note_ownership(sk, host), key, m)
  BY DEF CreditOpens
<1>1. n \in Nodes /\ i \in Indices
  BY BranchesType, SharesAssumption, TreeAssumption DEF Indices
<1>2. PICK sk \in legacy_derive_note_secret_key(n, purpose, i) : key = x(mulG(sk))
  BY <1>1, LegacyHalves
<1>3. SecretsFor(c, w, host)
        = UNION {legacy_derive_note_secret_key(b, p, j) :
                   b \in Branches(w, written), p \in Purposes, j \in 0..(MaxIndex - 1)}
  BY DEF SecretsFor
<1>4. sk \in SecretsFor(c, w, host)
  BY <1>2, <1>3
<1> QED BY <1>2, <1>4, KeyOpens

\* Whoever has the seed opens every note that was ever credited to the wallet.
THEOREM EveryCreditOpensHolds == Spec => []EveryCreditOpens
<1>1. Init => EveryCreditOpens
  BY DEF Init, EveryCreditOpens
<1>2. EveryCreditOpens <=> \A c \in credited : CreditOpens(c)
  BY DEF EveryCreditOpens, CreditOpens
<1>3. EveryCreditOpens' <=> \A c \in credited' : CreditOpens(c)
  BY DEF EveryCreditOpens, CreditOpens
<1>4. TypeOK /\ EveryCreditOpens /\ [Next]_vars => EveryCreditOpens'
  <2> SUFFICES ASSUME TypeOK, EveryCreditOpens, [Next]_vars
               PROVE  \A c \in credited' : c \in credited \/ CreditOpens(c)
    BY <1>2, <1>3
  <2>1. ASSUME NEW m \in Mints, Credit(m)
        PROVE  \A c \in credited' : c \in credited \/ CreditOpens(c)
    <3>1. PICK cx1 \in onFile[m] :
            credited' = credited \cup
              [mint : {m}, kind : {"share"}, key : derive_note_pubkey(cx1, next[m]),
               wallet : {w \in Wallets : cx1 \in SharesOf(w, m)}, host : {m}]
      BY <2>1 DEF Credit
    <3>2. next[m] \in 0..(MaxIndex - 1)
      BY <2>1, SharesAssumption DEF Credit, TypeOK
    <3>3. ASSUME NEW c \in [mint : {m}, kind : {"share"},
                            key : derive_note_pubkey(cx1, next[m]),
                            wallet : {w \in Wallets : cx1 \in SharesOf(w, m)}, host : {m}]
          PROVE  CreditOpens(c)
      <4>1. /\ c = [mint |-> m, kind |-> "share", key |-> c.key, wallet |-> c.wallet, host |-> m]
            /\ c.key \in derive_note_pubkey(cx1, next[m])
            /\ c.wallet \in Wallets /\ cx1 \in SharesOf(c.wallet, m)
        OBVIOUS
      <4>2. CreditOpens([mint |-> m, kind |-> "share", key |-> c.key, wallet |-> c.wallet,
                         host |-> m])
        BY <4>1, <3>2, ShareCreditOpens
      <4> QED BY <4>1, <4>2
    <3> QED BY <3>1, <3>3
  <2>2. ASSUME NEW w \in Wallets, Mint(w)
        PROVE  \A c \in credited' : c \in credited \/ CreditOpens(c)
    <3> DEFINE Minted(m, k) ==
                 \/ credited' = credited \cup
                      {[mint |-> m, kind |-> "own", key |-> k.output_key, wallet |-> w,
                        host |-> m]}
                 \/ \E r \in MerkleRoots :
                      credited' = credited \cup
                        [mint : {m}, kind : {"tree"}, key : taproot_tweak(k.output_key, r),
                         wallet : {w}, host : {m}]
    <3>1. PICK m \in Mints, chain \in {CHAIN_WALLET, CHAIN_CHANGE}, a \in Accounts,
               i \in 0..(MaxIndex - 1) :
            \E s \in ServiceRoots(w, m) :
              \E k \in derive_note_key(s, OwnPath(chain, a, i)) : Minted(m, k)
      BY <2>2 DEF Mint, OwnPath
    <3>2. PICK s \in ServiceRoots(w, m) :
            \E k \in derive_note_key(s, OwnPath(chain, a, i)) : Minted(m, k)
      BY <3>1
    <3>3. PICK k \in derive_note_key(s, OwnPath(chain, a, i)) : Minted(m, k)
      BY <3>2
    <3>4. CreditOpens([mint |-> m, kind |-> "own", key |-> k.output_key, wallet |-> w,
                       host |-> m])
      BY OwnCreditOpens
    <3>5. ASSUME NEW r \in MerkleRoots,
                 NEW c \in [mint : {m}, kind : {"tree"}, key : taproot_tweak(k.output_key, r),
                            wallet : {w}, host : {m}]
          PROVE  CreditOpens(c)
      <4>1. /\ c = [mint |-> m, kind |-> "tree", key |-> c.key, wallet |-> w, host |-> m]
            /\ c.key \in taproot_tweak(k.output_key, r)
        OBVIOUS
      <4>2. CreditOpens([mint |-> m, kind |-> "tree", key |-> c.key, wallet |-> w, host |-> m])
        BY <4>1, OwnCreditOpens
      <4> QED BY <4>1, <4>2
    <3> QED BY <3>3, <3>4, <3>5
  <2>3. ASSUME NEW w \in Wallets, CreditLegacy(w)
        PROVE  \A c \in credited' : c \in credited \/ CreditOpens(c)
    <3>1. PICK m \in Mints, host \in Hosts, purpose \in Purposes, i \in 0..(MaxIndex - 1) :
            \E n \in Branches(w, host) :
              credited' = credited \cup
                [mint : {m}, kind : {"legacy"},
                 key : legacy_derive_note_pubkey(legacy_cx1_of(n), purpose, i),
                 wallet : {w}, host : {host}]
      BY <2>3 DEF CreditLegacy
    <3>2. PICK n \in Branches(w, host) :
            credited' = credited \cup
              [mint : {m}, kind : {"legacy"},
               key : legacy_derive_note_pubkey(legacy_cx1_of(n), purpose, i),
               wallet : {w}, host : {host}]
      BY <3>1
    <3>3. ASSUME NEW c \in [mint : {m}, kind : {"legacy"},
                            key : legacy_derive_note_pubkey(legacy_cx1_of(n), purpose, i),
                            wallet : {w}, host : {host}]
          PROVE  CreditOpens(c)
      <4>1. /\ c = [mint |-> m, kind |-> "legacy", key |-> c.key, wallet |-> w, host |-> host]
            /\ c.key \in legacy_derive_note_pubkey(legacy_cx1_of(n), purpose, i)
        OBVIOUS
      <4>2. CreditOpens([mint |-> m, kind |-> "legacy", key |-> c.key, wallet |-> w,
                         host |-> host])
        BY <4>1, LegacyCreditOpens
      <4> QED BY <4>1, <4>2
    <3> QED BY <3>2, <3>3
  <2>4. CASE UNCHANGED credited
    BY <2>4
  <2> QED BY <2>1, <2>2, <2>3, <2>4
          DEF Next, vars, Prove, Register, Update, Unregister, PutOnFile
<1> QED BY <1>1, <1>4, SharesTypeCorrect, PTL DEF Spec

(***************************************************************************)
(* What another implementation finds.                                      *)
(***************************************************************************)
\* The walk of ckd_priv is the one its definition describes: there is one.
LEMMA CkdWalks ==
  ASSUME NEW nodes, NEW path, Len(path) \in Nat
  PROVE  \E at : /\ at[0] = nodes
                 /\ \A i \in 1..Len(path) : at[i] = Child(at[i - 1], path[i])
                 /\ ckd_priv(nodes, path) = at[Len(path)]
<1> DEFINE Walk(f, n) ==
             f = [i \in 0..n |-> IF i = 0 THEN nodes ELSE Child(f[i - 1], path[i])]
           at == CHOOSE f : Walk(f, Len(path))
           K == {n \in Nat : \E f : Walk(f, n)}
<1>1. 0 \in K
  <2> DEFINE f == [i \in 0..0 |-> nodes]
  <2>1. f = [i \in 0..0 |-> IF i = 0 THEN nodes ELSE Child(f[i - 1], path[i])]
    OBVIOUS
  <2> HIDE DEF f
  <2> QED BY <2>1
<1>2. ASSUME NEW n \in Nat, n \in K PROVE n + 1 \in K
  <2>1. PICK f : Walk(f, n)
    BY <1>2
  <2> DEFINE g == [i \in 0..(n + 1) |-> IF i = n + 1 THEN Child(f[n], path[n + 1]) ELSE f[i]]
             h == [i \in 0..(n + 1) |-> IF i = 0 THEN nodes ELSE Child(g[i - 1], path[i])]
  <2>2. ASSUME NEW i \in 0..(n + 1) PROVE g[i] = h[i]
    <3>1. CASE i = n + 1
      <4>1. g[n] = f[n] /\ i - 1 = n /\ i # 0
        BY <3>1
      <4>2. g[i] = Child(f[n], path[n + 1]) /\ h[i] = Child(g[i - 1], path[i])
        BY <3>1, <4>1
      <4> HIDE DEF g, h
      <4> QED BY <3>1, <4>1, <4>2
    <3>2. CASE i # n + 1
      <4>1. i \in 0..n /\ g[i] = f[i]
        BY <3>2
      <4>2. f[i] = IF i = 0 THEN nodes ELSE Child(f[i - 1], path[i])
        BY <2>1, <4>1
      <4>3. i # 0 => g[i - 1] = f[i - 1]
        BY <4>1
      <4>4. h[i] = IF i = 0 THEN nodes ELSE Child(g[i - 1], path[i])
        OBVIOUS
      <4> HIDE DEF g, h
      <4> QED BY <4>1, <4>2, <4>3, <4>4
    <3> QED BY <3>1, <3>2
  <2>3. g = h
    BY <2>2
  <2>4. Walk(g, n + 1)
    BY <2>3
  <2> HIDE DEF g, Walk
  <2> QED BY <2>4
<1>3. Nat \subseteq K
  <2> HIDE DEF K
  <2> QED BY <1>1, <1>2, SetInduction
<1>4. Walk(at, Len(path))
  <2>1. \E f : Walk(f, Len(path))
    BY <1>3
  <2> HIDE DEF Walk
  <2> QED BY <2>1
<1>5. ckd_priv(nodes, path) = at[Len(path)]
  BY DEF ckd_priv
<1> HIDE DEF at
<1>6. at[0] = nodes /\ \A i \in 1..Len(path) : at[i] = Child(at[i - 1], path[i])
  BY <1>4
<1> QED BY <1>5, <1>6

\* A step down from more nodes leads to more.
LEMMA ChildGrows ==
  ASSUME NEW some, NEW more, some \subseteq more, NEW index
  PROVE  Child(some, index) \subseteq Child(more, index)
BY DEF Child

\* One published path: the levels of a domain, and a share's note below them.
PublishedPath(d, account, share, index) ==
  <<d[1], d[2], d[3], d[4], account + HARDENED, 2, share + HARDENED, index>>

DomainNodes(root, d) == Child(Child(Child(Child({root}, d[1]), d[2]), d[3]), d[4])

NotesBelow(nodes, account, share, index) ==
  Child(Child(Child(Child(nodes, account + HARDENED), CHAIN_SHARE), share + HARDENED), index)

\* The walk of a published path, as the crate takes it.
LEMMA PathToNote ==
  ASSUME NEW root, NEW d, NEW account, NEW share, NEW index
  PROVE  ckd_priv({root}, PublishedPath(d, account, share, index))
           = NotesBelow(DomainNodes(root, d), account, share, index)
<1> DEFINE path == PublishedPath(d, account, share, index)
           a == account + HARDENED
           s == share + HARDENED
<1>1. /\ Len(path) = 8
      /\ path[1] = d[1] /\ path[2] = d[2] /\ path[3] = d[3] /\ path[4] = d[4]
      /\ path[5] = a /\ path[6] = 2 /\ path[7] = s /\ path[8] = index
  BY DEF PublishedPath
<1> HIDE DEF path, a, s
<1>2. PICK at : /\ at[0] = {root}
                /\ \A j \in 1..8 : at[j] = Child(at[j - 1], path[j])
                /\ ckd_priv({root}, path) = at[8]
  <2>1. Len(path) \in Nat
    BY <1>1
  <2>2. PICK at : /\ at[0] = {root}
                  /\ \A j \in 1..Len(path) : at[j] = Child(at[j - 1], path[j])
                  /\ ckd_priv({root}, path) = at[Len(path)]
    BY Zenon, <2>1, CkdWalks
  <2>3. /\ at[0] = {root}
        /\ \A j \in 1..8 : at[j] = Child(at[j - 1], path[j])
        /\ ckd_priv({root}, path) = at[8]
    BY Zenon, <1>1, <2>2
  <2> QED BY Zenon, <2>3
<1>3. /\ at[1] = Child(at[0], d[1]) /\ at[2] = Child(at[1], d[2])
      /\ at[3] = Child(at[2], d[3]) /\ at[4] = Child(at[3], d[4])
  BY <1>1, <1>2
<1>4. /\ at[5] = Child(at[4], a) /\ at[6] = Child(at[5], CHAIN_SHARE)
      /\ at[7] = Child(at[6], s) /\ at[8] = Child(at[7], index)
  BY <1>1, <1>2 DEF CHAIN_SHARE
<1>5. at[4] = DomainNodes(root, d)
  BY Zenon, <1>2, <1>3 DEF DomainNodes
<1>6. at[8] = NotesBelow(at[4], account, share, index)
  BY Zenon, <1>4 DEF NotesBelow, a, s
<1>7. ckd_priv({root}, path) = at[8]
  BY <1>2
<1> QED BY Zenon, <1>5, <1>6, <1>7 DEF path

\* And the one to the node the levels of a domain are drawn from.
LEMMA PathToDomains ==
  ASSUME NEW root
  PROVE  ckd_priv({root}, <<0>>) = derive_cash_child(root, 0)
<1>1. Len(<<0>>) = 1 /\ <<0>>[1] = 0
  OBVIOUS
<1>2. PICK at : /\ at[0] = {root}
                /\ at[1] = Child(at[0], 0)
                /\ ckd_priv({root}, <<0>>) = at[1]
  <2>1. PICK at : /\ at[0] = {root}
                  /\ \A j \in 1..1 : at[j] = Child(at[j - 1], <<0>>[j])
                  /\ ckd_priv({root}, <<0>>) = at[1]
    BY <1>1, CkdWalks
  <2>2. at[1] = Child(at[0], 0)
    BY <2>1
  <2> QED BY <2>1, <2>2
<1>3. Child({root}, 0) = derive_cash_child(root, 0)
  BY DEF Child
<1> QED BY <1>2, <1>3

\* What FoundElsewhere says of one credit.
NoteFound(w, mint, key) ==
  \E root \in Roots(w) :
    \E path \in PublishedPaths(root, spend_domain_of(mint)) :
      \E n \in ckd_priv({root}, path) : x(mulG(n.private_key)) = key

CreditFound(c) == c.kind = "share" => NoteFound(c.wallet, c.mint, c.key)

\* More nodes have more notes below them.
LEMMA NotesGrow ==
  ASSUME NEW some, NEW more, some \subseteq more, NEW account, NEW share, NEW index
  PROVE  NotesBelow(some, account, share, index) \subseteq NotesBelow(more, account, share, index)
<1> DEFINE A(nodes) == Child(nodes, account + HARDENED)
           B(nodes) == Child(A(nodes), CHAIN_SHARE)
           C(nodes) == Child(B(nodes), share + HARDENED)
<1>1. A(some) \subseteq A(more)
  BY ChildGrows
<1>2. B(some) \subseteq B(more)
  <2> HIDE DEF A
  <2> QED BY <1>1, ChildGrows
<1>3. C(some) \subseteq C(more)
  <2> HIDE DEF B
  <2> QED BY <1>2, ChildGrows
<1>4. Child(C(some), index) \subseteq Child(C(more), index)
  <2> HIDE DEF C
  <2> QED BY <1>3, ChildGrows
<1> QED BY <1>4 DEF NotesBelow

\* A note of a share is at the end of a published path.
LEMMA ShareCreditFound ==
  ASSUME NEW m \in Mints, NEW i \in 0..(MaxIndex - 1), NEW w \in Wallets,
         NEW cx1 \in SharesOf(w, m), NEW key \in derive_note_pubkey(cx1, i)
  PROVE  NoteFound(w, m, key)
<1> DEFINE domain == spend_domain_of(m)
<1>0. m \in Hosts
  BY SharesAssumption
<1>1. PICK a \in Accounts, s \in ShareNumbers :
        \E n \in ShareNodes(w, m, a, s) : cx1 = cash_node_to_cx1(n)
  BY SharesOfElements
<1>2. PICK r \in ServiceRoots(w, m) :
        \E n \in derive_share_node(r, a, s) : cx1 = cash_node_to_cx1(n)
  BY <1>1 DEF ShareNodes
<1>3. /\ r \in Nodes /\ a \in 0..(HARDENED - 1) /\ s \in 0..(HARDENED - 1)
      /\ i \in 0..(HARDENED - 1)
  BY <1>0, ServiceRootsType, SharesAssumption, TreeAssumption
<1>4. PICK k \in derive_note_key(r, ShareNotePath(a, s, i)) : key = k.output_key
  <2>1. key \in {k.output_key : k \in derive_note_key(r, ShareNotePath(a, s, i))}
    BY <1>2, <1>3, ShareHalves
  <2> QED BY <2>1
<1>5. PICK n \in NotesBelow({r}, a, s, i) : key = x(mulG(n.private_key))
  <2>1. k \in {NoteKey(c) : c \in NotesBelow({r}, a, s, i)}
    <3>1. derive_note_key(r, ShareNotePath(a, s, i))
            = {NoteKey(c) : c \in Child(derive_share_node(r, a, s), i)}
      BY <1>3, ShareNoteIsBelow
    <3>2. derive_share_node(r, a, s)
            = Child(Child(Child({r}, a + HARDENED), CHAIN_SHARE), s + HARDENED)
      BY <1>3, ShareIsNode
    <3> QED BY Zenon, <1>4, <3>1, <3>2 DEF NotesBelow
  <2>2. PICK c \in NotesBelow({r}, a, s, i) : k = NoteKey(c)
    BY <2>1
  <2>3. key = x(mulG(c.private_key))
    BY <1>4, <2>2 DEF NoteKey, cash_node_public_key
  <2> QED BY <2>3
<1>6. PICK root \in Roots(w) : r \in derive_cash_domain_node(root, domain)
  BY DEF ServiceRoots, derive_service_root
<1>7. PICK d \in cash_domain_indices(root, domain) : r \in DomainNodes(root, d)
  BY <1>6 DEF derive_cash_domain_node, DomainNodes
<1> DEFINE path == PublishedPath(d, a, s, i)
<1>8. path \in PublishedPaths(root, domain)
  <2>1. d \in {hmac_domain(h.private_key, domain) : h \in ckd_priv({root}, <<0>>)}
    BY PathToDomains DEF cash_domain_indices
  <2> DEFINE D == {hmac_domain(h.private_key, domain) : h \in ckd_priv({root}, <<0>>)}
  <2>2. PublishedPaths(root, domain)
          = {PublishedPath(e, b, t, j) : e \in D, b \in Accounts, t \in ShareNumbers,
                                         j \in 0..(MaxIndex - 1)}
    BY SMT DEF PublishedPaths, PublishedPath
  <2>3. d \in D
    BY Zenon, <2>1
  <2> HIDE DEF D, domain
  <2> QED BY <1>1, <2>2, <2>3
<1>9. n \in ckd_priv({root}, path)
  <2>1. ckd_priv({root}, path) = NotesBelow(DomainNodes(root, d), a, s, i)
    BY PathToNote
  <2>2. NotesBelow({r}, a, s, i) \subseteq NotesBelow(DomainNodes(root, d), a, s, i)
    BY <1>7, NotesGrow
  <2> HIDE DEF path
  <2> QED BY <1>5, <2>1, <2>2
<1> HIDE DEF path
<1> QED BY <1>5, <1>8, <1>9 DEF NoteFound

\* Every note credited to a share of a wallet is found along the published
\* path from that wallet's seed.
THEOREM FoundElsewhereHolds == Spec => []FoundElsewhere
<1>1. Init => FoundElsewhere
  BY DEF Init, FoundElsewhere
<1>2. FoundElsewhere <=> \A c \in credited : CreditFound(c)
  BY DEF FoundElsewhere, CreditFound, NoteFound
<1>3. FoundElsewhere' <=> \A c \in credited' : CreditFound(c)
  BY DEF FoundElsewhere, CreditFound, NoteFound
<1>4. TypeOK /\ FoundElsewhere /\ [Next]_vars => FoundElsewhere'
  <2> SUFFICES ASSUME TypeOK, FoundElsewhere, [Next]_vars
               PROVE  \A c \in credited' : c \in credited \/ CreditFound(c)
    BY <1>2, <1>3
  <2>1. ASSUME NEW m \in Mints, Credit(m)
        PROVE  \A c \in credited' : c \in credited \/ CreditFound(c)
    <3>1. PICK cx1 \in onFile[m] :
            credited' = credited \cup
              [mint : {m}, kind : {"share"}, key : derive_note_pubkey(cx1, next[m]),
               wallet : {w \in Wallets : cx1 \in SharesOf(w, m)}, host : {m}]
      BY <2>1 DEF Credit
    <3>2. next[m] \in 0..(MaxIndex - 1)
      BY <2>1, SharesAssumption DEF Credit, TypeOK
    <3>3. ASSUME NEW c \in [mint : {m}, kind : {"share"},
                            key : derive_note_pubkey(cx1, next[m]),
                            wallet : {w \in Wallets : cx1 \in SharesOf(w, m)}, host : {m}]
          PROVE  CreditFound(c)
      <4>1. /\ c.mint = m /\ c.key \in derive_note_pubkey(cx1, next[m])
            /\ c.wallet \in Wallets /\ cx1 \in SharesOf(c.wallet, m)
        OBVIOUS
      <4>2. NoteFound(c.wallet, m, c.key)
        BY <4>1, <3>2, ShareCreditFound
      <4> QED BY Zenon, <4>1, <4>2 DEF CreditFound
    <3> QED BY <3>1, <3>3
  <2>2. ASSUME NEW w \in Wallets, Mint(w) \/ CreditLegacy(w)
        PROVE  \A c \in credited' : c \in credited \/ CreditFound(c)
    <3>1. \A c \in credited' : c \in credited \/ c.kind # "share"
      <4>1. CASE Mint(w)
        BY <4>1 DEF Mint
      <4>2. CASE CreditLegacy(w)
        BY <4>2 DEF CreditLegacy
      <4> QED BY <2>2, <4>1, <4>2
    <3> QED BY Zenon, <3>1 DEF CreditFound
  <2>3. CASE UNCHANGED credited
    BY <2>3
  <2> QED BY <2>1, <2>2, <2>3
          DEF Next, vars, Prove, Register, Update, Unregister, PutOnFile
<1> QED BY <1>1, <1>4, SharesTypeCorrect, PTL DEF Spec
=============================================================================
