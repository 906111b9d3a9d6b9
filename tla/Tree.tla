-------------------------------- MODULE Tree --------------------------------
(***************************************************************************)
(* The keys of notes: the BIP-32 walk of src/cash.rs from a seed to one    *)
(* mint's root, the notes and shares of src/recoverable.rs below it, the   *)
(* tweak they superseded, and the tweak of a key with a script tree.  An   *)
(* Option is a set of at most one value, and {} is every error.            *)
(***************************************************************************)
EXTENDS Curve, Sequences

CONSTANTS
  Chains,           \* chain codes
  Texts,            \* what hosts and domains are written as
  Seeds, Identities, WellSized,  \* the last: seeds of 16 to 64 bytes
  MerkleRoots,
  HARDENED, CASH_PURPOSE,
  hmac_left(_, _), hmac_right(_, _),      \* HMAC-SHA512 under a chain code
  master_left(_), master_right(_),        \* and under "Bitcoin seed"
  hmac_domain(_, _),                      \* HMAC-SHA256 under a key: four u32
  hmac_nostr(_),
  tagged_derive(_, _, _, _),              \* the tweak hash, reduced
  tagged_tweak(_, _)                      \* BIP 341's, as it falls

Indices == 0..(2 * HARDENED - 1)
Data == [hardened : BOOLEAN, key : Scalars \cup Points, index : Indices]
Purposes == {{}, {0}, {1}, {2}}
Nodes == [private_key : SecretKeys, chain_code : Chains]

ASSUME TreeAssumption ==
  /\ HARDENED \in Nat \ {0, 1, 2} /\ CASH_PURPOSE \in 0..(HARDENED - 1)
  /\ WellSized \subseteq Seeds
  /\ \A c \in Chains, d \in Data : hmac_left(c, d) \in Nat /\ hmac_right(c, d) \in Chains
  /\ \A s \in Seeds : master_left(s) \in Nat /\ master_right(s) \in Chains
  /\ \A k \in SecretKeys, t \in Texts : hmac_domain(k, t) \in [1..4 -> Indices]
  /\ \A i \in Identities : hmac_nostr(i) \in WellSized
  /\ \A q \in XCoordinates, c \in Chains, p \in Purposes, i \in Indices :
       tagged_derive(q, c, p, i) \in Scalars
  /\ \A q \in XCoordinates, r \in MerkleRoots : tagged_tweak(q, r) \in Nat

(***************************************************************************)
(* One step down, from a private key and from a public one.                *)
(***************************************************************************)
derive_cash_child(node, index) ==
  LET data == [hardened |-> index >= HARDENED,
               key |-> IF index >= HARDENED THEN node.private_key
                       ELSE mulG(node.private_key),
               index |-> index]
  IN {[private_key |-> k, chain_code |-> hmac_right(node.chain_code, data)] :
        k \in add_tweak(node.private_key, hmac_left(node.chain_code, data))}

\* A mistake to catch: the point is hashed as the x-only key it is known by.
derive_child_pub_x_only(pubkey, chain_code, index) ==
  LET data == [hardened |-> FALSE, key |-> lift_x(x(pubkey)), index |-> index]
  IN IF index >= HARDENED THEN {}
     ELSE {[pubkey |-> p, chain_code |-> hmac_right(chain_code, data)] :
             p \in add_exp_tweak(pubkey, hmac_left(chain_code, data))}

derive_cash_child_pub(pubkey, chain_code, index) ==
  LET data == [hardened |-> FALSE, key |-> pubkey, index |-> index]
  IN IF index >= HARDENED THEN {}
     ELSE {[pubkey |-> p, chain_code |-> hmac_right(chain_code, data)] :
             p \in add_exp_tweak(pubkey, hmac_left(chain_code, data))}

\* A step down from a node that may be an error already.
Child(nodes, index) == UNION {derive_cash_child(n, index) : n \in nodes}

cash_node_public_key(node) == mulG(node.private_key)

(***************************************************************************)
(* From the seed to a mint's root.                                         *)
(***************************************************************************)
derive_cash_master(seed) ==
  {n \in {[private_key |-> master_left(seed), chain_code |-> master_right(seed)]} :
     seed \in WellSized /\ n.private_key \in SecretKeys}

derive_cash_root(seed) == Child(derive_cash_master(seed), CASH_PURPOSE + HARDENED)

derive_nostr_cash_seed(identity) == hmac_nostr(identity)

\* A mistake to catch: the levels are masked down to below 2^31.
masked_domain_indices(root, text) ==
  {[i \in 1..4 |-> hmac_domain(n.private_key, text)[i] % HARDENED] :
     n \in derive_cash_child(root, 0)}

\* The four levels as they fall, hardened or not by magnitude alone.
cash_domain_indices(root, text) ==
  {hmac_domain(n.private_key, text) : n \in derive_cash_child(root, 0)}

derive_cash_domain_node(root, text) ==
  UNION {Child(Child(Child(Child({root}, d[1]), d[2]), d[3]), d[4]) :
           d \in cash_domain_indices(root, text)}

\* A host as it is stored, and the domain it comes down to: a text with no
\* port.  A host without one is its own domain.
spend_domain_of(host) == <<host[1], "">>

\* A mistake to catch: the root is of the host as the wallet has it.
service_root_of_host(root, host) == derive_cash_domain_node(root, host)

derive_service_root(root, host) == derive_cash_domain_node(root, spend_domain_of(host))

(***************************************************************************)
(* Notes and shares below it.                                              *)
(***************************************************************************)
CHAIN_WALLET == 0
CHAIN_CHANGE == 1
CHAIN_SHARE == 2

below_hardened(value) == {v \in {value} : v < HARDENED}

Hardened(value) == {v + HARDENED : v \in below_hardened(value)}

\* NotePath: a share's note has a share, the wallet's own have none.
NotePaths ==
  [chain : {CHAIN_WALLET, CHAIN_CHANGE}, account : Indices, share : {{}}, index : Indices]
  \cup [chain : {CHAIN_SHARE}, account : Indices, share : {{s} : s \in Indices},
        index : Indices]

\* The steps below the root, if they are all in range.
indices(path) ==
  IF path.share = {}
  THEN {<<a, path.chain, i>> : a \in Hardened(path.account), i \in below_hardened(path.index)}
  ELSE {<<a, path.chain, h, i>> :
          a \in Hardened(path.account), h \in UNION {Hardened(n) : n \in path.share},
          i \in below_hardened(path.index)}

NoteKey(node) ==
  [secret_key |-> node.private_key, output_key |-> x(cash_node_public_key(node))]

\* Three steps down, or four of a share's note.
derive_note_key(root, path) ==
  {NoteKey(n) : n \in UNION
     {LET middle == Child(Child(Child({root}, p[1]), p[2]), p[3])
      IN IF path.share = {} THEN middle ELSE Child(middle, p[4]) :
        p \in indices(path)}}

derive_share_node(root, account, share) ==
  UNION {Child(Child(Child({root}, a), CHAIN_SHARE), s) :
           a \in Hardened(account), s \in Hardened(share)}

cash_node_to_cx1(node) ==
  [chain_code |-> node.chain_code, pubkey |-> cash_node_public_key(node)]

derive_note_pubkey(cx1, index) ==
  {x(c.pubkey) : c \in derive_cash_child_pub(cx1.pubkey, cx1.chain_code, index)}

(***************************************************************************)
(* The superseded tweak.                                                   *)
(***************************************************************************)
legacy_branch_node(root, host) == derive_cash_domain_node(root, host)

legacy_cx1_of(node) ==
  [pubkey_x_only |-> x(mulG(node.private_key)), chain_code |-> node.chain_code]

legacy_derive_note_pubkey(cx1, purpose, index) ==
  {x(p) : p \in add_exp_tweak(lift_x(cx1.pubkey_x_only),
                              tagged_derive(cx1.pubkey_x_only, cx1.chain_code,
                                            purpose, index))}

\* A mistake to catch: the key is tweaked as it is, whatever the parity.
legacy_secret_key_as_is(node, purpose, index) ==
  add_tweak(node.private_key,
            tagged_derive(x(mulG(node.private_key)), node.chain_code, purpose, index))

legacy_derive_note_secret_key(node, purpose, index) ==
  add_tweak(EvenKey(node.private_key),
            tagged_derive(x(mulG(node.private_key)), node.chain_code, purpose, index))

(***************************************************************************)
(* A key and the root of its script tree (src/spend.rs).                   *)
(***************************************************************************)
taproot_tweak(internal_key, merkle_root) ==
  {x(p) : p \in add_exp_tweak(lift_x(internal_key), tagged_tweak(internal_key, merkle_root))}

\* A mistake to catch: an odd key is not negated first.
taproot_secret_key_as_is(secret_key, merkle_root) ==
  add_tweak(secret_key, tagged_tweak(x(mulG(secret_key)), merkle_root))

taproot_tweak_secret_key(secret_key, merkle_root) ==
  add_tweak(EvenKey(secret_key), tagged_tweak(x(mulG(secret_key)), merkle_root))

(***************************************************************************)
(* Signatures: of a key over a message.  BIP 340 signs for the x-only key. *)
(***************************************************************************)
Signed(secret_key, message) == [by |-> x(mulG(secret_key)), over |-> message]

\* A ck1: the key it is of and its signature, bound to the mint's domain.
sign_note_ownership(secret_key, host) ==
  LET q == x(mulG(secret_key))
  IN [key |-> q,
      sig |-> Signed(secret_key, [key |-> q, domain |-> spend_domain_of(host)])]

\* Whether a ck1 opens the note of a key at a mint.
opens(ck1, q, host) ==
  /\ ck1.key = q
  /\ ck1.sig = [by |-> q, over |-> [key |-> q, domain |-> spend_domain_of(host)]]

\* The proof that an address is its registrant's (src/signature.rs).  cx1 is
\* an Option, and an unregister binds none.
\* A mistake to catch: the proof is as good at any mint.
address_proof_anywhere(action, host, username, cx1) ==
  IF (action = "unregister") <=> (cx1 = {})
  THEN {[action |-> action, username |-> username, cx1 |-> cx1]} ELSE {}

address_proof_message(action, host, username, cx1) ==
  IF (action = "unregister") <=> (cx1 = {})
  THEN {[action |-> action, domain |-> spend_domain_of(host), username |-> username,
         cx1 |-> cx1]}
  ELSE {}

sign_address_proof(share_secret_key, action, host, username, cx1) ==
  {Signed(share_secret_key, m) : m \in address_proof_message(action, host, username, cx1)}

verify_address_proof(signer, signature, action, host, username, cx1) ==
  \E m \in address_proof_message(action, host, username, cx1) :
    signature = [by |-> x(signer.pubkey), over |-> m]
=============================================================================
