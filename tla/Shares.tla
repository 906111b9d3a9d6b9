------------------------------- MODULE Shares -------------------------------
(***************************************************************************)
(* Notes that a SERVICE picks the keys of, and the holder who must find    *)
(* and open them with nothing but a seed.  Wallets register a share for an *)
(* address with a proof; proofs stay around, so any of them may arrive at  *)
(* any mint, late and again; mints credit the share on file its next note, *)
(* and once credited branches of the superseded scheme.                    *)
(***************************************************************************)
EXTENDS Tree, FiniteSets

CONSTANTS
  Wallets,    \* [seed |-> an Option, identity |-> an Option]: exactly one
  Mints,      \* the hosts of SERVICEs, one to a domain
  Hosts,      \* hosts as wallets have them written, with a port or without
  Accounts, ShareNumbers,  \* the ones that wallets use
  MaxSteps,   \* how many things wallets do: a bound of the model
  MaxIndex    \* how many notes a share is credited: a bound of the model

ASSUME SharesAssumption ==
  /\ Hosts \subseteq Texts /\ Mints \subseteq Hosts
  /\ \A h \in Hosts : spend_domain_of(h) \in Texts
  /\ Accounts \subseteq 0..(HARDENED - 1) /\ ShareNumbers \subseteq 0..(HARDENED - 1)
  /\ MaxSteps \in Nat /\ MaxIndex \in 0..HARDENED
  /\ \A w \in Wallets : /\ w.seed \subseteq Seeds /\ w.identity \subseteq Identities
                        /\ Cardinality(w.seed \cup w.identity) = 1

Username == "alice"

VARIABLES
  proofs,    \* the address proofs that were ever signed
  onFile,    \* the share each mint has for the address, an Option
  next,      \* the index of its next note
  credited   \* the notes that mints credited, and what they credited them to

vars == <<proofs, onFile, next, credited>>

Roots(w) ==
  UNION {derive_cash_root(s) : s \in w.seed \cup {derive_nostr_cash_seed(i) : i \in w.identity}}

ServiceRoots(w, host) == UNION {derive_service_root(r, host) : r \in Roots(w)}

ShareNodes(w, host, account, share) ==
  UNION {derive_share_node(s, account, share) : s \in ServiceRoots(w, host)}

\* The shares a wallet would register at a mint.
SharesOf(w, host) ==
  {cash_node_to_cx1(n) : n \in UNION {ShareNodes(w, host, a, s) :
                                        a \in Accounts, s \in ShareNumbers}}

Branches(w, host) == UNION {legacy_branch_node(r, host) : r \in Roots(w)}

Cx1s == [chain_code : Chains, pubkey : Points \ {Infinity}]
Messages ==
  [action : {"register", "update", "unregister"}, domain : {spend_domain_of(h) : h \in Hosts},
   username : {Username}, cx1 : {{}} \cup {{c} : c \in Cx1s}]
Credits ==
  [mint : Mints, kind : {"share", "own", "tree", "legacy"}, key : XCoordinates,
   wallet : Wallets, host : Hosts]

TypeOK ==
  /\ \A p \in proofs : p.by \in XCoordinates /\ p.over \in Messages
  /\ onFile \in [Mints -> {{}} \cup {{c} : c \in Cx1s}]
  /\ next \in [Mints -> 0..MaxIndex]
  /\ credited \subseteq Credits

Init ==
  /\ proofs = {}
  /\ onFile = [m \in Mints |-> {}]
  /\ next = [m \in Mints |-> 0]
  /\ credited = {}

Steps == Cardinality(proofs) + Cardinality({c \in credited : c.kind # "share"})

\* A wallet proves that the address at a mint is to be one of its shares, or
\* none, signing with the share in question or the one it has on file.
Prove(w) ==
  /\ Steps < MaxSteps
  /\ \E host \in Hosts, account \in Accounts, share \in ShareNumbers :
       \E signer \in ShareNodes(w, host, account, share) :
         \/ proofs' = proofs \cup
              sign_address_proof(signer.private_key, "register", host, Username,
                                 {cash_node_to_cx1(signer)})
         \/ \E cx1 \in SharesOf(w, host) :
              proofs' = proofs \cup
                sign_address_proof(signer.private_key, "update", host, Username, {cx1})
         \/ proofs' = proofs \cup
              sign_address_proof(signer.private_key, "unregister", host, Username, {})
  /\ UNCHANGED <<onFile, next, credited>>

PutOnFile(m, cx1) ==
  /\ onFile' = [onFile EXCEPT ![m] = {cx1}]
  /\ next' = [next EXCEPT ![m] = 0]
  /\ UNCHANGED <<proofs, credited>>

Register(m) ==
  /\ onFile[m] = {}
  /\ \E p \in proofs : \E cx1 \in p.over.cx1 :
       /\ verify_address_proof(cx1, p, "register", m, Username, {cx1})
       /\ PutOnFile(m, cx1)

\* A proof by the share on file, and one by the share to be.
Update(m) ==
  \E old \in onFile[m], p, q \in proofs : \E cx1 \in p.over.cx1 :
    /\ verify_address_proof(old, p, "update", m, Username, {cx1})
    /\ verify_address_proof(cx1, q, "register", m, Username, {cx1})
    /\ PutOnFile(m, cx1)

Unregister(m) ==
  /\ \E old \in onFile[m], p \in proofs :
       verify_address_proof(old, p, "unregister", m, Username, {})
  /\ onFile' = [onFile EXCEPT ![m] = {}]
  /\ UNCHANGED <<proofs, next, credited>>

\* The mint credits the share on file its next note, and skips an index that
\* has none.
Credit(m) ==
  /\ next[m] < MaxIndex
  /\ \E cx1 \in onFile[m] :
       credited' = credited \cup
         [mint : {m}, kind : {"share"}, key : derive_note_pubkey(cx1, next[m]),
          wallet : {w \in Wallets : cx1 \in SharesOf(w, m)}, host : {m}]
  /\ next' = [next EXCEPT ![m] = @ + 1]
  /\ UNCHANGED <<proofs, onFile>>

\* A wallet mints to its own next key, as it is or tweaked with a script tree.
Mint(w) ==
  /\ Steps < MaxSteps
  /\ \E m \in Mints, chain \in {CHAIN_WALLET, CHAIN_CHANGE}, account \in Accounts,
        i \in 0..(MaxIndex - 1) :
       \E s \in ServiceRoots(w, m) :
         \E k \in derive_note_key(s, [chain |-> chain, account |-> account,
                                      share |-> {}, index |-> i]) :
           \/ credited' = credited \cup
                {[mint |-> m, kind |-> "own", key |-> k.output_key, wallet |-> w,
                  host |-> m]}
           \/ \E r \in MerkleRoots :
                credited' = credited \cup
                  [mint : {m}, kind : {"tree"}, key : taproot_tweak(k.output_key, r),
                   wallet : {w}, host : {m}]
  /\ UNCHANGED <<proofs, onFile, next>>

\* What a mint did before: notes of the branch of a host as the wallet has it.
CreditLegacy(w) ==
  /\ Steps < MaxSteps
  /\ \E m \in Mints, host \in Hosts, purpose \in Purposes, i \in 0..(MaxIndex - 1) :
       /\ spend_domain_of(host) = spend_domain_of(m)
       /\ \E n \in Branches(w, host) :
            credited' = credited \cup
              [mint : {m}, kind : {"legacy"},
               key : legacy_derive_note_pubkey(legacy_cx1_of(n), purpose, i),
               wallet : {w}, host : {host}]
  /\ UNCHANGED <<proofs, onFile, next>>

Next ==
  \/ \E w \in Wallets : Prove(w) \/ Mint(w) \/ CreditLegacy(w)
  \/ \E m \in Mints : Register(m) \/ Update(m) \/ Unregister(m) \/ Credit(m)

Spec == Init /\ [][Next]_vars

(***************************************************************************)
(* What a wallet can open with its seed and the host, however written.     *)
(***************************************************************************)
ShareNoteKeys(w, host) ==
  UNION {derive_note_key(s, [chain |-> CHAIN_SHARE, account |-> a, share |-> {n},
                             index |-> i]) :
           s \in ServiceRoots(w, host), a \in Accounts, n \in ShareNumbers,
           i \in 0..(MaxIndex - 1)}

OwnNoteKeys(w, host) ==
  UNION {derive_note_key(s, [chain |-> c, account |-> a, share |-> {}, index |-> i]) :
           s \in ServiceRoots(w, host), c \in {CHAIN_WALLET, CHAIN_CHANGE},
           a \in Accounts, i \in 0..(MaxIndex - 1)}

SecretsFor(c, w, host) ==
  CASE c.kind = "share" -> {k.secret_key : k \in ShareNoteKeys(w, host)}
    [] c.kind = "own" -> {k.secret_key : k \in OwnNoteKeys(w, host)}
    [] c.kind = "tree" ->
         UNION {taproot_tweak_secret_key(k.secret_key, r) :
                  k \in OwnNoteKeys(w, host), r \in MerkleRoots}
    [] c.kind = "legacy" ->
         UNION {legacy_derive_note_secret_key(n, p, i) :
                  n \in Branches(w, c.host), p \in Purposes, i \in 0..(MaxIndex - 1)}

\* Whoever restores from the seed of a wallet finds every note that was
\* credited to it and opens it at its mint, however the host is written
\* (recoverable.rs and cash.rs: the private and the public half agree).
EveryCreditOpens ==
  \A c \in credited, host \in Hosts :
    spend_domain_of(host) = spend_domain_of(c.mint) =>
      \E sk \in SecretsFor(c, c.wallet, host) :
        opens(sign_note_ownership(sk, host), c.key, c.mint)

\* Nothing is put on file but a share that one of the wallets has at this very
\* mint, though proofs meant for another arrive as well (signature.rs,
\* address_proof_message).
OnFileIsSomebodys ==
  \A m \in Mints : \A cx1 \in onFile[m] : \E w \in Wallets : cx1 \in SharesOf(w, m)

\* The walk is the one any BIP-32 wallet makes along the published path.
ckd_priv(nodes, path) ==
  LET at[i \in 0..Len(path)] ==
        IF i = 0 THEN nodes ELSE Child(at[i - 1], path[i])
  IN at[Len(path)]

\* m/139'/d1/d2/d3/d4/a'/2/n'/i, the levels raw (docs of cash.rs and of
\* recoverable.rs).
PublishedPaths(root, domain) ==
  {<<d[1], d[2], d[3], d[4], a + HARDENED, 2, n + HARDENED, i>> :
     d \in {hmac_domain(h.private_key, domain) : h \in ckd_priv({root}, <<0>>)},
     a \in Accounts, n \in ShareNumbers, i \in 0..(MaxIndex - 1)}

\* A note credited to a share is found by another implementation of the
\* published path as well, from the same seed (cash.rs, cash_domain_indices).
FoundElsewhere ==
  \A c \in credited :
    c.kind = "share" =>
      \E root \in Roots(c.wallet) :
        \E path \in PublishedPaths(root, spend_domain_of(c.mint)) :
          \E n \in ckd_priv({root}, path) : x(mulG(n.private_key)) = c.key
=============================================================================
