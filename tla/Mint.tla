-------------------------------- MODULE Mint --------------------------------
(***************************************************************************)
(* The SERVICE, as src/ relies on it: the other side of every request.     *)
(* It is not in the repository.  What it may do is taken from what the     *)
(* client's code and comments say of it (client.rs, errors.rs, the melt    *)
(* comment of protocol.rs) and from the mock mint's flags in tests/        *)
(* protocol.rs: dropAfterMutation, retriedMutation, unconfirmedMutation,   *)
(* signatures, slowMs, meltNeverSettles, meltAlwaysFails.                  *)
(*                                                                         *)
(* A note and the secret that spends it are one value of Notes: an output  *)
(* names a note by a hash only its secret has.                             *)
(***************************************************************************)
EXTENDS Protocol

CONSTANTS
  Notes,              \* every note that may come to exist
  Genesis,            \* the notes outstanding at the start
  Ops,                \* calls into the client; a request is tagged with its own
  Replays,            \* whether a repeated rotate, split or merge is answered
                      \* with its original success (LUD-25's replay rule)
  RefusalsOfRepeats,  \* the reasons a SERVICE refuses such a repeat with
  DeadNoteReasons,    \* its reasons for an input that is not outstanding
  Whims,              \* its reasons for declining what it could have done
  Certificates        \* the sets of outputs it may certify in one answer

ASSUME MintAssumption ==
  /\ Genesis \subseteq Notes
  /\ Replays \in BOOLEAN
  /\ RefusalsOfRepeats \subseteq Reasons
  /\ DeadNoteReasons \subseteq Reasons
  /\ Whims \subseteq Reasons
  /\ Certificates \subseteq SUBSET {0, 1}

Requests == [kind : MutationKind, inputs : SUBSET Notes, outputs : SUBSET Notes]

\* One attempt at a request: a GET on the wire.
Messages == [op : Ops, att : Nat, req : Requests]

VARIABLES
  outstanding,  \* notes that can be spent, those in melting included
  spent,        \* notes burned for good
  melting,      \* notes whose payment is in flight: every other use waits
  applied,      \* the attempts that were carried out; the replay log
  wire,         \* attempts sent and not yet handled
  answer        \* per call, the answer on its way back to a waiting client

mintVars == <<outstanding, spent, melting, applied, wire, answer>>

NoAnswer == [status |-> "pending"]

MintTypeOK ==
  /\ outstanding \subseteq Notes
  /\ spent \subseteq Notes
  /\ melting \subseteq Notes
  /\ applied \subseteq Messages
  /\ wire \subseteq Messages
  /\ answer \in [Ops -> Bodies \cup {NoAnswer}]

MintInit ==
  /\ outstanding = Genesis
  /\ spent = {}
  /\ melting = {}
  /\ applied = {}
  /\ wire = {}
  /\ answer = [o \in Ops |-> NoAnswer]

\* "The replay is matched on the notes the k1s open, p1, p2 and amount"; a
\* melt has no replay.
Repeats(req) == req.kind # "Melt" /\ \E m \in applied : m.req = req

Honourable(req) ==
  /\ ~ Repeats(req)
  /\ req.inputs \subseteq outstanding \ melting
  /\ req.outputs \cap (outstanding \cup spent) = {}

\* Why the SERVICE may decline req in this state.
ReasonsAgainst(req) ==
  IF Repeats(req) THEN RefusalsOfRepeats
  ELSE Whims \cup (IF req.inputs \cap melting # {} THEN {{"isPending"}} ELSE {})
             \cup (IF req.inputs \subseteq outstanding THEN {} ELSE DeadNoteReasons)

\* A confirmation, or a 200 that fails to confirm what was done.
Confirmations == [status : {"OK"}, certs : Certificates] \cup {VagueBody}

\* The answer reaches the client only on the connection that awaits it.
Reply(m, awaited, body) ==
  /\ wire' = wire \ {m}
  /\ answer' = IF awaited THEN [answer EXCEPT ![m.op] = body] ELSE answer

\* Burn and mint together, atomically; a melt only locks its note and pays.
Apply(m, awaited) ==
  /\ m \in wire
  /\ Honourable(m.req)
  /\ applied' = applied \cup {m}
  /\ IF m.req.kind = "Melt"
     THEN /\ melting' = melting \cup m.req.inputs
          /\ UNCHANGED <<outstanding, spent>>
     ELSE /\ outstanding' = (outstanding \ m.req.inputs) \cup m.req.outputs
          /\ spent' = spent \cup m.req.inputs
          /\ UNCHANGED melting
  /\ \E body \in Confirmations : Reply(m, awaited, body)

Replay(m, awaited) ==
  /\ m \in wire
  /\ Replays
  /\ Repeats(m.req)
  /\ \E body \in Confirmations : Reply(m, awaited, body)
  /\ UNCHANGED <<outstanding, spent, melting, applied>>

Decline(m, awaited) ==
  /\ m \in wire
  /\ \E reason \in ReasonsAgainst(m.req) :
       Reply(m, awaited, [status |-> "ERROR", reason |-> reason])
  /\ UNCHANGED <<outstanding, spent, melting, applied>>

\* The payment behind a melt settles and finalises the burn, or fails and
\* restores the note.
MeltSettles(n) ==
  /\ n \in melting
  /\ melting' = melting \ {n}
  /\ outstanding' = outstanding \ {n}
  /\ spent' = spent \cup {n}
  /\ UNCHANGED <<applied, wire, answer>>

MeltFails(n) ==
  /\ n \in melting
  /\ melting' = melting \ {n}
  /\ UNCHANGED <<outstanding, spent, applied, wire, answer>>

\* What an informational GET on n may be answered with now.
InfoAnswers(n) ==
  [status : {"ERROR"},
   reason : Whims \cup (IF n \in melting THEN {{"isPending"}} ELSE {})
                  \cup (IF n \in outstanding THEN {} ELSE DeadNoteReasons)]
  \cup
  (IF n \in outstanding \ melting
   THEN [status : {"info"}, shaped : BOOLEAN, echo : {"same"},
         mintPubkey : {"compressed", "absent"}]
   ELSE {})
=============================================================================
