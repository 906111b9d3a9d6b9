---------------------------- MODULE Safekeeping ----------------------------
(***************************************************************************)
(* What a wallet that goes by src/ffi.rs promises about its notes, with no *)
(* calls, messages, crashes or wording in it.  Notes change hands at the   *)
(* SERVICE in one step, which burns and mints together; the wallet knows   *)
(* of that step only later, or never.  Whenever it comes, the secrets of   *)
(* what it mints are on record, it takes nothing that the wallet counts as *)
(* balance, and the wallet forgets no note that exists; but for notes that *)
(* the wallet was misled into handing to somebody else.                    *)
(***************************************************************************)
CONSTANTS
  Notes,    \* every note that may come to exist
  Genesis   \* the wallet's notes at the start

VARIABLES
  alive,    \* the notes the SERVICE would still pay for, locked ones included
  locked,   \* those whose payment is in flight
  burned,   \* the notes spent for good
  drawn,    \* the notes whose secret was ever drawn
  kept,     \* those whose secret the wallet has on record
  balance,  \* what the wallet counts as its money
  misled    \* the notes whose spend went to somebody who is not their mint

books == <<alive, locked, burned>>
records == <<drawn, kept, balance, misled>>

Init ==
  /\ alive = Genesis
  /\ locked = {}
  /\ burned = {}
  /\ drawn = Genesis
  /\ kept = Genesis
  /\ balance = Genesis
  /\ misled = {}

\* Free to be spent by a call that is still to be carried out, or by others.
Staked == alive \ (locked \cup (balance \ misled))

\* The notes in S become the notes in T, which are new, and whose secrets are
\* on record.
Exchange(S, T) ==
  /\ alive' = (alive \ S) \cup T
  /\ burned' = burned \cup S
  /\ UNCHANGED locked

Lock(S) ==
  /\ locked' = locked \cup S
  /\ UNCHANGED <<alive, burned>>

\* A payment in flight settles, or fails and gives its note back.
Settle(n) ==
  /\ alive' = alive \ {n}
  /\ locked' = locked \ {n}
  /\ burned' = burned \cup {n}

Release(n) ==
  /\ locked' = locked \ {n}
  /\ UNCHANGED <<alive, burned>>

Service ==
  /\ UNCHANGED records
  /\ \/ \E S \in SUBSET Staked, T \in SUBSET (kept \ (alive \cup burned)) : Exchange(S, T)
     \/ \E S \in SUBSET Staked : Lock(S)
     \/ \E n \in locked : Settle(n) \/ Release(n)

\* The wallet draws new notes, forgets notes, gives some of what is not balance out
\* of its hands, or changes its mind about what is balance.  A secret once
\* forgotten does not come back.
Wallet ==
  /\ UNCHANGED books
  /\ \E gone \in SUBSET (kept \ balance) : misled' = misled \cup gone
  /\ \E new \in SUBSET (Notes \ drawn), old \in SUBSET (kept \ (alive \ misled')) :
       /\ drawn' = drawn \cup new
       /\ kept' = (kept \ old) \cup new
  /\ balance' \subseteq kept' /\ balance' \ misled' \subseteq alive \ locked

Next == Service \/ Wallet

Spec == Init /\ [][Next]_<<books, records>>
=============================================================================
