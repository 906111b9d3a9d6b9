------------------------------ MODULE PurseInv ------------------------------
(***************************************************************************)
(* The inductive invariant of Purse: what the wallet's records, the calls  *)
(* it has under way, what is still on the wire or on Lightning, and the    *)
(* books of the SERVICE have to do with one another.                       *)
(***************************************************************************)
EXTENDS Purse

\* The notes that somebody has drawn, and the calls that mint by themselves.
Drawn == Genesis \cup UNION {request[o].outputs : o \in Ops}
Landed(o) == \E m \in applied : m.op = o
Minted(o) == Landed(o) \/ (request[o].kind = "Mint" /\ bill[o].state = "settled")

\* Every call has its own outputs, and all that is an input was drawn once.
Requested ==
  /\ \A o \in Ops :
       /\ request[o].outputs \cap Genesis = {}
       /\ request[o].inputs \subseteq Drawn
       /\ staked[o] \subseteq request[o].inputs
       /\ request[o].kind \in {"Melt", "Transfer"} => request[o].outputs = {}
       /\ request[o].kind = "Mint" => request[o].inputs = {}
       /\ request[o].kind = "Melt" /\ pc[o] # "idle" =>
            \E n \in Notes : request[o].inputs = {n}
       /\ request[o].kind \in {"Rotate", "Split", "Merge"} => request[o].outputs # {}
       /\ pc[o] = "idle" => request[o] = NoCall /\ staked[o] = {}
  /\ \A o, p \in Ops : o # p => request[o].outputs \cap request[p].outputs = {}

\* A call under way has its notes to itself, and a record of each.
Reserved ==
  /\ \A o \in Ops : Active(o) =>
       /\ \A n \in request[o].outputs : purse[n] = "fresh"
       /\ \A n \in request[o].inputs : purse[n] = "sent"
  /\ \A o, p \in Ops :
       Active(o) /\ Active(p) /\ o # p => request[o].inputs \cap request[p].inputs = {}
  /\ \A n \in Notes : purse[n] = "fresh" => \A o \in Ops : n \notin request[o].inputs
  /\ Stored \subseteq Drawn

\* A call that was never in doubt has made one GET at most.
Doubts ==
  \A o \in Ops :
    /\ pc[o] \in {"idle", "built"} => gets[o] = 0 /\ ~ doubt[o]
    /\ ~ doubt[o] \/ request[o].kind = "Melt" => gets[o] \in {0, 1}
    /\ pc[o] = "uncertain" => doubt[o]
    /\ request[o].kind = "Melt" /\ pc[o] \in {"waiting", "melted"} => ~ doubt[o]

\* What is on the wire, or carried out, is what its call asks for.
Wired ==
  /\ \A m \in wire \cup applied :
       /\ m.req = request[m.op]
       /\ m.att < gets[m.op]
       /\ pc[m.op] \notin {"idle", "built"}
  /\ wire \cap applied = {}
  /\ \A o \in Ops : address[o] # NotSent =>
       /\ address[o] \in [withdrawLink : {"here"}, callback : {"here", "elsewhere"}]
       /\ request[o].kind = "Transfer"
       /\ pc[o] \notin {"idle", "built"}
  /\ \A o \in posted : address[o] # NotSent

\* The books of the SERVICE.
Booked ==
  /\ outstanding \cap spent = {}
  /\ melting \subseteq outstanding
  /\ \A n \in spent \cup melting : \E o \in Ops : n \in request[o].inputs
  /\ \A n \in outstanding \cup spent :
       n \in Genesis \/ \E o \in Ops : n \in request[o].outputs /\ Minted(o)
  /\ \A m \in applied : m.req.kind # "Melt" =>
       /\ m.req.inputs \subseteq spent
       /\ m.req.outputs \subseteq outstanding \cup spent

\* What was ever balance, or sent, is or was a note.
Real ==
  /\ \A n \in Notes : purse[n] \in {"live", "sent"} => n \in outstanding \cup spent
  /\ \A o \in Ops : request[o].inputs \subseteq outstanding \cup spent

\* The books of Lightning.
Billed ==
  /\ \A o \in Ops :
       /\ bill[o].pr.serial = o
       /\ bill[o].state # "none" => request[o].kind \in {"Mint", "Melt"}
       /\ bill[o].paid \in {0, bill[o].asked}
       /\ bill[o].state = "open" /\ bill[o].pr.readable =>
            bill[o].pr.stated \in {0, bill[o].asked}
       /\ pc[o] \in {"idle", "built"} => bill[o].state = "none"
       /\ pc[o] = "quoted" => bill[o].state = "open"
       /\ pc[o] \in {"quoted", "paying"} => request[o].kind = "Mint"
       /\ pc[o] = "melted" => request[o].kind = "Melt"
       /\ request[o].kind = "Mint" /\ bill[o].state # "none" => bill[o].room
       /\ request[o].kind = "Mint" /\ bill[o].state = "settled" =>
            request[o].outputs \subseteq outstanding \cup spent
       /\ request[o].kind = "Melt" =>
            /\ bill[o].state = "inflight" => request[o].inputs \subseteq melting
            /\ bill[o].state = "settled" => request[o].inputs \subseteq spent
  /\ \A o, p \in Ops :
       /\ o # p
       /\ request[o].kind = "Melt" /\ bill[o].state = "inflight"
       /\ request[p].kind = "Melt" /\ bill[p].state = "inflight"
       => request[o].inputs \cap request[p].inputs = {}

\* What an answer on its way back says of the call.
AnswersTrue ==
  \A o \in Ops :
    /\ answer[o] # NoAnswer => pc[o] = "waiting"
    /\ answer[o] # NoAnswer => o \notin posted
    /\ ~ doubt[o] /\ (answer[o] # NoAnswer \/ pc[o] = "melted") =>
         \A m \in wire : m.op # o
    /\ ~ doubt[o] /\ answer[o].status = "ERROR" => ~ Landed(o)
    /\ answer[o].status = "OK" =>
         /\ request[o].kind \in MutationKind => Landed(o)
         /\ request[o].kind = "Transfer" => request[o].inputs \subseteq spent \cup Misled

\* A secret is forgotten once its note is burned, or can never be minted, or was
\* given away.
Forgotten ==
  \A n \in Drawn : purse[n] = "none" =>
    \/ n \in spent \cup Misled
    \/ \E o \in Ops :
         /\ n \in request[o].outputs
         /\ pc[o] = "done"
         /\ bill[o].state = "none"
         /\ \A m \in wire \cup applied : m.op # o

\* Nothing that is still under way is about this note.
Quiet(n) ==
  /\ \A m \in wire : n \notin m.req.inputs
  /\ \A p \in posted : n \notin request[p].inputs

\* What is balance, and stays balance until a call that has it is carried out.
Spendable ==
  /\ \A n \in Live \ Misled : n \in outstanding \ melting /\ Quiet(n)
  /\ \A o \in Ops : Active(o) =>
       \A n \in staked[o] \ Misled :
         /\ \A m \in wire : n \in m.req.inputs => m.op = o
         /\ \A p \in posted : n \in request[p].inputs => p = o
         /\ /\ ~ Landed(o)
            /\ request[o].kind = "Transfer" =>
                 \/ pc[o] = "built"
                 \/ answer[o].status = "ERROR"
                 \/ o \in posted
            => n \in outstanding \ melting

Ledger ==
  /\ Requested
  /\ Reserved
  /\ Doubts
  /\ Wired
  /\ Booked
  /\ Real
  /\ Billed
  /\ AnswersTrue
  /\ Forgotten
  /\ Spendable

-----------------------------------------------------------------------------
\* The same system without its calls, its messages and its crashes.
Promise == INSTANCE Safekeeping WITH
  alive <- outstanding, locked <- melting, burned <- spent,
  drawn <- Drawn, kept <- Stored, balance <- Live, misled <- Misled

\* Whatever is late, lost, repeated or refused, and wherever the wallet stops,
\* the SERVICE mints only what the wallet has the secret of and burns none of
\* its balance, and the wallet forgets no note that exists, but for what it sent
\* to a callback elsewhere (ffi.rs, steps 1 to 4 at its head).
KeepsNotesSafe == Promise!Spec
=============================================================================
