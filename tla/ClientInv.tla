------------------------------ MODULE ClientInv ------------------------------
(***************************************************************************)
(* The inductive invariant of Client, in two parts.  Wiring holds of every *)
(* SERVICE and network.  Bookkeeping needs one in which a client's answer  *)
(* speaks for all of its attempts (Decisive).                              *)
(***************************************************************************)
EXTENDS Client

\* What is on the wire or carried out is what its call asks for now.
Provenance ==
  \A m \in wire \cup applied :
    /\ m.req = request[m.op]
    /\ m.att <= attempt[m.op]
    /\ pc[m.op] \in {"send", "wait", "done"}
    /\ pc[m.op] = "send" => m.att < attempt[m.op]
    /\ m.req.kind # "Melt" => m.req.outputs # {}

\* A request about to be sent, or sent, names at least one output unless it is
\* a melt, and no two calls ever share one.
Freshness ==
  /\ \A o \in Ops :
       /\ request[o].outputs \subseteq drawn
       /\ pc[o] \in {"send", "wait"} /\ request[o].kind # "Melt" =>
            request[o].outputs # {}
       /\ pc[o] \in {"idle", "look"} =>
            request[o].outputs = {} /\ attempt[o] = 0
       /\ pc[o] = "look" => entry[o] = "settle_note"
       /\ request[o].kind = "Melt" => attempt[o] = 0
       /\ request[o].kind = KindOf[entry[o]]
  /\ \A o, p \in Ops :
       o # p => request[o].outputs \cap request[p].outputs = {}

\* An attempt is carried out at most once, and only one of a call's is.
SingleLanding ==
  /\ wire \cap applied = {}
  /\ \A m, n \in applied : m.op = n.op => m = n

Wiring == Provenance /\ Freshness /\ SingleLanding

\* No attempt outlives the wait for its answer, and a repeat of what was done
\* is not refused in a wording whose error drops the secrets.
Decisive ==
  /\ ~ LateDelivery
  /\ \A r \in RefusalsOfRepeats : classify_note_error(r) \in SecretCarriers

\* An attempt on the wire is the one being waited for, and is unanswered.
Current ==
  \A m \in wire : /\ pc[m.op] = "wait"
                  /\ m.att = attempt[m.op]
                  /\ answer[m.op] = NoAnswer

\* What an answer on its way back says of the operation.
AnswersTrue ==
  \A o \in Ops :
    /\ answer[o] # NoAnswer => pc[o] = "wait"
    /\ answer[o].status = "OK" => LandedBy(o) # {}
    /\ answer[o].status = "ERROR" =>
         \/ classify_note_error(answer[o].reason) \in SecretCarriers
         \/ LandedBy(o) = {}

\* What a returned value or error says of it.
ResultsTrue ==
  \A o \in Ops :
    /\ pc[o] = "done" <=> result[o].verdict # "none"
    /\ result[o].verdict \in Variants \ SecretCarriers => LandedBy(o) = {}
    /\ pc[o] = "done" /\ LandedBy(o) # {} =>
         result[o].secrets = request[o].outputs
    /\ pc[o] = "done" /\ result[o].verdict \in SecretCarriers =>
         \/ result[o].secrets = request[o].outputs
         \/ entry[o] = "settle_note" /\ request[o].outputs = {}
    /\ result[o].verdict = "Ok" =>
         \/ LandedBy(o) # {}
         \/ /\ entry[o] = "settle_note"
            /\ LandedBy(o) = {}
            /\ result[o].secrets = request[o].inputs
    /\ result[o].verdict = "Unverifiable" => LandedBy(o) # {}

\* Every note named to the client or by it is one of the first or was drawn by
\* it, so a settle_note is never told to keep the note it makes and the note it
\* was given for one and the same.
Apart ==
  \A o \in Ops :
    /\ request[o].inputs \cup result[o].secrets \subseteq Genesis \cup drawn
    /\ entry[o] = "settle_note" /\ pc[o] # "idle" =>
         request[o].inputs # request[o].outputs

Bookkeeping == Current /\ AnswersTrue /\ ResultsTrue

\* What is burned is burned for good: it is never outstanding again, a note in
\* melting still is, and what a mutation spent stays spent.
Burned ==
  /\ spent \cap outstanding = {}
  /\ melting \subseteq outstanding
  /\ \A m \in applied : m.req.kind # "Melt" => m.req.inputs \subseteq spent

\* A melt makes no note.
MeltsMakeNothing ==
  \A o \in Ops : request[o].kind = "Melt" => request[o].outputs = {}

\* An answer is on its way to a waiting call only.
Heard == \A o \in Ops : answer[o] # NoAnswer => pc[o] = "wait"

\* A note is only found alive after the call that would have burned it.
FoundAlive ==
  \A o \in Ops : fate[o] = "Live" => pc[o] = "done" /\ Minted(o) = {}
=============================================================================
