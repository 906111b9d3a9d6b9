------------------------------- MODULE Client -------------------------------
(***************************************************************************)
(* The HTTP client of src/client.rs: every mutating call from the drawing  *)
(* of its fresh secrets to the value or error it returns, over a network   *)
(* that loses requests and answers, against the SERVICE of module Mint.    *)
(*                                                                         *)
(* A call is a member of Ops.  Several are in progress at once, in one     *)
(* wallet or in several that hold copies of the same bearer note.          *)
(***************************************************************************)
EXTENDS Mint

CONSTANTS
  Entries,             \* the entry points in use, a subset of AllEntries
  mutation_retries,    \* ClientConfig::mutation_retries
  require_signatures,  \* Policy::require_signatures
  require_mint_pubkey, \* Policy::require_mint_pubkey
  LateDelivery         \* whether an attempt the client has given up on may
                       \* still reach the SERVICE

\* The first four are the four kinds of mutation; settle_note is a look at the
\* note and then a rotate.
KindOf == [melt_note |-> "Melt", rotate_note |-> "Rotate",
           split_note |-> "Split", merge_notes |-> "Merge",
           settle_note |-> "Rotate"]

AllEntries == DOMAIN KindOf

ASSUME ClientAssumption ==
  /\ Entries \subseteq AllEntries
  /\ mutation_retries \in Nat
  /\ require_signatures \in BOOLEAN
  /\ require_mint_pubkey \in BOOLEAN
  /\ LateDelivery \in BOOLEAN

VARIABLES
  pc,       \* where each call stands
  entry,    \* which method it is a call of
  request,  \* its protocol::Request; new_secrets are the outputs
  attempt,  \* the round of run_mutation's loop
  result,   \* what it returned
  fate,     \* the NoteFate a later probe of one of its inputs reported
  drawn     \* every secret secret_source has produced

clientVars == <<pc, entry, request, attempt, result, fate, drawn>>
vars == <<mintVars, clientVars>>

NoRequest == [kind |-> "Rotate", inputs |-> {}, outputs |-> {}]

\* An Ok carries the notes the caller is told to keep: the new ones, or the old
\* one when settle_note falls back on it.
Verdicts == {"none", "Ok"} \cup Variants
NoteFates == {"unasked", "Live", "Gone", "Unknown"}

TypeOK ==
  /\ MintTypeOK
  /\ pc \in [Ops -> {"idle", "look", "send", "wait", "done"}]
  /\ entry \in [Ops -> AllEntries]
  /\ request \in [Ops -> Requests]
  /\ attempt \in [Ops -> 0..mutation_retries]
  /\ result \in [Ops -> [verdict : Verdicts, secrets : SUBSET Notes]]
  /\ fate \in [Ops -> NoteFates]
  /\ drawn \subseteq Notes

Init ==
  /\ MintInit
  /\ pc = [o \in Ops |-> "idle"]
  /\ entry = [o \in Ops |-> "rotate_note"]
  /\ request = [o \in Ops |-> NoRequest]
  /\ attempt = [o \in Ops |-> 0]
  /\ result = [o \in Ops |-> [verdict |-> "none", secrets |-> {}]]
  /\ fate = [o \in Ops |-> "unasked"]
  /\ drawn = {}

-----------------------------------------------------------------------------
\* The notes a caller can name: the first ones and those a call handed out.
Held == Genesis \cup UNION {result[o].secrets : o \in Ops}

\* What secret_source can draw for a mutation: secrets nobody has.
Fresh(kind) ==
  {S \in SUBSET (Notes \ (Genesis \cup drawn)) :
     Cardinality(S) = Cardinality(OutputsOf[kind])}

\* The arguments a method takes: one k1, or any number of them.
Arguments(e) ==
  IF e \in {"split_note", "merge_notes"} THEN SUBSET Held
  ELSE {{n} : n \in Held}

\* Two mistakes to catch: a melt is tried again like the rest, and `0..attempts`
\* miscounted by one.
AttemptsAtMelts(kind) == mutation_retries
AttemptsOneMore(kind) == IF kind = "Melt" THEN 0 ELSE mutation_retries + 1

\* Rounds of run_mutation's loop after the first.
Attempts(kind) == IF kind = "Melt" THEN 0 ELSE mutation_retries

\* A mistake to catch, and one the code once made: a blanket Err(_).
SwallowedAll == Variants

\* The errors of its rotate that settle_note takes for "burned nothing".
Swallowed == {"RequestRefused", "ServiceRejected", "NotePending"}

\* A mistake to catch: the secrets of a mutation are kept when it is uncertain,
\* and dropped when a retry is refused.
ReturnedBare(e, req, v) ==
  IF e = "settle_note" /\ v \in Swallowed
  THEN [verdict |-> "Ok", secrets |-> req.inputs]
  ELSE [verdict |-> v,
        secrets |-> IF v \in {"Ok", "Ambiguous"} THEN req.outputs ELSE {}]

\* What a call of method e hands back once its request has come to v.
Returned(e, req, v) ==
  IF e = "settle_note" /\ v \in Swallowed
  THEN [verdict |-> "Ok", secrets |-> req.inputs]
  ELSE [verdict |-> v, secrets |-> IF v = "Ok" THEN req.outputs
                                   ELSE with_secrets(v, req.outputs)]

Return(o, outcome) ==
  /\ pc' = [pc EXCEPT ![o] = "done"]
  /\ result' = [result EXCEPT ![o] = outcome]

\* Fresh secrets are drawn and the request is built around them and handed to
\* run.  It is refused before anything is sent when it names no k1, when the
\* client is offline, and when the callback is not a URL it will fetch.
Mutate(o, e, inputs) ==
  \E outputs \in Fresh(KindOf[e]), permitted \in BOOLEAN :
    LET req == [kind |-> KindOf[e], inputs |-> inputs, outputs |-> outputs]
    IN  /\ request' = [request EXCEPT ![o] = req]
        /\ drawn' = drawn \cup outputs
        /\ IF permitted /\ inputs # {}
           THEN pc' = [pc EXCEPT ![o] = "send"] /\ UNCHANGED result
           ELSE Return(o, Returned(e, req, "RequestRefused"))

-----------------------------------------------------------------------------
\* melt_note, rotate_note, split_note, merge_notes
Call(o) ==
  /\ pc[o] = "idle"
  /\ \E e \in Entries \ {"settle_note"} :
       /\ entry' = [entry EXCEPT ![o] = e]
       /\ \E inputs \in Arguments(e) : Mutate(o, e, inputs)
  /\ UNCHANGED <<mintVars, attempt, fate>>

\* settle_note up to its informational GET.
CallSettle(o) ==
  /\ pc[o] = "idle"
  /\ "settle_note" \in Entries
  /\ entry' = [entry EXCEPT ![o] = "settle_note"]
  /\ \E k1 \in Held, permitted \in BOOLEAN :
       /\ request' = [request EXCEPT ![o] = [NoRequest EXCEPT !.inputs = {k1}]]
       /\ IF permitted
          THEN pc' = [pc EXCEPT ![o] = "look"] /\ UNCHANGED result
          ELSE Return(o, [verdict |-> "RequestRefused", secrets |-> {}])
  /\ UNCHANGED <<mintVars, attempt, fate, drawn>>

\* What fetch_note_info comes to: the SERVICE's answer, or a lost one.
InfoVerdicts(n) ==
  {parse_note_info(body, require_mint_pubkey) : body \in InfoAnswers(n)}
    \cup {"Ambiguous"}

\* settle_note from its GET's answer: an error is the caller's, with no secret
\* in it, and anything else leads on to the rotate.
Look(o) ==
  /\ pc[o] = "look"
  /\ \E k1 \in request[o].inputs : \E v \in InfoVerdicts(k1) :
       IF v = "Ok"
       THEN Mutate(o, "settle_note", {k1})
       ELSE /\ Return(o, [verdict |-> v, secrets |-> {}])
            /\ UNCHANGED <<request, drawn>>
  /\ UNCHANGED <<mintVars, entry, attempt, fate>>

\* run: one GET, of the request as it was first built.
Message(o) == [op |-> o, att |-> attempt[o], req |-> request[o]]

Send(o) ==
  /\ pc[o] = "send"
  /\ pc' = [pc EXCEPT ![o] = "wait"]
  /\ wire' = wire \cup {Message(o)}
  /\ UNCHANGED <<outstanding, spent, melting, applied, answer>>
  /\ UNCHANGED <<entry, request, attempt, result, fate, drawn>>

\* Two mistakes to catch: every retry draws its secrets anew, and the rounds are
\* not counted.
ConcludeAfresh(o, v) ==
  /\ IF is_ambiguous(v) /\ attempt[o] < Attempts(request[o].kind)
     THEN /\ pc' = [pc EXCEPT ![o] = "send"]
          /\ attempt' = [attempt EXCEPT ![o] = attempt[o] + 1]
          /\ \E outputs \in Fresh(request[o].kind) :
               /\ request' = [request EXCEPT ![o].outputs = outputs]
               /\ drawn' = drawn \cup outputs
          /\ UNCHANGED result
     ELSE /\ Return(o, Returned(entry[o], request[o], v))
          /\ UNCHANGED <<attempt, request, drawn>>
  /\ UNCHANGED <<entry, fate>>

ConcludeForever(o, v) ==
  /\ IF is_ambiguous(v) /\ request[o].kind # "Melt"
     THEN pc' = [pc EXCEPT ![o] = "send"] /\ UNCHANGED result
     ELSE Return(o, Returned(entry[o], request[o], v))
  /\ UNCHANGED <<attempt, entry, request, fate, drawn>>

\* The loop of run_mutation after one round has come to v: only ambiguity is
\* tried again, and the last ambiguity is returned when the rounds are used up.
Conclude(o, v) ==
  /\ IF is_ambiguous(v) /\ attempt[o] < Attempts(request[o].kind)
     THEN /\ pc' = [pc EXCEPT ![o] = "send"]
          /\ attempt' = [attempt EXCEPT ![o] = attempt[o] + 1]
          /\ UNCHANGED result
     ELSE /\ Return(o, Returned(entry[o], request[o], v))
          /\ UNCHANGED attempt
  /\ UNCHANGED <<entry, request, fate, drawn>>

\* The outputs this client makes are bearer notes, so none of them is a key.
Receive(o) ==
  /\ pc[o] = "wait"
  /\ answer[o] # NoAnswer
  /\ Conclude(o, parse_mutation(answer[o], request[o].kind, {}, require_signatures))
  /\ answer' = [answer EXCEPT ![o] = NoAnswer]
  /\ UNCHANGED <<outstanding, spent, melting, applied, wire>>

\* The time-out expires or the transport fails.  Whatever was still on its way
\* back is lost; what was still on its way there is lost too, unless
\* LateDelivery.
GiveUp(o) ==
  /\ pc[o] = "wait"
  /\ Conclude(o, "Ambiguous")
  /\ answer' = [answer EXCEPT ![o] = NoAnswer]
  /\ wire' = IF LateDelivery THEN wire ELSE wire \ {Message(o)}
  /\ UNCHANGED <<outstanding, spent, melting, applied>>

\* A mistake to catch: anything but a burn leaves the note alive.
FateUnlessGone(v) ==
  IF v \in {"NoteSpent", "NoteUnknown"} THEN "Gone" ELSE "Live"

\* What probe_burned_note reads from its GET.
FateOf(v) ==
  IF v = "Ok" THEN "Live"
  ELSE IF v \in {"NoteSpent", "NoteUnknown"} THEN "Gone"
  ELSE "Unknown"

\* probe_burned_note on an input, after an error that carried secrets; asked
\* again while it says nothing.
Probe(o) ==
  /\ pc[o] = "done"
  /\ result[o].verdict \in SecretCarriers
  /\ fate[o] \in {"unasked", "Unknown"}
  /\ \E n \in request[o].inputs : \E v \in InfoVerdicts(n) :
       fate' = [fate EXCEPT ![o] = FateOf(v)]
  /\ UNCHANGED <<mintVars, pc, entry, request, attempt, result, drawn>>

-----------------------------------------------------------------------------
\* The SERVICE's side; a client that gave up on an attempt hears no answer.
Awaited(m) == pc[m.op] = "wait" /\ attempt[m.op] = m.att

Serve(m) ==
  /\ \/ Apply(m, Awaited(m))
     \/ Replay(m, Awaited(m))
     \/ Decline(m, Awaited(m))
  /\ UNCHANGED clientVars

Melting ==
  /\ \E n \in melting : MeltSettles(n) \/ MeltFails(n)
  /\ UNCHANGED clientVars

ClientStep(o) == Call(o) \/ CallSettle(o) \/ Look(o) \/ Send(o)
                 \/ Receive(o) \/ GiveUp(o) \/ Probe(o)

Next ==
  \/ \E o \in Ops : ClientStep(o)
  \/ \E m \in wire : Serve(m)
  \/ Melting

Spec == Init /\ [][Next]_vars

(***************************************************************************)
(* A started call keeps running: its future is polled, so it sends what is *)
(* due, and every wait ends, at the latest when the http client's time-out *)
(* expires.  Nothing is assumed of the SERVICE or of the network.          *)
(***************************************************************************)
Fairness == \A o \in Ops : WF_vars(Look(o) \/ Send(o) \/ Receive(o) \/ GiveUp(o))

FairSpec == Spec /\ Fairness
-----------------------------------------------------------------------------
\* The attempts of a call that took effect, and the notes they brought about.
LandedBy(o) == {m \in applied : m.op = o}
Minted(o) == UNION {m.req.outputs : m \in LandedBy(o)}

\* No note is stranded: whatever a returned call minted and nobody has burned
\* since is opened by a secret the call handed back, on success or in its error
\* (the reason with_secrets exists, errors.rs, and run_mutation uses it).
SecretsSurvive ==
  \A o \in Ops : pc[o] = "done" =>
    Minted(o) \cap outstanding \subseteq result[o].secrets

\* An error that carries no secrets is the end of it: the operation has not
\* taken effect and no attempt still on the wire will make it (ServiceRejected,
\* NotePending and RequestRefused in errors.rs; Protocol from settle's GET).
RefusalBurnsNothing ==
  \A o \in Ops : pc[o] = "done" /\ result[o].verdict \in Variants \ SecretCarriers =>
    LandedBy(o) = {}

\* A success names the money: the outputs of a mutation that took effect, or,
\* from a settle_note whose rotate was refused, the k1 it was given, unburned.
\* Unverifiable says the note is known to exist, so it does.
SuccessNamesTheNote ==
  \A o \in Ops :
    /\ result[o].verdict = "Ok" =>
         \/ LandedBy(o) # {} /\ result[o].secrets = request[o].outputs
         \/ /\ entry[o] = "settle_note"
            /\ LandedBy(o) = {} /\ result[o].secrets = request[o].inputs
    /\ result[o].verdict = "Unverifiable" => LandedBy(o) # {}

\* However often a call asks, its operation takes effect once: a repeat is
\* recognised as one, and a melt, which a SERVICE would pay again after a
\* failure, is never repeated (run_mutation).
OneLanding == \A o \in Ops : Cardinality(LandedBy(o)) <= 1

\* NoteFate::Live: the request never landed, and the fresh secrets mint nothing
\* from then on either, so they can be discarded.
LiveProbeIsFinal == \A o \in Ops : fate[o] = "Live" => Minted(o) = {}

\* Every attempt a call puts on the wire repeats the one before it exactly, so
\* that the SERVICE can recognise it (run_mutation clones, never rebuilds).
RetriesAreIdentical ==
  [][\A m \in wire' \ wire : \A n \in wire \cup applied :
       n.op = m.op => n.req = m.req]_vars

\* Every call returns, whatever the SERVICE and the network do: the wait is
\* bounded and so are the rounds (ClientConfig::timeout, mutation_retries).
CallsReturn == \A o \in Ops : pc[o] \in {"look", "send", "wait"} ~> pc[o] = "done"

\* Error::is_definitive, as its comment has it: "The operation did not happen."
DefinitiveMeansNothingHappened ==
  \A o \in Ops : pc[o] = "done" /\ is_definitive(result[o].verdict) =>
    LandedBy(o) = {}

-----------------------------------------------------------------------------
\* What the caller can conclude from a returned call.
Report(o) ==
  CASE pc[o] # "done" -> "open"
    [] pc[o] = "done" /\ result[o].verdict \in {"Ok", "Unverifiable"} ->
         IF result[o].secrets = request[o].outputs THEN "done" ELSE "refused"
    [] pc[o] = "done" /\ result[o].verdict \notin {"Ok", "Unverifiable"} ->
         IF \/ result[o].verdict \notin SecretCarriers
            \/ entry[o] = "settle_note" /\ request[o].outputs = {}
         THEN "refused" ELSE "uncertain"

Contract == INSTANCE Custody WITH
  Occasions <- 0..mutation_retries,
  landings <- [o \in Ops |-> {m.att : m \in LandedBy(o)}],
  report   <- [o \in Ops |-> Report(o)],
  secured  <- [o \in Ops |->
                pc[o] = "done" /\ request[o].outputs \subseteq result[o].secrets]

\* Every behaviour of the client and the SERVICE keeps the contract.
KeepsTheContract == Contract!Spec
=============================================================================
