---------------------------- MODULE ClientProofs ----------------------------
(***************************************************************************)
(* Proofs about Client, for every set of notes and of calls, every number  *)
(* of retries, and every SERVICE that module Mint describes.               *)
(***************************************************************************)
EXTENDS ClientInv, FiniteSetTheorems, TLAPS

-----------------------------------------------------------------------------
\* What classify_note_error can come to, whatever the SERVICE's wording.
LEMMA ClassifyType ==
  \A r : classify_note_error(r) \in
           {"NotePending", "NoteSpent", "NoteUnknown", "ServiceRejected"}
  BY DEF classify_note_error

\* What a mutation's answer can come to.
LEMMA ParseMutationType ==
  ASSUME NEW body \in Bodies, NEW kind, NEW keys, NEW sigs
  PROVE  parse_mutation(body, kind, keys, sigs) \in {"Ok"} \cup Variants
<1>1. body.status \in {"OK", "ERROR", "none"}
  BY DEF Bodies, OkBodies, ErrorBodies, VagueBody
<1>2. QED
  BY <1>1, ClassifyType DEF parse_mutation, Variants

\* What an informational GET can come to.
LEMMA InfoVerdictType ==
  ASSUME NEW n
  PROVE  InfoVerdicts(n) \subseteq ({"Ok"} \cup Variants) \ {"Unverifiable"}
<1>1. \A body \in InfoAnswers(n) : body.status \in {"ERROR", "info"}
  BY DEF InfoAnswers
<1>2. \A body \in InfoAnswers(n) :
        parse_note_info(body, require_mint_pubkey)
          \in ({"Ok"} \cup Variants) \ {"Unverifiable"}
  BY <1>1, ClassifyType DEF parse_note_info, Variants
<1>3. QED
  BY <1>2 DEF InfoVerdicts, Variants

\* A mutation that is not a melt draws at least one fresh secret, and one that
\* nobody had.
LEMMA FreshOutputs ==
  ASSUME NEW kind \in MutationKind, NEW S \in Fresh(kind)
  PROVE  /\ S \subseteq Notes
         /\ S \cap drawn = {}
         /\ kind # "Melt" => S # {}
<1>1. Cardinality({0}) = 1 /\ Cardinality({}) = 0
  BY FS_Singleton, FS_EmptySet
<1>2. Cardinality({0, 1}) = 2
  <2>1. IsFiniteSet({1}) /\ Cardinality({1}) = 1
    BY FS_Singleton
  <2>2. {0, 1} = {1} \cup {0} /\ 0 \notin {1}
    OBVIOUS
  <2>3. QED
    BY <2>1, <2>2, FS_AddElement
<1>3. QED
  BY <1>1, <1>2, FS_EmptySet DEF Fresh, OutputsOf, MutationKind
-----------------------------------------------------------------------------
\* Returned has the type of a result.
LEMMA ReturnedType ==
  ASSUME NEW e, NEW req \in Requests, NEW v \in {"Ok"} \cup Variants
  PROVE  /\ Returned(e, req, v) \in [verdict : Verdicts, secrets : SUBSET Notes]
         /\ Returned(e, req, v).verdict # "none"
  BY DEF Returned, Verdicts, Variants, Requests, with_secrets

\* The part of TypeOK that the client's own steps can disturb.
LEMMA MutateType ==
  ASSUME TypeOK, NEW o \in Ops, NEW e \in AllEntries,
         NEW inputs \in SUBSET Notes, Mutate(o, e, inputs)
  PROVE  /\ pc' \in [Ops -> {"idle", "look", "send", "wait", "done"}]
         /\ request' \in [Ops -> Requests]
         /\ result' \in [Ops -> [verdict : Verdicts, secrets : SUBSET Notes]]
         /\ drawn' \subseteq Notes
<1>1. KindOf[e] \in MutationKind
  BY DEF KindOf, AllEntries, MutationKind
<1>2. PICK outputs \in Fresh(KindOf[e]), permitted \in BOOLEAN :
        Mutate(o, e, inputs)!(outputs, permitted)
  BY DEF Mutate
<1> DEFINE req == [kind |-> KindOf[e], inputs |-> inputs, outputs |-> outputs]
<1>3. outputs \subseteq Notes
  BY <1>1, FreshOutputs
<1>4. req \in Requests
  BY <1>1, <1>3 DEF Requests
<1>5. Returned(e, req, "RequestRefused")
        \in [verdict : Verdicts, secrets : SUBSET Notes]
  BY <1>4, ReturnedType DEF Variants
<1> HIDE DEF req
<1>6. /\ request' = [request EXCEPT ![o] = req]
      /\ drawn' = drawn \cup outputs
      /\ \/ pc' = [pc EXCEPT ![o] = "send"] /\ UNCHANGED result
         \/ Return(o, Returned(e, req, "RequestRefused"))
  BY <1>2 DEF req
<1>7. request' \in [Ops -> Requests] /\ drawn' \subseteq Notes
  BY <1>3, <1>4, <1>6 DEF TypeOK
<1> DEFINE r == Returned(e, req, "RequestRefused")
<1> HIDE DEF r
<1>8. \/ pc' = [pc EXCEPT ![o] = "send"] /\ UNCHANGED result
      \/ pc' = [pc EXCEPT ![o] = "done"] /\ result' = [result EXCEPT ![o] = r]
  BY <1>6 DEF Return, r
<1>9. r \in [verdict : Verdicts, secrets : SUBSET Notes]
  BY <1>5 DEF r
<1>10. QED
  BY <1>7, <1>8, <1>9 DEF TypeOK

\* The end of a round keeps the types.
LEMMA ConcludeType ==
  ASSUME TypeOK, NEW o \in Ops, NEW v \in {"Ok"} \cup Variants, Conclude(o, v)
  PROVE  /\ pc' \in [Ops -> {"idle", "look", "send", "wait", "done"}]
         /\ attempt' \in [Ops -> 0..mutation_retries]
         /\ result' \in [Ops -> [verdict : Verdicts, secrets : SUBSET Notes]]
         /\ UNCHANGED <<entry, request, fate, drawn>>
<1>1. Returned(entry[o], request[o], v)
        \in [verdict : Verdicts, secrets : SUBSET Notes]
  BY ReturnedType DEF TypeOK
<1>2. CASE pc' = [pc EXCEPT ![o] = "send"]
           /\ attempt' = [attempt EXCEPT ![o] = attempt[o] + 1]
           /\ attempt[o] < Attempts(request[o].kind) /\ UNCHANGED result
  BY <1>2, ClientAssumption DEF TypeOK, Attempts, Conclude
<1>3. CASE Return(o, Returned(entry[o], request[o], v)) /\ UNCHANGED attempt
  BY <1>1, <1>3 DEF TypeOK, Return, Conclude
<1>4. QED
  BY <1>2, <1>3 DEF Conclude

\* A SERVICE's step keeps the types of its state.
LEMMA ServeType ==
  ASSUME TypeOK, NEW m \in wire, Serve(m)
  PROVE  MintTypeOK'
<1>1. m \in Messages /\ m.op \in Ops /\ m.req.inputs \subseteq Notes
      /\ m.req.outputs \subseteq Notes
  BY DEF TypeOK, MintTypeOK, Messages, Requests
<1>2. ASSUME NEW awaited, NEW body \in Bodies, Reply(m, awaited, body)
      PROVE  wire' \subseteq Messages /\ answer' \in [Ops -> Bodies \cup {NoAnswer}]
  BY <1>1, <1>2 DEF Reply, TypeOK, MintTypeOK
<1>3. Confirmations \subseteq Bodies
  BY MintAssumption DEF Confirmations, Bodies, OkBodies
<1>4. CASE Apply(m, Awaited(m))
  <2>1. wire' \subseteq Messages /\ answer' \in [Ops -> Bodies \cup {NoAnswer}]
    BY <1>2, <1>3, <1>4 DEF Apply
  <2>2. QED
    BY <1>1, <1>4, <2>1 DEF Apply, TypeOK, MintTypeOK
<1>5. CASE Replay(m, Awaited(m))
  <2>1. wire' \subseteq Messages /\ answer' \in [Ops -> Bodies \cup {NoAnswer}]
    BY <1>2, <1>3, <1>5 DEF Replay
  <2>2. QED
    BY <1>5, <2>1 DEF Replay, TypeOK, MintTypeOK
<1>6. CASE Decline(m, Awaited(m))
  <2>1. {"isPending"} \in Reasons
    BY DEF Reasons, Marks
  <2>2. ReasonsAgainst(m.req) \subseteq Reasons
    BY <2>1, MintAssumption DEF ReasonsAgainst
  <2>3. \A reason \in Reasons : [status |-> "ERROR", reason |-> reason] \in Bodies
    BY DEF Bodies, ErrorBodies
  <2>4. wire' \subseteq Messages /\ answer' \in [Ops -> Bodies \cup {NoAnswer}]
    BY <1>2, <1>6, <2>2, <2>3 DEF Decline
  <2>5. QED
    BY <1>6, <2>4 DEF Decline, TypeOK, MintTypeOK
<1>7. QED
  BY <1>4, <1>5, <1>6 DEF Serve

\* The initial state is well typed.
LEMMA InitType == Init => TypeOK
<1> SUFFICES ASSUME Init PROVE TypeOK
  OBVIOUS
<1>1. MintTypeOK
  BY MintAssumption DEF Init, MintInit, MintTypeOK, Bodies
<1>2. NoRequest \in Requests /\ "rotate_note" \in AllEntries
  BY DEF NoRequest, Requests, MutationKind, AllEntries, KindOf
<1>3. QED
  BY <1>1, <1>2, ClientAssumption DEF Init, TypeOK, Verdicts, NoteFates

\* The notes a caller can name are notes.
LEMMA HeldType == TypeOK => Held \subseteq Notes
  BY MintAssumption DEF TypeOK, Held

\* Every step keeps the types.
LEMMA NextType == TypeOK /\ [Next]_vars => TypeOK'
<1> SUFFICES ASSUME TypeOK, [Next]_vars
             PROVE  TypeOK'
  OBVIOUS
<1>1. ASSUME NEW o \in Ops, Call(o)
      PROVE  TypeOK'
  <2>1. PICK e \in Entries \ {"settle_note"} :
          /\ entry' = [entry EXCEPT ![o] = e]
          /\ \E inputs \in Arguments(e) : Mutate(o, e, inputs)
    BY <1>1 DEF Call
  <2>2. PICK inputs \in Arguments(e) : Mutate(o, e, inputs)
    BY <2>1
  <2>3. e \in AllEntries /\ inputs \in SUBSET Notes
    BY ClientAssumption, HeldType, <2>1, <2>2 DEF Arguments
  <2>4. QED
    BY <1>1, <2>1, <2>2, <2>3, MutateType DEF Call, TypeOK, MintTypeOK, mintVars
<1>2. ASSUME NEW o \in Ops, CallSettle(o)
      PROVE  TypeOK'
  <2>1. PICK k1 \in Held, permitted \in BOOLEAN :
          /\ request' = [request EXCEPT ![o] = [NoRequest EXCEPT !.inputs = {k1}]]
          /\ IF permitted
             THEN pc' = [pc EXCEPT ![o] = "look"] /\ UNCHANGED result
             ELSE Return(o, [verdict |-> "RequestRefused", secrets |-> {}])
    BY <1>2 DEF CallSettle
  <2>2. [NoRequest EXCEPT !.inputs = {k1}] \in Requests
    BY HeldType DEF NoRequest, Requests, MutationKind
  <2>3. request' \in [Ops -> Requests]
    BY <2>1, <2>2 DEF TypeOK
  <2>4. /\ pc' \in [Ops -> {"idle", "look", "send", "wait", "done"}]
        /\ result' \in [Ops -> [verdict : Verdicts, secrets : SUBSET Notes]]
    BY <2>1 DEF TypeOK, Return, Verdicts, Variants
  <2>5. entry' \in [Ops -> AllEntries]
    BY <1>2, ClientAssumption DEF CallSettle, TypeOK
  <2>6. QED
    BY <1>2, <2>3, <2>4, <2>5 DEF CallSettle, TypeOK, MintTypeOK, mintVars
<1>3. ASSUME NEW o \in Ops, Look(o)
      PROVE  TypeOK'
  <2>0. PICK k1 \in request[o].inputs : \E v \in InfoVerdicts(k1) :
          IF v = "Ok"
          THEN Mutate(o, "settle_note", {k1})
          ELSE /\ Return(o, [verdict |-> v, secrets |-> {}])
               /\ UNCHANGED <<request, drawn>>
    BY <1>3 DEF Look
  <2>1. PICK v \in InfoVerdicts(k1) :
          IF v = "Ok"
          THEN Mutate(o, "settle_note", {k1})
          ELSE /\ Return(o, [verdict |-> v, secrets |-> {}])
               /\ UNCHANGED <<request, drawn>>
    BY <2>0
  <2>2. {k1} \in SUBSET Notes /\ "settle_note" \in AllEntries
    BY DEF TypeOK, Requests, AllEntries, KindOf
  <2>3. v \in {"Ok"} \cup Variants
    BY InfoVerdictType
  <2>4. /\ pc' \in [Ops -> {"idle", "look", "send", "wait", "done"}]
        /\ request' \in [Ops -> Requests]
        /\ result' \in [Ops -> [verdict : Verdicts, secrets : SUBSET Notes]]
        /\ drawn' \subseteq Notes
    <3>1. CASE v = "Ok"
      BY <2>1, <2>2, <3>1, MutateType
    <3>2. CASE v # "Ok"
      BY <2>1, <2>3, <3>2 DEF TypeOK, Return, Verdicts
    <3>3. QED
      BY <3>1, <3>2
  <2>5. QED
    BY <1>3, <2>4 DEF Look, TypeOK, MintTypeOK, mintVars
<1>4. ASSUME NEW o \in Ops, Send(o)
      PROVE  TypeOK'
  <2>1. Message(o) \in Messages
    BY ClientAssumption DEF Message, Messages, TypeOK
  <2>2. QED
    BY <1>4, <2>1 DEF Send, TypeOK, MintTypeOK
<1>5. ASSUME NEW o \in Ops, Receive(o)
      PROVE  TypeOK'
  <2> DEFINE v == parse_mutation(answer[o], request[o].kind, {}, require_signatures)
  <2>1. answer[o] \in Bodies
    BY <1>5 DEF Receive, TypeOK, MintTypeOK
  <2>2. v \in {"Ok"} \cup Variants
    BY <2>1, ParseMutationType
  <2>3. Conclude(o, v)
    BY <1>5 DEF Receive
  <2>4. answer' \in [Ops -> Bodies \cup {NoAnswer}]
    BY <1>5 DEF Receive, TypeOK, MintTypeOK
  <2> HIDE DEF v
  <2>5. QED
    BY <1>5, <2>2, <2>3, <2>4, ConcludeType DEF Receive, TypeOK, MintTypeOK
<1>6. ASSUME NEW o \in Ops, GiveUp(o)
      PROVE  TypeOK'
  <2>1. answer' \in [Ops -> Bodies \cup {NoAnswer}] /\ wire' \subseteq Messages
    BY <1>6 DEF GiveUp, TypeOK, MintTypeOK
  <2>2. Conclude(o, "Ambiguous") /\ "Ambiguous" \in {"Ok"} \cup Variants
    BY <1>6 DEF GiveUp, Variants
  <2>3. QED
    BY <1>6, <2>1, <2>2, ConcludeType DEF GiveUp, TypeOK, MintTypeOK
<1>7. ASSUME NEW o \in Ops, Probe(o)
      PROVE  TypeOK'
  BY <1>7 DEF Probe, FateOf, TypeOK, MintTypeOK, mintVars, NoteFates
<1>8. ASSUME NEW m \in wire, Serve(m)
      PROVE  TypeOK'
  BY <1>8, ServeType DEF Serve, TypeOK, clientVars
<1>9. ASSUME Melting
      PROVE  TypeOK'
  BY <1>9 DEF Melting, MeltSettles, MeltFails, TypeOK, MintTypeOK, clientVars
<1>10. CASE UNCHANGED vars
  BY <1>10 DEF vars, mintVars, clientVars, TypeOK, MintTypeOK
<1>11. QED
  BY <1>1, <1>2, <1>3, <1>4, <1>5, <1>6, <1>7, <1>8, <1>9, <1>10
     DEF Next, ClientStep

\* Every variable of the client and the SERVICE keeps its type.
THEOREM TypeCorrect == Spec => []TypeOK
  BY InitType, NextType, PTL DEF Spec

-----------------------------------------------------------------------------
\* What Mutate does, in one formula: a request around fresh outputs, which is
\* then either due to be sent or refused.
LEMMA MutateShape ==
  ASSUME TypeOK, NEW o \in Ops, NEW e \in AllEntries,
         NEW inputs \in SUBSET Notes, Mutate(o, e, inputs)
  PROVE  \E req \in Requests :
           /\ req.kind = KindOf[e]
           /\ req.inputs = inputs
           /\ req.outputs \cap drawn = {}
           /\ req.kind # "Melt" => req.outputs # {}
           /\ request' = [request EXCEPT ![o] = req]
           /\ drawn' = drawn \cup req.outputs
           /\ \/ pc' = [pc EXCEPT ![o] = "send"] /\ UNCHANGED result
              \/ Return(o, Returned(e, req, "RequestRefused"))
<1>1. KindOf[e] \in MutationKind
  BY DEF KindOf, AllEntries, MutationKind
<1>2. PICK outputs \in Fresh(KindOf[e]), permitted \in BOOLEAN :
        Mutate(o, e, inputs)!(outputs, permitted)
  BY DEF Mutate
<1> DEFINE req == [kind |-> KindOf[e], inputs |-> inputs, outputs |-> outputs]
<1>3. /\ outputs \subseteq Notes
      /\ outputs \cap drawn = {}
      /\ KindOf[e] # "Melt" => outputs # {}
  BY <1>1, FreshOutputs
<1>4. req \in Requests
  BY <1>1, <1>3 DEF Requests
<1>5. QED
  BY <1>2, <1>3, <1>4

\* The same, for what Wiring says of calls.
LEMMA MutateFreshness ==
  ASSUME TypeOK, Wiring, NEW o \in Ops, NEW e \in AllEntries,
         NEW inputs \in SUBSET Notes, Mutate(o, e, inputs),
         pc[o] \in {"idle", "look"}, UNCHANGED attempt,
         entry' = [entry EXCEPT ![o] = e]
  PROVE  Freshness'
<1>1. PICK req \in Requests :
           /\ req.kind = KindOf[e]
           /\ req.inputs = inputs
           /\ req.outputs \cap drawn = {}
           /\ req.kind # "Melt" => req.outputs # {}
           /\ request' = [request EXCEPT ![o] = req]
           /\ drawn' = drawn \cup req.outputs
           /\ \/ pc' = [pc EXCEPT ![o] = "send"] /\ UNCHANGED result
              \/ Return(o, Returned(e, req, "RequestRefused"))
  BY MutateShape
<1>2. \/ pc' = [pc EXCEPT ![o] = "send"]
      \/ pc' = [pc EXCEPT ![o] = "done"]
  BY <1>1 DEF Return
<1>3. ASSUME NEW p \in Ops
      PROVE  (/\ request[p].outputs \subseteq drawn
              /\ pc[p] \in {"send", "wait"} /\ request[p].kind # "Melt" =>
                   request[p].outputs # {}
              /\ pc[p] \in {"idle", "look"} =>
                   request[p].outputs = {} /\ attempt[p] = 0
              /\ pc[p] = "look" => entry[p] = "settle_note"
              /\ request[p].kind = "Melt" => attempt[p] = 0
              /\ request[p].kind = KindOf[entry[p]])'
  BY <1>1, <1>2, <1>3 DEF TypeOK, Wiring, Freshness
<1>4. ASSUME NEW p \in Ops, NEW q \in Ops, p # q
      PROVE  (request[p].outputs \cap request[q].outputs = {})'
  <2>1. request[p].outputs \subseteq drawn /\ request[q].outputs \subseteq drawn
        /\ request[p].outputs \cap request[q].outputs = {}
    BY <1>4 DEF Wiring, Freshness
  <2>2. QED
    BY <1>1, <1>4, <2>1 DEF TypeOK
<1>5. QED
  BY <1>3, <1>4 DEF Freshness

\* A call that has sent nothing has nothing on the wire and has done nothing.
LEMMA NothingSent ==
  ASSUME Wiring, NEW o \in Ops, pc[o] \in {"idle", "look"},
         NEW m \in wire \cup applied
  PROVE  m.op # o
  BY DEF Wiring, Provenance

\* So changing such a call leaves Provenance as it was.
LEMMA ProvenanceElsewhere ==
  ASSUME TypeOK, Wiring, NEW o \in Ops, pc[o] \in {"idle", "look"},
         UNCHANGED mintVars, UNCHANGED attempt,
         \A p \in Ops : p # o => pc'[p] = pc[p] /\ request'[p] = request[p]
  PROVE  Provenance' /\ SingleLanding'
<1>1. ASSUME NEW m \in (wire \cup applied)'
      PROVE  Provenance!(m)'
  <2>1. m \in wire \cup applied /\ m.op \in Ops
    BY <1>1 DEF mintVars, TypeOK, MintTypeOK, Messages
  <2>2. m.op # o
    BY <2>1, NothingSent
  <2>3. QED
    BY <2>1, <2>2 DEF Wiring, Provenance
<1>2. QED
  BY <1>1 DEF Wiring, Provenance, SingleLanding, mintVars

\* Nothing has been asked for at the start.
LEMMA InitWiring == Init => Wiring
<1> SUFFICES ASSUME Init PROVE Wiring
  OBVIOUS
<1>1. wire = {} /\ applied = {}
  BY DEF Init, MintInit
<1>2. Freshness
  BY DEF Init, Freshness, NoRequest, KindOf
<1>3. QED
  BY <1>1, <1>2 DEF Wiring, Provenance, SingleLanding

\* After a round the call has moved on: it is due to send a later attempt, or
\* it has returned.
LEMMA ConcludeWiring ==
  ASSUME TypeOK, Wiring, NEW o \in Ops, pc[o] = "wait", NEW v, Conclude(o, v),
         wire' \subseteq wire, UNCHANGED applied
  PROVE  Wiring'
<1>1. \/ /\ pc' = [pc EXCEPT ![o] = "send"]
         /\ attempt' = [attempt EXCEPT ![o] = attempt[o] + 1]
         /\ request[o].kind # "Melt"
      \/ /\ pc' = [pc EXCEPT ![o] = "done"]
         /\ UNCHANGED attempt
  BY DEF Conclude, Return, Attempts, TypeOK
<1>2. UNCHANGED <<entry, request, drawn>>
  BY DEF Conclude
<1>3. Provenance'
  <2>1. ASSUME NEW m \in (wire \cup applied)'
        PROVE  Provenance!(m)'
    <3>1. m \in wire \cup applied /\ m.op \in Ops /\ m.att \in Nat
          /\ attempt[m.op] \in Nat
      BY <2>1 DEF TypeOK, MintTypeOK, Messages
    <3>2. Provenance!(m)
      BY <3>1 DEF Wiring, Provenance
    <3>3. CASE m.op = o
      <4>1. attempt[o] \in Nat /\ pc'[o] \in {"send", "done"}
            /\ (pc'[o] = "send" => attempt'[o] = attempt[o] + 1)
            /\ (pc'[o] = "done" => attempt'[o] = attempt[o])
        BY <1>1, <3>1, <3>3 DEF TypeOK
      <4>2. QED
        BY <1>2, <3>1, <3>2, <3>3, <4>1
    <3>4. CASE m.op # o
      <4>1. pc'[m.op] = pc[m.op] /\ attempt'[m.op] = attempt[m.op]
        BY <1>1, <3>1, <3>4 DEF TypeOK
      <4>2. QED
        BY <1>2, <3>2, <4>1
    <3>5. QED
      BY <3>3, <3>4
  <2>2. QED
    BY <2>1 DEF Provenance
<1>4. Freshness'
  BY <1>1, <1>2 DEF TypeOK, Wiring, Freshness
<1>5. SingleLanding'
  BY DEF Wiring, SingleLanding
<1>6. QED
  BY <1>3, <1>4, <1>5 DEF Wiring

\* Where the SERVICE sees no repeat, nothing of that call was carried out: it
\* would have recognised a rotate, split or merge, and a melt has one attempt.
LEMMA ApplyFirst ==
  ASSUME TypeOK, Wiring, NEW m \in wire, ~ Repeats(m.req)
  PROVE  \A n \in applied : n.op # m.op
<1> SUFFICES ASSUME NEW n \in applied, n.op = m.op
             PROVE  FALSE
  OBVIOUS
<1>1. n.req = m.req
  BY DEF Wiring, Provenance
<1>2. m.req.kind = "Melt"
  BY <1>1 DEF Repeats
<1>3. m.att = 0 /\ n.att = 0
  <2>1. attempt[m.op] = 0
    BY <1>2 DEF Wiring, Provenance, Freshness, TypeOK, MintTypeOK, Messages
  <2>2. QED
    BY <2>1 DEF Wiring, Provenance, TypeOK, MintTypeOK, Messages
<1>4. m = n
  BY <1>1, <1>3 DEF TypeOK, MintTypeOK, Messages
<1>5. QED
  BY <1>4 DEF Wiring, SingleLanding

\* The SERVICE carries an operation out once: a repeat is seen as one.
LEMMA ServeWiring ==
  ASSUME TypeOK, Wiring, NEW m \in wire, Serve(m)
  PROVE  Wiring'
<1>1. wire' = wire \ {m}
  BY DEF Serve, Apply, Replay, Decline, Reply
<1>2. UNCHANGED <<pc, entry, request, attempt, drawn>>
  BY DEF Serve, clientVars
<1>3. CASE Apply(m, Awaited(m))
  <2>1. applied' = applied \cup {m}
    BY <1>3 DEF Apply
  <2>2. \A n \in applied : n.op # m.op
    BY <1>3, ApplyFirst DEF Apply, Honourable
  <2>3. Provenance' /\ Freshness'
    BY <1>1, <1>2, <2>1 DEF Wiring, Provenance, Freshness
  <2>4. SingleLanding'
    BY <1>1, <2>1, <2>2 DEF Wiring, SingleLanding
  <2>5. QED
    BY <2>3, <2>4 DEF Wiring
<1>4. CASE UNCHANGED applied
  BY <1>1, <1>2, <1>4 DEF Wiring, Provenance, Freshness, SingleLanding
<1>5. QED
  BY <1>3, <1>4 DEF Serve, Replay, Decline

\* Every step keeps requests, attempts and landings in line.
LEMMA NextWiring == TypeOK /\ Wiring /\ [Next]_vars => Wiring'
<1> SUFFICES ASSUME TypeOK, Wiring, [Next]_vars
             PROVE  Wiring'
  OBVIOUS
<1>1. ASSUME NEW o \in Ops, Call(o)
      PROVE  Wiring'
  <2>1. PICK e \in Entries \ {"settle_note"} :
          /\ entry' = [entry EXCEPT ![o] = e]
          /\ \E inputs \in Arguments(e) : Mutate(o, e, inputs)
    BY <1>1 DEF Call
  <2>2. PICK inputs \in Arguments(e) : Mutate(o, e, inputs)
    BY <2>1
  <2>3. e \in AllEntries /\ inputs \in SUBSET Notes
    BY ClientAssumption, HeldType, <2>1, <2>2 DEF Arguments
  <2>4. Freshness'
    BY <1>1, <2>1, <2>2, <2>3, MutateFreshness DEF Call
  <2>5. Provenance' /\ SingleLanding'
    <3>1. \A p \in Ops : p # o => pc'[p] = pc[p] /\ request'[p] = request[p]
      BY <2>2, <2>3, MutateShape DEF TypeOK, Return
    <3>2. QED
      BY <1>1, <3>1, ProvenanceElsewhere DEF Call
  <2>6. QED
    BY <2>4, <2>5 DEF Wiring
<1>2. ASSUME NEW o \in Ops, CallSettle(o)
      PROVE  Wiring'
  <2>1. PICK k1 \in Held, permitted \in BOOLEAN :
          /\ request' = [request EXCEPT ![o] = [NoRequest EXCEPT !.inputs = {k1}]]
          /\ IF permitted
             THEN pc' = [pc EXCEPT ![o] = "look"] /\ UNCHANGED result
             ELSE Return(o, [verdict |-> "RequestRefused", secrets |-> {}])
    BY <1>2 DEF CallSettle
  <2>2. \/ pc' = [pc EXCEPT ![o] = "look"]
        \/ pc' = [pc EXCEPT ![o] = "done"]
    BY <2>1 DEF Return
  <2>3. /\ [NoRequest EXCEPT !.inputs = {k1}].outputs = {}
        /\ [NoRequest EXCEPT !.inputs = {k1}].kind = "Rotate"
        /\ KindOf["settle_note"] = "Rotate"
    BY DEF NoRequest, KindOf
  <2>4. Freshness'
    BY <1>2, <2>1, <2>2, <2>3 DEF CallSettle, TypeOK, Wiring, Freshness
  <2>5. Provenance' /\ SingleLanding'
    <3>1. \A p \in Ops : p # o => pc'[p] = pc[p] /\ request'[p] = request[p]
      BY <2>1, <2>2 DEF TypeOK
    <3>2. QED
      BY <1>2, <3>1, ProvenanceElsewhere DEF CallSettle
  <2>6. QED
    BY <2>4, <2>5 DEF Wiring
<1>3. ASSUME NEW o \in Ops, Look(o)
      PROVE  Wiring'
  <2>1. PICK k1 \in request[o].inputs :
          \/ Mutate(o, "settle_note", {k1})
          \/ pc' = [pc EXCEPT ![o] = "done"] /\ UNCHANGED <<request, drawn>>
    BY <1>3 DEF Look, Return
  <2>2. entry' = [entry EXCEPT ![o] = "settle_note"]
    BY <1>3 DEF Look, TypeOK, Wiring, Freshness
  <2>3. {k1} \in SUBSET Notes /\ "settle_note" \in AllEntries
    BY DEF TypeOK, Requests, AllEntries, KindOf
  <2>4. Freshness'
    <3>1. CASE Mutate(o, "settle_note", {k1})
      BY <1>3, <2>2, <2>3, <3>1, MutateFreshness DEF Look
    <3>2. CASE pc' = [pc EXCEPT ![o] = "done"] /\ UNCHANGED <<request, drawn>>
      BY <1>3, <3>2 DEF Look, TypeOK, Wiring, Freshness
    <3>3. QED
      BY <2>1, <3>1, <3>2
  <2>5. Provenance' /\ SingleLanding'
    <3>1. \A p \in Ops : p # o => pc'[p] = pc[p] /\ request'[p] = request[p]
      BY <2>1, <2>3, MutateShape DEF TypeOK, Return
    <3>2. QED
      BY <1>3, <3>1, ProvenanceElsewhere DEF Look
  <2>6. QED
    BY <2>4, <2>5 DEF Wiring
<1>4. ASSUME NEW o \in Ops, Send(o)
      PROVE  Wiring'
  <2>1. /\ wire' = wire \cup {Message(o)}
        /\ pc' = [pc EXCEPT ![o] = "wait"]
        /\ UNCHANGED <<applied, entry, request, attempt, drawn>>
    BY <1>4 DEF Send
  <2>2. Provenance'
    <3>1. ASSUME NEW m \in wire \cup applied
          PROVE  Provenance!(m)'
      <4>1. m.op \in Ops /\ Provenance!(m)
        BY DEF Wiring, Provenance, TypeOK, MintTypeOK, Messages
      <4>2. QED
        BY <1>4, <2>1, <4>1 DEF Send, TypeOK
    <3>2. ASSUME NEW m, m = Message(o)
          PROVE  Provenance!(m)'
      <4>1. attempt[o] \in Nat
        BY ClientAssumption DEF TypeOK
      <4>2. QED
        BY <1>4, <2>1, <3>2, <4>1 DEF Send, Message, TypeOK, Wiring, Freshness
    <3>3. QED
      BY <2>1, <3>1, <3>2 DEF Provenance
  <2>3. Freshness'
    BY <1>4, <2>1 DEF Send, TypeOK, Wiring, Freshness
  <2>4. Message(o) \notin applied
    BY <1>4, ClientAssumption DEF Send, Message, TypeOK, Wiring, Provenance
  <2>5. SingleLanding'
    BY <2>1, <2>4 DEF Wiring, SingleLanding
  <2>6. QED
    BY <2>2, <2>3, <2>5 DEF Wiring
<1>5. ASSUME NEW o \in Ops, Receive(o)
      PROVE  Wiring'
  BY <1>5, ConcludeWiring DEF Receive
<1>6. ASSUME NEW o \in Ops, GiveUp(o)
      PROVE  Wiring'
  BY <1>6, ConcludeWiring DEF GiveUp
<1>7. ASSUME NEW o \in Ops, Probe(o)
      PROVE  Wiring'
  BY <1>7 DEF Probe, mintVars, Wiring, Provenance, Freshness, SingleLanding
<1>8. ASSUME NEW m \in wire, Serve(m)
      PROVE  Wiring'
  BY <1>8, ServeWiring
<1>9. ASSUME Melting
      PROVE  Wiring'
  BY <1>9 DEF Melting, MeltSettles, MeltFails, clientVars,
              Wiring, Provenance, Freshness, SingleLanding
<1>10. CASE UNCHANGED vars
  BY <1>10 DEF vars, mintVars, clientVars, Wiring, Provenance, Freshness,
               SingleLanding
<1>11. QED
  BY <1>1, <1>2, <1>3, <1>4, <1>5, <1>6, <1>7, <1>8, <1>9, <1>10
     DEF Next, ClientStep

\* What was asked for, sent and carried out agree, at every SERVICE and over
\* every network.
THEOREM WiringCorrect == Spec => []Wiring
  BY TypeCorrect, InitWiring, NextWiring, PTL DEF Spec

\* One landing per call, at every SERVICE and over every network.
THEOREM OneLandingHolds == Spec => []OneLanding
<1>1. Wiring => OneLanding
  <2> SUFFICES ASSUME Wiring, NEW o \in Ops
               PROVE  Cardinality(LandedBy(o)) <= 1
    BY DEF OneLanding
  <2>1. CASE LandedBy(o) = {}
    <3>1. Cardinality(LandedBy(o)) = 0
      BY <2>1, FS_EmptySet
    <3>2. QED
      BY <3>1
  <2>2. CASE LandedBy(o) # {}
    <3>1. PICK m : m \in LandedBy(o)
      BY <2>2
    <3>2. LandedBy(o) = {m}
      BY <3>1 DEF LandedBy, Wiring, SingleLanding
    <3>3. Cardinality(LandedBy(o)) = 1
      BY <3>2, FS_Singleton
    <3>4. QED
      BY <3>3
  <2>3. QED
    BY <2>1, <2>2
<1>2. QED
  BY <1>1, WiringCorrect, PTL

\* Every retry is the request it repeats, at every SERVICE and over every
\* network.
THEOREM RetriesAreIdenticalHolds == Spec => RetriesAreIdentical
<1>1. TypeOK /\ Wiring /\ [Next]_vars =>
        \A m \in wire' \ wire : \A n \in wire \cup applied :
          n.op = m.op => n.req = m.req
  <2> SUFFICES ASSUME TypeOK, Wiring, [Next]_vars,
                      NEW m \in wire' \ wire, NEW n \in wire \cup applied,
                      n.op = m.op
               PROVE  n.req = m.req
    OBVIOUS
  <2>1. ASSUME NEW o \in Ops, Send(o)
        PROVE  n.req = m.req
    BY <2>1 DEF Send, Message, Wiring, Provenance
  <2>2. ASSUME wire' \subseteq wire
        PROVE  n.req = m.req
    BY <2>2
  <2>3. QED
    BY <2>1, <2>2 DEF Next, ClientStep, Call, CallSettle, Look, Receive, GiveUp,
         Probe, Serve, Apply, Replay, Decline, Reply, Melting, MeltSettles,
         MeltFails, vars, mintVars
<1>2. QED
  BY <1>1, TypeCorrect, WiringCorrect, PTL DEF Spec, RetriesAreIdentical

-----------------------------------------------------------------------------
\* A call that returns with nothing landed, having sent nothing.
LEMMA ReturnUnsent ==
  ASSUME TypeOK, Wiring, Bookkeeping, NEW o \in Ops, pc[o] \in {"idle", "look"},
         UNCHANGED mintVars, UNCHANGED attempt,
         NEW r, pc' = [pc EXCEPT ![o] = "done"], result' = [result EXCEPT ![o] = r],
         r.verdict \in ({"Ok"} \cup Variants) \ {"Unverifiable"},
         r.verdict \in SecretCarriers =>
           entry'[o] = "settle_note" /\ request'[o].outputs = {},
         r.verdict = "Ok" =>
           entry'[o] = "settle_note" /\ r.secrets = request'[o].inputs,
         \A p \in Ops : p # o => /\ request'[p] = request[p]
                                 /\ entry'[p] = entry[p]
  PROVE  Bookkeeping'
<1>1. \A p \in Ops : LandedBy(p)' = LandedBy(p)
  BY DEF LandedBy, mintVars
<1>2. LandedBy(o) = {}
  BY NothingSent DEF LandedBy
<1>3. Current'
  BY NothingSent DEF Bookkeeping, Current, mintVars, TypeOK, MintTypeOK, Messages
<1>4. AnswersTrue'
  BY <1>1 DEF Bookkeeping, AnswersTrue, mintVars, TypeOK
<1>5. ResultsTrue'
  <2>1. ASSUME NEW p \in Ops, p # o
        PROVE  ResultsTrue!(p)'
    BY <1>1, <2>1 DEF Bookkeeping, ResultsTrue, TypeOK
  <2>2. ResultsTrue!(o)'
    BY <1>1, <1>2 DEF TypeOK, Variants
  <2>3. QED
    BY <2>1, <2>2 DEF ResultsTrue
<1>6. QED
  BY <1>3, <1>4, <1>5 DEF Bookkeeping

\* A call that goes on to its GET or to sending.
LEMMA ProceedUnsent ==
  ASSUME TypeOK, Wiring, Bookkeeping, NEW o \in Ops, pc[o] \in {"idle", "look"},
         UNCHANGED mintVars, UNCHANGED <<attempt, result>>,
         NEW next \in {"look", "send"}, pc' = [pc EXCEPT ![o] = next],
         \A p \in Ops : p # o => /\ request'[p] = request[p]
                                 /\ entry'[p] = entry[p]
  PROVE  Bookkeeping'
<1>1. \A p \in Ops : LandedBy(p)' = LandedBy(p)
  BY DEF LandedBy, mintVars
<1>2. result[o].verdict = "none"
  BY DEF Bookkeeping, ResultsTrue
<1>3. Current'
  BY NothingSent DEF Bookkeeping, Current, mintVars, TypeOK, MintTypeOK, Messages
<1>4. AnswersTrue'
  BY <1>1 DEF Bookkeeping, AnswersTrue, mintVars, TypeOK
<1>5. ResultsTrue'
  <2>1. ASSUME NEW p \in Ops, p # o
        PROVE  ResultsTrue!(p)'
    BY <1>1, <2>1 DEF Bookkeeping, ResultsTrue, TypeOK
  <2>2. ResultsTrue!(o)'
    BY <1>1, <1>2 DEF TypeOK, Variants
  <2>3. QED
    BY <2>1, <2>2 DEF ResultsTrue
<1>6. QED
  BY <1>3, <1>4, <1>5 DEF Bookkeeping

\* A round that came to v, where v tells the truth about what has landed and
\* nothing of the call is left on the wire.
LEMMA ConcludeBookkeeping ==
  ASSUME TypeOK, Wiring, Bookkeeping, NEW o \in Ops, pc[o] = "wait",
         NEW v \in {"Ok"} \cup Variants, Conclude(o, v),
         v \in Variants \ SecretCarriers => LandedBy(o) = {},
         v \in {"Ok", "Unverifiable"} => LandedBy(o) # {},
         wire' \subseteq wire, \A m \in wire' : m.op # o, UNCHANGED applied,
         answer' = [answer EXCEPT ![o] = NoAnswer]
  PROVE  Bookkeeping'
<1>1. \A p \in Ops : LandedBy(p)' = LandedBy(p)
  BY DEF LandedBy
<1>2. UNCHANGED <<entry, request>>
  BY DEF Conclude
<1>3. \/ /\ pc' = [pc EXCEPT ![o] = "send"]
         /\ attempt' = [attempt EXCEPT ![o] = attempt[o] + 1]
         /\ UNCHANGED result
      \/ /\ Return(o, Returned(entry[o], request[o], v))
         /\ UNCHANGED attempt
  BY DEF Conclude
<1>4. Current'
  BY <1>3 DEF Bookkeeping, Current, TypeOK, MintTypeOK, Messages, Return
<1>5. AnswersTrue'
  <2>1. NoAnswer.status = "pending"
    BY DEF NoAnswer
  <2>2. QED
    BY <1>1, <1>3, <2>1 DEF Bookkeeping, AnswersTrue, TypeOK, MintTypeOK, Return
<1>6. ResultsTrue'
  <2>1. ASSUME NEW p \in Ops, p # o
        PROVE  ResultsTrue!(p)'
    BY <1>1, <1>2, <1>3, <2>1 DEF Bookkeeping, ResultsTrue, TypeOK, Return
  <2>2. CASE UNCHANGED result /\ pc' = [pc EXCEPT ![o] = "send"]
    BY <1>1, <1>2, <2>2 DEF Bookkeeping, ResultsTrue, TypeOK, Variants
  <2>3. CASE Return(o, Returned(entry[o], request[o], v))
    <3> DEFINE r == Returned(entry[o], request[o], v)
    <3>1. ASSUME entry[o] = "settle_note" /\ v \in Swallowed
          PROVE  ResultsTrue!(o)'
      <4>1. r.verdict = "Ok" /\ r.secrets = request[o].inputs /\ LandedBy(o) = {}
        BY <3>1 DEF Returned, Swallowed, Variants, SecretCarriers
      <4> HIDE DEF r
      <4>2. pc'[o] = "done" /\ result'[o] = r
        BY <2>3 DEF Return, TypeOK, r
      <4>3. QED
        BY <1>1, <1>2, <3>1, <4>1, <4>2 DEF Variants, SecretCarriers
    <3>2. ASSUME ~ (entry[o] = "settle_note" /\ v \in Swallowed)
          PROVE  ResultsTrue!(o)'
      <4>1. /\ r.verdict = v
            /\ v = "Ok" => r.secrets = request[o].outputs
            /\ v \in SecretCarriers => r.secrets = request[o].outputs
        BY <3>2 DEF Returned, with_secrets, SecretCarriers
      <4> HIDE DEF r
      <4>2. pc'[o] = "done" /\ result'[o] = r
        BY <2>3 DEF Return, TypeOK, r
      <4>3. QED
        BY <1>1, <1>2, <4>1, <4>2 DEF Variants, SecretCarriers
    <3>3. ResultsTrue!(o)'
      BY <3>1, <3>2
    <3>4. QED
      BY <2>1, <3>3 DEF ResultsTrue
  <2>4. QED
    BY <1>3, <2>2, <2>3
<1>7. QED
  BY <1>4, <1>5, <1>6 DEF Bookkeeping

\* The SERVICE's step: it answers the attempt being waited for.
LEMMA ServeBookkeeping ==
  ASSUME TypeOK, Wiring, Bookkeeping, Decisive, NEW m \in wire, Serve(m)
  PROVE  Bookkeeping'
<1>1. /\ m \in Messages
      /\ m.op \in Ops
      /\ pc[m.op] = "wait"
      /\ m.att = attempt[m.op]
      /\ m.req = request[m.op]
      /\ result[m.op].verdict = "none"
      /\ Awaited(m)
  BY DEF TypeOK, MintTypeOK, Messages, Bookkeeping, Current, ResultsTrue,
         Wiring, Provenance, Awaited
<1>2. UNCHANGED <<pc, entry, request, attempt, result>>
  BY DEF Serve, clientVars
<1>3. \A n \in wire : n.op = m.op => n = m
  BY <1>1 DEF TypeOK, MintTypeOK, Messages, Bookkeeping, Current, Wiring, Provenance
<1>4. ASSUME NEW body \in Bodies, Reply(m, Awaited(m), body),
             applied \subseteq applied', applied' \subseteq applied \cup {m},
             body.status = "OK" => LandedBy(m.op)' # {},
             body.status = "ERROR" =>
               \/ classify_note_error(body.reason) \in SecretCarriers
               \/ LandedBy(m.op)' = {}
      PROVE  Bookkeeping'
  <2>1. wire' = wire \ {m} /\ answer' = [answer EXCEPT ![m.op] = body]
    BY <1>1, <1>4 DEF Reply
  <2>2. Current'
    BY <1>2, <1>3, <2>1 DEF Bookkeeping, Current, TypeOK, MintTypeOK, Messages
  <2>3. \A p \in Ops : p # m.op => LandedBy(p)' = LandedBy(p)
    BY <1>4 DEF LandedBy
  <2>4. AnswersTrue'
    <3>1. ASSUME NEW p \in Ops, p # m.op
          PROVE  AnswersTrue!(p)'
      BY <1>2, <2>1, <2>3, <3>1 DEF Bookkeeping, AnswersTrue, TypeOK, MintTypeOK
    <3>2. ASSUME NEW p \in Ops, p = m.op
          PROVE  AnswersTrue!(p)'
      BY <1>1, <1>2, <1>4, <2>1, <3>2 DEF TypeOK, MintTypeOK
    <3>3. QED
      BY <3>1, <3>2 DEF AnswersTrue
  <2>5. ResultsTrue'
    <3>1. ASSUME NEW p \in Ops, p # m.op
          PROVE  ResultsTrue!(p)'
      BY <1>2, <2>3, <3>1 DEF Bookkeeping, ResultsTrue
    <3>2. ASSUME NEW p \in Ops, p = m.op
          PROVE  ResultsTrue!(p)'
      BY <1>1, <1>2, <3>2 DEF Variants
    <3>3. QED
      BY <3>1, <3>2 DEF ResultsTrue
  <2>6. QED
    BY <2>2, <2>4, <2>5 DEF Bookkeeping
<1>5. ASSUME NEW body \in Confirmations
      PROVE  body \in Bodies /\ body.status # "ERROR"
  <2>1. CASE body = VagueBody
    BY <2>1 DEF Bodies, VagueBody
  <2>2. CASE body \in [status : {"OK"}, certs : Certificates]
    <3>1. body \in OkBodies
      BY <2>2, MintAssumption DEF OkBodies
    <3>2. QED
      BY <2>2, <3>1 DEF Bodies
  <2>3. QED
    BY <2>1, <2>2 DEF Confirmations
<1>6. CASE Apply(m, Awaited(m))
  <2>1. applied' = applied \cup {m} /\ LandedBy(m.op)' # {}
    BY <1>6 DEF Apply, LandedBy
  <2>2. PICK body \in Confirmations : Reply(m, Awaited(m), body)
    BY <1>6 DEF Apply
  <2>3. QED
    BY <1>4, <1>5, <2>1, <2>2
<1>7. CASE Replay(m, Awaited(m))
  <2>1. PICK n \in applied : n.req = m.req /\ m.req.kind # "Melt"
    BY <1>7 DEF Replay, Repeats
  <2>2. n.op = m.op
    <3>1. n.op \in Ops /\ n.req = request[n.op] /\ m.req.outputs # {}
      BY <2>1 DEF TypeOK, MintTypeOK, Messages, Wiring, Provenance
    <3>2. QED
      BY <1>1, <2>1, <3>1 DEF Wiring, Freshness
  <2>3. applied' = applied /\ LandedBy(m.op)' # {}
    BY <1>7, <2>2 DEF Replay, LandedBy
  <2>4. PICK body \in Confirmations : Reply(m, Awaited(m), body)
    BY <1>7 DEF Replay
  <2>5. QED
    BY <1>4, <1>5, <2>3, <2>4
<1>8. CASE Decline(m, Awaited(m))
  <2>1. PICK reason \in ReasonsAgainst(m.req) :
          Reply(m, Awaited(m), [status |-> "ERROR", reason |-> reason])
    BY <1>8 DEF Decline
  <2>2. reason \in Reasons
    <3>1. {"isPending"} \in Reasons
      BY DEF Reasons, Marks
    <3>2. QED
      BY <3>1, <2>1, MintAssumption DEF ReasonsAgainst
  <2>3. [status |-> "ERROR", reason |-> reason] \in Bodies
    BY <2>2 DEF Bodies, ErrorBodies
  <2>4. \/ classify_note_error(reason) \in SecretCarriers
        \/ LandedBy(m.op) = {}
    <3>1. CASE Repeats(m.req)
      BY <2>1, <3>1 DEF ReasonsAgainst, Decisive
    <3>2. CASE ~ Repeats(m.req)
      BY <3>2, ApplyFirst DEF LandedBy
    <3>3. QED
      BY <3>1, <3>2
  <2>5. applied' = applied /\ LandedBy(m.op)' = LandedBy(m.op)
    BY <1>8 DEF Decline, LandedBy
  <2> DEFINE body == [status |-> "ERROR", reason |-> reason]
  <2>6. body \in Bodies /\ body.status = "ERROR" /\ body.reason = reason
    BY <2>3
  <2> HIDE DEF body
  <2>7. Reply(m, Awaited(m), body)
    BY <2>1 DEF body
  <2>8. QED
    BY <1>4, <2>4, <2>5, <2>6, <2>7
<1>9. QED
  BY <1>6, <1>7, <1>8 DEF Serve

\* Nothing has been answered or returned at the start.
LEMMA InitBookkeeping == Init => Bookkeeping
<1> SUFFICES ASSUME Init PROVE Bookkeeping
  OBVIOUS
<1>1. Current
  BY DEF Init, MintInit, Current
<1>2. AnswersTrue
  BY DEF Init, MintInit, AnswersTrue, NoAnswer
<1>3. ResultsTrue
  BY DEF Init, ResultsTrue, Variants, SecretCarriers
<1>4. QED
  BY <1>1, <1>2, <1>3 DEF Bookkeeping

\* Mutate, from a call that has sent nothing.
LEMMA MutateBookkeeping ==
  ASSUME TypeOK, Wiring, Bookkeeping, NEW o \in Ops, NEW e \in AllEntries,
         NEW inputs \in SUBSET Notes, Mutate(o, e, inputs),
         pc[o] \in {"idle", "look"}, UNCHANGED mintVars, UNCHANGED attempt,
         entry' = [entry EXCEPT ![o] = e]
  PROVE  Bookkeeping'
<1>1. PICK req \in Requests :
           /\ req.kind = KindOf[e]
           /\ req.inputs = inputs
           /\ req.outputs \cap drawn = {}
           /\ req.kind # "Melt" => req.outputs # {}
           /\ request' = [request EXCEPT ![o] = req]
           /\ drawn' = drawn \cup req.outputs
           /\ \/ pc' = [pc EXCEPT ![o] = "send"] /\ UNCHANGED result
              \/ Return(o, Returned(e, req, "RequestRefused"))
  BY MutateShape
<1>2. /\ \A p \in Ops : p # o => request'[p] = request[p] /\ entry'[p] = entry[p]
      /\ entry'[o] = e /\ request'[o] = req
  BY <1>1 DEF TypeOK
<1>3. CASE pc' = [pc EXCEPT ![o] = "send"] /\ UNCHANGED result
  BY <1>2, <1>3, ProceedUnsent
<1>4. CASE Return(o, Returned(e, req, "RequestRefused"))
  <2> DEFINE r == Returned(e, req, "RequestRefused")
  <2>1. /\ r.verdict \in ({"Ok"} \cup Variants) \ {"Unverifiable"}
        /\ r.verdict \notin SecretCarriers
        /\ r.verdict = "Ok" => e = "settle_note" /\ r.secrets = req.inputs
    BY DEF Returned, Swallowed, Variants, SecretCarriers
  <2>2. pc' = [pc EXCEPT ![o] = "done"] /\ result' = [result EXCEPT ![o] = r]
    BY <1>4 DEF Return
  <2> HIDE DEF r
  <2>3. QED
    BY <1>2, <2>1, <2>2, ReturnUnsent
<1>5. QED
  BY <1>1, <1>3, <1>4

\* Every step preserves Bookkeeping: what the client concludes stays true.
LEMMA NextBookkeeping ==
  Decisive /\ TypeOK /\ Wiring /\ Bookkeeping /\ [Next]_vars => Bookkeeping'
<1> SUFFICES ASSUME Decisive, TypeOK, Wiring, Bookkeeping, [Next]_vars
             PROVE  Bookkeeping'
  OBVIOUS
<1>1. ASSUME NEW o \in Ops, Call(o)
      PROVE  Bookkeeping'
  <2>1. PICK e \in Entries \ {"settle_note"} :
               /\ entry' = [entry EXCEPT ![o] = e]
               /\ \E inputs \in Arguments(e) : Mutate(o, e, inputs)
    BY <1>1 DEF Call
  <2>2. PICK inputs \in Arguments(e) : Mutate(o, e, inputs)
    BY <2>1
  <2>3. e \in AllEntries /\ inputs \in SUBSET Notes
    BY HeldType, ClientAssumption DEF Arguments
  <2>4. QED
    BY <1>1, <2>1, <2>2, <2>3, MutateBookkeeping DEF Call
<1>2. ASSUME NEW o \in Ops, CallSettle(o)
      PROVE  Bookkeeping'
  <2>1. PICK k1 \in Held, permitted \in BOOLEAN :
       /\ request' = [request EXCEPT ![o] = [NoRequest EXCEPT !.inputs = {k1}]]
       /\ IF permitted
          THEN pc' = [pc EXCEPT ![o] = "look"] /\ UNCHANGED result
          ELSE Return(o, [verdict |-> "RequestRefused", secrets |-> {}])
    BY <1>2 DEF CallSettle
  <2>2. /\ pc[o] = "idle" /\ UNCHANGED mintVars /\ UNCHANGED attempt
        /\ \A p \in Ops : p # o => request'[p] = request[p] /\ entry'[p] = entry[p]
    BY <1>2, <2>1 DEF CallSettle, TypeOK
  <2>3. CASE permitted
    BY <2>1, <2>2, <2>3, ProceedUnsent
  <2>4. CASE ~ permitted
    <3> DEFINE r == [verdict |-> "RequestRefused", secrets |-> {}]
    <3>1. r.verdict \in ({"Ok"} \cup Variants) \ {"Unverifiable"}
          /\ r.verdict \notin SecretCarriers /\ r.verdict # "Ok"
      BY DEF Variants, SecretCarriers
    <3>2. pc' = [pc EXCEPT ![o] = "done"] /\ result' = [result EXCEPT ![o] = r]
      BY <2>1, <2>4 DEF Return
    <3> HIDE DEF r
    <3>3. QED
      BY <2>2, <3>1, <3>2, ReturnUnsent
  <2>5. QED
    BY <2>3, <2>4
<1>3. ASSUME NEW o \in Ops, Look(o)
      PROVE  Bookkeeping'
  <2>1. PICK k1 \in request[o].inputs :
          \E v \in InfoVerdicts(k1) :
            IF v = "Ok" THEN Mutate(o, "settle_note", {k1})
            ELSE /\ Return(o, [verdict |-> v, secrets |-> {}])
                 /\ UNCHANGED <<request, drawn>>
    BY <1>3 DEF Look
  <2>2. PICK v \in InfoVerdicts(k1) :
            IF v = "Ok" THEN Mutate(o, "settle_note", {k1})
            ELSE /\ Return(o, [verdict |-> v, secrets |-> {}])
                 /\ UNCHANGED <<request, drawn>>
    BY <2>1
  <2>3. /\ pc[o] = "look" /\ UNCHANGED mintVars /\ UNCHANGED <<entry, attempt>>
        /\ entry[o] = "settle_note" /\ request[o].outputs = {}
        /\ k1 \in Notes
    BY <1>3 DEF Look, Wiring, Freshness, TypeOK, Requests
  <2>4. CASE v = "Ok"
    <3>1. entry' = [entry EXCEPT ![o] = "settle_note"]
      BY <2>3 DEF TypeOK
    <3>2. Mutate(o, "settle_note", {k1}) /\ "settle_note" \in AllEntries
      BY <2>2, <2>4 DEF AllEntries, KindOf
    <3>3. {k1} \in SUBSET Notes
      BY <2>3
    <3>4. QED
      BY <2>3, <3>1, <3>2, <3>3, MutateBookkeeping
  <2>5. CASE v # "Ok"
    <3> DEFINE r == [verdict |-> v, secrets |-> {}]
    <3>1. Return(o, r) /\ UNCHANGED request
      BY <2>2, <2>5
    <3>2. v \in ({"Ok"} \cup Variants) \ {"Unverifiable"}
      BY <2>3, InfoVerdictType
    <3>3. r.verdict = v
      OBVIOUS
    <3> HIDE DEF r
    <3>4. pc' = [pc EXCEPT ![o] = "done"] /\ result' = [result EXCEPT ![o] = r]
      BY <3>1 DEF Return
    <3>5. QED
      BY <2>3, <2>5, <3>1, <3>2, <3>3, <3>4, ReturnUnsent
  <2>6. QED
    BY <2>4, <2>5
<1>4. ASSUME NEW o \in Ops, Send(o)
      PROVE  Bookkeeping'
  <2>1. /\ pc' = [pc EXCEPT ![o] = "wait"] /\ wire' = wire \cup {Message(o)}
        /\ UNCHANGED <<applied, answer, entry, request, attempt, result>>
        /\ Message(o).op = o /\ Message(o).att = attempt[o]
    BY <1>4 DEF Send, Message
  <2>2. answer[o] = NoAnswer /\ pc[o] = "send"
    BY <1>4 DEF Send, Bookkeeping, AnswersTrue
  <2>3. \A p \in Ops : LandedBy(p)' = LandedBy(p)
    BY <2>1 DEF LandedBy
  <2>4. Current'
    BY <2>1, <2>2 DEF Bookkeeping, Current, TypeOK, MintTypeOK, Messages
  <2>5. AnswersTrue'
    BY <2>1, <2>2, <2>3 DEF Bookkeeping, AnswersTrue, TypeOK
  <2>6. ResultsTrue'
    BY <2>1, <2>2, <2>3 DEF Bookkeeping, ResultsTrue, TypeOK
  <2>7. QED
    BY <2>4, <2>5, <2>6 DEF Bookkeeping
<1>5. ASSUME NEW o \in Ops, Receive(o)
      PROVE  Bookkeeping'
  <2> DEFINE v == parse_mutation(answer[o], request[o].kind, {}, require_signatures)
  <2>1. /\ pc[o] = "wait" /\ answer[o] \in Bodies /\ Conclude(o, v)
        /\ UNCHANGED <<wire, applied>> /\ answer' = [answer EXCEPT ![o] = NoAnswer]
    BY <1>5 DEF Receive, TypeOK, MintTypeOK
  <2>2. v \in {"Ok"} \cup Variants
    BY <2>1, ParseMutationType
  <2>3. v \in Variants \ SecretCarriers => LandedBy(o) = {}
    BY <2>1 DEF parse_mutation, Bookkeeping, AnswersTrue, Variants, SecretCarriers
  <2>4. v \in {"Ok", "Unverifiable"} => LandedBy(o) # {}
    BY <2>1 DEF parse_mutation, classify_note_error, Bookkeeping, AnswersTrue
  <2>5. \A m \in wire' : m.op # o
    BY <1>5, <2>1 DEF Receive, Bookkeeping, Current
  <2> HIDE DEF v
  <2>6. QED
    BY <2>1, <2>2, <2>3, <2>4, <2>5, ConcludeBookkeeping
<1>6. ASSUME NEW o \in Ops, GiveUp(o)
      PROVE  Bookkeeping'
  <2>1. /\ pc[o] = "wait" /\ Conclude(o, "Ambiguous")
        /\ answer' = [answer EXCEPT ![o] = NoAnswer]
        /\ wire' = wire \ {Message(o)} /\ UNCHANGED applied
    BY <1>6 DEF GiveUp, Decisive
  <2>2. \A m \in wire' : m.op # o
    BY <2>1 DEF Bookkeeping, Current, Wiring, Provenance, TypeOK, MintTypeOK,
                Messages, Message
  <2>3. "Ambiguous" \in Variants /\ "Ambiguous" \in SecretCarriers
    BY DEF Variants, SecretCarriers
  <2>4. QED
    BY <2>1, <2>2, <2>3, ConcludeBookkeeping
<1>7. ASSUME NEW o \in Ops, Probe(o)
      PROVE  Bookkeeping'
  <2>1. UNCHANGED <<wire, applied, answer, pc, entry, request, attempt, result>>
    BY <1>7 DEF Probe, mintVars
  <2>2. QED
    BY <2>1 DEF Bookkeeping, Current, AnswersTrue, ResultsTrue, LandedBy
<1>8. ASSUME NEW m \in wire, Serve(m)
      PROVE  Bookkeeping'
  BY <1>8, ServeBookkeeping
<1>9. ASSUME Melting
      PROVE  Bookkeeping'
  <2>1. UNCHANGED <<wire, applied, answer, pc, entry, request, attempt, result>>
    BY <1>9 DEF Melting, MeltSettles, MeltFails, clientVars
  <2>2. QED
    BY <2>1 DEF Bookkeeping, Current, AnswersTrue, ResultsTrue, LandedBy
<1>10. CASE UNCHANGED vars
  BY <1>10 DEF vars, mintVars, clientVars, Bookkeeping, Current, AnswersTrue,
               ResultsTrue, LandedBy
<1>11. QED
  BY <1>1, <1>2, <1>3, <1>4, <1>5, <1>6, <1>7, <1>8, <1>9, <1>10
     DEF Next, ClientStep

\* Answers and results tell the truth where a client's answer speaks for all
\* of its attempts.
THEOREM BookkeepingCorrect == ASSUME Decisive PROVE Spec => []Bookkeeping
  BY TypeCorrect, WiringCorrect, InitBookkeeping, NextBookkeeping, PTL DEF Spec

\* Whatever a returned call minted, its caller holds the secrets of.
THEOREM SecretsSurviveHolds == ASSUME Decisive PROVE Spec => []SecretsSurvive
<1>1. Wiring /\ Bookkeeping => SecretsSurvive
  <2> SUFFICES ASSUME Wiring, Bookkeeping, NEW o \in Ops, pc[o] = "done",
                      NEW n \in Minted(o)
               PROVE  n \in result[o].secrets
    BY DEF SecretsSurvive
  <2>1. PICK m \in LandedBy(o) : n \in m.req.outputs
    BY DEF Minted
  <2>2. m \in applied /\ m.op = o
    BY <2>1 DEF LandedBy
  <2>3. m.req = request[o]
    BY <2>2 DEF Wiring, Provenance
  <2>4. result[o].secrets = request[o].outputs
    BY <2>1 DEF Bookkeeping, ResultsTrue
  <2>5. QED
    BY <2>1, <2>3, <2>4
<1>2. QED
  BY <1>1, WiringCorrect, BookkeepingCorrect, PTL

\* An error without secrets burned nothing.
THEOREM RefusalBurnsNothingHolds ==
  ASSUME Decisive PROVE Spec => []RefusalBurnsNothing
<1>1. Bookkeeping => RefusalBurnsNothing
  BY DEF Bookkeeping, ResultsTrue, RefusalBurnsNothing
<1>2. QED
  BY <1>1, BookkeepingCorrect, PTL

\* A success names the money.
THEOREM SuccessNamesTheNoteHolds ==
  ASSUME Decisive PROVE Spec => []SuccessNamesTheNote
<1>1. TypeOK /\ Bookkeeping => SuccessNamesTheNote
  <2> SUFFICES ASSUME TypeOK, Bookkeeping, NEW o \in Ops
               PROVE  SuccessNamesTheNote!(o)
    BY DEF SuccessNamesTheNote
  <2>1. result[o].verdict \in {"Ok", "Unverifiable"} => pc[o] = "done"
    BY DEF Bookkeeping, ResultsTrue
  <2>2. QED
    BY <2>1 DEF Bookkeeping, ResultsTrue
<1>2. QED
  BY <1>1, TypeCorrect, BookkeepingCorrect, PTL
=============================================================================
