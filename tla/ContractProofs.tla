--------------------------- MODULE ContractProofs ---------------------------
(***************************************************************************)
(* What a call says when it is over.  The client and the SERVICE implement *)
(* Custody, for every set of notes and of calls and every number of        *)
(* retries, where a client's answer speaks for all of its attempts         *)
(* (Decisive); and where none outlives the wait for its answer, a note     *)
(* found alive afterwards is the last word.                                *)
(*                                                                         *)
(* A step maps to one of three: the SERVICE carries a request out (Land),  *)
(* a call returns (Return), or nothing the contract sees has changed.      *)
(***************************************************************************)
EXTENDS ClientProofs

\* Custody's variables, as Client's INSTANCE gives them.
Landings == [o \in Ops |-> {m.att : m \in LandedBy(o)}]
Reported == [o \in Ops |-> Report(o)]
Secured  == [o \in Ops |->
              pc[o] = "done" /\ request[o].outputs \subseteq result[o].secrets]

-----------------------------------------------------------------------------
\* What Mutate leaves Apart: its inputs were held, so its outputs are none of
\* them.
LEMMA MutateApart ==
  ASSUME TypeOK, Wiring, Apart, NEW o \in Ops, NEW e \in AllEntries,
         NEW inputs \in SUBSET (Notes \cap (Genesis \cup drawn)),
         Mutate(o, e, inputs), entry' = [entry EXCEPT ![o] = e],
         pc' = [pc EXCEPT ![o] = pc'[o]]
  PROVE  Apart'
<1>1. KindOf[e] \in MutationKind
  BY DEF KindOf, AllEntries, MutationKind
<1>2. PICK outputs \in Fresh(KindOf[e]), permitted \in BOOLEAN :
        Mutate(o, e, inputs)!(outputs, permitted)
  BY DEF Mutate
<1> DEFINE req == [kind |-> KindOf[e], inputs |-> inputs, outputs |-> outputs]
<1>3. outputs \cap (Genesis \cup drawn) = {}
  BY DEF Fresh
<1>4. e = "settle_note" => outputs # {}
  <2>1. KindOf["settle_note"] = "Rotate"
    BY DEF KindOf
  <2>2. QED
    BY <1>1, <2>1, FreshOutputs
<1>5. /\ request' = [request EXCEPT ![o] = req]
      /\ drawn' = drawn \cup outputs
      /\ \/ UNCHANGED result
         \/ result' = [result EXCEPT ![o] = Returned(e, req, "RequestRefused")]
  BY <1>2 DEF Return
<1>6. Returned(e, req, "RequestRefused").secrets \subseteq inputs \cup outputs
  BY DEF Returned, with_secrets
<1>7. req.inputs = inputs /\ req.outputs = outputs
  OBVIOUS
<1> DEFINE r == Returned(e, req, "RequestRefused")
<1> HIDE DEF req, r
<1>8. ASSUME NEW p \in Ops, p # o
      PROVE  Apart!(p)'
  BY <1>5, <1>8 DEF Apart, TypeOK, r
<1>9. Apart!(o)'
  <2>1. request'[o] = req /\ entry'[o] = e
    BY <1>5 DEF TypeOK
  <2>2. result'[o] = result[o] \/ result'[o].secrets \subseteq inputs \cup outputs
    BY <1>5, <1>6 DEF TypeOK, r
  <2>3. result[o].secrets \subseteq Genesis \cup drawn
    BY DEF Apart
  <2>4. req.inputs \cup result'[o].secrets \subseteq Genesis \cup drawn'
    BY <1>5, <1>7, <2>2, <2>3
  <2>5. e = "settle_note" => req.inputs # req.outputs
    BY <1>3, <1>4, <1>7
  <2>6. QED
    BY <2>1, <2>4, <2>5
<1>10. QED
  BY <1>8, <1>9 DEF Apart

LEMMA InitApart == Init => Apart
  BY DEF Init, Apart, NoRequest

\* The notes a caller can name were there at the start or drawn since.
LEMMA HeldApart == Apart => Held \subseteq Genesis \cup drawn
  BY DEF Apart, Held

\* A round that came to v returns outputs or inputs of its own request.
LEMMA ConcludeApart ==
  ASSUME TypeOK, Wiring, Apart, NEW o \in Ops, pc[o] = "wait", NEW v,
         Conclude(o, v)
  PROVE  Apart'
<1>1. UNCHANGED <<entry, request, drawn>>
  BY DEF Conclude
<1>2. Returned(entry[o], request[o], v).secrets
        \subseteq request[o].inputs \cup request[o].outputs
  BY DEF Returned, with_secrets
<1>3. request[o].inputs \cup request[o].outputs \subseteq Genesis \cup drawn
  BY DEF Apart, Wiring, Freshness
<1> DEFINE r == Returned(entry[o], request[o], v)
<1>4. \/ pc' = [pc EXCEPT ![o] = "send"] /\ UNCHANGED result
      \/ pc' = [pc EXCEPT ![o] = "done"] /\ result' = [result EXCEPT ![o] = r]
  BY DEF Conclude, Return
<1>5. r.secrets \subseteq Genesis \cup drawn
  BY <1>2, <1>3
<1> HIDE DEF r
<1>6. QED
  BY <1>1, <1>4, <1>5 DEF Apart, TypeOK

LEMMA NextApart == TypeOK /\ Wiring /\ Apart /\ [Next]_vars => Apart'
<1> SUFFICES ASSUME TypeOK, Wiring, Apart, [Next]_vars
             PROVE  Apart'
  OBVIOUS
<1>1. ASSUME NEW o \in Ops, Call(o)
      PROVE  Apart'
  <2>1. PICK e \in Entries \ {"settle_note"} :
          /\ entry' = [entry EXCEPT ![o] = e]
          /\ \E inputs \in Arguments(e) : Mutate(o, e, inputs)
    BY <1>1 DEF Call
  <2>2. PICK inputs \in Arguments(e) : Mutate(o, e, inputs)
    BY <2>1
  <2>3. e \in AllEntries
    BY ClientAssumption
  <2>4. inputs \in SUBSET (Notes \cap (Genesis \cup drawn))
    BY HeldType, HeldApart DEF Arguments
  <2>5. inputs \in SUBSET Notes
    BY <2>4
  <2>6. pc' = [pc EXCEPT ![o] = pc'[o]]
    BY <2>2, <2>3, <2>5, MutateShape DEF TypeOK, Return
  <2>7. QED
    BY <2>1, <2>2, <2>3, <2>4, <2>6, MutateApart
<1>2. ASSUME NEW o \in Ops, CallSettle(o)
      PROVE  Apart'
  <2>1. PICK k1 \in Held, permitted \in BOOLEAN :
          /\ request' = [request EXCEPT ![o] = [NoRequest EXCEPT !.inputs = {k1}]]
          /\ IF permitted
             THEN pc' = [pc EXCEPT ![o] = "look"] /\ UNCHANGED result
             ELSE Return(o, [verdict |-> "RequestRefused", secrets |-> {}])
    BY <1>2 DEF CallSettle
  <2>2. /\ k1 \in Genesis \cup drawn
        /\ entry' = [entry EXCEPT ![o] = "settle_note"]
        /\ UNCHANGED drawn
    BY <1>2, HeldApart DEF CallSettle
  <2> DEFINE req == [NoRequest EXCEPT !.inputs = {k1}]
             r   == [verdict |-> "RequestRefused", secrets |-> {}]
  <2>3. req.inputs = {k1} /\ req.outputs = {} /\ r.secrets = {}
    BY DEF NoRequest
  <2> HIDE DEF req, r
  <2>4. /\ request' = [request EXCEPT ![o] = req]
        /\ \/ pc' = [pc EXCEPT ![o] = "look"] /\ UNCHANGED result
           \/ pc' = [pc EXCEPT ![o] = "done"] /\ result' = [result EXCEPT ![o] = r]
    BY <2>1 DEF Return, req, r
  <2>5. QED
    BY <2>2, <2>3, <2>4 DEF Apart, TypeOK
<1>3. ASSUME NEW o \in Ops, Look(o)
      PROVE  Apart'
  <2>1. PICK k1 \in request[o].inputs, v \in UNION {InfoVerdicts(n) : n \in request[o].inputs} :
            IF v = "Ok" THEN Mutate(o, "settle_note", {k1})
            ELSE /\ Return(o, [verdict |-> v, secrets |-> {}])
                 /\ UNCHANGED <<request, drawn>>
    BY <1>3 DEF Look
  <2>2. /\ UNCHANGED entry /\ entry' = [entry EXCEPT ![o] = "settle_note"]
        /\ pc[o] = "look"
        /\ "settle_note" \in AllEntries
    BY <1>3 DEF Look, TypeOK, Wiring, Freshness, AllEntries, KindOf
  <2>3. {k1} \in SUBSET (Notes \cap (Genesis \cup drawn)) /\ {k1} \in SUBSET Notes
    BY DEF Apart, TypeOK, Requests
  <2>4. CASE v = "Ok"
    <3>1. Mutate(o, "settle_note", {k1})
      BY <2>1, <2>4
    <3>2. pc' = [pc EXCEPT ![o] = pc'[o]]
      BY <2>2, <2>3, <3>1, MutateShape DEF TypeOK, Return
    <3>3. QED
      BY <2>2, <2>3, <3>1, <3>2, MutateApart
  <2>5. CASE v # "Ok"
    <3> DEFINE r == [verdict |-> v, secrets |-> {}]
    <3>1. r.secrets = {}
      OBVIOUS
    <3> HIDE DEF r
    <3>2. /\ pc' = [pc EXCEPT ![o] = "done"]
          /\ result' = [result EXCEPT ![o] = r]
          /\ UNCHANGED <<request, drawn>>
      BY <2>1, <2>5 DEF Return, r
    <3>3. QED
      BY <2>2, <3>1, <3>2 DEF Apart, TypeOK
  <2>6. QED
    BY <2>4, <2>5
<1>4. ASSUME NEW o \in Ops, Send(o)
      PROVE  Apart'
  BY <1>4 DEF Send, Apart, TypeOK
<1>5. ASSUME NEW o \in Ops, Receive(o)
      PROVE  Apart'
  BY <1>5, ConcludeApart DEF Receive
<1>6. ASSUME NEW o \in Ops, GiveUp(o)
      PROVE  Apart'
  BY <1>6, ConcludeApart DEF GiveUp
<1>7. CASE UNCHANGED <<pc, entry, request, result, drawn>>
  BY <1>7 DEF Apart
<1>8. QED
  BY <1>1, <1>2, <1>3, <1>4, <1>5, <1>6, <1>7
     DEF Next, ClientStep, Probe, Serve, Melting, vars, clientVars

\* No settle_note is told to keep its new note and its old one as the same.
THEOREM ApartCorrect == Spec => []Apart
  BY TypeCorrect, WiringCorrect, InitApart, NextApart, PTL DEF Spec

-----------------------------------------------------------------------------
\* A call that asked for a melt or sent nothing aside, what landed has outputs.
LEMMA LandedOutputs ==
  ASSUME TypeOK, Wiring, NEW o \in Ops, LandedBy(o) # {},
         entry[o] = "settle_note"
  PROVE  request[o].outputs # {}
<1>1. PICK m \in applied : m.op = o
  BY DEF LandedBy
<1>2. m.req = request[o] /\ m.req.kind # "Melt"
  BY <1>1 DEF Wiring, Provenance, Freshness, KindOf
<1>3. QED
  BY <1>1, <1>2 DEF Wiring, Provenance

\* What is reported of a returned call is true, and unless it was refused its
\* caller holds the secrets of all it may mint.
ReportsTrue ==
  \A o \in Ops : pc[o] = "done" =>
    /\ Report(o) \in {"done", "refused", "uncertain"}
    /\ Report(o) = "done" => LandedBy(o) # {}
    /\ Report(o) = "refused" => LandedBy(o) = {}
    /\ Report(o) # "refused" => request[o].outputs \subseteq result[o].secrets

LEMMA InvariantsReport ==
  TypeOK /\ Wiring /\ Bookkeeping /\ Apart => ReportsTrue
<1> SUFFICES ASSUME TypeOK, Wiring, Bookkeeping, Apart,
                    NEW o \in Ops, pc[o] = "done"
             PROVE  ReportsTrue!(o)!2
  BY DEF ReportsTrue
<1>1. result[o].verdict \in {"Ok"} \cup Variants
  BY DEF Bookkeeping, ResultsTrue, TypeOK, Verdicts
<1>2. CASE result[o].verdict \in {"Ok", "Unverifiable"}
  <2>1. Report(o) = IF result[o].secrets = request[o].outputs
                    THEN "done" ELSE "refused"
    BY <1>2 DEF Report
  <2>2. result[o].secrets = request[o].outputs => LandedBy(o) # {}
    BY <1>2 DEF Bookkeeping, ResultsTrue, Apart
  <2>3. LandedBy(o) # {} => result[o].secrets = request[o].outputs
    BY DEF Bookkeeping, ResultsTrue
  <2>4. QED
    BY <2>1, <2>2, <2>3
<1>3. CASE result[o].verdict \notin {"Ok", "Unverifiable"}
  <2>1. Report(o) = IF \/ result[o].verdict \notin SecretCarriers
                       \/ entry[o] = "settle_note" /\ request[o].outputs = {}
                    THEN "refused" ELSE "uncertain"
    BY <1>3 DEF Report
  <2>2. result[o].verdict \notin SecretCarriers => LandedBy(o) = {}
    BY <1>1, <1>3 DEF Bookkeeping, ResultsTrue
  <2>3. entry[o] = "settle_note" /\ request[o].outputs = {} => LandedBy(o) = {}
    BY LandedOutputs
  <2>4. QED
    BY <2>1, <2>2, <2>3 DEF Bookkeeping, ResultsTrue
<1>4. QED
  BY <1>2, <1>3

\* The client starts where its contract does.
LEMMA InitContract == Init => Contract!Init
<1> SUFFICES ASSUME Init PROVE Contract!Init
  OBVIOUS
<1>1. \A o \in Ops : LandedBy(o) = {} /\ Report(o) = "open" /\ pc[o] # "done"
  BY DEF Init, MintInit, LandedBy, Report
<1>2. QED
  BY <1>1 DEF Contract!Init

-----------------------------------------------------------------------------
\* A step of the contract in which one call lands.
LEMMA StepLands ==
  ASSUME NEW o \in Ops, LandedBy(o) = {}, pc[o] # "done",
         UNCHANGED <<pc, entry, request, result>>,
         NEW m, m.op = o, m.att \in 0..mutation_retries,
         applied' = applied \cup {m}
  PROVE  Contract!Next
<1>1. \A p \in Ops : Report(p)' = Report(p)
  BY DEF Report
<1>2. Landings' = [Landings EXCEPT ![o] = {m.att}]
  <2>1. LandedBy(o)' = {m}
    BY DEF LandedBy
  <2>2. \A p \in Ops : p # o => LandedBy(p)' = LandedBy(p)
    BY DEF LandedBy
  <2>3. \A p \in Ops : Landings'[p] = IF p = o THEN {m.att} ELSE Landings[p]
    BY <2>1, <2>2 DEF Landings
  <2>4. QED
    BY <2>3 DEF Landings
<1>3. Reported' = Reported /\ Secured' = Secured
  BY <1>1 DEF Reported, Secured
<1>4. Landings[o] = {} /\ Reported[o] = "open"
  BY DEF Landings, Reported, Report
<1>5. Contract!Land(o)
  BY <1>2, <1>3, <1>4 DEF Contract!Land, Landings, Reported, Secured
<1>6. QED
  BY <1>5 DEF Contract!Next

\* A step in which one call returns.
LEMMA StepReturns ==
  ASSUME ReportsTrue', NEW o \in Ops, pc[o] # "done", pc'[o] = "done",
         \A p \in Ops : p # o => /\ pc'[p] = pc[p]
                                 /\ entry'[p] = entry[p]
                                 /\ request'[p] = request[p]
                                 /\ result'[p] = result[p],
         UNCHANGED applied
  PROVE  Contract!Next
<1>1. \A p \in Ops : LandedBy(p)' = LandedBy(p)
  BY DEF LandedBy
<1>2. \A p \in Ops : p # o => Report(p)' = Report(p)
  BY DEF Report
<1>3. /\ Report(o)' \in {"done", "refused", "uncertain"}
      /\ Report(o)' = "done" => LandedBy(o)' # {}
      /\ Report(o)' = "refused" => LandedBy(o)' = {}
      /\ Report(o)' # "refused" => Secured'[o]
  BY DEF ReportsTrue, Secured
<1>4. Landings' = Landings
  BY <1>1 DEF Landings
<1>5. Reported' = [Reported EXCEPT ![o] = Report(o)']
  BY <1>2 DEF Reported
<1>6. Secured' = [Secured EXCEPT ![o] = Secured'[o]] /\ Secured'[o] \in BOOLEAN
  BY DEF Secured
<1>7. Reported[o] = "open"
  BY DEF Reported, Report
<1>8. (Landings[o] # {} <=> LandedBy(o) # {})
  BY DEF Landings
<1>9. Contract!Return(o)
  BY <1>1, <1>3, <1>4, <1>5, <1>6, <1>7, <1>8
     DEF Contract!Return, Contract!Reports, Landings, Reported, Secured
<1>10. QED
  BY <1>9 DEF Contract!Next

\* A step the contract does not see.
LEMMA StepStutters ==
  ASSUME UNCHANGED applied,
         \A p \in Ops : \/ pc[p] # "done" /\ pc'[p] # "done"
                        \/ /\ pc'[p] = pc[p]
                           /\ entry'[p] = entry[p]
                           /\ request'[p] = request[p]
                           /\ result'[p] = result[p]
  PROVE  UNCHANGED Contract!custodyVars
<1>1. \A p \in Ops : LandedBy(p)' = LandedBy(p)
  BY DEF LandedBy
<1>2. \A p \in Ops : Report(p)' = Report(p)
  BY DEF Report
<1>3. Landings' = Landings /\ Reported' = Reported /\ Secured' = Secured
  BY <1>1, <1>2 DEF Landings, Reported, Secured
<1>4. QED
  BY <1>3 DEF Contract!custodyVars, Landings, Reported, Secured

\* What Mutate changes: its own call alone, which it sends or has return.
LEMMA StepMutates ==
  ASSUME TypeOK, ReportsTrue', NEW o \in Ops, NEW e \in AllEntries,
         NEW inputs \in SUBSET Notes, Mutate(o, e, inputs),
         pc[o] \in {"idle", "look"}, UNCHANGED applied,
         \A p \in Ops : p # o => entry'[p] = entry[p]
  PROVE  [Contract!Next]_Contract!custodyVars
<1>1. PICK req \in Requests :
           /\ request' = [request EXCEPT ![o] = req]
           /\ \/ pc' = [pc EXCEPT ![o] = "send"] /\ UNCHANGED result
              \/ Return(o, Returned(e, req, "RequestRefused"))
  BY MutateShape
<1>2. \A p \in Ops : p # o => /\ pc'[p] = pc[p] /\ request'[p] = request[p]
                              /\ result'[p] = result[p]
  BY <1>1 DEF TypeOK, Return
<1>3. pc'[o] \in {"send", "done"}
  BY <1>1 DEF TypeOK, Return
<1>4. CASE pc'[o] = "send"
  BY <1>2, <1>4, StepStutters
<1>5. CASE pc'[o] = "done"
  BY <1>2, <1>5, StepReturns
<1>6. QED
  BY <1>3, <1>4, <1>5

\* The end of a round: another one, or the return.
LEMMA StepConcludes ==
  ASSUME TypeOK, ReportsTrue', NEW o \in Ops, NEW v, Conclude(o, v),
         pc[o] = "wait", UNCHANGED applied
  PROVE  [Contract!Next]_Contract!custodyVars
<1>1. /\ UNCHANGED <<entry, request>>
      /\ \/ pc' = [pc EXCEPT ![o] = "send"] /\ UNCHANGED result
         \/ Return(o, Returned(entry[o], request[o], v))
  BY DEF Conclude
<1>2. \A p \in Ops : p # o => pc'[p] = pc[p] /\ result'[p] = result[p]
  BY <1>1 DEF TypeOK, Return
<1>3. pc'[o] \in {"send", "done"}
  BY <1>1 DEF TypeOK, Return
<1>4. CASE pc'[o] = "send"
  BY <1>1, <1>2, <1>4, StepStutters
<1>5. CASE pc'[o] = "done"
  BY <1>1, <1>2, <1>5, StepReturns
<1>6. QED
  BY <1>3, <1>4, <1>5

\* The SERVICE's step: a request lands, or nothing does.
LEMMA StepServes ==
  ASSUME TypeOK, Wiring, Bookkeeping, NEW m \in wire, Serve(m)
  PROVE  [Contract!Next]_Contract!custodyVars
<1>1. UNCHANGED <<pc, entry, request, attempt, result>>
  BY DEF Serve, clientVars
<1>2. /\ m.op \in Ops /\ pc[m.op] = "wait" /\ m.att = attempt[m.op]
      /\ m.att \in 0..mutation_retries
  BY DEF TypeOK, MintTypeOK, Messages, Bookkeeping, Current
<1>3. CASE Apply(m, Awaited(m))
  <2>1. applied' = applied \cup {m}
    BY <1>3 DEF Apply
  <2>2. LandedBy(m.op) = {}
    BY <1>3, ApplyFirst DEF Apply, Honourable, LandedBy
  <2>3. QED
    BY <1>1, <1>2, <2>1, <2>2, StepLands
<1>4. CASE UNCHANGED applied
  BY <1>1, <1>4, StepStutters
<1>5. QED
  BY <1>3, <1>4 DEF Serve, Replay, Decline

\* Every step of the system is a step of the contract, or none that it sees.
LEMMA NextContract ==
  /\ TypeOK /\ Wiring /\ Bookkeeping /\ ReportsTrue'
  /\ [Next]_vars
  => [Contract!Next]_Contract!custodyVars
<1> SUFFICES ASSUME TypeOK, Wiring, Bookkeeping, ReportsTrue', [Next]_vars
             PROVE  [Contract!Next]_Contract!custodyVars
  OBVIOUS
<1>1. ASSUME NEW o \in Ops, Call(o)
      PROVE  [Contract!Next]_Contract!custodyVars
  <2>1. PICK e \in Entries \ {"settle_note"} :
          /\ entry' = [entry EXCEPT ![o] = e]
          /\ \E inputs \in Arguments(e) : Mutate(o, e, inputs)
    BY <1>1 DEF Call
  <2>2. PICK inputs \in Arguments(e) : Mutate(o, e, inputs)
    BY <2>1
  <2>3. e \in AllEntries /\ inputs \in SUBSET Notes
    BY ClientAssumption, HeldType DEF Arguments
  <2>4. pc[o] = "idle" /\ UNCHANGED applied
        /\ \A p \in Ops : p # o => entry'[p] = entry[p]
    BY <1>1, <2>1 DEF Call, mintVars, TypeOK
  <2>5. QED
    BY <2>2, <2>3, <2>4, StepMutates
<1>2. ASSUME NEW o \in Ops, CallSettle(o)
      PROVE  [Contract!Next]_Contract!custodyVars
  <2>1. PICK k1 \in Held, permitted \in BOOLEAN :
          /\ request' = [request EXCEPT ![o] = [NoRequest EXCEPT !.inputs = {k1}]]
          /\ IF permitted
             THEN pc' = [pc EXCEPT ![o] = "look"] /\ UNCHANGED result
             ELSE Return(o, [verdict |-> "RequestRefused", secrets |-> {}])
    BY <1>2 DEF CallSettle
  <2>2. pc[o] = "idle" /\ UNCHANGED applied
        /\ \A p \in Ops : p # o => /\ entry'[p] = entry[p]
                                   /\ request'[p] = request[p]
    BY <1>2, <2>1 DEF CallSettle, mintVars, TypeOK
  <2>3. /\ \A p \in Ops : p # o => pc'[p] = pc[p] /\ result'[p] = result[p]
        /\ pc'[o] \in {"look", "done"}
    BY <2>1 DEF TypeOK, Return
  <2>4. CASE pc'[o] = "look"
    BY <2>2, <2>3, <2>4, StepStutters
  <2>5. CASE pc'[o] = "done"
    BY <2>2, <2>3, <2>5, StepReturns
  <2>6. QED
    BY <2>3, <2>4, <2>5
<1>3. ASSUME NEW o \in Ops, Look(o)
      PROVE  [Contract!Next]_Contract!custodyVars
  <2>1. PICK k1 \in request[o].inputs :
          \/ Mutate(o, "settle_note", {k1})
          \/ \E v \in InfoVerdicts(k1) :
               /\ Return(o, [verdict |-> v, secrets |-> {}])
               /\ UNCHANGED <<request, drawn>>
    BY <1>3 DEF Look
  <2>2. pc[o] = "look" /\ UNCHANGED applied /\ UNCHANGED entry
    BY <1>3 DEF Look, mintVars
  <2>3. {k1} \in SUBSET Notes /\ "settle_note" \in AllEntries
    BY DEF TypeOK, Requests, AllEntries, KindOf
  <2>4. CASE Mutate(o, "settle_note", {k1})
    BY <2>2, <2>3, <2>4, StepMutates
  <2>5. CASE \E v \in InfoVerdicts(k1) :
               /\ Return(o, [verdict |-> v, secrets |-> {}])
               /\ UNCHANGED <<request, drawn>>
    <3>1. /\ pc'[o] = "done"
          /\ \A p \in Ops : p # o => pc'[p] = pc[p] /\ result'[p] = result[p]
          /\ UNCHANGED request
      BY <2>5 DEF Return, TypeOK
    <3>2. QED
      BY <2>2, <3>1, StepReturns
  <2>6. QED
    BY <2>1, <2>4, <2>5
<1>4. ASSUME NEW o \in Ops, Send(o)
      PROVE  [Contract!Next]_Contract!custodyVars
  BY <1>4, StepStutters DEF Send, TypeOK
<1>5. ASSUME NEW o \in Ops, Receive(o)
      PROVE  [Contract!Next]_Contract!custodyVars
  BY <1>5, StepConcludes DEF Receive
<1>6. ASSUME NEW o \in Ops, GiveUp(o)
      PROVE  [Contract!Next]_Contract!custodyVars
  BY <1>6, StepConcludes DEF GiveUp
<1>7. ASSUME NEW m \in wire, Serve(m)
      PROVE  [Contract!Next]_Contract!custodyVars
  BY <1>7, StepServes
<1>8. CASE UNCHANGED <<applied, pc, entry, request, result>>
  BY <1>8, StepStutters
<1>9. QED
  BY <1>1, <1>2, <1>3, <1>4, <1>5, <1>6, <1>7, <1>8
     DEF Next, ClientStep, Probe, Melting, MeltSettles, MeltFails, vars,
         mintVars, clientVars

\* The client and the SERVICE keep the contract of src/errors.rs: whatever is
\* reported done has been done, whatever is reported refused never is, and of
\* whatever else may have been done the caller holds the secrets.
THEOREM KeepsTheContractHolds == ASSUME Decisive PROVE Spec => KeepsTheContract
<1>1. Spec => []ReportsTrue
  BY InvariantsReport, TypeCorrect, WiringCorrect, BookkeepingCorrect,
     ApartCorrect, PTL
<1>2. QED
  BY <1>1, InitContract, NextContract, TypeCorrect, WiringCorrect,
     BookkeepingCorrect, PTL DEF Spec, KeepsTheContract, Contract!Spec

(***************************************************************************)
(* NoteFate::Live is the last word, for every finite set of notes, every   *)
(* set of calls, every number of retries and every SERVICE that module     *)
(* Mint describes, replaying or not, where no attempt outlives the wait    *)
(* for its answer.                                                         *)
(***************************************************************************)
\* The books of the SERVICE: what is spent stays so.
LEMMA InitBurned == Init => Burned
  BY DEF Init, MintInit, Burned

LEMMA NextBurned == TypeOK /\ Burned /\ [Next]_vars => Burned'
<1> SUFFICES ASSUME TypeOK, Burned, [Next]_vars
             PROVE  Burned'
  OBVIOUS
<1>1. ASSUME NEW m \in wire, Apply(m, Awaited(m))
      PROVE  Burned'
  <2>1. /\ m.req.inputs \subseteq outstanding \ melting
        /\ m.req.outputs \cap (outstanding \cup spent) = {}
        /\ applied' = applied \cup {m}
    BY <1>1 DEF Apply, Honourable
  <2>2. CASE m.req.kind = "Melt"
    <3>1. melting' = melting \cup m.req.inputs /\ UNCHANGED <<outstanding, spent>>
      BY <1>1, <2>2 DEF Apply
    <3>2. QED
      BY <2>1, <2>2, <3>1 DEF Burned
  <2>3. CASE m.req.kind # "Melt"
    <3>1. /\ outstanding' = (outstanding \ m.req.inputs) \cup m.req.outputs
          /\ spent' = spent \cup m.req.inputs
          /\ UNCHANGED melting
      BY <1>1, <2>3 DEF Apply
    <3>2. QED
      BY <2>1, <2>3, <3>1 DEF Burned
  <2>4. QED
    BY <2>2, <2>3
<1>2. ASSUME NEW n \in melting, MeltSettles(n)
      PROVE  Burned'
  BY <1>2 DEF MeltSettles, Burned
<1>3. ASSUME NEW n \in melting, MeltFails(n)
      PROVE  Burned'
  BY <1>3 DEF MeltFails, Burned
<1>4. CASE UNCHANGED <<outstanding, spent, melting, applied>>
  BY <1>4 DEF Burned
<1>5. QED
  BY <1>1, <1>2, <1>3, <1>4
     DEF Next, ClientStep, Call, CallSettle, Look, Send, Receive, GiveUp, Probe,
         Serve, Replay, Decline, Melting, vars, mintVars

\* What a mutation burned is never money again, at every SERVICE and over every
\* network.
THEOREM BurnedCorrect == Spec => []Burned
  BY TypeCorrect, InitBurned, NextBurned, PTL DEF Spec

-----------------------------------------------------------------------------
\* What Mutate draws for a melt: nothing.
LEMMA MeltDrawsNothing ==
  ASSUME IsFiniteSet(Notes), NEW S \in Fresh("Melt")
  PROVE  S = {}
<1>1. S \subseteq Notes /\ Cardinality(S) = Cardinality(OutputsOf["Melt"])
  BY DEF Fresh
<1>2. IsFiniteSet(S)
  BY <1>1, FS_Subset
<1>3. Cardinality(S) = 0
  BY <1>1, FS_EmptySet DEF OutputsOf
<1>4. QED
  BY <1>2, <1>3, FS_EmptySet

LEMMA MutateMelts ==
  ASSUME IsFiniteSet(Notes), TypeOK, MeltsMakeNothing, NEW o \in Ops, NEW e,
         NEW inputs, Mutate(o, e, inputs)
  PROVE  MeltsMakeNothing'
<1>1. PICK outputs \in Fresh(KindOf[e]), permitted \in BOOLEAN :
        Mutate(o, e, inputs)!(outputs, permitted)
  BY DEF Mutate
<1> DEFINE req == [kind |-> KindOf[e], inputs |-> inputs, outputs |-> outputs]
<1>2. request' = [request EXCEPT ![o] = req]
  BY <1>1
<1>3. req.kind = "Melt" => req.outputs = {}
  BY MeltDrawsNothing
<1> HIDE DEF req
<1>4. QED
  BY <1>2, <1>3 DEF TypeOK, MeltsMakeNothing

LEMMA InitMelts == Init => MeltsMakeNothing
  BY DEF Init, MeltsMakeNothing, NoRequest

LEMMA NextMelts ==
  ASSUME IsFiniteSet(Notes)
  PROVE  TypeOK /\ MeltsMakeNothing /\ [Next]_vars => MeltsMakeNothing'
<1> SUFFICES ASSUME TypeOK, MeltsMakeNothing, [Next]_vars
             PROVE  MeltsMakeNothing'
  OBVIOUS
<1>1. ASSUME NEW o \in Ops, Call(o)
      PROVE  MeltsMakeNothing'
  BY <1>1, MutateMelts DEF Call
<1>2. ASSUME NEW o \in Ops, CallSettle(o)
      PROVE  MeltsMakeNothing'
  <2>1. PICK k1 \in Held :
          request' = [request EXCEPT ![o] = [NoRequest EXCEPT !.inputs = {k1}]]
    BY <1>2 DEF CallSettle
  <2> DEFINE req == [NoRequest EXCEPT !.inputs = {k1}]
  <2>2. req.outputs = {}
    BY DEF NoRequest
  <2> HIDE DEF req
  <2>3. request' = [request EXCEPT ![o] = req]
    BY <2>1 DEF req
  <2>4. QED
    BY <2>2, <2>3 DEF TypeOK, MeltsMakeNothing
<1>3. ASSUME NEW o \in Ops, Look(o)
      PROVE  MeltsMakeNothing'
  <2>1. \/ \E k1 \in request[o].inputs : Mutate(o, "settle_note", {k1})
        \/ UNCHANGED request
    BY <1>3 DEF Look
  <2>2. QED
    BY <2>1, MutateMelts DEF MeltsMakeNothing
<1>4. CASE UNCHANGED request
  BY <1>4 DEF MeltsMakeNothing
<1>5. QED
  BY <1>1, <1>2, <1>3, <1>4
     DEF Next, ClientStep, Send, Receive, GiveUp, Conclude, Probe, Serve,
         Melting, vars, clientVars

-----------------------------------------------------------------------------
\* No attempt outlives the wait for its answer, and no answer the wait for it.
Timely == Current /\ Heard

LEMMA InitTimely == Init => Timely
  BY DEF Init, MintInit, Timely, Current, Heard

\* A call that starts, or ends unsent, has nothing on the wire.
LEMMA UnsentTimely ==
  ASSUME TypeOK, Wiring, Timely, NEW o \in Ops, pc[o] # "wait",
         \A p \in Ops : p # o => pc'[p] = pc[p],
         UNCHANGED <<wire, answer, attempt>>
  PROVE  Timely'
<1>1. \A m \in wire : m.op \in Ops /\ m.op # o
  BY DEF Timely, Current, TypeOK, MintTypeOK, Messages
<1>2. answer[o] = NoAnswer
  BY DEF Timely, Heard
<1>3. QED
  BY <1>1, <1>2 DEF Timely, Current, Heard

\* The end of a round of a call of which nothing is on the wire any more.
LEMMA ConcludeTimely ==
  ASSUME TypeOK, Timely, NEW o \in Ops, NEW v, Conclude(o, v),
         wire' \subseteq wire, \A m \in wire' : m.op # o,
         answer' = [answer EXCEPT ![o] = NoAnswer]
  PROVE  Timely'
<1>1. \A p \in Ops : p # o => pc'[p] = pc[p] /\ attempt'[p] = attempt[p]
  BY DEF Conclude, Return, TypeOK
<1>2. \A m \in wire : m.op \in Ops
  BY DEF TypeOK, MintTypeOK, Messages
<1>3. QED
  BY <1>1, <1>2 DEF Timely, Current, Heard, TypeOK, MintTypeOK

LEMMA NextTimely ==
  ASSUME ~ LateDelivery
  PROVE  TypeOK /\ Wiring /\ Timely /\ [Next]_vars => Timely'
<1> SUFFICES ASSUME TypeOK, Wiring, Timely, [Next]_vars
             PROVE  Timely'
  OBVIOUS
<1>1. ASSUME NEW o \in Ops, NEW e \in AllEntries, NEW inputs \in SUBSET Notes,
             Mutate(o, e, inputs)
      PROVE  \A p \in Ops : p # o => pc'[p] = pc[p]
  BY <1>1, MutateShape DEF TypeOK, Return
<1>2. ASSUME NEW o \in Ops, Call(o)
      PROVE  Timely'
  <2>1. PICK e \in Entries \ {"settle_note"} :
          \E inputs \in Arguments(e) : Mutate(o, e, inputs)
    BY <1>2 DEF Call
  <2>2. e \in AllEntries /\ Arguments(e) \subseteq SUBSET Notes
    BY ClientAssumption, HeldType DEF Arguments
  <2>3. \A p \in Ops : p # o => pc'[p] = pc[p]
    BY <1>1, <2>1, <2>2
  <2>4. QED
    BY <1>2, <2>3, UnsentTimely DEF Call, mintVars
<1>3. ASSUME NEW o \in Ops, CallSettle(o)
      PROVE  Timely'
  <2>1. \A p \in Ops : p # o => pc'[p] = pc[p]
    BY <1>3 DEF CallSettle, Return, TypeOK
  <2>2. QED
    BY <1>3, <2>1, UnsentTimely DEF CallSettle, mintVars
<1>4. ASSUME NEW o \in Ops, Look(o)
      PROVE  Timely'
  <2>1. PICK k1 \in request[o].inputs :
          \/ Mutate(o, "settle_note", {k1})
          \/ pc' = [pc EXCEPT ![o] = "done"]
    BY <1>4 DEF Look, Return
  <2>2. {k1} \in SUBSET Notes /\ "settle_note" \in AllEntries
    BY DEF TypeOK, Requests, AllEntries, KindOf
  <2>3. \A p \in Ops : p # o => pc'[p] = pc[p]
    BY <1>1, <2>1, <2>2 DEF TypeOK
  <2>4. QED
    BY <1>4, <2>3, UnsentTimely DEF Look, mintVars
<1>5. ASSUME NEW o \in Ops, Send(o)
      PROVE  Timely'
  <2>1. /\ pc' = [pc EXCEPT ![o] = "wait"] /\ wire' = wire \cup {Message(o)}
        /\ UNCHANGED <<answer, attempt>>
        /\ Message(o).op = o /\ Message(o).att = attempt[o]
    BY <1>5 DEF Send, Message
  <2>2. answer[o] = NoAnswer
    BY <1>5 DEF Send, Timely, Heard
  <2>3. QED
    BY <2>1, <2>2 DEF Timely, Current, Heard, TypeOK, MintTypeOK, Messages
<1>6. ASSUME NEW o \in Ops, Receive(o)
      PROVE  Timely'
  <2>1. \A m \in wire : m.op # o
    BY <1>6 DEF Receive, Timely, Current
  <2>2. QED
    BY <1>6, <2>1, ConcludeTimely DEF Receive
<1>7. ASSUME NEW o \in Ops, GiveUp(o)
      PROVE  Timely'
  <2>1. /\ Conclude(o, "Ambiguous") /\ wire' = wire \ {Message(o)}
        /\ answer' = [answer EXCEPT ![o] = NoAnswer]
    BY <1>7 DEF GiveUp
  <2>2. \A m \in wire' : m.op # o
    BY <2>1 DEF Timely, Current, Wiring, Provenance, TypeOK, MintTypeOK,
                Messages, Message
  <2>3. QED
    BY <2>1, <2>2, ConcludeTimely
<1>8. ASSUME NEW m \in wire, Serve(m)
      PROVE  Timely'
  <2>1. UNCHANGED <<pc, attempt>> /\ wire' = wire \ {m}
    BY <1>8 DEF Serve, clientVars, Apply, Replay, Decline, Reply
  <2>2. /\ m.op \in Ops /\ pc[m.op] = "wait" /\ m.att = attempt[m.op]
        /\ \A n \in wire : n.op = m.op => n = m
    BY DEF Timely, Current, Wiring, Provenance, TypeOK, MintTypeOK, Messages
  <2>3. \E body : answer' = [answer EXCEPT ![m.op] = body]
    BY <1>8, <2>2 DEF Serve, Apply, Replay, Decline, Reply, Awaited
  <2>4. QED
    BY <2>1, <2>2, <2>3 DEF Timely, Current, Heard, TypeOK, MintTypeOK, Messages
<1>9. CASE UNCHANGED <<wire, answer, pc, attempt>>
  BY <1>9 DEF Timely, Current, Heard
<1>10. QED
  BY <1>2, <1>3, <1>4, <1>5, <1>6, <1>7, <1>8, <1>9
     DEF Next, ClientStep, Probe, Melting, MeltSettles, MeltFails, vars,
         mintVars, clientVars

-----------------------------------------------------------------------------
\* An informational GET answers Ok of a note that can be spent.
LEMMA OkIsOutstanding ==
  ASSUME NEW n, "Ok" \in InfoVerdicts(n)
  PROVE  n \in outstanding \ melting
<1>1. PICK body \in InfoAnswers(n) :
        parse_note_info(body, require_mint_pubkey) = "Ok"
  BY DEF InfoVerdicts
<1>2. body.status # "ERROR"
  BY <1>1, ClassifyType DEF parse_note_info
<1>3. QED
  BY <1>1, <1>2 DEF InfoAnswers

LEMMA InitAlive == Init => FoundAlive
  BY DEF Init, FoundAlive

LEMMA NextAlive ==
  /\ TypeOK /\ Wiring /\ Burned /\ MeltsMakeNothing /\ Timely /\ FoundAlive
  /\ [Next]_vars
  => FoundAlive'
<1> SUFFICES ASSUME TypeOK, Wiring, Burned, MeltsMakeNothing, Timely,
                    FoundAlive, [Next]_vars
             PROVE  FoundAlive'
  OBVIOUS
<1>1. ASSUME UNCHANGED <<applied, fate>>,
             \A p \in Ops : pc[p] = "done" => pc'[p] = "done"
      PROVE  FoundAlive'
  BY <1>1 DEF FoundAlive, Minted, LandedBy
<1>2. ASSUME NEW o \in Ops, Probe(o)
      PROVE  FoundAlive'
  <2>1. /\ pc[o] = "done" /\ UNCHANGED <<applied, pc>>
        /\ \E n \in request[o].inputs : \E v \in InfoVerdicts(n) :
             fate' = [fate EXCEPT ![o] = FateOf(v)]
    BY <1>2 DEF Probe, mintVars
  <2>2. PICK n \in request[o].inputs : \E v \in InfoVerdicts(n) :
          fate' = [fate EXCEPT ![o] = FateOf(v)]
    BY <2>1
  <2>3. PICK v \in InfoVerdicts(n) : fate' = [fate EXCEPT ![o] = FateOf(v)]
    BY <2>2
  <2>4. \A p \in Ops : Minted(p)' = Minted(p)
    BY <2>1 DEF Minted, LandedBy
  <2>5. ASSUME fate'[o] = "Live"
        PROVE  Minted(o) = {}
    <3>1. v = "Ok"
      BY <2>3, <2>5 DEF FateOf, TypeOK
    <3>2. n \in outstanding
      BY <3>1, OkIsOutstanding
    <3>3. ASSUME NEW m \in LandedBy(o)
          PROVE  m.req.outputs = {}
      <4>1. m \in applied /\ m.req = request[o]
        BY DEF LandedBy, Wiring, Provenance
      <4>2. CASE m.req.kind = "Melt"
        BY <4>1, <4>2 DEF MeltsMakeNothing
      <4>3. CASE m.req.kind # "Melt"
        BY <3>2, <4>1, <4>3 DEF Burned
      <4>4. QED
        BY <4>2, <4>3
    <3>4. QED
      BY <3>3 DEF Minted
  <2>6. QED
    BY <2>1, <2>3, <2>4, <2>5 DEF FoundAlive, TypeOK
<1>3. ASSUME NEW m \in wire, Apply(m, Awaited(m)), UNCHANGED <<pc, fate>>
      PROVE  FoundAlive'
  <2>1. applied' = applied \cup {m} /\ pc[m.op] = "wait"
    BY <1>3 DEF Apply, Timely, Current
  <2>2. \A p \in Ops : pc[p] = "done" => Minted(p)' = Minted(p)
    BY <2>1 DEF Minted, LandedBy
  <2>3. QED
    BY <1>3, <2>2 DEF FoundAlive
<1>4. ASSUME NEW o \in Ops, pc[o] # "done", UNCHANGED <<applied, fate>>,
             \A p \in Ops : p # o => pc'[p] = pc[p]
      PROVE  FoundAlive'
  BY <1>1, <1>4
<1>5. ASSUME NEW o \in Ops, NEW e \in AllEntries, NEW inputs \in SUBSET Notes,
             Mutate(o, e, inputs)
      PROVE  \A p \in Ops : p # o => pc'[p] = pc[p]
  BY <1>5, MutateShape DEF TypeOK, Return
<1>6. ASSUME NEW o \in Ops, Call(o)
      PROVE  FoundAlive'
  <2>1. PICK e \in Entries \ {"settle_note"} :
          \E inputs \in Arguments(e) : Mutate(o, e, inputs)
    BY <1>6 DEF Call
  <2>2. e \in AllEntries /\ Arguments(e) \subseteq SUBSET Notes
    BY ClientAssumption, HeldType DEF Arguments
  <2>3. \A p \in Ops : p # o => pc'[p] = pc[p]
    BY <1>5, <2>1, <2>2
  <2>4. QED
    BY <1>4, <1>6, <2>3 DEF Call, mintVars
<1>7. ASSUME NEW o \in Ops, CallSettle(o)
      PROVE  FoundAlive'
  <2>1. \A p \in Ops : p # o => pc'[p] = pc[p]
    BY <1>7 DEF CallSettle, Return, TypeOK
  <2>2. QED
    BY <1>4, <1>7, <2>1 DEF CallSettle, mintVars
<1>8. ASSUME NEW o \in Ops, Look(o)
      PROVE  FoundAlive'
  <2>1. PICK k1 \in request[o].inputs :
          \/ Mutate(o, "settle_note", {k1})
          \/ pc' = [pc EXCEPT ![o] = "done"]
    BY <1>8 DEF Look, Return
  <2>2. {k1} \in SUBSET Notes /\ "settle_note" \in AllEntries
    BY DEF TypeOK, Requests, AllEntries, KindOf
  <2>3. \A p \in Ops : p # o => pc'[p] = pc[p]
    BY <1>5, <2>1, <2>2 DEF TypeOK
  <2>4. QED
    BY <1>4, <1>8, <2>3 DEF Look, mintVars
<1>9. ASSUME NEW o \in Ops, Send(o) \/ Receive(o) \/ GiveUp(o)
      PROVE  FoundAlive'
  <2>1. /\ pc[o] # "done" /\ UNCHANGED <<applied, fate>>
        /\ \A p \in Ops : p # o => pc'[p] = pc[p]
    BY <1>9 DEF Send, Receive, GiveUp, Conclude, Return, TypeOK
  <2>2. QED
    BY <1>4, <2>1
<1>10. CASE UNCHANGED <<applied, fate, pc>>
  BY <1>1, <1>10
<1>11. QED
  BY <1>2, <1>3, <1>6, <1>7, <1>8, <1>9, <1>10
     DEF Next, ClientStep, Serve, Replay, Decline, Melting, MeltSettles,
         MeltFails, vars, mintVars, clientVars

\* A probe that finds the note alive is final: the fresh secrets of the call
\* that failed have minted nothing and never will, so they can be discarded.
THEOREM LiveProbeIsFinalHolds ==
  ASSUME IsFiniteSet(Notes), ~ LateDelivery
  PROVE  Spec => []LiveProbeIsFinal
<1>1. Spec => []MeltsMakeNothing
  BY TypeCorrect, InitMelts, NextMelts, PTL DEF Spec
<1>2. Spec => []Timely
  BY TypeCorrect, WiringCorrect, InitTimely, NextTimely, PTL DEF Spec
<1>3. Spec => []FoundAlive
  BY <1>1, <1>2, TypeCorrect, WiringCorrect, BurnedCorrect, InitAlive,
     NextAlive, PTL DEF Spec
<1>4. FoundAlive => LiveProbeIsFinal
  BY DEF FoundAlive, LiveProbeIsFinal
<1>5. QED
  BY <1>3, <1>4, PTL
=============================================================================
