------------------------------ MODULE Custody ------------------------------
(***************************************************************************)
(* What the client promises the holder of bearer notes about each mutating *)
(* call, with no network, attempts or wording in it: the operation takes   *)
(* effect at most once; a call reported as done has taken effect; a call   *)
(* reported as refused never will, even after it has returned; and any     *)
(* call that may have taken effect, or may yet, leaves the secrets of what *)
(* it mints with the caller.  This is the error taxonomy of src/errors.rs  *)
(* read as a contract.                                                     *)
(***************************************************************************)
CONSTANTS
  Ops,   \* the calls
  Occasions  \* the occasions on which an operation may take effect

VARIABLES
  landings,  \* the times each call's operation took effect, one mark for each
  report,    \* what the call returned
  secured    \* whether the caller holds the secrets of all it may mint

custodyVars == <<landings, report, secured>>

Reports == {"open", "done", "refused", "uncertain"}

Init ==
  /\ landings = [o \in Ops |-> {}]
  /\ report = [o \in Ops |-> "open"]
  /\ secured = [o \in Ops |-> FALSE]

\* The SERVICE carries the operation out: once, and never after a refusal or
\* after it was reported done.
Land(o) ==
  /\ landings[o] = {}
  /\ report[o] \in {"open", "uncertain"}
  /\ \E mark \in Occasions : landings' = [landings EXCEPT ![o] = {mark}]
  /\ UNCHANGED <<report, secured>>

\* The call returns, once.
Return(o) ==
  /\ report[o] = "open"
  /\ \E r \in Reports \ {"open"}, s \in BOOLEAN :
       /\ r = "done" => landings[o] # {}
       /\ r = "refused" => landings[o] = {}
       /\ r # "refused" => s
       /\ report' = [report EXCEPT ![o] = r]
       /\ secured' = [secured EXCEPT ![o] = s]
  /\ UNCHANGED landings

Next == \E o \in Ops : Land(o) \/ Return(o)

Spec == Init /\ [][Next]_custodyVars
=============================================================================
