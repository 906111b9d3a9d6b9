------------------------------- MODULE Leaves -------------------------------
(***************************************************************************)
(* The rules a mint applies to a script path (src/spend.rs): no leaf that  *)
(* opens to anyone, and no time claim before its time.  Scripts are bytes, *)
(* with the opcodes they have; a sequence number is the bits tested of it. *)
(***************************************************************************)
EXTENDS Integers, Sequences, FiniteSets

CONSTANTS
  Bytes,               \* the bytes leaves are written with
  MaxLeaf,             \* their length: a bound of the model
  LOCKTIME_THRESHOLD,
  SEQUENCE_GRANULARITY_SECONDS,
  Locktimes,           \* the nLockTimes claimed
  Delays,              \* the low 16 bits of the nSequences claimed
  Horizon              \* the clock's last reading: a bound of the model

ASSUME LeavesAssumption ==
  /\ Bytes \subseteq 0..255
  /\ MaxLeaf \in Nat /\ Horizon \in Nat
  /\ LOCKTIME_THRESHOLD \in Nat \ {0}
  /\ SEQUENCE_GRANULARITY_SECONDS \in Nat \ {0}
  /\ Locktimes \subseteq Nat /\ Delays \subseteq Nat

TAPLEAF_VERSION == 192

is_op_success(op) ==
  op \in {80, 98, 137, 138, 141, 142}
         \cup 126..129 \cup 131..134 \cup 149..153 \cup 187..254

\* A little-endian number of n bytes, at most four, at i.
LittleEndian(script, i, n) ==
  LET Byte(j) == IF j < n THEN script[i + j] ELSE 0
  IN Byte(0) + 256 * Byte(1) + 65536 * Byte(2) + 16777216 * Byte(3)

\* How many bytes the length of the data pushed by op takes.
LengthBytes(op) == CASE op = 76 -> 1 [] op = 77 -> 2 [] op = 78 -> 4 [] OTHER -> 0

Truncated(script, i) == i + LengthBytes(script[i]) > Len(script)

\* Where the instruction after the one at i begins: past what a push says it
\* pushes, and past the length it says so with.
After(script, i) ==
  LET op == script[i]
      n == LengthBytes(op)
  IN i + 1 + (IF op \in 1..75 THEN op ELSE n + LittleEndian(script, i + 1, n))

\* A mistake to catch: the length field of a push is walked over as opcodes.
check_leaf_naive(leaf_version, script) ==
  LET reserved[i \in 1..Len(script)] ==
        IF is_op_success(script[i]) THEN TRUE
        ELSE LET next == IF script[i] \in 1..75 THEN i + 1 + script[i] ELSE i + 1
             IN next <= Len(script) /\ reserved[next]
  IN IF leaf_version # TAPLEAF_VERSION THEN "unknown version"
     ELSE IF script # <<>> /\ reserved[1] THEN "reserved opcode"
     ELSE "None"

\* "None", or the reason for refusing the leaf.
check_leaf(leaf_version, script) ==
  LET reserved[i \in 1..Len(script)] ==
        IF is_op_success(script[i]) THEN TRUE
        ELSE IF Truncated(script, i) THEN FALSE
        ELSE After(script, i) <= Len(script) /\ reserved[After(script, i)]
  IN IF leaf_version # TAPLEAF_VERSION THEN "unknown version"
     ELSE IF script # <<>> /\ reserved[1] THEN "reserved opcode"
     ELSE "None"

NSequences == [disabled : BOOLEAN, seconds : BOOLEAN, delay : Delays]

\* A mistake to catch: unsigned clocks are subtracted as they are.
check_time_claim_unsigned(locktime, sequence, now, locked_at) ==
  IF locktime # 0 /\ locktime < LOCKTIME_THRESHOLD THEN "block height"
  ELSE IF locktime > now THEN "in the future"
  ELSE IF sequence.disabled THEN "None"
  ELSE IF ~ sequence.seconds THEN "block count"
  ELSE IF (now - locked_at) % 2^16 < sequence.delay * SEQUENCE_GRANULARITY_SECONDS
       THEN "not yet satisfied" ELSE "None"

\* "None" once the claim is due.  The clocks are u64 read as i64: in Unix
\* seconds the cast changes nothing and the difference is signed.
check_time_claim(locktime, sequence, now, locked_at) ==
  IF locktime # 0 /\ locktime < LOCKTIME_THRESHOLD THEN "block height"
  ELSE IF locktime > now THEN "in the future"
  ELSE IF sequence.disabled THEN "None"
  ELSE IF ~ sequence.seconds THEN "block count"
  ELSE IF now - locked_at < sequence.delay * SEQUENCE_GRANULARITY_SECONDS
       THEN "not yet satisfied" ELSE "None"

(***************************************************************************)
(* A leaf is written byte by byte, or a note waits for its time.           *)
(***************************************************************************)
VARIABLES
  leaf,       \* the script so far
  claim,      \* the locktime and sequence a spend claims
  locked_at,  \* when the mint credited the note, which may be ahead of now
  now         \* the mint's clock

leafVars == <<leaf, claim, locked_at, now>>

LeafTypeOK ==
  /\ leaf \in Seq(Bytes)
  /\ claim \in [locktime : Locktimes, sequence : NSequences]
  /\ locked_at \in 0..Horizon
  /\ now \in 0..Horizon

LeafInit ==
  /\ leaf = <<>>
  /\ claim \in [locktime : Locktimes, sequence : NSequences]
  /\ locked_at \in 0..Horizon
  /\ now \in 0..locked_at

Write ==
  /\ now = 0 /\ locked_at = 0
  /\ Len(leaf) < MaxLeaf
  /\ \E byte \in Bytes : leaf' = Append(leaf, byte)
  /\ UNCHANGED <<claim, locked_at, now>>

Tick ==
  /\ leaf = <<>>
  /\ now < Horizon
  /\ now' = now + 1
  /\ UNCHANGED <<leaf, claim, locked_at>>

LeafNext == Write \/ Tick

LeafSpec == LeafInit /\ [][LeafNext]_leafVars

Due == check_time_claim(claim.locktime, claim.sequence, now, locked_at) = "None"

\* Consensus reads a leaf instruction by instruction, and one that begins with
\* a reserved opcode makes it succeed for anyone, if every instruction before
\* it is complete.  starts are where the instructions up to that one begin.
OpensToAnyone(script) ==
  \E starts \in SUBSET (1..Len(script)) :
    /\ 1 \in starts
    /\ \E last \in starts :
         /\ is_op_success(script[last])
         /\ \A i \in starts : i <= last
         /\ \A i \in starts \ {last} :
              /\ ~ Truncated(script, i)
              /\ After(script, i) \in starts
              /\ \A j \in starts : j > i => j >= After(script, i)

\* A mint refuses a leaf exactly if anyone could spend it: no push, however
\* its length is written or cut short, hides a reserved opcode or is taken for
\* one (spend.rs, check_leaf).
LeafRuleIsExact ==
  (check_leaf(TAPLEAF_VERSION, leaf) # "None") <=> OpensToAnyone(leaf)

\* A claim that has become due stays due while the clock goes on, wherever it
\* stood when the note was credited (spend.rs, check_time_claim).
DueStaysDue == [][Due /\ UNCHANGED claim => Due']_leafVars

\* Nothing is due before both its locks have run out.
NeverEarly ==
  Due => /\ claim.locktime <= now
         /\ ~ claim.sequence.disabled =>
              now >= locked_at + claim.sequence.delay * SEQUENCE_GRANULARITY_SECONDS
=============================================================================
