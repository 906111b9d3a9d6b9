SPECIFICATION Spec
CONSTANTS
  g1 = g1
  f1 = f1
  o1 = o1
  Notes = {g1, f1}
  Genesis = {g1}
  Ops = {o1}
  Replays = TRUE
  RefusalsOfRepeats <- NoReason
  DeadNoteReasons <- DeadWordings
  Whims <- NoReason
  Certificates <- Both
  Entries = {"rotate_note"}
  mutation_retries = 0
  require_signatures = FALSE
  require_mint_pubkey = TRUE
  LateDelivery = TRUE
INVARIANTS LiveProbeIsFinal
CHECK_DEADLOCK FALSE
