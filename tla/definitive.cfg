SPECIFICATION Spec
CONSTANTS
  g1 = g1
  f1 = f1
  o1 = o1
  Notes = {g1, f1}
  Genesis = {g1}
  Ops = {o1}
  Replays = FALSE
  RefusalsOfRepeats <- SpentWordings
  DeadNoteReasons <- DeadWordings
  Whims <- NoReason
  Certificates <- Both
  Entries = {"rotate_note"}
  mutation_retries = 1
  require_signatures = FALSE
  require_mint_pubkey = TRUE
  LateDelivery = FALSE
INVARIANTS DefinitiveMeansNothingHappened
CHECK_DEADLOCK FALSE
