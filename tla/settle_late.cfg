SPECIFICATION Spec
CONSTANTS
  g1 = g1
  f1 = f1
  o1 = o1
  Notes = {g1, f1}
  Genesis = {g1}
  Ops = {o1}
  Replays = TRUE
  RefusalsOfRepeats <- NoReason
  DeadNoteReasons <- DeadWordings
  Whims <- Unwilling
  Certificates <- Both
  Entries = {"settle_note"}
  mutation_retries = 1
  require_signatures = FALSE
  require_mint_pubkey = TRUE
  LateDelivery = TRUE
INVARIANTS SuccessNamesTheNote
CHECK_DEADLOCK FALSE
