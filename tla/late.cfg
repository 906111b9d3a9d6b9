SPECIFICATION FairSpec
CONSTANTS
  g1 = g1
  f1 = f1
  f2 = f2
  o1 = o1
  o2 = o2
  Notes = {g1, f1, f2}
  Genesis = {g1}
  Ops = {o1, o2}
  Replays = TRUE
  RefusalsOfRepeats <- SpentWordings
  DeadNoteReasons <- SpentWordings
  Whims <- NoReason
  Certificates <- Both
  Entries = {"rotate_note", "split_note", "settle_note"}
  mutation_retries = 2
  require_signatures = FALSE
  require_mint_pubkey = TRUE
  LateDelivery = TRUE
INVARIANTS SecretsSurvive
PROPERTIES CallsReturn
CHECK_DEADLOCK FALSE
