SPECIFICATION Spec
CONSTANTS
  g1 = g1
  g2 = g2
  f1 = f1
  f2 = f2
  f3 = f3
  f4 = f4
  o1 = o1
  o2 = o2
  Notes = {g1, g2, f1, f2, f3, f4}
  Genesis = {g1, g2}
  Ops = {o1, o2}
  Replays = TRUE
  RefusalsOfRepeats <- SpentWordings
  DeadNoteReasons <- DeadWordings
  Whims <- Unwilling
  Certificates <- BothOrNone
  Entries = {"melt_note", "rotate_note", "split_note", "merge_notes", "settle_note"}
  mutation_retries = 1
  require_signatures = TRUE
  require_mint_pubkey = TRUE
  LateDelivery = FALSE
SYMMETRY Symmetry
INVARIANTS TypeOK SecretsSurvive RefusalBurnsNothing SuccessNamesTheNote OneLanding LiveProbeIsFinal Wiring Bookkeeping
PROPERTIES KeepsTheContract RetriesAreIdentical
CHECK_DEADLOCK FALSE
