SPECIFICATION FairSpec
CONSTANTS
  g1 = g1
  g2 = g2
  f1 = f1
  f2 = f2
  o1 = o1
  o2 = o2
  Notes = {g1, g2, f1, f2}
  Genesis = {g1, g2}
  Ops = {o1, o2}
  Replays = TRUE
  RefusalsOfRepeats <- SpentWording
  DeadNoteReasons <- SpentWording
  Whims <- Unwilling
  Certificates <- BothOrNone
  Amounts = {1, 2}
  MaxGets = 2
  require_signatures = TRUE
INVARIANTS TypeOK NothingStranded BelievedIsLive PaysWhatItAsked PaidIsMinted Ledger
PROPERTIES KeepsNotesSafe Recovers
CHECK_DEADLOCK FALSE
