SPECIFICATION FairSpec
CONSTANTS
  Buffers = {1, 2}
  Validators = {v1}
  Applies <- Always
  Grammar = TRUE
  Runs = {r1, r2}
  Loop = Loop
  None = None
  MaxVersion = 2
  MaxSaves = 1
INVARIANTS
  TypeOK
  AnnouncedOnce
  StaleOnlyByOverlap
PROPERTIES
  SavedIsValidated
CHECK_DEADLOCK FALSE
