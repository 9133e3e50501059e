\* A corpus with a document that kills the parser, crashes, a rechunk.
CONSTANTS
  Doc = {1, 2, 3}
  Figures <- ThreeDocs
  Poison = {2}
  Cap = 2
  MaxEdits = 1
  MaxFaults = 1
  MaxCrashes = 1
  MaxStops = 1
  MaxRechunks = 1
  None = None
SPECIFICATION FairSpec
INVARIANTS JobInv SubmittedOnce DoneIsWritten
PROPERTY JobFinishes
CHECK_DEADLOCK FALSE
