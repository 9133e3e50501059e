\* Files that come and go, overlapping runs, failures, a crash and an upload.
CONSTANTS
  Source = {1}
  Version = {1, 2}
  Edits <- Restoring
  Runner = {sched, now}
  Stores = 2
  MaxEdits = 2
  MaxFaults = 2
  MaxCrashes = 1
  MaxUploads = 1
  None = None
SPECIFICATION Spec
SYMMETRY RunnerSymmetry
INVARIANT IngestInv
PROPERTY RecordedNeverMultiplies
CHECK_DEADLOCK FALSE
