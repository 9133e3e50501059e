\* ingestion/models.py:30
CONSTANTS
  Source = {1}
  Version = {1, 2}
  Edits <- Restoring
  Runner = {sched}
  Stores = 1
  MaxEdits = 2
  MaxFaults = 1
  MaxCrashes = 0
  MaxUploads = 0
  None = None
SPECIFICATION Spec
INVARIANT RecordedIsStored
CHECK_DEADLOCK FALSE
