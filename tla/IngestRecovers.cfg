\* Every change is picked up, after failures and a crash too.
CONSTANTS
  Source = {1, 2}
  Version = {1, 2, 3}
  Edits <- Fresh
  Runner = {sched, now}
  Stores = 2
  MaxEdits = 2
  MaxFaults = 1
  MaxCrashes = 1
  MaxUploads = 0
  None = None
SPECIFICATION FairSpec
INVARIANT SkippedIsStored
PROPERTY Converges
CHECK_DEADLOCK FALSE
