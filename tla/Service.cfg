\* Two clients and three spellings of two addresses; two administrators' changes of
\* a folder; two files in batches of two; two threads under three deployments.
CONSTANTS
  Part = {"accounts", "scheduler", "upload", "wiring"}
  a1 = a1
  a2 = a2
  a3 = a3
  Address = {a1, a2, a3}
  Canon <- Spelling
  Password = {p1, p2}
  Client = {c1, c2}
  MaxAccounts = 2
  NoRequest = NoRequest
  Admin = {adm}
  MaxInterval = 2
  MaxFolder = 2
  Never = Never
  Nobody = Nobody
  File = {f1, f2}
  Supported = {f1}
  Typed <- TypedPublishers
  Blank = Blank
  NoManifest = NoManifest
  Slot = {s1, s2}
  NoBatch = NoBatch
  MaxListed = 2
  MaxPresses = 2
  Thread = {t1, t2}
  Deployment <- Deployments
  Asked = {"chat", "ingest", "inspect", "work"}
  MaxRequests = 2
  MaxRestarts = 1
SPECIFICATION Spec
INVARIANTS AccountsInv SchedulerInv UploadInv WiringInv
PROPERTIES LastRunIsLatest ChangesAreScanned ClearedWhenStored
CHECK_DEADLOCK FALSE
