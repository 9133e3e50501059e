\* Two threads on one conversation: three questions, an upload, and any number of
\* deletes, renames, aborts, expiries and restarts.
CONSTANTS
  Conversation = {c1}
  Question = {q1, q2, q3}
  File = {f1}
  Request = {r1, r2}
  HistoryLimit = 2
  None = None
SPECIFICATION Spec
SYMMETRY ChatSymmetry
INVARIANTS ChatInv ReadYourWrites ClosedIsEmpty
