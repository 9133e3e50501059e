------------------------------ MODULE MCService ------------------------------
(* The API process around its core: accounts, the scheduler, the admin page    *)
(* with its route, and the composition root.  The parts share no state: a      *)
(* behaviour is one of one part, and the state space their sum.                *)
EXTENDS Accounts, Scheduler, AdminUpload, Wiring, TLC

CONSTANTS Part, a1, a2, a3

VARIABLE part

serviceVars == <<part, accountVars, schedulerVars, uploadVars, wiringVars>>

\* Two spellings of one address, and another one.
Spelling == (a1 :> "x") @@ (a2 :> "x") @@ (a3 :> "y")

\* A publisher pasted as a host name with capitals.
TypedPublishers == {[host |-> "a", www |-> TRUE, caps |-> TRUE]}

S(d, r, b, e, s) ==
  [database |-> d, redis |-> r, backend |-> b, executor |-> e, scheduled |-> s]

\* Everything in memory, everything outside, and the combination that does not start.
Deployments ==
  {S(FALSE, FALSE, "pgvector", "local", TRUE),
   S(TRUE, TRUE, "milvus", "distributed", FALSE),
   S(FALSE, FALSE, "both", "local", FALSE)}

\* The parts that do not run have one state.
Init ==
  /\ part \in Part
  /\ AccountsInit
  /\ SchedulerInit
  /\ UploadInit
  /\ WiringInit
  /\ part # "accounts" => postgres
  /\ part # "wiring" => settings = S(FALSE, FALSE, "pgvector", "local", TRUE)

Next ==
  \/ part = "accounts" /\ AccountsNext /\ UNCHANGED <<part, schedulerVars, uploadVars, wiringVars>>
  \/ part = "scheduler" /\ SchedulerNext /\ UNCHANGED <<part, accountVars, uploadVars, wiringVars>>
  \/ part = "upload" /\ UploadNext /\ UNCHANGED <<part, accountVars, schedulerVars, wiringVars>>
  \/ part = "wiring" /\ WiringNext /\ UNCHANGED <<part, accountVars, schedulerVars, uploadVars>>

Spec == Init /\ [][Next]_serviceVars /\ SchedulerFairness
=============================================================================
