------------------------------- MODULE LocalRun -------------------------------
(***************************************************************************)
(* A run in one process: the plan the model proposes is checked or         *)
(* replaced (LlmPlanner), then executed wave by wave on a pool of threads  *)
(* (LocalExecutor).  Nothing is retried: a node that raises loses the run. *)
(***************************************************************************)
EXTENDS Naturals, Sequences, SequencesExt, Subsequences

CONSTANTS
  Proposal,    \* what the model may answer: sequences of items, <<>> when it is no plan
  First,       \* the id of the node of the fallback plan
  MaxThreads   \* max_workers

\* Ids are strings, and names of dependencies too, or the item is ill-formed.
ASSUME LocalRunAssumption ==
  /\ Proposal \subseteq Seq([id : STRING, deps : SUBSET STRING, wellFormed : BOOLEAN])
  /\ First \in STRING
  /\ MaxThreads \in Nat \ {0}

VARIABLES
  raw,     \* the items proposed: id, deps, and whether the rest of it is well-formed
  plan,    \* the plan that is run
  phase,   \* where the planner or run() is
  ordered, \* the ids the planner has ordered
  next,    \* the node it looks at next in its pass
  moved,   \* has this pass ordered any?
  wave,    \* the ids of the wave, in order
  waited,  \* how many of its futures run() has waited for
  future,  \* the state of each future of the wave
  done,    \* the ids run() counts as done
  board,   \* the ids with a result
  ledger,  \* the ids with an event
  answer   \* the ids the answer was made from

orderVars == <<ordered, next, moved>>
runVars == <<wave, waited, future, done, board, ledger, answer>>
localVars == <<raw, plan, phase, orderVars, runVars>>

Ids(nodes) == {nodes[i].id : i \in DOMAIN nodes}
Over == phase \in {"answered", "lost"}

LocalRunTypeOK ==
  /\ raw \in Proposal
  /\ phase \in {"plan", "order", "wave", "wait", "unwind", "answered", "lost"}
  /\ ordered \subseteq Ids(raw)
  /\ next \in 0 .. Len(raw) + 1
  /\ moved \in BOOLEAN
  /\ waited \in 0 .. Len(wave)
  /\ future \in [ToSet(wave) -> {"queued", "running", "written", "done", "failed"}]
  /\ done \subseteq board \cap ledger
  /\ ledger \subseteq board
  /\ board \cup answer \subseteq Ids(plan)

LocalRunInit ==
  /\ raw \in Proposal
  /\ plan = <<>>
  /\ phase = "plan"
  /\ ordered = {}
  /\ next = 0
  /\ moved = FALSE
  /\ wave = <<>>
  /\ waited = 0
  /\ future = <<>>
  /\ done = {}
  /\ board = {}
  /\ ledger = {}
  /\ answer = {}

-----------------------------------------------------------------------------
(* The planner *)

\* Everything about the items but the order they can be run in.
WellFormed(items) ==
  /\ items # <<>>
  /\ \A i \in DOMAIN items :
       /\ items[i].wellFormed
       /\ items[i].deps \subseteq Ids(items)
       /\ \A j \in 1 .. i - 1 : items[j].id # items[i].id

Fallback == <<[id |-> First, deps |-> {}, wellFormed |-> TRUE]>>

Parse ==
  /\ phase = "plan"
  /\ IF WellFormed(raw)
     THEN /\ phase' = "order"
          /\ next' = 1
          /\ UNCHANGED plan
     ELSE /\ plan' = Fallback
          /\ phase' = "wave"
          /\ UNCHANGED next
  /\ UNCHANGED <<raw, ordered, moved, runVars>>

\* A pass over the nodes that remain: a node that waits for none but nodes already
\* ordered is ordered.
Consider ==
  /\ phase = "order"
  /\ next \in DOMAIN raw
  /\ LET n == raw[next]
     IN  IF n.id \notin ordered /\ n.deps \subseteq ordered
         THEN ordered' = ordered \cup {n.id} /\ moved' = TRUE
         ELSE UNCHANGED <<ordered, moved>>
  /\ next' = next + 1
  /\ UNCHANGED <<raw, plan, phase, runVars>>

PassOver == phase = "order" /\ next > Len(raw)

\* Passes are made as long as nodes remain and the last one ordered some.
NextPass ==
  /\ PassOver
  /\ moved /\ ordered # Ids(raw)
  /\ next' = 1
  /\ moved' = FALSE
  /\ UNCHANGED <<raw, plan, phase, ordered, runVars>>

\* Mutated: a single pass.
PlanAfterOnePass ==
  /\ PassOver
  /\ plan' = IF ordered = Ids(raw) THEN raw ELSE Fallback
  /\ phase' = "wave"
  /\ UNCHANGED <<raw, ordered, next, moved, runVars>>

\* The proposal is run if all of it could be ordered.
MakePlan ==
  /\ PassOver
  /\ ordered = Ids(raw) \/ ~moved
  /\ plan' = IF ordered = Ids(raw) THEN raw ELSE Fallback
  /\ phase' = "wave"
  /\ UNCHANGED <<raw, ordered, next, moved, runVars>>

-----------------------------------------------------------------------------
(* execute *)

\* Mutated: a wave of all the nodes that are left.
AllLeft == Picked(plan, {i \in DOMAIN plan : plan[i].id \notin done})

Ready == Picked(plan, {i \in DOMAIN plan : plan[i].id \notin done /\ plan[i].deps \subseteq done})

StartWave ==
  /\ phase = "wave"
  /\ Ready # <<>>
  /\ wave' = [i \in DOMAIN Ready |-> Ready[i].id]
  /\ future' = [n \in Ids(Ready) |-> "queued"]
  /\ waited' = 0
  /\ phase' = "wait"
  /\ UNCHANGED <<raw, plan, orderVars, done, board, ledger, answer>>

\* Mutated: a failed node is waited for like any other.
WaitForResult ==
  /\ phase = "wait"
  /\ waited < Len(wave)
  /\ future[wave[waited + 1]] = "done"
  /\ done' = done \cup {wave[waited + 1]}
  /\ waited' = waited + 1
  /\ UNCHANGED <<raw, plan, orderVars, phase, wave, future, board, ledger, answer>>

\* result() of the next future; a failed one raises.
Wait ==
  /\ phase = "wait"
  /\ waited < Len(wave)
  /\ LET n == wave[waited + 1]
     IN  \/ /\ future[n] = "done"
            /\ done' = done \cup {n}
            /\ waited' = waited + 1
            /\ UNCHANGED phase
         \/ /\ future[n] = "failed"
            /\ phase' = "unwind"
            /\ UNCHANGED <<done, waited>>
  /\ UNCHANGED <<raw, plan, orderVars, wave, future, board, ledger, answer>>

WaveDone ==
  /\ phase = "wait"
  /\ waited = Len(wave)
  /\ phase' = "wave"
  /\ UNCHANGED <<raw, plan, orderVars, wave, waited, future, done, board, ledger, answer>>

\* Mutated: the pool is left without waiting for its threads.
UnwindAtOnce ==
  /\ phase = "unwind"
  /\ phase' = "lost"
  /\ UNCHANGED <<raw, plan, orderVars, wave, waited, future, done, board, ledger, answer>>

\* The pool is left only when every node of the wave has run, queued ones too; then
\* the exception goes on: "[RUN LOST]", or an error.
Unwind ==
  /\ phase = "unwind"
  /\ \A n \in ToSet(wave) : future[n] \in {"done", "failed"}
  /\ phase' = "lost"
  /\ UNCHANGED <<raw, plan, orderVars, wave, waited, future, done, board, ledger, answer>>

\* No wave is left: the results are read back.
Collect ==
  /\ phase = "wave"
  /\ Ready = <<>>
  /\ answer' = board
  /\ phase' = "answered"
  /\ UNCHANGED <<raw, plan, orderVars, wave, waited, future, done, board, ledger>>

-----------------------------------------------------------------------------
(* _run_node, on a thread of the pool *)

Goes(n, from, to) ==
  /\ n \in DOMAIN future
  /\ future[n] = from
  /\ future' = [future EXCEPT ![n] = to]
  /\ UNCHANGED <<raw, plan, orderVars, phase, wave, waited, done, answer>>

RunNode(n) ==
  /\ \A k \in 1 .. Len(wave) : wave[k] = n =>
       \A j \in 1 .. k - 1 : future[wave[j]] # "queued"
  /\ Cardinality({m \in DOMAIN future : future[m] \in {"running", "written"}}) < MaxThreads
  /\ Goes(n, "queued", "running")
  /\ UNCHANGED <<board, ledger>>

\* The result is checked, then posted.
Post(n) ==
  /\ Goes(n, "running", "written")
  /\ board' = board \cup {n}
  /\ UNCHANGED ledger

Log(n) ==
  /\ Goes(n, "written", "done")
  /\ ledger' = ledger \cup {n}
  /\ UNCHANGED board

\* The hook, the capability, the gate or the blackboard raises, or, with the result
\* posted, the ledger.
Raises(n) ==
  /\ Goes(n, "running", "failed") \/ Goes(n, "written", "failed")
  /\ UNCHANGED <<board, ledger>>

Ended == Over /\ UNCHANGED localVars

LocalRunNext ==
  \/ Parse \/ Consider \/ NextPass \/ MakePlan
  \/ StartWave \/ Wait \/ WaveDone \/ Unwind \/ Collect
  \/ \E n \in DOMAIN future : RunNode(n) \/ Post(n) \/ Log(n) \/ Raises(n)
  \/ Ended

\* Nothing is lost between the steps of a live process.
LocalRunFairness ==
  /\ WF_localVars(Parse \/ Consider \/ NextPass \/ MakePlan)
  /\ WF_localVars(StartWave \/ Wait \/ WaveDone \/ Unwind \/ Collect)
  /\ WF_localVars(\E n \in DOMAIN future : RunNode(n) \/ Post(n) \/ Log(n) \/ Raises(n))

LocalRunSpec == LocalRunInit /\ [][LocalRunNext]_localVars

-----------------------------------------------------------------------------

\* Some nodes each wait for another one of them.
Cyclic(nodes) ==
  \E S \in (SUBSET Ids(nodes)) \ {{}} :
    \A i \in DOMAIN nodes : nodes[i].id \in S => nodes[i].deps \cap S # {}

\* The proposal is run as it is unless it is no plan at all, is ill-formed, repeats
\* an id, depends on a node that is not in it, or has a cycle; and nothing else than
\* the proposal or the fallback is ever run.
KeptIffSound ==
  plan # <<>> =>
    IF /\ raw # <<>>
       /\ \A i \in DOMAIN raw : raw[i].wellFormed /\ raw[i].deps \subseteq Ids(raw)
       /\ Cardinality(Ids(raw)) = Len(raw)
       /\ ~Cyclic(raw)
    THEN plan = raw
    ELSE plan = Fallback

\* An answer is made from the results of every node of the plan: what the check of
\* the plan, the waves and the order of posting and counting are for.
AnswerIsWhole == phase = "answered" => answer = Ids(plan)

\* The states are well-formed, the plan is the right one and the answer whole.
LocalRunInv == LocalRunTypeOK /\ KeptIffSound /\ AnswerIsWhole

\* Once the caller has its answer, or the exception, no thread of the run is left
\* that posts a result or an event.
OverIsOver == [][Over => UNCHANGED <<board, ledger>>]_localVars

\* What a run of these items promises.
Promise(items) == INSTANCE RunPromise WITH
  Node     <- Ids(items),
  Deps     <- [n \in Ids(items) |->
                 UNION {items[i].deps : i \in {j \in DOMAIN items : items[j].id = n}}],
  released <- board \cup {n \in DOMAIN future : future[n] # "queued"},
  done     <- board,
  running  <- plan # <<>> /\ phase # "answered",
  late     <- FALSE

\* The run of a plan, once it is made, implements RunPromise, as a run over the queue
\* does (AgentRun): a node is run only on the results of those it depends on, and
\* there is no deadline. A run that is lost never answers. And it promises more: no
\* thread of it outlives it.
LocalRunKeepsPromise ==
  /\ \A items \in {plan} : Promise(items)!Init
  /\ [][\A items \in {plan'} : [Promise(items)!Next]_(Promise(items)!vars)]_localVars
  /\ OverIsOver

\* Every run comes to an end, with an answer or without: whatever the model
\* proposed, more nodes than threads, one node of a wave raising before or after
\* others.
EveryRunEnds == (phase = "plan") ~> Over
=============================================================================
