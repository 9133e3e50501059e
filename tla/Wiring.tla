------------------------------- MODULE Wiring --------------------------------
(***************************************************************************)
(* The composition root (api/deps.py): which object each request works     *)
(* with, and whose state is behind it.  A builder calls other builders,    *)
(* makes its own stores and is cached per process; the cache is not locked *)
(* while a builder runs, so two requests that come first together build    *)
(* twice.  An object is modelled by the stores it reaches, each a role and *)
(* an owner: an outside service, or the call that made it in memory.       *)
(***************************************************************************)
EXTENDS Naturals, Sequences, FiniteSets

CONSTANTS
  Thread,       \* request threads of the server
  Deployment,   \* the settings tried
  Asked,        \* the kinds of request tried
  MaxRequests,  \* bound: requests begun
  MaxRestarts   \* bound: server processes lost

VARIABLES
  settings,  \* database, redis: are they set; backend, executor, scheduled
  up,        \* the server's startup is over
  cache,     \* what each process has cached for each builder
  stack,     \* the calls each thread is in, the request first
  serial,    \* counter of the stores each process made in memory
  used,      \* history: request kind, process, role and owner of what was used,
             \* as far as the owner still exists
  doubled,     \* history: processes in which a builder ran twice at once
  requests, restarts

wiringVars == <<settings, up, cache, stack, serial, used, doubled, requests, restarts>>

Role == {"vectors", "sessions", "manifest", "users", "conversations",
         "blackboard", "queue", "ledger"}
Process == {"server", "worker"}
ProcessOf(t) == IF t = "worker" THEN "worker" ELSE "server"
Line == Thread \cup {"main", "worker"}

-----------------------------------------------------------------------------
(* The builders *)

AgentCalls ==
  [get_blackboard |-> <<>>,
   get_task_queue |-> <<>>,
   get_run_ledger |-> <<>>,
   get_capability_registry |-> <<"get_retrieval_service">>,
   get_supervisor |-> <<"get_task_queue", "get_blackboard", "get_run_ledger">>,
   build_worker |->
     <<"get_task_queue", "get_capability_registry", "get_blackboard", "get_run_ledger">>,
   build_local_executor |->
     <<"get_capability_registry", "get_blackboard", "get_run_ledger">>]

KnowledgeCalls ==
  [get_auth_service |-> <<>>,
   get_pipeline |-> <<>>,
   get_ingestion_service |-> <<"get_pipeline">>,
   get_session_documents |-> <<>>,
   get_retrieval_service |-> <<"get_session_documents">>]

ChatCalls ==
  [get_turn_orchestrator |->
     <<IF settings.executor = "distributed" THEN "get_supervisor" ELSE "build_local_executor",
       "get_capability_registry">>,
   get_chat_service |->
     <<"get_retrieval_service", "get_turn_orchestrator", "get_session_documents">>]

\* What the dependencies of a route, and of the other entry points, ask for.
UserCalls ==
  [login |-> <<"get_auth_service">>,
   chat |-> <<"get_auth_service", "get_chat_service">>,
   upload |-> <<"get_auth_service", "get_chat_service", "get_session_documents">>]

RunCalls ==
  [run_local |-> <<"get_auth_service", "get_capability_registry", "build_local_executor">>,
   run |-> <<"get_auth_service", "get_capability_registry", "get_supervisor">>]

AdminCalls ==
  [ingest |-> <<"get_pipeline">>,
   scan |-> <<"get_ingestion_service">>,
   inspect |-> <<"get_run_ledger", "get_blackboard", "get_task_queue">>,
   work |-> <<"build_worker">>]

Requests == DOMAIN UserCalls \cup DOMAIN RunCalls \cup DOMAIN AdminCalls

Calls(b) ==
  CASE b \in DOMAIN AgentCalls -> AgentCalls[b]
    [] b \in DOMAIN KnowledgeCalls -> KnowledgeCalls[b]
    [] b \in DOMAIN ChatCalls -> ChatCalls[b]
    [] b \in DOMAIN UserCalls -> UserCalls[b]
    [] b \in DOMAIN RunCalls -> RunCalls[b]
    [] b \in DOMAIN AdminCalls -> AdminCalls[b]

Builder ==
  Requests \cup DOMAIN AgentCalls \cup DOMAIN KnowledgeCalls
    \cup {"get_turn_orchestrator", "get_chat_service"}

Cached == Builder \ (Requests \cup {"build_worker", "build_local_executor"})

\* The stores a builder makes itself, not through another builder.
OwnRoles ==
  [get_blackboard |-> {"blackboard"}, get_task_queue |-> {"queue"},
   get_run_ledger |-> {"ledger"}, get_auth_service |-> {"users"},
   get_pipeline |-> {"vectors"}, get_ingestion_service |-> {"manifest"},
   get_session_documents |-> {"sessions"}, get_retrieval_service |-> {"vectors"},
   get_chat_service |-> {"conversations"}]

OwnOf(b) == IF b \in DOMAIN OwnRoles THEN OwnRoles[b] ELSE {}

\* Is the state behind this role kept by an outside service?
Outside(r) ==
  CASE r = "vectors" -> settings.backend = "milvus" \/ settings.database
    [] r \in {"manifest", "users", "conversations"} -> settings.database
    [] r \in {"sessions", "blackboard", "queue", "ledger"} -> settings.redis

\* VECTOR_BACKEND=both without DATABASE_URL raises.
Buildable(b) ==
  "vectors" \in OwnOf(b) => (settings.backend = "both" => settings.database)

-----------------------------------------------------------------------------

Service == <<"service", 0>>
Owners == {Service} \cup Process \X Nat
Object == SUBSET (Role \X Owners)

\* What is cached for a builder that has not run: no object, as it has a role of none.
NoObject == {<<"none", Service>>}

Frames == [builder : Builder, todo : Seq(Builder), got : Object]

ASSUME WiringAssumption == Asked \subseteq Requests

WiringTypeOK ==
  /\ settings \in Deployment
  /\ up \in BOOLEAN
  /\ \A p \in Process, b \in Cached : cache[p][b] = NoObject \/ cache[p][b] \in Object
  /\ \A t \in Line : stack[t] \in Seq(Frames)
  /\ serial \in [Process -> Nat]
  /\ used \in SUBSET (Requests \X Role \X Owners)
  /\ doubled \subseteq Process

WiringInit ==
  /\ settings \in Deployment
  /\ up = FALSE
  /\ cache = [p \in Process |-> [b \in Cached |-> NoObject]]
  /\ stack = [t \in Line |-> <<>>]
  /\ serial = [p \in Process |-> 0]
  /\ used = {}
  /\ doubled = {}
  /\ requests = 0
  /\ restarts = 0

UsedBy(rs, role) == {e \in used : e[1] \in rs /\ e[2] = role}
OwnersOf(es) == {e[3] : e \in es}

Frame(b) == [builder |-> b, todo |-> Calls(b), got |-> {}]
Top(t) == stack[t][Len(stack[t])]

\* The call at the head of the list returns the object o.
Returned(frame, o) == [frame EXCEPT !.todo = Tail(@), !.got = @ \cup o]

\* The object goes to the n-th call of a stack; those above it are over.
Popped(s, n, o) == Append(SubSeq(s, 1, n - 1), Returned(s[n], o))

\* The processes share no cache, so their calls commute: those of the worker are
\* taken while the server's threads are in none.
Alone(t) == \A u \in Line : ProcessOf(u) # ProcessOf(t) => stack[u] = <<>>

Begin(t, r) ==
  /\ stack[t] = <<>>
  /\ Alone(t)
  /\ stack' = [stack EXCEPT ![t] = <<Frame(r)>>]
  /\ UNCHANGED <<settings, cache, serial, used, doubled, restarts>>

\* The lifespan builds the scheduler before the first request is served.
StartUp ==
  /\ ~up
  /\ IF settings.scheduled
     THEN Begin("main", "scan") /\ UNCHANGED up
     ELSE up' = TRUE /\ UNCHANGED <<settings, cache, stack, serial, used, doubled, restarts>>
  /\ UNCHANGED requests

Serve(t, r) ==
  /\ up
  /\ t \in Thread
  /\ r # "work"
  /\ requests < MaxRequests
  /\ requests' = requests + 1
  /\ Begin(t, r)
  /\ UNCHANGED up

\* scripts/run_worker.py: one worker for as long as the process lives.
Work ==
  /\ UsedBy({"work"}, "queue") = {}
  /\ Begin("worker", "work")
  /\ UNCHANGED <<up, requests>>

\* A call that is answered from the cache.
Hit(t) ==
  /\ stack[t] # <<>> /\ Top(t).todo # <<>>
  /\ LET b == Head(Top(t).todo)
         o == IF b \in Cached THEN cache[ProcessOf(t)][b] ELSE NoObject
     IN  /\ o # NoObject
         /\ stack' = [stack EXCEPT ![t] = Popped(stack[t], Len(stack[t]), o)]
  /\ UNCHANGED <<settings, up, cache, serial, used, doubled, requests, restarts>>

\* A call that runs the builder.
Miss(t) ==
  /\ stack[t] # <<>> /\ Top(t).todo # <<>>
  /\ LET b == Head(Top(t).todo)
         p == ProcessOf(t)
     IN  /\ b \in Cached => cache[p][b] = NoObject
         /\ stack' = [stack EXCEPT ![t] = Append(@, Frame(b))]
         /\ doubled' =
              IF \E u \in Line \ {t} :
                   ProcessOf(u) = p /\ \E i \in DOMAIN stack[u] : stack[u][i].builder = b
              THEN doubled \cup {p}
              ELSE doubled
  /\ UNCHANGED <<settings, up, cache, serial, used, requests, restarts>>

\* The object a builder makes: its own stores and what it was given.
Made(t) ==
  Top(t).got \cup
    {<<r, IF Outside(r) THEN Service ELSE <<ProcessOf(t), serial[ProcessOf(t)] + 1>>>> :
       r \in OwnOf(Top(t).builder)}

\* Mutated: the object is not kept.
ReturnUncached(t) ==
  /\ Len(stack[t]) > 1 /\ Top(t).todo = <<>> /\ Buildable(Top(t).builder)
  /\ stack' = [stack EXCEPT ![t] = Popped(stack[t], Len(stack[t]) - 1, Made(t))]
  /\ serial' = [serial EXCEPT ![ProcessOf(t)] = @ + 1]
  /\ UNCHANGED <<settings, up, cache, used, doubled, requests, restarts>>

\* A builder returns: the first result is cached, every caller gets its own.
Return(t) ==
  /\ Len(stack[t]) > 1 /\ Top(t).todo = <<>> /\ Buildable(Top(t).builder)
  /\ stack' = [stack EXCEPT ![t] = Popped(stack[t], Len(stack[t]) - 1, Made(t))]
  /\ LET b == Top(t).builder
         p == ProcessOf(t)
     IN  cache' = IF b \in Cached /\ cache[p][b] = NoObject
                  THEN [cache EXCEPT ![p][b] = Made(t)]
                  ELSE cache
  /\ serial' = IF \A r \in OwnOf(Top(t).builder) : Outside(r)
               THEN serial
               ELSE [serial EXCEPT ![ProcessOf(t)] = @ + 1]
  /\ UNCHANGED <<settings, up, used, doubled, requests, restarts>>

\* A builder raises: the request fails (500), nothing is cached, and a server that
\* was starting does not.
Raise(t) ==
  /\ Len(stack[t]) > 1 /\ Top(t).todo = <<>> /\ ~Buildable(Top(t).builder)
  /\ stack' = [stack EXCEPT ![t] = <<>>]
  /\ UNCHANGED <<settings, up, cache, serial, used, doubled, requests, restarts>>

\* The request has what it needs, and uses it.
Finish(t) ==
  /\ Len(stack[t]) = 1 /\ Top(t).todo = <<>>
  /\ stack' = [stack EXCEPT ![t] = <<>>]
  /\ up' = (up \/ t = "main")
  /\ used' = used \cup {<<Top(t).builder, e[1], e[2]>> : e \in Top(t).got}
  /\ UNCHANGED <<settings, cache, serial, doubled, requests, restarts>>

\* The server process ends, and another one is started.
Restart ==
  /\ restarts < MaxRestarts
  /\ restarts' = restarts + 1
  /\ up' = FALSE
  /\ cache' = [cache EXCEPT !["server"] = [b \in Cached |-> NoObject]]
  /\ stack' = [t \in Line |-> IF ProcessOf(t) = "server" THEN <<>> ELSE stack[t]]
  /\ used' = {e \in used : e[3][1] # "server"}
  /\ doubled' = doubled \ {"server"}
  /\ serial' = [serial EXCEPT !["server"] = 0]
  /\ UNCHANGED <<settings, requests>>

WiringNext ==
  \/ StartUp
  \/ \E t \in Thread, r \in Asked : Serve(t, r)
  \/ Work
  \/ \E t \in Line : Hit(t) \/ Miss(t) \/ Return(t) \/ Raise(t) \/ Finish(t)
  \/ Restart

WiringSpec == WiringInit /\ [][WiringNext]_wiringVars

-----------------------------------------------------------------------------

OneState(p, r) == Cardinality({o \in OwnersOf(UsedBy(Requests, r)) : o[1] = p}) <= 1

\* In one process, and unless a builder ran twice at once, a role that is kept in
\* memory has one state too, but for the vectors: what the admin's upload and the
\* scan write into is one store, what the chat and the agents search is another.
BuiltOnce ==
  \A p \in Process, r \in Role \ {"vectors"} :
    p \notin doubled => OneState(p, r)

\* Caches and stacks are well-formed, and a process has one state of each role.
WiringInv == WiringTypeOK /\ BuiltOnce

\* "the scheduled/admin-triggered ingest writes through the same embedder + vector
\* store the live app queries with" (get_ingestion_service).
IngestedIsSearched ==
  \A w \in UsedBy({"ingest", "scan"}, "vectors"),
     r \in UsedBy({"chat", "run", "run_local"}, "vectors") :
    w[3] = r[3]

\* "built once, then cached" (get_ingestion_service, get_blackboard and others), also when
\* two threads come first at once.
AlwaysBuiltOnce == \A p \in Process, r \in Role \ {"vectors"} : OneState(p, r)
=============================================================================
