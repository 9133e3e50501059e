-------------------------------- MODULE Chat --------------------------------
(***************************************************************************)
(* Conversations, their turns and the documents uploaded into them, under  *)
(* concurrent requests of one API process: ChatService, the two            *)
(* conversation stores and the two session-document stores.                *)
(*                                                                         *)
(* Every request is a thread that holds no lock, so each call it makes of  *)
(* a store is a step of its own.  A question or a file is an identity; the *)
(* text of an answer is left out, a turn remembers instead what its        *)
(* question was answered from.  The title of a conversation is left out.   *)
(***************************************************************************)
EXTENDS Naturals, FiniteSets, SequencesExt, Subsequences

CONSTANTS Conversation,  \* ids given out by create; uuids, so never reused
          Question,      \* the questions clients may ask, each once
          File,          \* the files clients may upload, each once
          Request,       \* the threads that serve requests
          HistoryLimit,  \* turns of context loaded for a question
          None

ASSUME ChatAssumption ==
    /\ HistoryLimit \in Nat \ {0}
    /\ Question \cap File = {} /\ Conversation \cap (Question \cup File) = {}
    /\ None \notin Conversation \cup Question \cup File

VARIABLES
    postgres, \* whether DATABASE_URL is set: turns survive a restart
    redis,    \* whether REDIS_URL is set: uploads survive a restart
    used,     \* the identities used so far
    live,     \* the conversations the store knows
    turns,    \* the stored turns of each conversation, in the order of seq
    docs,     \* the searchable uploads of each conversation
    task,     \* what each thread is doing
    told,     \* what clients were told is done: answers, uploads
    lost,     \* what was removed, by a delete, an expiry or a restart
    closed    \* the conversations deleted while nobody wrote to them

vars == <<postgres, redis, used, live, turns, docs, task, told, lost, closed>>
wiring == <<postgres, redis>>

\* A thread without a request.  Of a request: known is what its client was told
\* before, seen the loaded history, searched the uploads looked at; fit says of an
\* upload that its session object is still the session, and of a delete that
\* nobody else writes.
Free == [at |-> "free", conv |-> None, item |-> None, known |-> {},
         seen |-> <<>>, searched |-> {}, fit |-> FALSE]

Init ==
    /\ postgres \in BOOLEAN /\ redis \in BOOLEAN
    /\ used = {} /\ live = {} /\ lost = {} /\ closed = {}
    /\ turns = [c \in Conversation |-> <<>>]
    /\ docs = [c \in Conversation |-> {}]
    /\ told = [c \in Conversation |-> {}]
    /\ task = [r \in Request |-> Free]

-----------------------------------------------------------------------------
(* Helpers *)

\* A request for a conversation that is missing, or of another user, is
\* refused before it does anything.
RequireOwned(c) == c \in live

\* A request is accepted.
Accept(r, c, at, item) ==
    /\ task[r] = Free
    /\ RequireOwned(c)
    /\ task' = [task EXCEPT ![r] = [Free EXCEPT !.at = at, !.conv = c,
                                    !.item = item, !.known = told[c]]]

At(r, at) == task[r].at = at

Goto(r, at) == task' = [task EXCEPT ![r].at = at]

Return(r) == task' = [task EXCEPT ![r] = Free]

Committed(ts) == Picked(ts, {i \in DOMAIN ts : ts[i].committed})

Questions(ts) == [i \in DOMAIN ts |-> ts[i].question]

\* What a connection that is closed without a commit leaves of its insert.
RolledBack(ts, q) ==
    Picked(ts, {i \in DOMAIN ts : ts[i].committed \/ ts[i].question # q})

\* Mutated: the newest turn first.
NewestFirst(s) ==
    Reverse(SubSeq(s, IF Len(s) > HistoryLimit THEN Len(s) - HistoryLimit + 1 ELSE 1, Len(s)))

\* The last turns, oldest first: turns[-limit:] in memory, the inner ORDER BY
\* seq DESC LIMIT and the outer ORDER BY seq in Postgres.
Window(s) ==
    SubSeq(s, IF Len(s) > HistoryLimit THEN Len(s) - HistoryLimit + 1 ELSE 1, Len(s))

-----------------------------------------------------------------------------
(* Conversations *)

Create ==
    \E c \in Conversation \ used :
        /\ used' = used \cup {c}
        /\ live' = live \cup {c}
        /\ UNCHANGED <<wiring, turns, docs, task, told, lost, closed>>

Rename(r, c) ==
    /\ Accept(r, c, "rename", None)
    /\ UNCHANGED <<wiring, used, live, turns, docs, told, lost, closed>>

\* The update of Postgres is one statement and does not create a row; in memory
\* the conversation is looked up first, and stored anew in the next step.
RenameStore(r) ==
    /\ At(r, "rename")
    /\ IF postgres \/ task[r].conv \notin live THEN Return(r) ELSE Goto(r, "retitle")
    /\ UNCHANGED <<wiring, used, live, turns, docs, told, lost, closed>>

Retitle(r) ==
    /\ At(r, "retitle")
    /\ live' = live \cup {task[r].conv}
    /\ Return(r)
    /\ UNCHANGED <<wiring, used, turns, docs, told, lost, closed>>

Delete(r, c) ==
    /\ Accept(r, c, "delete", None)
    /\ UNCHANGED <<wiring, used, live, turns, docs, told, lost, closed>>

\* Requests that write to c without asking again whether it exists.  A session
\* object of the in-memory store that was opened before is dropped with it; a
\* key of Redis is written again.
WillWrite(c) ==
    {r \in Request :
        /\ task[r].conv = c
        /\ task[r].at \in {"history", "retrieve", "broaden", "generate", "grounded",
                           "commit", "open", "retitle"}
                          \cup (IF redis THEN {"index"} ELSE {})}

\* One transaction, or two pops between which nothing is added that the second
\* leaves: the conversation and its visible turns go together.
StoreDelete(r) ==
    LET c == task[r].conv IN
    /\ At(r, "delete")
    /\ live' = live \ {c}
    /\ turns' = [turns EXCEPT ![c] = Picked(@, {i \in DOMAIN @ : ~@[i].committed})]
    /\ lost' = lost \cup ToSet(Questions(Committed(turns[c])))
    /\ task' = [task EXCEPT ![r].at = "clear", ![r].fit = WillWrite(c) = {}]
    /\ UNCHANGED <<wiring, used, docs, told, closed>>

\* The session documents are dropped in a call of its own; an upload that holds
\* the in-memory object of the session keeps writing into an object nobody sees.
Clear(r) ==
    LET c == task[r].conv IN
    /\ At(r, "clear")
    /\ docs' = [docs EXCEPT ![c] = {}]
    /\ lost' = lost \cup docs[c]
    /\ closed' = IF task[r].fit THEN closed \cup {c} ELSE closed
    /\ task' = [s \in Request |->
                    IF s = r THEN Free
                    ELSE IF task[s].conv = c /\ task[s].at = "index"
                    THEN [task[s] EXCEPT !.fit = redis] ELSE task[s]]
    /\ UNCHANGED <<wiring, used, live, turns, told>>

-----------------------------------------------------------------------------
(* A question: post_message and stream_message *)

Ask(r, c) ==
    \E q \in Question \ used :
        /\ Accept(r, c, "load", q)
        /\ used' = used \cup {q}
        /\ UNCHANGED <<wiring, live, turns, docs, told, lost, closed>>

\* Mutated: the service takes the route's word that the conversation exists.
LoadUnchecked(r) ==
    /\ At(r, "load")
    /\ Goto(r, "history")
    /\ UNCHANGED <<wiring, used, live, turns, docs, told, lost, closed>>

\* The service asks again whether the conversation exists.
LoadConversation(r) ==
    /\ At(r, "load")
    /\ IF task[r].conv \in live THEN Goto(r, "history") ELSE Return(r)
    /\ UNCHANGED <<wiring, used, live, turns, docs, told, lost, closed>>

\* The route decides whether the answer needs retrieval; a plain answer and one
\* by planning do not look at the uploads.
LoadHistory(r) ==
    /\ At(r, "history")
    /\ \E at \in {"retrieve", "generate"} :
           task' = [task EXCEPT ![r].at = at,
                                ![r].seen = Window(Questions(Committed(turns[task[r].conv])))]
    /\ UNCHANGED <<wiring, used, live, turns, docs, told, lost, closed>>

\* A search whose filter left nothing is repeated once without the filter.
Retrieve(r) ==
    /\ \/ At(r, "retrieve") /\ \E at \in {"broaden", "grounded"} :
              task' = [task EXCEPT ![r].at = at, ![r].searched = docs[task[r].conv]]
       \/ At(r, "broaden") /\
              task' = [task EXCEPT ![r].at = "grounded", ![r].searched = docs[task[r].conv]]
    /\ UNCHANGED <<wiring, used, live, turns, docs, told, lost, closed>>

\* Mutated: the turn is written after the history it was answered from.
PersistAfterSeen(r) ==
    LET c == task[r].conv IN
    /\ task[r].at \in {"generate", "grounded"}
    /\ turns' = [turns EXCEPT ![c] =
                    Append(Picked(@, {i \in DOMAIN @ : @[i].question \in ToSet(task[r].seen)}),
                           [question |-> task[r].item, seen |-> task[r].seen,
                            committed |-> ~postgres])]
    /\ Goto(r, IF postgres THEN "commit" ELSE "end")
    /\ UNCHANGED <<wiring, used, live, docs, told, lost, closed>>

\* The answer is streamed, then the turn is appended, whatever became of the
\* conversation.  Postgres gives the row its seq before it is committed.
Persist(r) ==
    LET c == task[r].conv IN
    /\ task[r].at \in {"generate", "grounded"}
    /\ turns' = [turns EXCEPT ![c] =
                    Append(@, [question |-> task[r].item, seen |-> task[r].seen,
                               committed |-> ~postgres])]
    /\ Goto(r, IF postgres THEN "commit" ELSE "end")
    /\ UNCHANGED <<wiring, used, live, docs, told, lost, closed>>

Commit(r) ==
    LET c  == task[r].conv
        ts == turns[c] IN
    /\ At(r, "commit")
    /\ turns' = [turns EXCEPT ![c] = [i \in DOMAIN ts |-> [ts[i] EXCEPT !.committed =
                    ts[i].committed \/ ts[i].question = task[r].item]]]
    /\ Goto(r, "end")
    /\ UNCHANGED <<wiring, used, live, docs, told, lost, closed>>

\* The last event reaches the client, or the upload is acknowledged.
End(r) ==
    /\ At(r, "end")
    /\ told' = [told EXCEPT ![task[r].conv] = @ \cup {task[r].item}]
    /\ Return(r)
    /\ UNCHANGED <<wiring, used, live, turns, docs, lost, closed>>

-----------------------------------------------------------------------------
(* An upload into a conversation *)

Upload(r, c) ==
    \E f \in File \ used :
        /\ Accept(r, c, "open", f)
        /\ used' = used \cup {f}
        /\ UNCHANGED <<wiring, live, turns, docs, told, lost, closed>>

\* The session is opened before the chunks are embedded and stored.
OpenSession(r) ==
    /\ At(r, "open")
    /\ task' = [task EXCEPT ![r].at = "index", ![r].fit = TRUE]
    /\ UNCHANGED <<wiring, used, live, turns, docs, told, lost, closed>>

\* Stored, or stored in an object that is no longer the session.
Index(r) ==
    LET c == task[r].conv IN
    /\ At(r, "index")
    /\ IF task[r].fit
       THEN docs' = [docs EXCEPT ![c] = @ \cup {task[r].item}] /\ lost' = lost
       ELSE lost' = lost \cup {task[r].item} /\ docs' = docs
    /\ Goto(r, "end")
    /\ UNCHANGED <<wiring, used, live, turns, told, closed>>

-----------------------------------------------------------------------------
(* What goes wrong *)

\* A call raises, or the client of a stream is gone: the request ends here.
Abort(r) ==
    /\ task[r] # Free
    /\ turns' = IF At(r, "commit")
                THEN [turns EXCEPT ![task[r].conv] = RolledBack(@, task[r].item)] ELSE turns
    /\ Return(r)
    /\ UNCHANGED <<wiring, used, live, docs, told, lost, closed>>

\* The key of an idle session runs out of its time to live.
Expire(c) ==
    /\ redis /\ docs[c] # {}
    /\ docs' = [docs EXCEPT ![c] = {}]
    /\ lost' = lost \cup docs[c]
    /\ UNCHANGED <<wiring, used, live, turns, task, told, closed>>

\* The process is started again over what its stores keep.
Restart ==
    LET goneTurns == IF postgres THEN {} ELSE
                     UNION {ToSet(Questions(turns[c])) : c \in Conversation}
        goneDocs  == IF redis THEN {} ELSE UNION {docs[c] : c \in Conversation}
    IN
    /\ task' = [r \in Request |-> Free]
    /\ live' = IF postgres THEN live ELSE {}
    /\ turns' = [c \in Conversation |-> IF postgres THEN Committed(turns[c]) ELSE <<>>]
    /\ docs' = [c \in Conversation |-> docs[c] \ goneDocs]
    /\ lost' = lost \cup goneTurns \cup goneDocs
    /\ UNCHANGED <<wiring, used, told, closed>>

Next ==
    \/ Create \/ Restart
    \/ \E c \in Conversation : Expire(c)
    \/ \E r \in Request :
        \/ \E c \in Conversation : Rename(r, c) \/ Delete(r, c) \/ Ask(r, c) \/ Upload(r, c)
        \/ RenameStore(r) \/ Retitle(r) \/ StoreDelete(r) \/ Clear(r)
        \/ LoadConversation(r) \/ LoadHistory(r) \/ Retrieve(r)
        \/ Persist(r) \/ Commit(r) \/ End(r)
        \/ OpenSession(r) \/ Index(r)
        \/ Abort(r)

Spec == Init /\ [][Next]_vars

-----------------------------------------------------------------------------
(* Properties *)

Steps == {"free", "rename", "retitle", "delete", "clear", "load", "history", "retrieve",
          "broaden", "generate", "grounded", "commit", "end", "open", "index"}

\* The variables have their types, no context is longer than the limit, no turn
\* is stored twice, and a row without a commit belongs to a request that is about
\* to commit it: append and history of the stores.
TypeOK ==
    /\ postgres \in BOOLEAN /\ redis \in BOOLEAN
    /\ used \subseteq Conversation \cup Question \cup File
    /\ live \subseteq used \cap Conversation
    /\ closed \subseteq Conversation
    /\ docs \in [Conversation -> SUBSET File]
    /\ told \in [Conversation -> SUBSET (Question \cup File)]
    /\ lost \subseteq used
    /\ task \in [Request ->
           [at : Steps, conv : Conversation \cup {None},
            item : Question \cup File \cup {None}, known : SUBSET (Question \cup File),
            seen : BoundedSeq(Question, HistoryLimit), searched : SUBSET File, fit : BOOLEAN]]
    /\ \A c \in Conversation :
           /\ turns[c] \in Seq([question : Question, seen : BoundedSeq(Question, HistoryLimit),
                                committed : BOOLEAN])
           /\ IsInjective(Questions(turns[c]))
           /\ \A i \in DOMAIN turns[c] :
                  turns[c][i].committed \/ \E r \in Request :
                      At(r, "commit") /\ task[r].item = turns[c][i].question

\* The position of a stored turn.
Place(c, q) == CHOOSE i \in DOMAIN turns[c] : turns[c][i].question = q

Stored(c) == ToSet(Questions(turns[c]))

\* A client that was told its question is answered, or its file uploaded, and then
\* asks in the same conversation gets an answer that knows of it: the turn is in the
\* loaded history or older than all of it, and a search looks at the file, unless it
\* was removed meanwhile.  The turn is persisted before the final event, and appends
\* of concurrent requests do not undo each other.
ReadYourWrites ==
    \A r \in Request : LET t == task[r] IN
        /\ t.at \in {"retrieve", "broaden", "generate", "grounded"} =>
               \A q \in (t.known \cap Question) \ lost :
                   \/ q \in ToSet(t.seen)
                   \/ /\ Len(t.seen) = HistoryLimit
                      /\ q \in Stored(t.conv)
                      /\ \A p \in ToSet(t.seen) \ lost : Place(t.conv, q) < Place(t.conv, p)
        /\ t.at \in {"broaden", "grounded"} => t.known \cap File \subseteq t.searched \cup lost

\* What a question was answered from are turns before its own, oldest first; in
\* memory they also follow each other without a gap.  In Postgres a turn that got
\* its seq first and was committed last may be missing between them.
HistoryIsPast ==
    \A c \in Conversation : \A i \in DOMAIN turns[c] :
        LET all  == turns[c][i].seen
            seen == Picked(all, {j \in DOMAIN all : all[j] \notin lost}) IN
        /\ \A j \in DOMAIN seen : seen[j] \in Stored(c) /\ Place(c, seen[j]) < i
        /\ \A j \in 1 .. Len(seen) - 1 :
               /\ Place(c, seen[j]) < Place(c, seen[j + 1])
               /\ ~postgres => Place(c, seen[j + 1]) = Place(c, seen[j]) + 1

\* Turns and requests are well-formed, and contexts are of the past.
ChatInv == TypeOK /\ HistoryIsPast

\* Nothing remains of a conversation that was deleted when no request was past its
\* last check that the conversation exists, and nothing comes back: neither a
\* request that was accepted before nor a restart stores a turn or an upload in it.
\* delete_conversation promises this of every delete, which is DeletedIsEmpty.
ClosedIsEmpty ==
    \A c \in closed : c \notin live /\ turns[c] = <<>> /\ docs[c] = {}

\* "Delete a conversation, its turns, and any documents uploaded into it"
\* (delete_conversation): where conversations survive a restart, nothing remains of one
\* that is gone once its requests are over, whichever ran beside the delete.
DeletedIsEmpty ==
    \A c \in Conversation :
        postgres /\ c \notin live /\ (\A r \in Request : task[r].conv # c) =>
            turns[c] = <<>> /\ docs[c] = {}
=============================================================================
