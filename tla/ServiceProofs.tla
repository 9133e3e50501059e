----------------------------- MODULE ServiceProofs -----------------------------
(***************************************************************************)
(* The safety of the parts of the API process around its core, for any     *)
(* clients, admins, files and bounds: accounts and tokens, the scheduler,  *)
(* the upload page with its route, and the wiring of the process.  The     *)
(* parts share no state.                                                   *)
(***************************************************************************)
EXTENDS Accounts, Scheduler, AdminUpload, Wiring, SequenceTheorems, FiniteSetTheorems, TLAPS
-----------------------------------------------------------------------------
(* Accounts: registration and tokens.                                          *)

-----------------------------------------------------------------------------
(* The inductive invariant. *)

\* Ids are given once and never again, so a lost account's tokens lead nowhere.
IdsAreFresh ==
  /\ \A u \in users : 0 < u.id /\ u.id < nextId
  /\ \A u, v \in users : u.id = v.id => u = v
  /\ \A t \in tokens : t.sub < nextId

\* An address leads to an account of its own, on Postgres to the only one.
AddressesLead ==
  /\ \A e \in Email : byEmail[e] # 0 => \E u \in users : u.id = byEmail[e] /\ u.email = e
  /\ \A u \in users : byEmail[u.email] # 0
  /\ postgres => \A u \in users : byEmail[u.email] = u.id

\* Two registrations of one address are known to race, and one that does not has
\* the address for itself until its insert.
RacesAreKnown ==
  /\ \A c, d \in Client :
       c # d /\ req[c] # NoRequest /\ req[d] # NoRequest /\ req[c].email = req[d].email =>
         req[c].email \in raced
  /\ \A c \in Client :
       req[c] # NoRequest /\ req[c].email \notin raced => byEmail[req[c].email] = 0

\* Who was told has an account, and the address leads to it but for races.
ToldIsKept ==
  \A u \in told :
    /\ u \in users
    /\ postgres \/ u.email \notin raced => byEmail[u.email] = u.id

AccountsIInv ==
  /\ AccountsTypeOK
  /\ IdsAreFresh
  /\ AddressesLead
  /\ RacesAreKnown
  /\ ToldIsKept
  /\ TokenIsTheirs

USE AccountsAssumption

LEMMA AccountsInitEstablishes == AccountsInit => AccountsIInv
BY DEF AccountsInit, AccountsIInv, AccountsTypeOK, IdsAreFresh, AddressesLead, RacesAreKnown,
       ToldIsKept,
  TokenIsTheirs

LEMMA RegisterKeeps ==
  ASSUME AccountsIInv, NEW c \in Client, NEW a \in Address, NEW p \in Password, Register(c, a, p)
  PROVE  AccountsIInv'
<1> USE DEF AccountsIInv
<1>1. Canon[a] \in Email
  BY DEF Email
<1>2. AccountsTypeOK'
  BY <1>1 DEF AccountsTypeOK, Register
<1>3. IdsAreFresh' /\ AddressesLead' /\ TokenIsTheirs'
  BY DEF Register, IdsAreFresh, AddressesLead, TokenIsTheirs, Identified
<1>4. RacesAreKnown'
  <2>1. req'[c] = [email |-> Canon[a], password |-> p] /\ \A d \in Client \ {c} : req'[d] = req[d]
    BY DEF Register, AccountsTypeOK
  <2>2. byEmail' = byEmail /\ byEmail[Canon[a]] = 0 /\ raced \subseteq raced'
    BY DEF Register
  <2>3. \A d \in Client \ {c} : req[d] # NoRequest /\ req[d].email = Canon[a] => Canon[a] \in raced'
    BY DEF Register
  <2> QED
    BY <2>1, <2>2, <2>3 DEF RacesAreKnown
<1>5. ToldIsKept'
  BY DEF Register, ToldIsKept
<1> QED
  BY <1>2, <1>3, <1>4, <1>5

LEMMA CreateKeeps ==
  ASSUME AccountsIInv, NEW c \in Client, Create(c)
  PROVE  AccountsIInv'
<1> USE DEF AccountsIInv
<1> DEFINE e == req[c].email
           new == [id |-> nextId, email |-> e, password |-> req[c].password]
<1>1. e \in Email /\ req[c].password \in Password
  BY DEF Create, AccountsTypeOK
<1>2. nextId \in Nat \ {0} /\ nextId <= MaxAccounts
  BY DEF Create, AccountsTypeOK
<1>3. new \in Accounts /\ new.id = nextId /\ new.email = e
  BY <1>1, <1>2 DEF Accounts
<1> HIDE DEF new
<1>4. /\ users' = users \cup {new}
      /\ byEmail'[e] = nextId
      /\ \A f \in Email \ {e} : byEmail'[f] = byEmail[f]
      /\ byEmail' \in [Email -> 0 .. MaxAccounts]
      /\ nextId' = nextId + 1
      /\ req'[c] = NoRequest /\ \A d \in Client \ {c} : req'[d] = req[d]
      /\ tokens' = tokens \cup {Minted(new)}
      /\ told' = told \cup {new}
      /\ UNCHANGED <<postgres, raced>>
      /\ postgres => byEmail[e] = 0
  BY <1>1, <1>2, <1>3 DEF Create, Answer, AccountsTypeOK, new
<1>5. \A u \in users : u \in Accounts /\ u.id \in Nat /\ u.id < nextId /\ u.email \in Email
  BY DEF AccountsTypeOK, IdsAreFresh, Accounts
<1>6. Minted(new) = [sub |-> nextId, email |-> e]
  BY <1>3 DEF Minted
<1>7. AccountsTypeOK'
  <2>1. req' \in [Client -> {NoRequest} \cup [email : Email, password : Password]]
    BY DEF Create, Answer, AccountsTypeOK
  <2>2. nextId' \in 1 .. MaxAccounts + 1
    BY <1>2, <1>4
  <2>3. tokens' \subseteq [sub : Nat, email : Email]
    BY <1>1, <1>2, <1>4, <1>6 DEF AccountsTypeOK
  <2> QED
    BY <1>3, <1>4, <2>1, <2>2, <2>3 DEF AccountsTypeOK
<1>8. IdsAreFresh'
  <2>1. \A u \in users' : 0 < u.id /\ u.id < nextId'
    BY <1>2, <1>3, <1>4, <1>5 DEF IdsAreFresh
  <2>2. \A u, v \in users' : u.id = v.id => u = v
    BY <1>2, <1>3, <1>4, <1>5 DEF IdsAreFresh
  <2>3. \A t \in tokens' : t.sub < nextId'
    <3>1. \A t \in tokens : t.sub \in Nat /\ t.sub < nextId
      BY DEF IdsAreFresh, AccountsTypeOK
    <3> QED
      BY <1>2, <1>4, <1>6, <3>1
  <2> QED
    BY <2>1, <2>2, <2>3 DEF IdsAreFresh
<1>9. AddressesLead'
  <2>1. \A f \in Email : byEmail'[f] # 0 => \E u \in users' : u.id = byEmail'[f] /\ u.email = f
    BY <1>3, <1>4 DEF AddressesLead
  <2>2. \A u \in users' : byEmail'[u.email] # 0
    BY <1>2, <1>3, <1>4, <1>5 DEF AddressesLead
  <2>3. postgres' => \A u \in users' : byEmail'[u.email] = u.id
    BY <1>3, <1>4, <1>5 DEF AddressesLead
  <2> QED
    BY <2>1, <2>2, <2>3 DEF AddressesLead
<1>10. RacesAreKnown'
  <2>1. \A d \in Client : req[d] # NoRequest => req[d].email \in Email
    BY DEF AccountsTypeOK
  <2>2. \A d \in Client \ {c} :
          req[d] # NoRequest /\ req[d].email \notin raced => req[d].email # e
    BY DEF RacesAreKnown, Create
  <2> QED
    BY <1>4, <2>1, <2>2 DEF RacesAreKnown
<1>11. ToldIsKept'
  <2>1. ASSUME NEW u \in told, postgres \/ u.email \notin raced PROVE byEmail'[u.email] = u.id
    <3>1. u \in users /\ byEmail[u.email] = u.id /\ u.email \in Email
      BY <1>5, <2>1 DEF ToldIsKept
    <3>2. byEmail[u.email] # 0
      BY <3>1 DEF AddressesLead
    <3>3. u.email # e
      BY <1>4, <2>1, <3>2 DEF RacesAreKnown, Create
    <3> QED
      BY <1>4, <3>1, <3>3
  <2> QED
    BY <1>3, <1>4, <2>1 DEF ToldIsKept
<1>12. TokenIsTheirs'
  <2>1. ASSUME NEW t \in tokens
        PROVE  (\A u \in Identified(t)' : u.email = t.email) /\ (postgres => Identified(t)' # {})
    <3>1. Identified(t)' = Identified(t)
      BY <1>3, <1>4 DEF Identified, IdsAreFresh, AccountsTypeOK
    <3> QED
      BY <3>1 DEF TokenIsTheirs
  <2>2. ASSUME NEW t, t.sub = nextId, t.email = e
        PROVE  (\A u \in Identified(t)' : u.email = t.email) /\ Identified(t)' # {}
    <3>1. \A u \in users : u.id # nextId
      BY <1>2, <1>5
    <3>2. Identified(t)' = {u \in users \cup {new} : u.id = nextId}
      BY <1>4, <2>2 DEF Identified
    <3>3. Identified(t)' = {new}
      BY <1>3, <3>1, <3>2
    <3> QED
      BY <1>3, <2>2, <3>3
  <2>3. \A t \in tokens' : t \in tokens \/ (t.sub = nextId /\ t.email = e)
    BY <1>4, <1>6
  <2> QED
    BY <1>4, <2>1, <2>2, <2>3 DEF TokenIsTheirs
<1> QED
  BY <1>7, <1>8, <1>9, <1>10, <1>11, <1>12

\* A login hands out a token of the account it found.
LEMMA LoginKeeps ==
  ASSUME AccountsIInv, NEW a \in Address, NEW p \in Password, Login(a, p)
  PROVE  AccountsIInv'
<1> USE DEF AccountsIInv
<1>1. PICK u \in users : tokens' = tokens \cup {Minted(u)}
  BY DEF Login, Authenticated
<1>2. UNCHANGED <<postgres, users, byEmail, nextId, req, told, raced>>
  BY DEF Login
<1>3. u \in Accounts /\ u.id < nextId
  BY DEF AccountsTypeOK, IdsAreFresh
<1>4. Minted(u) = [sub |-> u.id, email |-> u.email]
  BY DEF Minted
<1>5. AccountsTypeOK'
  BY <1>1, <1>2, <1>3, <1>4 DEF AccountsTypeOK, Accounts
<1>6. IdsAreFresh' /\ AddressesLead' /\ RacesAreKnown' /\ ToldIsKept'
  BY <1>1, <1>2, <1>3, <1>4 DEF IdsAreFresh, AddressesLead, RacesAreKnown, ToldIsKept
<1>7. TokenIsTheirs'
  <2>1. \A v \in Identified(Minted(u)) : v = u
    BY <1>4 DEF Identified, IdsAreFresh
  <2>2. u \in Identified(Minted(u))
    BY <1>4 DEF Identified
  <2> QED
    BY <1>1, <1>2, <1>4, <2>1, <2>2 DEF TokenIsTheirs, Identified
<1> QED
  BY <1>5, <1>6, <1>7

\* Every step keeps the invariant.
LEMMA AccountsStepKeeps == AccountsIInv /\ [AccountsNext]_accountVars => AccountsIInv'
<1> SUFFICES ASSUME AccountsIInv, [AccountsNext]_accountVars PROVE AccountsIInv'
  OBVIOUS
<1> USE DEF AccountsIInv, AccountsTypeOK, IdsAreFresh, AddressesLead, RacesAreKnown, ToldIsKept,
  TokenIsTheirs, Identified
<1>1. ASSUME NEW c \in Client, CreateFails(c) PROVE AccountsIInv'
  BY <1>1 DEF CreateFails
<1>2. ASSUME NEW t \in tokens, ExpireToken(t) PROVE AccountsIInv'
  BY <1>2 DEF ExpireToken
<1>3. CASE RestartServer
  BY <1>3 DEF RestartServer
<1>4. CASE UNCHANGED accountVars
  BY <1>4 DEF accountVars
<1> QED
  BY <1>1, <1>2, <1>3, <1>4, RegisterKeeps, CreateKeeps, LoginKeeps DEF AccountsNext

-----------------------------------------------------------------------------

\* Who registered logs into that account, and a token leads to its own account or
\* to none.
THEOREM AccountsAreSafe == AccountsSpec => []AccountsInv
<1>1. AccountsIInv => AccountsInv
  <2> SUFFICES ASSUME AccountsIInv, NEW u \in told, postgres \/ u.email \notin raced
               PROVE  Authenticated(u.email, u.password) = {u}
    BY DEF AccountsIInv, AccountsInv, RegisteredLogsIn
  <2>1. u \in users /\ byEmail[u.email] = u.id
    BY DEF AccountsIInv, ToldIsKept
  <2> QED
    BY <2>1 DEF AccountsIInv, IdsAreFresh, Authenticated
<1> QED
  BY AccountsInitEstablishes, AccountsStepKeeps, <1>1, PTL DEF AccountsSpec
-----------------------------------------------------------------------------
(* The scheduler.                                                              *)

-----------------------------------------------------------------------------
(* The inductive invariant. *)

Scanning == {"path", "scan", "record"}

\* A switch that is on, and a tick that read it on, have not been overrun.
OffIsFresh ==
  /\ config.enabled => offStarts = 0
  /\ run["loop"] \in {"acquire", "path"} => offStarts = 0

\* A scan under way saw the folder no earlier than the last recorded one.
SeenIsRecent ==
  /\ recorded <= folder
  /\ \A c \in Caller : seen[c] <= folder
  /\ \A c \in Caller : run[c] \in {"scan", "record"} => seen[c] >= recorded

SchedulerIInv ==
  /\ SchedulerTypeOK
  /\ OneScanAtATime
  /\ OffMeansOff
  /\ OffIsFresh
  /\ SeenIsRecent

USE SchedulerAssumption DEF Caller, Configs, AtRun, Up

\* The first state is well-formed.
LEMMA SchedulerInitEstablishes == SchedulerInit => SchedulerIInv
  BY DEF SchedulerInit, SchedulerIInv, SchedulerTypeOK, OneScanAtATime, OffMeansOff, OffIsFresh,
         SeenIsRecent

\* The loop's own steps: they begin a run only with the switch on, and end none.
LEMMA LoopKeeps == SchedulerIInv /\ LoopStep => SchedulerIInv'
<1> SUFFICES ASSUME SchedulerIInv, LoopStep PROVE SchedulerIInv'
  OBVIOUS
<1> USE DEF SchedulerIInv, SchedulerTypeOK, OneScanAtATime, OffMeansOff, OffIsFresh, SeenIsRecent
<1>1. CASE Wake
  BY <1>1 DEF Wake
<1>2. CASE Tick
  BY <1>2 DEF Tick, Wanted, Caller
<1>3. CASE Stamp
  BY <1>3 DEF Stamp
<1> QED
  BY <1>1, <1>2, <1>3 DEF LoopStep

\* A caller's way out of run_once gives the lock back, if it had it.
LEMMA CallKeeps ==
  ASSUME SchedulerIInv, NEW c \in Caller, RunStep(c) \/ RunRaises(c) \/ RunNow(c)
  PROVE  SchedulerIInv'
<1> USE DEF SchedulerIInv, SchedulerTypeOK, OneScanAtATime, OffMeansOff, OffIsFresh, SeenIsRecent
<1>1. CASE Acquire(c)
  BY <1>1 DEF Acquire
<1>2. CASE Busy(c)
  BY <1>2 DEF Busy, Leave
<1>3. CASE BeginScan(c)
  BY <1>3 DEF BeginScan
<1>4. CASE BadPath(c)
  BY <1>4 DEF BadPath, Leave
<1>5. CASE EndScan(c)
  BY <1>5 DEF EndScan
<1>6. CASE Record(c)
  BY <1>6 DEF Record, Leave
<1>7. CASE RunRaises(c)
  BY <1>7 DEF RunRaises, Leave
<1>8. CASE RunNow(c)
  BY <1>8 DEF RunNow
<1> QED
  BY <1>1, <1>2, <1>3, <1>4, <1>5, <1>6, <1>7, <1>8 DEF RunStep

\* Every step keeps the invariant.
LEMMA SchedulerStepKeeps == SchedulerIInv /\ [SchedulerNext]_schedulerVars => SchedulerIInv'
<1> SUFFICES ASSUME SchedulerIInv, [SchedulerNext]_schedulerVars PROVE SchedulerIInv'
  OBVIOUS
<1> USE DEF SchedulerIInv, SchedulerTypeOK, OneScanAtATime, OffMeansOff, OffIsFresh, SeenIsRecent
<1>1. CASE LoopStep
  BY <1>1, LoopKeeps
<1>2. ASSUME NEW c \in Caller, RunStep(c) \/ RunRaises(c) \/ RunNow(c) PROVE SchedulerIInv'
  BY <1>2, CallKeeps
<1>3. ASSUME NEW new \in Configs, SetConfig(new) PROVE SchedulerIInv'
  BY <1>3 DEF SetConfig
<1>4. CASE FolderChanges
  BY <1>4 DEF FolderChanges
<1>5. CASE Stop
  BY <1>5 DEF Stop
<1>6. CASE NewProcess
  BY <1>6 DEF NewProcess
<1>7. CASE TickRaises
  BY <1>7 DEF TickRaises
<1>8. CASE UNCHANGED schedulerVars
  BY <1>8 DEF schedulerVars
<1> QED
  BY <1>1, <1>2, <1>3, <1>4, <1>5, <1>6, <1>7, <1>8 DEF SchedulerNext

-----------------------------------------------------------------------------

\* Types; one scan at a time and no lock left behind; off means off.
THEOREM SchedulerIsSafe == SchedulerSpec => []SchedulerInv
<1>1. SchedulerIInv => SchedulerInv
  BY DEF SchedulerIInv, SchedulerInv
<1> QED
  BY SchedulerInitEstablishes, SchedulerStepKeeps, <1>1, PTL DEF SchedulerSpec

\* The last run that is shown is never replaced by an older one.
THEOREM LastRunStaysLatest == SchedulerSpec => LastRunIsLatest
<1>1. SchedulerIInv /\ [SchedulerNext]_schedulerVars => [recorded' >= recorded]_schedulerVars
  <2> SUFFICES ASSUME SchedulerIInv, [SchedulerNext]_schedulerVars PROVE recorded' >= recorded
    OBVIOUS
  <2> USE DEF SchedulerIInv, SchedulerTypeOK, SeenIsRecent
  <2>1. ASSUME NEW c \in Caller, Record(c) PROVE recorded' >= recorded
    BY <2>1 DEF Record
  <2>2. CASE UNCHANGED recorded
    BY <2>2
  <2> QED
    BY <2>1, <2>2 DEF SchedulerNext, schedulerVars, LoopStep, Wake, Tick, TickRaises, Stamp,
      RunStep, Acquire, Busy, BeginScan, BadPath, EndScan, RunRaises, RunNow, SetConfig,
      FolderChanges, Stop, NewProcess
<1> QED
  BY SchedulerInitEstablishes, SchedulerStepKeeps, <1>1, PTL DEF SchedulerSpec, LastRunIsLatest
-----------------------------------------------------------------------------
(* The upload page and its route.                                              *)

USE AdminUploadAssumption

-----------------------------------------------------------------------------
(* Lists of files. *)

\* A list is a sequence of bounded length.
LEMMA ListsAreSequences ==
  \A l : l \in Lists <=> l \in Seq(File) /\ Len(l) <= MaxListed
<1>1. ASSUME NEW l \in Lists PROVE l \in Seq(File) /\ Len(l) <= MaxListed
  <2>1. PICK n \in 0 .. MaxListed : l \in [1 .. n -> File]
    BY DEF Lists
  <2> QED
    BY <2>1
<1>2. ASSUME NEW l \in Seq(File), Len(l) <= MaxListed PROVE l \in Lists
  <2>1. Len(l) \in 0 .. MaxListed /\ l \in [1 .. Len(l) -> File]
    BY <1>2, LenProperties
  <2> QED
    BY <2>1 DEF Lists
<1> QED
  BY <1>1, <1>2

LEMMA ManifestsAreSequences ==
  ASSUME NEW m \in Manifests
  PROVE  m \in Seq(Cell)
<1>1. PICK n \in 1 .. MaxListed : m \in [1 .. n -> Cell]
  BY DEF Manifests
<1> QED
  BY <1>1

LEMMA RangeOfList ==
  ASSUME NEW l \in Lists
  PROVE  Range(l) = {l[i] : i \in 1 .. Len(l)}
<1>1. l \in Seq(File) /\ DOMAIN l = 1 .. Len(l)
  BY ListsAreSequences, LenProperties
<1> QED
  BY <1>1, Zenon DEF Range

LEMMA EmptyList == << >> \in Lists
<1>1. << >> \in Seq(File) /\ Len(<< >>) = 0
  BY EmptySeq
<1>2. 0 <= MaxListed
  OBVIOUS
<1> QED
  BY <1>1, <1>2, ListsAreSequences

\* Taking a file off the list leaves a list.
LEMMA RemovedIsList ==
  ASSUME NEW l \in Lists, NEW i \in DOMAIN l
  PROVE  SubSeq(l, 1, i - 1) \o SubSeq(l, i + 1, Len(l)) \in Lists
<1> DEFINE a == SubSeq(l, 1, i - 1)
           b == SubSeq(l, i + 1, Len(l))
<1>1. l \in Seq(File) /\ Len(l) <= MaxListed /\ i \in 1 .. Len(l) /\ Len(l) \in Nat
  BY ListsAreSequences, LenProperties
<1>2. a \in Seq(File) /\ Len(a) = i - 1
  BY <1>1
<1>3. b \in Seq(File) /\ Len(b) = Len(l) - i
  BY <1>1
<1> HIDE DEF a, b
<1>4. a \o b \in Seq(File) /\ Len(a \o b) = Len(a) + Len(b)
  BY <1>2, <1>3, ConcatProperties
<1>5. Len(a) + Len(b) <= MaxListed
  <2> DEFINE n == Len(l)
             m == Len(a) + Len(b)
  <2>1. n \in Nat /\ i \in 1 .. n /\ n <= MaxListed
    BY <1>1
  <2>2. m = (i - 1) + (n - i)
    BY <1>2, <1>3
  <2> HIDE DEF n, m
  <2>3. m = n - 1
    BY <2>1, <2>2
  <2>4. m <= MaxListed
    BY <2>1, <2>3, AdminUploadAssumption
  <2> QED
    BY <2>4 DEF m
<1> QED
  BY <1>4, <1>5, ListsAreSequences DEF a, b

-----------------------------------------------------------------------------
(* Requests. *)

\* The counter of a request, and whether the page waits for it, can change.
LEMMA BatchNext ==
  \A b \in Batches, n \in 1 .. MaxListed + 1 :
    LET c == [b EXCEPT !.next = n]
    IN  c \in Batches /\ c.files = b.files /\ c.manifest = b.manifest /\ c.next = n
BY Zenon DEF Batches

LEMMA BatchWaiting ==
  \A b \in Batches :
    LET c == [b EXCEPT !.waiting = FALSE]
    IN  c \in Batches /\ c.files = b.files /\ c.manifest = b.manifest /\ c.next = b.next
BY Zenon DEF Batches

\* The publisher kept with a file is lower-cased.
Tags == {Blank} \cup {Lower(t) : t \in Typed}

LEMMA LowerIsPublisher ==
  \A t \in Typed : Lower(t) \in Publisher /\ Lower(t).caps = FALSE
<1>1. \A p \in Publisher : [p EXCEPT !.caps = FALSE] \in Publisher
                           /\ [p EXCEPT !.caps = FALSE].caps = FALSE
  BY Zenon DEF Publisher
<1> QED
  BY <1>1, Zenon DEF Lower, Publisher

LEMMA TagIsTag ==
  ASSUME NEW b \in Batches, Valid(b), NEW i \in 1 .. Len(b.files)
  PROVE  Tag(b, i) \in Tags
<1> DEFINE cell == IF b.manifest = NoManifest THEN Blank ELSE b.manifest[i]
           tag == IF cell = Blank THEN b.default ELSE cell
<1>1. b.default \in Cell /\ (b.manifest # NoManifest => b.manifest \in Seq(Cell))
  BY ManifestsAreSequences DEF Batches
<1>2. cell \in Cell
  <2>1. CASE b.manifest = NoManifest
    BY <2>1 DEF Cell
  <2>2. CASE b.manifest # NoManifest
    BY <1>1, <2>2, ElementOfSeq DEF Valid
  <2> QED
    BY <2>1, <2>2
<1>3. tag \in Cell
  BY <1>1, <1>2
<1>4. Tag(b, i) = IF tag = Blank THEN Blank ELSE Lower(tag)
  BY DEF Tag
<1> QED
  BY <1>3, <1>4 DEF Tags, Cell

-----------------------------------------------------------------------------
(* The inductive invariant. *)

\* What is stored carries a lower-cased publisher.
StoreIsLower == \A e \in store : e[2] \in Tags

\* A request has stored the files before the one at hand.
StoredSoFar(b, S) ==
  \A i \in 1 .. Len(b.files) : i < b.next => \E e \in S : e[1] = b.files[i]

RequestsStore ==
  \A s \in Slot : batch[s] # NoBatch =>
    StoredSoFar(batch[s], store) /\ (batch[s].next > 1 => Valid(batch[s]))

UploadIInv == UploadTypeOK /\ StoreIsLower /\ RequestsStore

LEMMA UploadInitEstablishes == UploadInit => UploadIInv
BY EmptyList DEF UploadInit, UploadIInv, UploadTypeOK, StoreIsLower, RequestsStore

\* What is stored of a request stays stored.
LEMMA StoreGrows ==
  ASSUME store \subseteq store', NEW b, StoredSoFar(b, store)
  PROVE  StoredSoFar(b, store')
BY DEF StoredSoFar

\* A request that begins or goes on.
LEMMA OneRequest ==
  ASSUME batch \in [Slot -> Batches \cup {NoBatch}], RequestsStore, store \subseteq store',
         NEW s \in Slot, NEW b \in Batches \cup {NoBatch}, batch' = [batch EXCEPT ![s] = b],
         b # NoBatch => StoredSoFar(b, store') /\ (b.next > 1 => Valid(b))
  PROVE  batch' \in [Slot -> Batches \cup {NoBatch}] /\ RequestsStore'
<1>1. batch' \in [Slot -> Batches \cup {NoBatch}]
  OBVIOUS
<1>2. ASSUME NEW u \in Slot, batch'[u] # NoBatch
      PROVE  StoredSoFar(batch'[u], store') /\ (batch'[u].next > 1 => Valid(batch'[u]))
  <2>1. CASE u = s
    BY <1>2, <2>1
  <2>2. CASE u # s
    <3>1. batch'[u] = batch[u]
      BY <2>2
    <3>2. StoredSoFar(batch[u], store) /\ (batch[u].next > 1 => Valid(batch[u]))
      BY <1>2, <3>1 DEF RequestsStore
    <3> QED
      BY <3>1, <3>2, StoreGrows
  <2> QED
    BY <2>1, <2>2
<1> QED
  BY <1>1, <1>2 DEF RequestsStore

\* The page, while its requests are left alone.
LEMMA PageKeeps ==
  ASSUME UploadIInv, list' \in Lists, UNCHANGED <<batch, store, presses>>
  PROVE  UploadIInv'
<1>1. RequestsStore'
  BY StoreGrows DEF UploadIInv, RequestsStore
<1> QED
  BY <1>1 DEF UploadIInv, UploadTypeOK, StoreIsLower

LEMMA PressKeeps ==
  ASSUME UploadIInv, NEW s \in Slot, NEW m \in Manifests \cup {NoManifest}, NEW d \in Cell, Press(s, m, d)
  PROVE  UploadIInv'
<1> DEFINE b == [files |-> list, manifest |-> m, default |-> d, next |-> 1, waiting |-> TRUE]
<1>1. b \in Batches /\ b.next = 1
  BY DEF UploadIInv, UploadTypeOK, Batches
<1>2. batch' = [batch EXCEPT ![s] = b] /\ UNCHANGED <<list, store>>
  BY DEF Press
<1>3. StoredSoFar(b, store')
  <2>1. ~ \E i \in 1 .. Len(b.files) : i < b.next
    BY <1>1
  <2> HIDE DEF b
  <2> QED
    BY <2>1 DEF StoredSoFar
<1>4. presses' \in 0 .. MaxPresses
  BY DEF Press, UploadIInv, UploadTypeOK
<1> HIDE DEF b
<1>5. batch' \in [Slot -> Batches \cup {NoBatch}] /\ RequestsStore'
  <2>1. store \subseteq store' /\ ~ (b.next > 1)
    BY <1>1, <1>2
  <2> QED
    BY <1>1, <1>2, <1>3, <2>1, OneRequest DEF UploadIInv, UploadTypeOK
<1> QED
  BY <1>2, <1>4, <1>5 DEF UploadIInv, UploadTypeOK, StoreIsLower

LEMMA LostKeeps ==
  ASSUME UploadIInv, NEW s \in Slot, ConnectionLost(s)
  PROVE  UploadIInv'
<1> DEFINE b == [batch[s] EXCEPT !.waiting = FALSE]
<1>1. batch[s] \in Batches /\ batch[s] # NoBatch
  BY DEF ConnectionLost, UploadIInv, UploadTypeOK
<1>2. b \in Batches /\ b.files = batch[s].files /\ b.manifest = batch[s].manifest
      /\ b.next = batch[s].next
  BY <1>1, BatchWaiting, Zenon
<1>3. batch' = [batch EXCEPT ![s] = b] /\ UNCHANGED <<list, store, presses>>
  BY Zenon DEF ConnectionLost
<1>4. StoredSoFar(batch[s], store) /\ (batch[s].next > 1 => Valid(batch[s]))
  BY <1>1 DEF UploadIInv, RequestsStore
<1> HIDE DEF b
<1>5. StoredSoFar(b, store') /\ (b.next > 1 => Valid(b))
  BY <1>2, <1>3, <1>4 DEF StoredSoFar, Valid
<1> QED
  BY <1>2, <1>3, <1>5, OneRequest DEF UploadIInv, UploadTypeOK, StoreIsLower

\* A request that ends leaves a list and the store to the others.
LEMMA EndKeeps ==
  ASSUME UploadIInv, NEW s \in Slot, batch' = [batch EXCEPT ![s] = NoBatch], list' \in Lists,
         UNCHANGED <<store, presses>>
  PROVE  UploadIInv'
<1>1. batch' \in [Slot -> Batches \cup {NoBatch}] /\ RequestsStore'
  BY OneRequest DEF UploadIInv, UploadTypeOK
<1> QED
  BY <1>1 DEF UploadIInv, UploadTypeOK, StoreIsLower

LEMMA IngestKeeps ==
  ASSUME UploadIInv, NEW s \in Slot, IngestNext(s)
  PROVE  UploadIInv'
<1> DEFINE n == batch[s].next
           f == batch[s].files[n]
           b == [batch[s] EXCEPT !.next = n + 1]
<1>1. /\ batch[s] \in Batches /\ batch[s] # NoBatch /\ Valid(batch[s])
      /\ n <= Len(batch[s].files)
      /\ store' = store \cup {<<f, Tag(batch[s], n)>>} /\ UNCHANGED <<list, presses>>
  BY DEF IngestNext, UploadIInv, UploadTypeOK
<1>2. batch' = [batch EXCEPT ![s] = b]
  BY Zenon DEF IngestNext
<1>3. /\ n \in 1 .. MaxListed + 1 /\ batch[s].files \in Lists
      /\ Len(batch[s].files) \in Nat /\ Len(batch[s].files) <= MaxListed
  <2>1. n \in 1 .. MaxListed + 1 /\ batch[s].files \in Lists
    BY <1>1 DEF Batches
  <2> HIDE DEF n
  <2> QED
    BY <2>1, ListsAreSequences, LenProperties
<1>4. n \in 1 .. Len(batch[s].files) /\ n + 1 \in 1 .. MaxListed + 1
  BY <1>1, <1>3
<1>5. b \in Batches /\ b.files = batch[s].files /\ b.manifest = batch[s].manifest /\ b.next = n + 1
  BY <1>1, <1>4, BatchNext, Zenon
<1>6. Tag(batch[s], n) \in Tags
  BY <1>1, <1>4, TagIsTag
<1>7. f \in Supported
  <2>1. f \in Range(batch[s].files)
    BY <1>3, <1>4, RangeOfList
  <2> QED
    BY <1>1, <2>1 DEF Valid
<1> HIDE DEF b, f
<1>8. StoredSoFar(b, store')
  <2> SUFFICES ASSUME NEW i \in 1 .. Len(b.files), i < b.next
               PROVE  \E e \in store' : e[1] = b.files[i]
    BY DEF StoredSoFar
  <2>1. CASE i < n
    <3>1. \E e \in store : e[1] = batch[s].files[i]
      BY <1>1, <1>5, <2>1 DEF UploadIInv, RequestsStore, StoredSoFar
    <3> QED
      BY <1>1, <1>5, <3>1
  <2>2. CASE i = n
    <3>1. <<f, Tag(batch[s], n)>> \in store' /\ f = b.files[i]
      BY <1>1, <1>5, <2>2 DEF f
    <3> QED
      BY <3>1
  <2>3. i < n \/ i = n
    <3>1. i \in Nat /\ i < n + 1
      BY <1>3, <1>5
    <3> QED
      BY <1>3, <3>1
  <2> QED
    BY <2>1, <2>2, <2>3
<1>9. Valid(b)
  BY <1>1, <1>5 DEF Valid
<1>10. batch' \in [Slot -> Batches \cup {NoBatch}] /\ RequestsStore'
  BY <1>1, <1>2, <1>5, <1>8, <1>9, OneRequest DEF UploadIInv, UploadTypeOK
<1>11. Tags \subseteq Publisher \cup {Blank}
  BY LowerIsPublisher DEF Tags
<1>12. store' \subseteq Supported \X (Publisher \cup {Blank}) /\ StoreIsLower'
  BY <1>1, <1>6, <1>7, <1>11 DEF UploadIInv, UploadTypeOK, StoreIsLower
<1> QED
  BY <1>1, <1>10, <1>12 DEF UploadIInv, UploadTypeOK

LEMMA UploadStepKeeps == UploadIInv /\ [UploadNext]_uploadVars => UploadIInv'
<1> SUFFICES ASSUME UploadIInv, [UploadNext]_uploadVars PROVE UploadIInv'
  OBVIOUS
<1>1. list \in Lists /\ list \in Seq(File) /\ Len(list) <= MaxListed
  BY ListsAreSequences DEF UploadIInv, UploadTypeOK
<1>2. ASSUME NEW f \in File, AddFile(f) PROVE UploadIInv'
  <2>1. list' \in Seq(File) /\ Len(list') <= MaxListed
    BY <1>1, <1>2, AppendProperties, LenProperties DEF AddFile
  <2> QED
    BY <1>2, <2>1, ListsAreSequences, PageKeeps DEF AddFile
<1>3. ASSUME NEW i \in DOMAIN list, MoveDown(i) PROVE UploadIInv'
  <2>1. list' = [list EXCEPT ![i] = list[i + 1], ![i + 1] = list[i]] /\ i < Len(list)
    BY <1>3 DEF MoveDown
  <2>2. list' \in Seq(File) /\ Len(list') = Len(list)
    BY <1>1, <2>1
  <2> QED
    BY <1>1, <1>3, <2>2, ListsAreSequences, PageKeeps DEF MoveDown
<1>4. ASSUME NEW i \in DOMAIN list, RemoveFile(i) PROVE UploadIInv'
  BY <1>1, <1>4, RemovedIsList, PageKeeps DEF RemoveFile
<1>5. ASSUME NEW s \in Slot, Reject(s) \/ IngestRaises(s) PROVE UploadIInv'
  BY <1>1, <1>5, EndKeeps DEF Reject, IngestRaises, AnswerError
<1>6. ASSUME NEW s \in Slot, Succeed(s) PROVE UploadIInv'
  BY <1>1, <1>6, EmptyList, EndKeeps DEF Succeed
<1>7. CASE UNCHANGED uploadVars
  BY <1>1, <1>7, PageKeeps DEF uploadVars
<1> QED
  BY <1>2, <1>3, <1>4, <1>5, <1>6, <1>7, PressKeeps, LostKeeps, IngestKeeps DEF UploadNext

-----------------------------------------------------------------------------
(* The theorems. *)

\* Whatever the admin does to the page while requests are under way, a rejected
\* batch (415, 400) leaves nothing behind, and a publisher filter finds what is
\* stored under its host, however either is typed: UploadInv.
THEOREM UploadIsSafe == UploadSpec => []UploadInv
<1>1. UploadIInv => UploadInv
  <2> SUFFICES ASSUME UploadIInv PROVE UploadInv
    OBVIOUS
  <2>1. BegunIsValid
    BY DEF UploadIInv, RequestsStore, BegunIsValid
  <2>2. FoundByDomain
    <3> SUFFICES ASSUME NEW t \in Typed, NEW e \in store, e[2] # Blank, e[2].host = t.host
                 PROVE  Matches(LikeValue(t), e[2])
      BY DEF FoundByDomain
    <3>1. PICK u \in Typed : e[2] = Lower(u)
      BY DEF UploadIInv, StoreIsLower, Tags
    <3>2. e[2].caps = FALSE
      BY <3>1, LowerIsPublisher
    <3>3. t \in Publisher
      BY DEF Publisher
    <3>4. LET v == LikeValue(t) IN v.host = t.host /\ v.caps = FALSE /\ v.www = FALSE
      BY <3>3, Zenon DEF LikeValue, Publisher
    <3> QED
      BY <3>2, <3>4, Zenon DEF Matches
  <2> QED
    BY <2>1, <2>2 DEF UploadIInv, UploadInv
<1> QED
  BY <1>1, UploadInitEstablishes, UploadStepKeeps, PTL DEF UploadSpec

\* Apart from files the admin takes off, the list loses files only to the answer of a
\* request that the page waits for and that has stored all it carried, whatever other
\* requests are refused, fail half-way or lose their answers: ClearedWhenStored.
THEOREM ClearedOnlyWhenStored == UploadSpec => ClearedWhenStored
<1>1. ASSUME UploadIInv, [UploadNext]_uploadVars, Range(list) \ Range(list') # {},
             ~ \E i \in DOMAIN list : RemoveFile(i)
      PROVE  \E s \in Slot : ClearedBy(s)
  <2>1. list \in Lists /\ list' # list
    BY <1>1 DEF UploadIInv, UploadTypeOK
  <2>2. PICK s \in Slot : Succeed(s) /\ batch[s].waiting
    <3>1. ASSUME NEW f \in File, AddFile(f) PROVE FALSE
      <4>1. list \in Seq(File) /\ list' = Append(list, f)
        BY <2>1, <3>1, ListsAreSequences DEF AddFile
      <4>2. Range(list) \subseteq Range(list')
        BY <4>1 DEF Range
      <4> QED
        BY <1>1, <4>2
    <3>2. ASSUME NEW i \in DOMAIN list, MoveDown(i) PROVE FALSE
      <4>1. /\ list \in Seq(File) /\ i \in 1 .. Len(list) /\ i + 1 \in 1 .. Len(list)
            /\ list' = [list EXCEPT ![i] = list[i + 1], ![i + 1] = list[i]]
        BY <2>1, <3>2, ListsAreSequences DEF MoveDown
      <4>2. ASSUME NEW j \in DOMAIN list PROVE \E k \in DOMAIN list' : list'[k] = list[j]
        <5>1. CASE j = i
          BY <4>1, <5>1
        <5>2. CASE j = i + 1
          BY <4>1, <5>2
        <5>3. CASE j # i /\ j # i + 1
          BY <4>1, <5>3
        <5> QED
          BY <5>1, <5>2, <5>3
      <4>3. Range(list) \subseteq Range(list')
        BY <4>2 DEF Range
      <4> QED
        BY <1>1, <4>3
    <3>3. ASSUME NEW u \in Slot, NEW m \in Manifests \cup {NoManifest}, NEW d \in Cell, Press(u, m, d)
          PROVE  FALSE
      BY <2>1, <3>3 DEF Press
    <3>4. ASSUME NEW u \in Slot,
                 ConnectionLost(u) \/ Reject(u) \/ IngestNext(u) \/ IngestRaises(u)
          PROVE  FALSE
      BY <2>1, <3>4 DEF ConnectionLost, Reject, IngestNext, IngestRaises, AnswerError
    <3>5. ASSUME NEW u \in Slot, Succeed(u) PROVE batch[u].waiting
      BY <2>1, <3>5 DEF Succeed
    <3> QED
      BY <1>1, <2>1, <3>1, <3>2, <3>3, <3>4, <3>5, Zenon DEF UploadNext, uploadVars
  <2>3. /\ batch[s] # NoBatch /\ batch'[s] = NoBatch
        /\ Len(batch[s].files) < batch[s].next
    <3>1. batch[s] \in Batches /\ batch[s] # NoBatch /\ batch[s].next > Len(batch[s].files)
      BY <1>1, <2>2 DEF Succeed, UploadIInv, UploadTypeOK
    <3>2. batch'[s] = NoBatch
      BY <1>1, <2>2 DEF Succeed, UploadIInv, UploadTypeOK
    <3> QED
      BY <3>1, <3>2
  <2>4. batch[s].files \in Lists /\ batch[s].next \in Nat
    BY <1>1, <2>3 DEF UploadIInv, UploadTypeOK, Batches
  <2>5. ASSUME NEW f \in Range(batch[s].files) PROVE Stored(f)
    <3>1. PICK i \in 1 .. Len(batch[s].files) : f = batch[s].files[i]
      BY <2>4, RangeOfList
    <3>2. i < batch[s].next
      <4>1. Len(batch[s].files) \in Nat
        BY <2>4, ListsAreSequences, LenProperties
      <4> QED
        BY <2>3, <2>4, <3>1, <4>1
    <3> QED
      BY <1>1, <2>3, <3>1, <3>2 DEF UploadIInv, RequestsStore, StoredSoFar, Stored
  <2> QED
    BY <2>2, <2>3, <2>5 DEF ClearedBy
<1>2. UploadIInv /\ [UploadNext]_uploadVars =>
        [Range(list) \ Range(list') # {} =>
           (\E i \in DOMAIN list : RemoveFile(i)) \/ (\E s \in Slot : ClearedBy(s))]_uploadVars
  BY <1>1
<1> QED
  BY <1>2, UploadInitEstablishes, UploadStepKeeps, PTL DEF UploadSpec, ClearedWhenStored

-----------------------------------------------------------------------------
(* Wiring: which state is behind an object.                                    *)

\* Calls go down: no builder is reached from itself.
Level(b) ==
  CASE b \in Requests -> 6
    [] b = "get_chat_service" -> 5
    [] b = "get_turn_orchestrator" -> 4
    [] b \in {"build_worker", "build_local_executor"} -> 3
    [] b = "get_capability_registry" -> 2
    [] b \in {"get_retrieval_service", "get_supervisor", "get_ingestion_service"} -> 1
    [] OTHER -> 0

\* A frame calls what is below it.
Sane(f) ==
  /\ f \in Frames
  /\ \A k \in DOMAIN f.todo : Level(f.todo[k]) < Level(f.builder)

\* A stack goes down from a request, each call but the last waiting for the next.
Well(s) ==
  /\ s \in Seq(Frames)
  /\ \A i \in 1 .. Len(s) : Sane(s[i]) /\ (i < Len(s) => s[i].todo # <<>>)
  /\ \A i, j \in 1 .. Len(s) : i < j => Level(s[j].builder) < Level(s[i].builder)
  /\ s # <<>> => s[1].builder \in Requests

-----------------------------------------------------------------------------
(* The inductive invariant *)

WiringTypes ==
  /\ settings \in Deployment
  /\ up \in BOOLEAN
  /\ cache \in [Process -> [Cached -> Object \cup {NoObject}]]
  /\ stack \in [Line -> Seq(Frames)]
  /\ \A t \in Line : Well(stack[t])
  /\ serial \in [Process -> Nat]
  /\ used \in SUBSET (Requests \X Role \X Owners)
  /\ doubled \subseteq Process

\* The state that a process holds in memory is its own.
At(p, x) == \A e \in x : e[2] = Service \/ e[2][1] = p
AtHome ==
  /\ \A p \in Process, b \in Cached : cache[p][b] # NoObject => At(p, cache[p][b])
  /\ \A t \in Line : \A i \in 1 .. Len(stack[t]) : At(ProcessOf(t), stack[t][i].got)

\* Unless builders ran twice at once, each runs in one place, and not when its
\* object is there.
RunsOnce ==
  \A t \in Line : ProcessOf(t) \notin doubled =>
    \A i \in 1 .. Len(stack[t]) :
      LET b == stack[t][i].builder
      IN  b \in Cached =>
            /\ cache[ProcessOf(t)][b] = NoObject
            /\ \A u \in Line : ProcessOf(u) = ProcessOf(t) =>
                 \A j \in 1 .. Len(stack[u]) :
                   stack[u][j].builder = b => u = t /\ j = i

\* The state e = <<role, owner>> is that of the cached object of the role's builder.
InCache(p, e) ==
  \E b \in Cached : e[1] \in OwnOf(b) /\ cache[p][b] # NoObject /\ e \in cache[p][b]

Counts(p, e) == p \notin doubled /\ e[1] # "vectors" /\ e[2][1] = p
FromCache ==
  /\ \A p \in Process, b \in Cached : cache[p][b] # NoObject =>
       \A e \in cache[p][b] : Counts(p, e) => InCache(p, e)
  /\ \A t \in Line : \A i \in 1 .. Len(stack[t]) :
       \A e \in stack[t][i].got : Counts(ProcessOf(t), e) => InCache(ProcessOf(t), e)
  /\ \A p \in Process : \A e \in used :
       Counts(p, <<e[2], e[3]>>) => InCache(p, <<e[2], e[3]>>)

\* There is one state of a role in that object.
OneEach ==
  \A p \in Process, b \in Cached : cache[p][b] # NoObject =>
    \A e, f \in cache[p][b] :
      Counts(p, e) /\ Counts(p, f) /\ e[1] = f[1] /\ e[1] \in OwnOf(b) => e = f

WiringIInv == WiringTypes /\ AtHome /\ RunsOnce /\ FromCache /\ OneEach

-----------------------------------------------------------------------------
(* The builders *)

LEMMA KnownBuilders ==
  /\ Requests = {"login", "chat", "upload", "run_local", "run", "ingest", "scan",
                 "inspect", "work"}
  /\ Builder = Requests \cup Cached \cup {"build_worker", "build_local_executor"}
  /\ Cached = {"get_blackboard", "get_task_queue", "get_run_ledger",
               "get_capability_registry", "get_supervisor", "get_auth_service",
               "get_pipeline", "get_ingestion_service", "get_session_documents",
               "get_retrieval_service", "get_turn_orchestrator", "get_chat_service"}
  /\ DOMAIN AgentCalls = {"get_blackboard", "get_task_queue", "get_run_ledger",
               "get_capability_registry", "get_supervisor", "build_worker",
               "build_local_executor"}
  /\ DOMAIN KnowledgeCalls = {"get_auth_service", "get_pipeline", "get_ingestion_service",
               "get_session_documents", "get_retrieval_service"}
  /\ DOMAIN ChatCalls = {"get_turn_orchestrator", "get_chat_service"}
  /\ DOMAIN UserCalls = {"login", "chat", "upload"}
  /\ DOMAIN RunCalls = {"run_local", "run"}
  /\ DOMAIN AdminCalls = {"ingest", "scan", "inspect", "work"}
<1>1. /\ DOMAIN UserCalls = {"login", "chat", "upload"}
      /\ DOMAIN RunCalls = {"run_local", "run"}
      /\ DOMAIN AdminCalls = {"ingest", "scan", "inspect", "work"}
  BY DEF UserCalls, RunCalls, AdminCalls
<1>2. /\ DOMAIN AgentCalls = {"get_blackboard", "get_task_queue", "get_run_ledger",
               "get_capability_registry", "get_supervisor", "build_worker",
               "build_local_executor"}
      /\ DOMAIN KnowledgeCalls = {"get_auth_service", "get_pipeline", "get_ingestion_service",
               "get_session_documents", "get_retrieval_service"}
      /\ DOMAIN ChatCalls = {"get_turn_orchestrator", "get_chat_service"}
  BY DEF AgentCalls, KnowledgeCalls, ChatCalls
<1> QED
  BY <1>1, <1>2 DEF Requests, Cached, Builder

\* What a builder calls is known, and below it.
Descends(b, s) ==
  s \in Seq(Builder) /\ \A k \in DOMAIN s : Level(s[k]) < Level(b)

LEMMA CallsGoDown ==
  ASSUME NEW b \in Builder
  PROVE  Descends(b, Calls(b))
<1> DEFINE B == Builder
<1>b. /\ "get_chat_service" \in B /\ "get_turn_orchestrator" \in B
      /\ "build_worker" \in B /\ "build_local_executor" \in B
      /\ "get_capability_registry" \in B /\ "get_retrieval_service" \in B
      /\ "get_supervisor" \in B /\ "get_ingestion_service" \in B
      /\ "get_blackboard" \in B /\ "get_task_queue" \in B /\ "get_run_ledger" \in B
      /\ "get_auth_service" \in B /\ "get_pipeline" \in B
      /\ "get_session_documents" \in B
  BY KnownBuilders DEF Builder
<1>0. \A c : Descends(c, <<>>)
  BY DEF Descends
<1>1. ASSUME NEW c, NEW x \in Builder, Level(x) < Level(c)
      PROVE  Descends(c, <<x>>)
  BY <1>1 DEF Descends
<1>2. ASSUME NEW c, NEW x \in Builder, NEW y \in Builder,
             Level(x) < Level(c), Level(y) < Level(c)
      PROVE  Descends(c, <<x, y>>)
  BY <1>2 DEF Descends
<1>3. ASSUME NEW c, NEW x \in Builder, NEW y \in Builder, NEW z \in Builder,
             Level(x) < Level(c), Level(y) < Level(c), Level(z) < Level(c)
      PROVE  Descends(c, <<x, y, z>>)
  BY <1>3 DEF Descends
<1>4. ASSUME NEW c, NEW w \in Builder, NEW x \in Builder, NEW y \in Builder,
             NEW z \in Builder,
             Level(w) < Level(c), Level(x) < Level(c), Level(y) < Level(c), Level(z) < Level(c)
      PROVE  Descends(c, <<w, x, y, z>>)
  BY <1>4 DEF Descends
<1>5. /\ \A x \in Requests : Level(x) = 6
      /\ Level("get_chat_service") = 5
      /\ Level("get_turn_orchestrator") = 4
      /\ Level("build_worker") = 3 /\ Level("build_local_executor") = 3
      /\ Level("get_capability_registry") = 2
      /\ Level("get_retrieval_service") = 1 /\ Level("get_supervisor") = 1
      /\ Level("get_ingestion_service") = 1
      /\ Level("get_blackboard") = 0 /\ Level("get_task_queue") = 0
      /\ Level("get_run_ledger") = 0 /\ Level("get_auth_service") = 0
      /\ Level("get_pipeline") = 0 /\ Level("get_session_documents") = 0
  BY KnownBuilders DEF Level
<1>6. CASE b \in DOMAIN AgentCalls
  <2>1. Calls(b) = AgentCalls[b]
    BY <1>6, KnownBuilders DEF Calls
  <2>2. CASE b \in {"get_blackboard", "get_task_queue", "get_run_ledger"}
    <3>1. AgentCalls[b] = <<>>
      BY <2>2 DEF AgentCalls
    <3> QED
      BY <1>0, <2>1, <3>1
  <2>3. CASE b = "get_capability_registry"
    <3>1. AgentCalls[b] = <<"get_retrieval_service">>
      BY <2>3 DEF AgentCalls
    <3> QED
      BY <1>b, <1>1, <1>5, <2>1, <2>3, <3>1
  <2>4. CASE b = "get_supervisor"
    <3>1. AgentCalls[b] = <<"get_task_queue", "get_blackboard", "get_run_ledger">>
      BY <2>4 DEF AgentCalls
    <3> QED
      BY <1>b, <1>3, <1>5, <2>1, <2>4, <3>1
  <2>5. CASE b = "build_worker"
    <3>1. AgentCalls[b] = <<"get_task_queue", "get_capability_registry", "get_blackboard",
                            "get_run_ledger">>
      BY <2>5 DEF AgentCalls
    <3>2. /\ Level("get_task_queue") < Level(b) /\ Level("get_blackboard") < Level(b)
          /\ Level("get_capability_registry") < Level(b) /\ Level("get_run_ledger") < Level(b)
      BY <1>5, <2>5
    <3>3. Descends(b, <<"get_task_queue", "get_capability_registry", "get_blackboard",
                        "get_run_ledger">>)
      BY <1>b, <1>4, <3>2
    <3> QED
      BY <2>1, <3>1, <3>3
  <2>6. CASE b = "build_local_executor"
    <3>1. AgentCalls[b] = <<"get_capability_registry", "get_blackboard", "get_run_ledger">>
      BY <2>6 DEF AgentCalls
    <3> QED
      BY <1>b, <1>3, <1>5, <2>1, <2>6, <3>1
  <2> QED
    BY <1>6, <2>2, <2>3, <2>4, <2>5, <2>6, KnownBuilders
<1>7. CASE b \in DOMAIN KnowledgeCalls
  <2>1. Calls(b) = KnowledgeCalls[b]
    BY <1>7, KnownBuilders DEF Calls
  <2>2. CASE b \in {"get_auth_service", "get_pipeline", "get_session_documents"}
    <3>1. KnowledgeCalls[b] = <<>>
      BY <2>2 DEF KnowledgeCalls
    <3> QED
      BY <1>0, <2>1, <3>1
  <2>3. CASE b = "get_ingestion_service"
    <3>1. KnowledgeCalls[b] = <<"get_pipeline">>
      BY <2>3 DEF KnowledgeCalls
    <3> QED
      BY <1>b, <1>1, <1>5, <2>1, <2>3, <3>1
  <2>4. CASE b = "get_retrieval_service"
    <3>1. KnowledgeCalls[b] = <<"get_session_documents">>
      BY <2>4 DEF KnowledgeCalls
    <3> QED
      BY <1>b, <1>1, <1>5, <2>1, <2>4, <3>1
  <2> QED
    BY <1>7, <2>2, <2>3, <2>4, KnownBuilders
<1>8. CASE b \in DOMAIN ChatCalls
  <2>1. Calls(b) = ChatCalls[b]
    BY <1>8, KnownBuilders DEF Calls
  <2>2. CASE b = "get_turn_orchestrator"
    <3>1. \/ ChatCalls[b] = <<"get_supervisor", "get_capability_registry">>
          \/ ChatCalls[b] = <<"build_local_executor", "get_capability_registry">>
      BY <2>2 DEF ChatCalls
    <3> QED
      BY <1>b, <1>2, <1>5, <2>1, <2>2, <3>1
  <2>3. CASE b = "get_chat_service"
    <3>1. ChatCalls[b] =
            <<"get_retrieval_service", "get_turn_orchestrator", "get_session_documents">>
      BY <2>3 DEF ChatCalls
    <3> QED
      BY <1>b, <1>3, <1>5, <2>1, <2>3, <3>1
  <2> QED
    BY <1>8, <2>2, <2>3, KnownBuilders
<1>9. CASE b \in DOMAIN UserCalls
  <2>1. Calls(b) = UserCalls[b] /\ Level(b) = 6
    BY <1>5, <1>9, KnownBuilders DEF Calls
  <2>2. CASE b = "login"
    <3>1. UserCalls[b] = <<"get_auth_service">>
      BY <2>2 DEF UserCalls
    <3> QED
      BY <1>b, <1>1, <1>5, <2>1, <3>1
  <2>3. CASE b = "chat"
    <3>1. UserCalls[b] = <<"get_auth_service", "get_chat_service">>
      BY <2>3 DEF UserCalls
    <3> QED
      BY <1>b, <1>2, <1>5, <2>1, <3>1
  <2>4. CASE b = "upload"
    <3>1. UserCalls[b] = <<"get_auth_service", "get_chat_service", "get_session_documents">>
      BY <2>4 DEF UserCalls
    <3> QED
      BY <1>b, <1>3, <1>5, <2>1, <3>1
  <2> QED
    BY <1>9, <2>2, <2>3, <2>4, KnownBuilders
<1>10. CASE b \in DOMAIN RunCalls
  <2>1. Calls(b) = RunCalls[b] /\ Level(b) = 6
    BY <1>5, <1>10, KnownBuilders DEF Calls
  <2>2. CASE b = "run_local"
    <3>1. RunCalls[b] = <<"get_auth_service", "get_capability_registry", "build_local_executor">>
      BY <2>2 DEF RunCalls
    <3> QED
      BY <1>b, <1>3, <1>5, <2>1, <3>1
  <2>3. CASE b = "run"
    <3>1. RunCalls[b] = <<"get_auth_service", "get_capability_registry", "get_supervisor">>
      BY <2>3 DEF RunCalls
    <3> QED
      BY <1>b, <1>3, <1>5, <2>1, <3>1
  <2> QED
    BY <1>10, <2>2, <2>3, KnownBuilders
<1>11. CASE b \in DOMAIN AdminCalls
  <2>1. Calls(b) = AdminCalls[b] /\ Level(b) = 6
    BY <1>5, <1>11, KnownBuilders DEF Calls
  <2>2. \/ AdminCalls[b] = <<"get_pipeline">>
        \/ AdminCalls[b] = <<"get_ingestion_service">>
        \/ AdminCalls[b] = <<"get_run_ledger", "get_blackboard", "get_task_queue">>
        \/ AdminCalls[b] = <<"build_worker">>
    BY <1>11 DEF AdminCalls
  <2>3. CASE AdminCalls[b] = <<"get_pipeline">>
    BY <1>b, <1>1, <1>5, <2>1, <2>3
  <2>4. CASE AdminCalls[b] = <<"get_ingestion_service">>
    BY <1>b, <1>1, <1>5, <2>1, <2>4
  <2>5. CASE AdminCalls[b] = <<"get_run_ledger", "get_blackboard", "get_task_queue">>
    BY <1>b, <1>3, <1>5, <2>1, <2>5
  <2>6. CASE AdminCalls[b] = <<"build_worker">>
    BY <1>b, <1>1, <1>5, <2>1, <2>6
  <2> QED
    BY <2>2, <2>3, <2>4, <2>5, <2>6
<1> QED
  BY <1>6, <1>7, <1>8, <1>9, <1>10, <1>11, KnownBuilders DEF Builder

\* Every role but the vectors is made by one builder, which keeps its object.
LEMMA OneMaker ==
  /\ \A b \in Builder : OwnOf(b) \subseteq Role
  /\ \A b \in Builder : OwnOf(b) # {} => b \in Cached
  /\ \A b, c \in Builder, r \in Role \ {"vectors"} :
       r \in OwnOf(b) /\ r \in OwnOf(c) => b = c
<1> DEFINE Own == {<<"get_blackboard", "blackboard">>, <<"get_task_queue", "queue">>,
                   <<"get_run_ledger", "ledger">>, <<"get_auth_service", "users">>,
                   <<"get_pipeline", "vectors">>, <<"get_ingestion_service", "manifest">>,
                   <<"get_session_documents", "sessions">>,
                   <<"get_retrieval_service", "vectors">>,
                   <<"get_chat_service", "conversations">>}
<1>1. DOMAIN OwnRoles = {"get_blackboard", "get_task_queue", "get_run_ledger",
        "get_auth_service", "get_pipeline", "get_ingestion_service",
        "get_session_documents", "get_retrieval_service", "get_chat_service"}
  BY DEF OwnRoles
<1>2. /\ OwnRoles["get_blackboard"] = {"blackboard"} /\ OwnRoles["get_task_queue"] = {"queue"}
      /\ OwnRoles["get_run_ledger"] = {"ledger"} /\ OwnRoles["get_auth_service"] = {"users"}
      /\ OwnRoles["get_pipeline"] = {"vectors"}
      /\ OwnRoles["get_ingestion_service"] = {"manifest"}
      /\ OwnRoles["get_session_documents"] = {"sessions"}
      /\ OwnRoles["get_retrieval_service"] = {"vectors"}
      /\ OwnRoles["get_chat_service"] = {"conversations"}
  BY DEF OwnRoles
<1>3. \A b, r : r \in OwnOf(b) => <<b, r>> \in Own
  BY <1>1, <1>2 DEF OwnOf
<1>4. \A b, r : <<b, r>> \in Own => b \in Cached /\ r \in Role
  BY KnownBuilders DEF Role
<1>5. \A b, c, r : <<b, r>> \in Own /\ <<c, r>> \in Own /\ r # "vectors" => b = c
  OBVIOUS
<1> HIDE DEF Own
<1> QED
  BY <1>3, <1>4, <1>5

-----------------------------------------------------------------------------
(* Stacks *)

LEMMA FrameSane ==
  ASSUME NEW b \in Builder
  PROVE  /\ Sane(Frame(b)) /\ Frame(b) \in Frames
         /\ Frame(b).builder = b /\ Frame(b).got = {}
<1>1. Calls(b) \in Seq(Builder) /\ \A k \in DOMAIN Calls(b) : Level(Calls(b)[k]) < Level(b)
  BY CallsGoDown DEF Descends
<1>2. {} \in Object
  BY DEF Object
<1>3. Frame(b) = [builder |-> b, todo |-> Calls(b), got |-> {}]
  BY DEF Frame
<1>4. Frame(b) \in Frames /\ Frame(b).builder = b /\ Frame(b).got = {} /\ Frame(b).todo = Calls(b)
  BY <1>1, <1>2, <1>3 DEF Frames
<1> QED
  BY <1>1, <1>4 DEF Sane

LEMMA ReturnedSane ==
  ASSUME NEW f \in Frames, Sane(f), f.todo # <<>>, NEW o \in Object
  PROVE  /\ Sane(Returned(f, o)) /\ Returned(f, o) \in Frames
         /\ Returned(f, o).builder = f.builder
         /\ Returned(f, o).got = f.got \cup o
<1> DEFINE g == Returned(f, o)
<1>1. f.builder \in Builder /\ f.todo \in Seq(Builder) /\ f.got \in Object
  BY DEF Frames
<1>2. f.got \cup o \in Object
  BY <1>1 DEF Object
<1>3. /\ Tail(f.todo) \in Seq(Builder)
      /\ \A k \in DOMAIN Tail(f.todo) : \E l \in DOMAIN f.todo : Tail(f.todo)[k] = f.todo[l]
  <2>1. /\ Tail(f.todo) \in Seq(Builder) /\ Len(Tail(f.todo)) = Len(f.todo) - 1
        /\ \A k \in 1 .. Len(f.todo) - 1 : Tail(f.todo)[k] = f.todo[k + 1]
    BY <1>1
  <2> QED
    BY <1>1, <2>1
<1>4. g = [f EXCEPT !.todo = Tail(f.todo), !.got = f.got \cup o]
  BY DEF Returned
<1>5. g \in Frames /\ g.builder = f.builder /\ g.todo = Tail(f.todo) /\ g.got = f.got \cup o
  BY <1>1, <1>2, <1>3, <1>4 DEF Frames
<1> HIDE DEF g
<1>6. Sane(g)
  BY <1>3, <1>5 DEF Sane
<1> QED
  BY <1>5, <1>6 DEF g

\* A call on top of the others.
LEMMA WellPushed ==
  ASSUME NEW s \in Seq(Frames), Well(s), s # <<>>, s[Len(s)].todo # <<>>,
         NEW b, b = Head(s[Len(s)].todo)
  PROVE  /\ b \in Builder
         /\ Well(Append(s, Frame(b)))
         /\ Len(Append(s, Frame(b))) = Len(s) + 1 /\ Append(s, Frame(b))[Len(s) + 1] = Frame(b)
         /\ \A i \in 1 .. Len(s) : Append(s, Frame(b))[i] = s[i] /\ s[i].builder # b
<1> DEFINE n == Len(s)
           f == s[n]
           p == Append(s, Frame(b))
<1>1. n \in Nat \ {0} /\ n \in 1 .. n /\ f \in Frames /\ Sane(f)
  BY DEF Well
<1>2. b \in Builder /\ Level(b) < Level(f.builder)
  <2>1. f.todo \in Seq(Builder) /\ f.todo # <<>>
    BY <1>1 DEF Frames
  <2>2. 1 \in DOMAIN f.todo /\ b = f.todo[1]
    BY <2>1
  <2> QED
    BY <1>1, <2>1, <2>2 DEF Sane
<1>3. Sane(Frame(b)) /\ Frame(b) \in Frames /\ Frame(b).builder = b
  BY <1>2, FrameSane
<1>l. \A c \in Builder : Level(c) \in Nat
  BY KnownBuilders DEF Level
<1>4. \A i \in 1 .. n : s[i].builder \in Builder /\ Level(b) < Level(s[i].builder)
  <2>1. \A i \in 1 .. n : s[i].builder \in Builder
    <3>1. \A i \in 1 .. n : s[i] \in Frames
      OBVIOUS
    <3> QED
      BY <3>1 DEF Frames
  <2>2. \A i \in 1 .. n : i < n => Level(f.builder) < Level(s[i].builder)
    BY <1>1 DEF Well
  <2> HIDE DEF n, f
  <2>3. \A i \in 1 .. n : i < n \/ i = n
    BY <1>1
  <2>4. s[n] = f
    BY DEF f, n
  <2>5. ASSUME NEW i \in 1 .. n PROVE Level(b) < Level(s[i].builder)
    <3>1. CASE i = n
      BY <1>2, <2>4, <3>1
    <3>2. CASE i < n
      <4>1. f.builder \in Builder
        BY <2>1, <2>4, <1>1
      <4>2. Level(b) \in Nat /\ Level(f.builder) \in Nat /\ Level(s[i].builder) \in Nat
        BY <1>2, <1>l, <2>1, <4>1
      <4>3. Level(b) < Level(f.builder) /\ Level(f.builder) < Level(s[i].builder)
        BY <1>2, <2>2, <3>2
      <4> QED
        BY <4>2, <4>3
    <3> QED
      BY <2>3, <3>1, <3>2
  <2> QED
    BY <2>1, <2>5
<1>5. /\ p \in Seq(Frames) /\ Len(p) = n + 1 /\ p[n + 1] = Frame(b)
      /\ \A i \in 1 .. n : p[i] = s[i]
  BY <1>3
<1>6. Well(p)
  <2>1. ASSUME NEW i \in 1 .. Len(p) PROVE Sane(p[i]) /\ (i < Len(p) => p[i].todo # <<>>)
    <3>1. CASE i = n + 1
      BY <1>1, <1>3, <1>5, <3>1
    <3>2. CASE i = n
      BY <1>1, <1>5, <3>2
    <3>3. CASE i \in 1 .. n /\ i < n
      BY <1>1, <1>5, <3>3 DEF Well
    <3> QED
      BY <1>1, <1>5, <3>1, <3>2, <3>3
  <2>2. ASSUME NEW i \in 1 .. Len(p), NEW j \in 1 .. Len(p), i < j
        PROVE  Level(p[j].builder) < Level(p[i].builder)
    <3>1. i \in 1 .. n /\ (j \in 1 .. n \/ j = n + 1)
      BY <1>1, <1>5, <2>2
    <3>2. CASE j \in 1 .. n
      BY <1>5, <2>2, <3>1, <3>2 DEF Well
    <3>3. CASE j = n + 1
      BY <1>3, <1>4, <1>5, <3>1, <3>3
    <3> QED
      BY <3>1, <3>2, <3>3
  <2>3. p[1].builder \in Requests
    <3>1. 1 \in 1 .. n /\ s[1].builder \in Requests
      BY <1>1 DEF Well
    <3> QED
      BY <1>5, <3>1
  <2> HIDE DEF p
  <2> QED
    BY <1>5, <2>1, <2>2, <2>3 DEF Well
<1>7. \A i \in 1 .. n : s[i].builder # b
  BY <1>2, <1>4, <1>l
<1> QED
  BY <1>2, <1>5, <1>6, <1>7

LEMMA WellReturned ==
  ASSUME NEW s \in Seq(Frames), Well(s), NEW m \in 1 .. Len(s), s[m].todo # <<>>,
         NEW o \in Object
  PROVE  /\ Well(Popped(s, m, o)) /\ Len(Popped(s, m, o)) = m
         /\ \A i \in 1 .. m :
              /\ Popped(s, m, o)[i].builder = s[i].builder
              /\ Popped(s, m, o)[i].got \subseteq s[i].got \cup o
<1> DEFINE p == Popped(s, m, o)
           g == Returned(s[m], o)
           q == SubSeq(s, 1, m - 1)
<1>1. m \in Nat /\ m >= 1 /\ m <= Len(s) /\ Len(s) \in Nat /\ s[m] \in Frames /\ Sane(s[m])
  BY DEF Well
<1>2. Sane(g) /\ g \in Frames /\ g.builder = s[m].builder /\ g.got = s[m].got \cup o
  BY <1>1, ReturnedSane
<1>3. q \in Seq(Frames) /\ Len(q) = m - 1 /\ \A i \in 1 .. m - 1 : q[i] = s[i]
  BY <1>1
<1> HIDE DEF g, q
<1>4. p = Append(q, g)
  BY DEF g, q, Popped
<1> HIDE DEF p
<1>5. p \in Seq(Frames) /\ Len(p) = m /\ p[m] = g /\ \A i \in 1 .. m - 1 : p[i] = s[i]
  BY <1>1, <1>2, <1>3, <1>4
<1>6. \A i \in 1 .. m : i = m \/ (i \in 1 .. m - 1 /\ i \in 1 .. Len(s) /\ i < Len(s))
  BY <1>1
<1>7. \A i \in 1 .. m : /\ Sane(p[i]) /\ (i < m => p[i].todo # <<>>)
                        /\ p[i].builder = s[i].builder /\ p[i].got \subseteq s[i].got \cup o
  <2> SUFFICES ASSUME NEW i \in 1 .. m
               PROVE  /\ Sane(p[i]) /\ (i < m => p[i].todo # <<>>)
                      /\ p[i].builder = s[i].builder /\ p[i].got \subseteq s[i].got \cup o
    OBVIOUS
  <2>1. CASE i = m
    BY <1>1, <1>2, <1>5, <2>1
  <2>2. CASE i \in 1 .. m - 1 /\ i \in 1 .. Len(s) /\ i < Len(s)
    BY <1>5, <2>2 DEF Well
  <2> QED
    BY <1>6, <2>1, <2>2
<1>8. \A i, j \in 1 .. m : i < j => Level(p[j].builder) < Level(p[i].builder)
  <2>1. \A i, j \in 1 .. m : i \in 1 .. Len(s) /\ j \in 1 .. Len(s)
    BY <1>1
  <2> QED
    BY <1>7, <2>1 DEF Well
<1>9. p[1].builder \in Requests
  <2>1. 1 \in 1 .. m /\ s # <<>>
    BY <1>1
  <2> QED
    BY <1>7, <2>1 DEF Well
<1> QED
  BY <1>5, <1>7, <1>8, <1>9 DEF Well, p

-----------------------------------------------------------------------------
(* Steps *)

LEMMA Processes ==
  /\ \A t : ProcessOf(t) \in Process
  /\ \A p \in Process : Service[1] # p
  /\ \A p, q \in Process : \A n : <<p, n>>[1] = q => p = q
BY DEF ProcessOf, Process, Service

\* Steps that leave the caches and all that counts of the running builders.
LEMMA StacksKeep ==
  ASSUME WiringIInv, UNCHANGED <<settings, cache, serial, doubled>>, up' \in BOOLEAN,
         stack' \in [Line -> Seq(Frames)],
         \A u \in Line : Well(stack'[u]),
         \A u \in Line : \A i \in 1 .. Len(stack'[u]) :
           stack'[u][i].builder \in Cached =>
             i \in 1 .. Len(stack[u]) /\ stack[u][i].builder = stack'[u][i].builder,
         \A u \in Line : \A i \in 1 .. Len(stack'[u]) : \A e \in stack'[u][i].got :
           /\ e[2] = Service \/ e[2][1] = ProcessOf(u)
           /\ Counts(ProcessOf(u), e) => InCache(ProcessOf(u), e),
         used' \in SUBSET (Requests \X Role \X Owners),
         \A p \in Process : \A e \in used' :
           Counts(p, <<e[2], e[3]>>) => InCache(p, <<e[2], e[3]>>)
  PROVE  WiringIInv'
<1>1. WiringTypes'
  BY DEF WiringIInv, WiringTypes
<1>2. /\ \A p, e : Counts(p, e)' = Counts(p, e)
      /\ \A p, e : InCache(p, e)' = InCache(p, e)
  BY DEF Counts, InCache
<1>3. AtHome'
  BY DEF WiringIInv, AtHome, At
<1>4. FromCache'
  <2>1. \A p \in Process, b \in Cached : cache'[p][b] # NoObject =>
          \A e \in cache'[p][b] : Counts(p, e)' => InCache(p, e)'
    BY <1>2 DEF WiringIInv, FromCache
  <2>2. \A t \in Line : \A i \in 1 .. Len(stack'[t]) :
          \A e \in stack'[t][i].got : Counts(ProcessOf(t), e)' => InCache(ProcessOf(t), e)'
    BY <1>2
  <2>3. \A p \in Process : \A e \in used' :
          Counts(p, <<e[2], e[3]>>)' => InCache(p, <<e[2], e[3]>>)'
    BY <1>2
  <2> QED
    BY <2>1, <2>2, <2>3 DEF FromCache
<1>5. RunsOnce'
  BY DEF WiringIInv, RunsOnce
<1>6. OneEach'
  BY <1>2 DEF WiringIInv, OneEach
<1> QED
  BY <1>1, <1>3, <1>4, <1>5, <1>6 DEF WiringIInv

\* What is known of the stacks.
LEMMA StackShape ==
  ASSUME WiringIInv, NEW t \in Line
  PROVE  /\ stack[t] \in Seq(Frames) /\ Well(stack[t]) /\ Len(stack[t]) \in Nat
         /\ stack[t] # <<>> => Len(stack[t]) \in 1 .. Len(stack[t])
         /\ \A i \in 1 .. Len(stack[t]) :
              stack[t][i] \in Frames /\ stack[t][i].got \in Object
         /\ \A i \in 1 .. Len(stack[t]) : \A e \in stack[t][i].got :
              /\ e[2] = Service \/ e[2][1] = ProcessOf(t)
              /\ Counts(ProcessOf(t), e) => InCache(ProcessOf(t), e)
<1>1. stack[t] \in Seq(Frames) /\ Well(stack[t])
  BY DEF WiringIInv, WiringTypes
<1>2. Len(stack[t]) \in Nat /\ (stack[t] # <<>> => Len(stack[t]) \in 1 .. Len(stack[t]))
  BY <1>1
<1>3. \A i \in 1 .. Len(stack[t]) : stack[t][i] \in Frames /\ stack[t][i].got \in Object
  <2>1. \A i \in 1 .. Len(stack[t]) : stack[t][i] \in Frames
    BY <1>1
  <2> QED
    BY <2>1 DEF Frames
<1>4. \A i \in 1 .. Len(stack[t]) : \A e \in stack[t][i].got :
        /\ e[2] = Service \/ e[2][1] = ProcessOf(t)
        /\ Counts(ProcessOf(t), e) => InCache(ProcessOf(t), e)
  BY DEF WiringIInv, AtHome, At, FromCache
<1> QED
  BY <1>1, <1>2, <1>3, <1>4

\* What a process has used stays its own while its caches stay.
LEMMA UsedShape ==
  ASSUME WiringIInv
  PROVE  /\ used \in SUBSET (Requests \X Role \X Owners)
         /\ \A p \in Process : \A e \in used :
              Counts(p, <<e[2], e[3]>>) => InCache(p, <<e[2], e[3]>>)
BY DEF WiringIInv, WiringTypes, FromCache

LEMMA BeginKeeps ==
  ASSUME WiringIInv, NEW t \in Line, NEW r \in Requests, Begin(t, r), up' \in BOOLEAN
  PROVE  WiringIInv'
<1>1. /\ stack' = [stack EXCEPT ![t] = <<Frame(r)>>]
      /\ UNCHANGED <<settings, cache, serial, used, doubled>>
  BY DEF Begin
<1>2. r \in Builder /\ r \notin Cached
  BY KnownBuilders DEF Builder
<1>3. /\ Sane(Frame(r)) /\ Frame(r) \in Frames
      /\ Frame(r).builder = r /\ Frame(r).got = {}
  BY <1>2, FrameSane
<1> DEFINE s == <<Frame(r)>>
<1>4. s \in Seq(Frames) /\ Len(s) = 1 /\ s[1] = Frame(r) /\ s # <<>>
  BY <1>3
<1>5. stack \in [Line -> Seq(Frames)] /\ \A u \in Line : Well(stack[u])
  BY DEF WiringIInv, WiringTypes
<1> HIDE DEF s
<1>6. Well(s)
  <2>1. \A i \in 1 .. Len(s) : i = 1
    BY <1>4
  <2> QED
    BY <1>3, <1>4, <2>1 DEF Well
<1>7. /\ stack' \in [Line -> Seq(Frames)]
      /\ stack'[t] = s /\ \A u \in Line : u # t => stack'[u] = stack[u]
  BY <1>1, <1>4, <1>5 DEF s
<1>8. \A i \in 1 .. Len(s) : s[i].builder \notin Cached /\ s[i].got = {}
  BY <1>2, <1>3, <1>4
<1>9. \A u \in Line : Well(stack'[u])
  BY <1>5, <1>6, <1>7
<1>10. \A u \in Line : \A i \in 1 .. Len(stack'[u]) :
         stack'[u][i].builder \in Cached =>
           i \in 1 .. Len(stack[u]) /\ stack[u][i].builder = stack'[u][i].builder
  BY <1>7, <1>8
<1>11. \A u \in Line : \A i \in 1 .. Len(stack'[u]) : \A e \in stack'[u][i].got :
         /\ e[2] = Service \/ e[2][1] = ProcessOf(u)
         /\ Counts(ProcessOf(u), e) => InCache(ProcessOf(u), e)
  BY <1>7, <1>8, StackShape
<1> QED
  BY <1>1, <1>7, <1>9, <1>10, <1>11, StacksKeep, UsedShape

\* A request that is over, however.
LEMMA EmptiedKeeps ==
  ASSUME WiringIInv, NEW t \in Line, stack' = [stack EXCEPT ![t] = <<>>],
         UNCHANGED <<settings, cache, serial, doubled>>, up' \in BOOLEAN,
         used' \in SUBSET (Requests \X Role \X Owners),
         \A p \in Process : \A e \in used' :
           Counts(p, <<e[2], e[3]>>) => InCache(p, <<e[2], e[3]>>)
  PROVE  WiringIInv'
<1>1. stack \in [Line -> Seq(Frames)] /\ \A u \in Line : Well(stack[u])
  BY DEF WiringIInv, WiringTypes
<1>2. <<>> \in Seq(Frames) /\ Len(<<>>) = 0
  OBVIOUS
<1>3. /\ stack' \in [Line -> Seq(Frames)]
      /\ stack'[t] = <<>> /\ \A u \in Line : u # t => stack'[u] = stack[u]
  BY <1>1, <1>2
<1>4. Well(<<>>)
  BY <1>2 DEF Well
<1>5. \A i \in 1 .. Len(<<>>) : FALSE
  BY <1>2
<1>6. \A u \in Line : Well(stack'[u])
  BY <1>1, <1>3, <1>4
<1>7. \A u \in Line : \A i \in 1 .. Len(stack'[u]) :
        stack'[u][i].builder \in Cached =>
          i \in 1 .. Len(stack[u]) /\ stack[u][i].builder = stack'[u][i].builder
  BY <1>3, <1>5
<1>8. \A u \in Line : \A i \in 1 .. Len(stack'[u]) : \A e \in stack'[u][i].got :
        /\ e[2] = Service \/ e[2][1] = ProcessOf(u)
        /\ Counts(ProcessOf(u), e) => InCache(ProcessOf(u), e)
  BY <1>3, <1>5, StackShape
<1> QED
  BY <1>3, <1>6, <1>7, <1>8, StacksKeep

LEMMA RaiseKeeps == \A t \in Line : WiringIInv /\ Raise(t) => WiringIInv'
<1> SUFFICES ASSUME NEW t \in Line, WiringIInv, Raise(t) PROVE WiringIInv'
  OBVIOUS
<1>1. /\ stack' = [stack EXCEPT ![t] = <<>>]
      /\ UNCHANGED <<settings, cache, serial, doubled, used>> /\ up' \in BOOLEAN
  BY DEF Raise, WiringIInv, WiringTypes
<1> QED
  BY <1>1, EmptiedKeeps, UsedShape

LEMMA FinishKeeps == \A t \in Line : WiringIInv /\ Finish(t) => WiringIInv'
<1> SUFFICES ASSUME NEW t \in Line, WiringIInv, Finish(t) PROVE WiringIInv'
  OBVIOUS
<1> DEFINE f == stack[t][1]
<1>1. /\ stack' = [stack EXCEPT ![t] = <<>>] /\ Len(stack[t]) = 1
      /\ UNCHANGED <<settings, cache, serial, doubled>>
      /\ used' = used \cup {<<f.builder, e[1], e[2]>> : e \in f.got}
  BY DEF Finish, Top
<1>2. up' \in BOOLEAN
  BY Zenon DEF Finish
<1>3. /\ 1 \in 1 .. Len(stack[t]) /\ f.got \in Object /\ f.builder \in Requests
      /\ \A e \in f.got :
           /\ e[2] = Service \/ e[2][1] = ProcessOf(t)
           /\ Counts(ProcessOf(t), e) => InCache(ProcessOf(t), e)
  <2>1. 1 \in 1 .. Len(stack[t]) /\ stack[t] # <<>>
    BY <1>1, StackShape
  <2> QED
    BY <2>1, StackShape DEF Well
<1> HIDE DEF f
<1>4. ASSUME NEW e \in f.got
      PROVE  e = <<e[1], e[2]>> /\ e[1] \in Role /\ e[2] \in Owners
  <2>1. e \in Role \X Owners
    BY <1>3 DEF Object
  <2>2. PICK r \in Role, o \in Owners : e = <<r, o>>
    BY <2>1
  <2> QED
    BY <2>2
<1>5. used' \in SUBSET (Requests \X Role \X Owners)
  BY <1>1, <1>3, <1>4, UsedShape
<1>6. ASSUME NEW p \in Process, NEW e \in used', Counts(p, <<e[2], e[3]>>)
      PROVE  InCache(p, <<e[2], e[3]>>)
  <2>1. CASE e \in used
    BY <1>6, <2>1, UsedShape
  <2>2. ASSUME NEW x \in f.got, e = <<f.builder, x[1], x[2]>>
        PROVE  InCache(p, <<e[2], e[3]>>)
    <3>1. x = <<x[1], x[2]>>
      BY <1>4
    <3>2. <<e[2], e[3]>> = x
      BY <2>2, <3>1
    <3>3. Counts(p, x) /\ x[2][1] = p
      BY <1>6, <3>2 DEF Counts
    <3>4. ProcessOf(t) = p
      BY <1>3, <3>3, Processes
    <3> QED
      BY <1>3, <3>2, <3>3, <3>4
  <2> QED
    BY <1>1, <2>1, <2>2
<1> QED
  BY <1>1, <1>2, <1>5, <1>6, EmptiedKeeps

LEMMA HitKeeps == \A t \in Line : WiringIInv /\ Hit(t) => WiringIInv'
<1> SUFFICES ASSUME NEW t \in Line, WiringIInv, Hit(t) PROVE WiringIInv'
  OBVIOUS
<1> DEFINE s == stack[t]
           n == Len(s)
           p == ProcessOf(t)
<1>1. PICK o :
        /\ s # <<>> /\ s[n].todo # <<>> /\ o # NoObject
        /\ \E b \in Cached : o = cache[p][b]
        /\ stack' = [stack EXCEPT ![t] = Popped(s, n, o)]
        /\ UNCHANGED <<settings, up, cache, serial, used, doubled>>
  BY DEF Hit, Top
<1>2. p \in Process /\ o \in Object /\ At(p, o) /\ \A e \in o : Counts(p, e) => InCache(p, e)
  BY <1>1, Processes DEF WiringIInv, WiringTypes, AtHome, FromCache
<1>3. /\ s \in Seq(Frames) /\ Well(s) /\ n \in 1 .. Len(s)
      /\ \A i \in 1 .. n : \A e \in s[i].got :
           /\ e[2] = Service \/ e[2][1] = p
           /\ Counts(p, e) => InCache(p, e)
  BY <1>1, StackShape
<1> DEFINE q == Popped(s, n, o)
<1>4. /\ Well(q) /\ Len(q) = n
      /\ \A i \in 1 .. n : q[i].builder = s[i].builder /\ q[i].got \subseteq s[i].got \cup o
  <2> HIDE DEF n, s
  <2> QED
    BY <1>1, <1>2, <1>3, WellReturned
<1> HIDE DEF q
<1>5. stack \in [Line -> Seq(Frames)] /\ (\A u \in Line : Well(stack[u])) /\ q \in Seq(Frames)
  BY <1>4 DEF WiringIInv, WiringTypes, Well
<1>6. /\ stack' \in [Line -> Seq(Frames)]
      /\ stack'[t] = q /\ \A u \in Line : u # t => stack'[u] = stack[u]
  BY <1>1, <1>5 DEF q
<1>7. \A u \in Line : Well(stack'[u])
  BY <1>4, <1>5, <1>6
<1>8. \A u \in Line : \A i \in 1 .. Len(stack'[u]) :
        stack'[u][i].builder \in Cached =>
          i \in 1 .. Len(stack[u]) /\ stack[u][i].builder = stack'[u][i].builder
  BY <1>4, <1>6
<1>9. \A i \in 1 .. Len(q) : \A e \in q[i].got :
        /\ e[2] = Service \/ e[2][1] = p
        /\ Counts(p, e) => InCache(p, e)
  <2>1. \A e \in o : e[2] = Service \/ e[2][1] = p
    BY <1>2 DEF At
  <2> QED
    BY <1>2, <1>3, <1>4, <2>1
<1>10. \A u \in Line : \A i \in 1 .. Len(stack'[u]) : \A e \in stack'[u][i].got :
         /\ e[2] = Service \/ e[2][1] = ProcessOf(u)
         /\ Counts(ProcessOf(u), e) => InCache(ProcessOf(u), e)
  BY <1>6, <1>9, StackShape
<1>11. up' \in BOOLEAN
  BY <1>1 DEF WiringIInv, WiringTypes
<1> QED
  BY <1>1, <1>6, <1>7, <1>8, <1>10, <1>11, StacksKeep, UsedShape

\* A builder is entered: by another thread too, which is noted, or by this one alone.
LEMMA MissKeeps == \A t \in Line : WiringIInv /\ Miss(t) => WiringIInv'
<1> SUFFICES ASSUME NEW t \in Line, WiringIInv, Miss(t) PROVE WiringIInv'
  OBVIOUS
<1> DEFINE s == stack[t]
           n == Len(s)
           p == ProcessOf(t)
           b == Head(s[n].todo)
           Other == \E u \in Line \ {t} :
                      ProcessOf(u) = p /\ \E i \in DOMAIN stack[u] : stack[u][i].builder = b
           q == Append(s, Frame(b))
<1>1. /\ s # <<>> /\ s[n].todo # <<>>
      /\ b \in Cached => cache[p][b] = NoObject
      /\ stack' = [stack EXCEPT ![t] = q]
      /\ doubled' = IF Other THEN doubled \cup {p} ELSE doubled
      /\ UNCHANGED <<settings, up, cache, serial, used>>
  BY DEF Miss, Top
<1>2. p \in Process /\ s \in Seq(Frames) /\ Well(s) /\ n \in Nat
  BY Processes, StackShape
<1>3. /\ b \in Builder /\ Well(q) /\ Len(q) = n + 1 /\ q[n + 1] = Frame(b)
      /\ \A i \in 1 .. n : q[i] = s[i] /\ s[i].builder # b
  BY <1>1, <1>2, WellPushed
<1>4. Frame(b).builder = b /\ Frame(b).got = {}
  BY <1>3, FrameSane
<1> HIDE DEF q
<1>5. /\ stack \in [Line -> Seq(Frames)] /\ (\A u \in Line : Well(stack[u])) /\ q \in Seq(Frames)
      /\ \A u \in Line : DOMAIN stack[u] = 1 .. Len(stack[u])
  BY <1>3 DEF WiringIInv, WiringTypes, Well
<1>6. /\ stack' \in [Line -> Seq(Frames)]
      /\ stack'[t] = q /\ \A u \in Line : u # t => stack'[u] = stack[u]
  BY <1>1, <1>5
<1>7. /\ doubled \subseteq doubled' /\ doubled' \subseteq Process
      /\ p \notin doubled' =>
           \A u \in Line : u # t /\ ProcessOf(u) = p =>
             \A i \in 1 .. Len(stack[u]) : stack[u][i].builder # b
  <2>1. doubled \subseteq Process
    BY DEF WiringIInv, WiringTypes
  <2>2. CASE Other
    BY <1>1, <1>2, <2>1, <2>2
  <2>3. CASE ~Other
    BY <1>1, <1>5, <2>1, <2>3
  <2> QED
    BY <2>2, <2>3
<1> HIDE DEF b, Other
<1>8. WiringTypes'
  <2>1. \A u \in Line : Well(stack'[u])
    BY <1>3, <1>5, <1>6
  <2> QED
    BY <1>1, <1>6, <1>7, <2>1 DEF WiringIInv, WiringTypes
<1>9. \A i \in 1 .. Len(q) : (i \in 1 .. n /\ q[i] = s[i]) \/ (i = n + 1 /\ q[i] = Frame(b))
  BY <1>2, <1>3
<1>10. \A u \in Line : \A i \in 1 .. Len(stack'[u]) : \A e \in stack'[u][i].got :
         i \in 1 .. Len(stack[u]) /\ e \in stack[u][i].got
  BY <1>4, <1>6, <1>9
<1>11. /\ \A r, e : Counts(r, e)' => Counts(r, e)
       /\ \A r, e : InCache(r, e)' = InCache(r, e)
  BY <1>1, <1>7 DEF Counts, InCache
<1>12. AtHome'
  BY <1>1, <1>10 DEF WiringIInv, AtHome, At
<1>13. FromCache'
  <2>1. \A r \in Process, c \in Cached : cache'[r][c] # NoObject =>
          \A e \in cache'[r][c] : Counts(r, e)' => InCache(r, e)'
    BY <1>1, <1>11 DEF WiringIInv, FromCache
  <2>2. \A u \in Line : \A i \in 1 .. Len(stack'[u]) :
          \A e \in stack'[u][i].got : Counts(ProcessOf(u), e)' => InCache(ProcessOf(u), e)'
    BY <1>10, <1>11 DEF WiringIInv, FromCache
  <2>3. \A r \in Process : \A e \in used' :
          Counts(r, <<e[2], e[3]>>)' => InCache(r, <<e[2], e[3]>>)'
    BY <1>1, <1>11, UsedShape
  <2> QED
    BY <2>1, <2>2, <2>3 DEF FromCache
<1>14. RunsOnce'
  <2> SUFFICES ASSUME NEW u \in Line, ProcessOf(u) \notin doubled',
                      NEW i \in 1 .. Len(stack'[u]), stack'[u][i].builder \in Cached
               PROVE  /\ cache'[ProcessOf(u)][stack'[u][i].builder] = NoObject
                      /\ \A v \in Line : ProcessOf(v) = ProcessOf(u) =>
                           \A j \in 1 .. Len(stack'[v]) :
                             stack'[v][j].builder = stack'[u][i].builder => v = u /\ j = i
    BY DEF RunsOnce
  <2> DEFINE c == stack'[u][i].builder
  <2>1. ProcessOf(u) \notin doubled
    BY <1>7
  <2>2. CASE u = t /\ i = n + 1
    <3>1. c = b /\ p \notin doubled' /\ ProcessOf(u) = p
      BY <1>3, <1>4, <1>6, <2>2
    <3>2. cache'[p][c] = NoObject
      BY <1>1, <3>1
    <3>3. ASSUME NEW v \in Line, ProcessOf(v) = p, NEW j \in 1 .. Len(stack'[v]),
                 stack'[v][j].builder = c
          PROVE  v = u /\ j = i
      <4>1. CASE v = t
        BY <1>3, <1>6, <1>9, <2>2, <3>1, <3>3, <4>1
      <4>2. CASE v # t
        BY <1>6, <1>7, <3>1, <3>3, <4>2
      <4> QED
        BY <4>1, <4>2
    <3> QED
      BY <3>1, <3>2, <3>3
  <2>3. CASE ~(u = t /\ i = n + 1)
    <3>1. i \in 1 .. Len(stack[u]) /\ stack'[u][i] = stack[u][i]
      BY <1>6, <1>9, <2>3
    <3>2. cache'[ProcessOf(u)][c] = NoObject
      BY <1>1, <2>1, <3>1 DEF WiringIInv, RunsOnce
    <3>3. ASSUME NEW v \in Line, ProcessOf(v) = ProcessOf(u), NEW j \in 1 .. Len(stack'[v]),
                 stack'[v][j].builder = c
          PROVE  v = u /\ j = i
      <4>1. CASE v = t /\ j = n + 1
        <5>1. c = b /\ p \notin doubled'
          BY <1>3, <1>4, <1>6, <3>3, <4>1
        <5>2. stack[u][i].builder = b
          BY <3>1, <5>1
        <5>3. CASE u = t
          BY <1>3, <3>1, <5>2, <5>3
        <5>4. CASE u # t
          <6>1. ProcessOf(u) = p
            BY <3>3, <4>1
          <6> QED
            BY <1>7, <3>1, <5>1, <5>2, <5>4, <6>1
        <5> QED
          BY <5>3, <5>4
      <4>2. CASE ~(v = t /\ j = n + 1)
        <5>1. j \in 1 .. Len(stack[v]) /\ stack'[v][j] = stack[v][j]
          BY <1>6, <1>9, <4>2
        <5>2. stack[v][j].builder = stack[u][i].builder /\ stack[u][i].builder \in Cached
          BY <3>1, <3>3, <5>1
        <5>3. \A w \in Line : ProcessOf(w) = ProcessOf(u) =>
                \A k \in 1 .. Len(stack[w]) :
                  stack[w][k].builder = stack[u][i].builder => w = u /\ k = i
          BY <2>1, <3>1, <5>2 DEF WiringIInv, RunsOnce
        <5> QED
          BY <3>3, <5>1, <5>2, <5>3
      <4> QED
        BY <4>1, <4>2
    <3> QED
      BY <3>2, <3>3
  <2> QED
    BY <2>2, <2>3
<1>15. OneEach'
  BY <1>1, <1>11 DEF WiringIInv, OneEach
<1> QED
  BY <1>8, <1>12, <1>13, <1>14, <1>15 DEF WiringIInv

\* What a builder makes is its process's own, and, unless builders ran twice at once,
\* what it was given is cached, what it adds is not.
LEMMA MadeShape ==
  ASSUME WiringIInv, NEW t \in Line, stack[t] # <<>>
  PROVE  /\ Made(t) \in Object /\ At(ProcessOf(t), Made(t))
         /\ \A e \in Made(t) :
              \/ Counts(ProcessOf(t), e) => InCache(ProcessOf(t), e)
              \/ /\ e[1] \in OwnOf(Top(t).builder)
                 /\ e[2] = IF Outside(e[1]) THEN Service
                           ELSE <<ProcessOf(t), serial[ProcessOf(t)] + 1>>
                 /\ e = <<e[1], e[2]>>
<1> DEFINE s == stack[t]
           n == Len(s)
           f == s[n]
           p == ProcessOf(t)
           X(r) == IF Outside(r) THEN Service ELSE <<p, serial[p] + 1>>
           Own == {<<r, X(r)>> : r \in OwnOf(f.builder)}
<1>1. Made(t) = f.got \cup Own /\ Top(t) = f
  BY DEF Made, Top
<1>2. /\ n \in 1 .. Len(s) /\ f \in Frames /\ f.got \in Object /\ p \in Process
      /\ \A e \in f.got :
           /\ e[2] = Service \/ e[2][1] = p
           /\ Counts(p, e) => InCache(p, e)
  BY StackShape, Processes
<1>3. f.builder \in Builder /\ OwnOf(f.builder) \subseteq Role
  BY <1>2, OneMaker DEF Frames
<1>4. serial[p] + 1 \in Nat
  BY <1>2 DEF WiringIInv, WiringTypes
<1> HIDE DEF f, p
<1>5. \A r : X(r) \in Owners /\ (X(r) = Service \/ X(r)[1] = p)
  BY <1>2, <1>4 DEF Owners
<1>6. ASSUME NEW e \in Own
      PROVE  /\ e \in Role \X Owners /\ (e[2] = Service \/ e[2][1] = p)
             /\ e[1] \in OwnOf(f.builder) /\ e[2] = X(e[1]) /\ e = <<e[1], e[2]>>
  <2>1. PICK r \in OwnOf(f.builder) : e = <<r, X(r)>>
    OBVIOUS
  <2> HIDE DEF X
  <2>2. e[1] = r /\ e[2] = X(r)
    BY <2>1
  <2> QED
    BY <1>3, <1>5, <2>1, <2>2
<1> HIDE DEF Own
<1>7. Made(t) \in Object
  BY <1>1, <1>2, <1>6 DEF Object
<1>8. At(p, Made(t))
  BY <1>1, <1>2, <1>6 DEF At
<1> QED
  BY <1>1, <1>2, <1>6, <1>7, <1>8 DEF p

LEMMA NoObjectIsNone == NoObject \notin Object
<1>1. <<"none", Service>> \notin Role \X Owners
  <2>1. "none" \notin Role
    BY DEF Role
  <2> QED
    BY <2>1
<1> QED
  BY <1>1 DEF NoObject, Object

LEMMA ReturnKeeps == \A t \in Line : WiringIInv /\ Return(t) => WiringIInv'
<1> SUFFICES ASSUME NEW t \in Line, WiringIInv, Return(t) PROVE WiringIInv'
  OBVIOUS
<1> DEFINE s == stack[t]
           n == Len(s)
           m == n - 1
           p == ProcessOf(t)
           b == s[n].builder
           o == Made(t)
           q == Popped(s, m, o)
<1>0. /\ s \in Seq(Frames) /\ Well(s) /\ n \in Nat /\ n > 1 /\ p \in Process
      /\ n \in 1 .. Len(s) /\ m \in 1 .. Len(s) /\ m < Len(s) /\ s # <<>>
  <2>1. Len(s) > 1
    BY DEF Return
  <2>2. s \in Seq(Frames) /\ Well(s) /\ Len(s) \in Nat /\ p \in Process
    BY StackShape, Processes
  <2>3. s # <<>>
    BY <2>1, <2>2
  <2> QED
    BY <2>1, <2>2, <2>3
<1>2. /\ stack' = [stack EXCEPT ![t] = q]
      /\ cache' = IF b \in Cached /\ cache[p][b] = NoObject
                  THEN [cache EXCEPT ![p][b] = o] ELSE cache
      /\ serial' = serial \/ serial' = [serial EXCEPT ![p] = @ + 1]
      /\ UNCHANGED <<settings, up, used, doubled>>
  BY DEF Return, Top
<1>3. /\ o \in Object /\ At(p, o)
      /\ \A e \in o :
           \/ Counts(p, e) => InCache(p, e)
           \/ /\ e[1] \in OwnOf(b)
              /\ e[2] = IF Outside(e[1]) THEN Service ELSE <<p, serial[p] + 1>>
              /\ e = <<e[1], e[2]>>
  BY <1>0, MadeShape DEF Top
<1> HIDE DEF o
<1>4. o # NoObject
  BY <1>3, NoObjectIsNone
<1>5. s[m].todo # <<>> /\ b \in Builder /\ m \in Nat
  <2>1. s[m].todo # <<>>
    BY <1>0 DEF Well
  <2>2. b \in Builder
    <3>1. s[n] \in Frames
      BY <1>0
    <3> QED
      BY <3>1 DEF Frames
  <2>3. m \in Nat
    BY <1>0
  <2> QED
    BY <2>1, <2>2, <2>3
<1>6. /\ Well(q) /\ Len(q) = m
      /\ \A i \in 1 .. m : q[i].builder = s[i].builder /\ q[i].got \subseteq s[i].got \cup o
  <2> HIDE DEF m, s
  <2> QED
    BY <1>0, <1>3, <1>5, WellReturned
<1> HIDE DEF q, b
<1>7. /\ stack \in [Line -> Seq(Frames)] /\ (\A u \in Line : Well(stack[u])) /\ q \in Seq(Frames)
      /\ cache \in [Process -> [Cached -> Object \cup {NoObject}]]
      /\ serial \in [Process -> Nat]
  BY <1>6 DEF WiringIInv, WiringTypes, Well
<1>8. /\ stack' \in [Line -> Seq(Frames)]
      /\ stack'[t] = q /\ \A u \in Line : u # t => stack'[u] = stack[u]
  BY <1>2, <1>7
<1>9. /\ cache' \in [Process -> [Cached -> Object \cup {NoObject}]]
      /\ \A r \in Process, c \in Cached :
           \/ cache'[r][c] = cache[r][c]
           \/ r = p /\ c = b /\ cache[r][c] = NoObject /\ cache'[r][c] = o
      /\ b \in Cached /\ cache[p][b] = NoObject => cache'[p][b] = o
  BY <1>0, <1>2, <1>3, <1>7
<1>10. WiringTypes'
  <2>1. \A u \in Line : Well(stack'[u])
    BY <1>6, <1>7, <1>8
  <2>2. serial' \in [Process -> Nat]
    <3>1. serial[p] + 1 \in Nat
      BY <1>0, <1>7
    <3> QED
      BY <1>0, <1>2, <1>7, <3>1
  <2> QED
    BY <1>2, <1>8, <1>9, <2>1, <2>2 DEF WiringIInv, WiringTypes
<1>11. \A u \in Line : \A i \in 1 .. Len(stack'[u]) :
         /\ i \in 1 .. Len(stack[u]) /\ stack'[u][i].builder = stack[u][i].builder
         /\ \A e \in stack'[u][i].got : e \in stack[u][i].got \/ (u = t /\ e \in o)
         /\ u = t => i # n
  <2>1. \A i \in 1 .. Len(q) : i \in 1 .. Len(s) /\ i \in 1 .. m /\ i # n
    BY <1>0, <1>6
  <2> QED
    BY <1>6, <1>8, <2>1
<1>12. AtHome'
  <2>1. \A r \in Process, c \in Cached : cache'[r][c] # NoObject => At(r, cache'[r][c])
    BY <1>3, <1>9 DEF WiringIInv, AtHome
  <2>2. \A u \in Line : \A i \in 1 .. Len(stack'[u]) : At(ProcessOf(u), stack'[u][i].got)
    BY <1>3, <1>11 DEF WiringIInv, AtHome, At
  <2> QED
    BY <2>1, <2>2 DEF AtHome
<1>13. /\ \A r, e : Counts(r, e)' = Counts(r, e)
       /\ \A r \in Process : \A e : InCache(r, e) => InCache(r, e)'
  <2>1. \A r, e : Counts(r, e)' = Counts(r, e)
    BY <1>2 DEF Counts
  <2>2. ASSUME NEW r \in Process, NEW e, InCache(r, e) PROVE InCache(r, e)'
    <3>1. PICK c \in Cached : e[1] \in OwnOf(c) /\ cache[r][c] # NoObject /\ e \in cache[r][c]
      BY <2>2 DEF InCache
    <3>2. cache'[r][c] = cache[r][c]
      BY <1>9, <3>1
    <3> QED
      BY <3>1, <3>2 DEF InCache
  <2> QED
    BY <2>1, <2>2
<1>14. p \notin doubled /\ b \in Cached => cache[p][b] = NoObject
  <2> USE DEF b
  <2> QED
    BY <1>0 DEF WiringIInv, RunsOnce
<1>15. \A e \in o : Counts(p, e) => InCache(p, e)'
  <2> SUFFICES ASSUME NEW e \in o, Counts(p, e) PROVE InCache(p, e)'
    OBVIOUS
  <2>1. CASE InCache(p, e)
    BY <1>0, <1>13, <2>1
  <2>2. CASE e[1] \in OwnOf(b)
    <3>1. b \in Cached
      BY <1>5, <2>2, OneMaker
    <3>2. cache'[p][b] = o
      BY <1>9, <1>14, <3>1 DEF Counts
    <3> QED
      BY <1>4, <2>2, <3>1, <3>2 DEF InCache
  <2> QED
    BY <1>3, <2>1, <2>2
<1>16. FromCache'
  <2>1. \A r \in Process, c \in Cached : cache'[r][c] # NoObject =>
          \A e \in cache'[r][c] : Counts(r, e)' => InCache(r, e)'
    BY <1>9, <1>13, <1>15 DEF WiringIInv, FromCache
  <2>2. ASSUME NEW u \in Line, NEW i \in 1 .. Len(stack'[u]), NEW e \in stack'[u][i].got,
               Counts(ProcessOf(u), e)
        PROVE  InCache(ProcessOf(u), e)'
    <3>1. CASE e \in stack[u][i].got
      BY <1>11, <1>13, <2>2, <3>1, StackShape, Processes
    <3>2. CASE u = t /\ e \in o
      BY <1>15, <2>2, <3>2
    <3> QED
      BY <1>11, <3>1, <3>2
  <2>3. \A r \in Process : \A e \in used' :
          Counts(r, <<e[2], e[3]>>)' => InCache(r, <<e[2], e[3]>>)'
    BY <1>2, <1>13, UsedShape
  <2> QED
    BY <1>13, <2>1, <2>2, <2>3 DEF FromCache
<1>17. RunsOnce'
  <2> SUFFICES ASSUME NEW u \in Line, ProcessOf(u) \notin doubled',
                      NEW i \in 1 .. Len(stack'[u]), stack'[u][i].builder \in Cached
               PROVE  /\ cache'[ProcessOf(u)][stack'[u][i].builder] = NoObject
                      /\ \A v \in Line : ProcessOf(v) = ProcessOf(u) =>
                           \A j \in 1 .. Len(stack'[v]) :
                             stack'[v][j].builder = stack'[u][i].builder => v = u /\ j = i
    BY DEF RunsOnce
  <2> DEFINE c == stack'[u][i].builder
  <2>1. /\ i \in 1 .. Len(stack[u]) /\ c = stack[u][i].builder /\ ProcessOf(u) \notin doubled
        /\ u = t => i # n
    BY <1>2, <1>11
  <2>2. /\ cache[ProcessOf(u)][c] = NoObject
        /\ \A v \in Line : ProcessOf(v) = ProcessOf(u) =>
             \A j \in 1 .. Len(stack[v]) : stack[v][j].builder = c => v = u /\ j = i
    BY <2>1 DEF WiringIInv, RunsOnce
  <2>3. ~(ProcessOf(u) = p /\ c = b)
    <3> USE DEF b
    <3> QED
      BY <1>0, <2>1, <2>2
  <2>4. cache'[ProcessOf(u)][c] = NoObject
    BY <1>9, <2>2, <2>3, Processes
  <2>5. \A v \in Line : ProcessOf(v) = ProcessOf(u) =>
          \A j \in 1 .. Len(stack'[v]) : stack'[v][j].builder = c => v = u /\ j = i
    BY <1>11, <2>2
  <2> QED
    BY <2>4, <2>5
<1>18. OneEach'
  <2> SUFFICES ASSUME NEW r \in Process, NEW c \in Cached, cache'[r][c] # NoObject,
                      NEW e \in cache'[r][c], NEW f \in cache'[r][c],
                      Counts(r, e), Counts(r, f), e[1] = f[1], e[1] \in OwnOf(c)
               PROVE  e = f
    BY <1>13 DEF OneEach
  <2>1. CASE cache'[r][c] = cache[r][c]
    BY <2>1 DEF WiringIInv, OneEach
  <2>2. CASE r = p /\ c = b /\ cache[r][c] = NoObject /\ cache'[r][c] = o
    <3>1. ASSUME NEW g \in o, Counts(p, g), g[1] = e[1] PROVE ~InCache(p, g)
      <4> SUFFICES ASSUME InCache(p, g) PROVE FALSE
        OBVIOUS
      <4>1. PICK d \in Cached : g[1] \in OwnOf(d) /\ cache[p][d] # NoObject
        BY DEF InCache
      <4>2. g[1] \in Role \ {"vectors"} /\ d \in Builder /\ b \in Builder
        BY <1>5, <2>2, <3>1, OneMaker, KnownBuilders DEF Counts
      <4>3. d = b
        BY <2>2, <3>1, <4>1, <4>2, OneMaker
      <4> QED
        BY <2>2, <4>1, <4>3
    <3>2. ~InCache(p, e) /\ ~InCache(p, f)
      BY <2>2, <3>1
    <3>3. /\ e = <<e[1], e[2]>> /\ f = <<f[1], f[2]>>
          /\ e[2] = IF Outside(e[1]) THEN Service ELSE <<p, serial[p] + 1>>
          /\ f[2] = IF Outside(f[1]) THEN Service ELSE <<p, serial[p] + 1>>
      BY <1>3, <2>2, <3>2
    <3> QED
      BY <3>3
  <2> QED
    BY <1>9, <2>1, <2>2
<1> QED
  BY <1>10, <1>12, <1>16, <1>17, <1>18 DEF WiringIInv

\* A new server has nothing, and what the old one kept in memory is not counted.
LEMMA RestartKeeps == WiringIInv /\ Restart => WiringIInv'
<1> SUFFICES ASSUME WiringIInv, Restart PROVE WiringIInv'
  OBVIOUS
<1>1. /\ up' = FALSE /\ doubled' = doubled \ {"server"} /\ settings' = settings
      /\ cache' = [cache EXCEPT !["server"] = [b \in Cached |-> NoObject]]
      /\ stack' = [t \in Line |-> IF ProcessOf(t) = "server" THEN <<>> ELSE stack[t]]
      /\ used' = {e \in used : e[3][1] # "server"}
      /\ serial' = [serial EXCEPT !["server"] = 0]
  BY DEF Restart
<1>2. /\ cache \in [Process -> [Cached -> Object \cup {NoObject}]]
      /\ stack \in [Line -> Seq(Frames)] /\ (\A t \in Line : Well(stack[t]))
      /\ used \in SUBSET (Requests \X Role \X Owners) /\ doubled \subseteq Process
      /\ serial \in [Process -> Nat] /\ settings \in Deployment
  BY DEF WiringIInv, WiringTypes
<1>3. /\ "server" \in Process
      /\ \A p \in Process, b \in Cached :
           cache'[p][b] = IF p = "server" THEN NoObject ELSE cache[p][b]
      /\ cache' \in [Process -> [Cached -> Object \cup {NoObject}]]
  BY <1>1, <1>2 DEF Process
<1>4. <<>> \in Seq(Frames) /\ Len(<<>>) = 0 /\ Well(<<>>) /\ \A i \in 1 .. Len(<<>>) : FALSE
  <2>1. <<>> \in Seq(Frames) /\ Len(<<>>) = 0
    OBVIOUS
  <2> QED
    BY <2>1 DEF Well
<1>5. /\ stack' \in [Line -> Seq(Frames)]
      /\ \A t \in Line : Well(stack'[t])
      /\ \A t \in Line : \A i \in 1 .. Len(stack'[t]) :
           ProcessOf(t) # "server" /\ stack'[t] = stack[t]
  BY <1>1, <1>2, <1>4
<1>6. WiringTypes'
  <2>1. used' \in SUBSET (Requests \X Role \X Owners) /\ doubled' \subseteq Process
    BY <1>1, <1>2
  <2>2. serial' \in [Process -> Nat]
    BY <1>1, <1>2
  <2> QED
    BY <1>1, <1>2, <1>3, <1>5, <2>1, <2>2 DEF WiringTypes
<1>7. AtHome'
  <2>1. \A p \in Process, b \in Cached : cache'[p][b] # NoObject => At(p, cache'[p][b])
    BY <1>3 DEF WiringIInv, AtHome
  <2>2. \A t \in Line : \A i \in 1 .. Len(stack'[t]) : At(ProcessOf(t), stack'[t][i].got)
    BY <1>5 DEF WiringIInv, AtHome
  <2> QED
    BY <2>1, <2>2 DEF AtHome
<1>8. /\ \A p, e : p # "server" => Counts(p, e)' = Counts(p, e)
      /\ \A p \in Process : \A e : p # "server" => InCache(p, e)' = InCache(p, e)
  BY <1>1, <1>3 DEF Counts, InCache
<1>9. RunsOnce'
  <2> SUFFICES ASSUME NEW t \in Line, ProcessOf(t) \notin doubled',
                      NEW i \in 1 .. Len(stack'[t]), stack'[t][i].builder \in Cached
               PROVE  /\ cache'[ProcessOf(t)][stack'[t][i].builder] = NoObject
                      /\ \A u \in Line : ProcessOf(u) = ProcessOf(t) =>
                           \A j \in 1 .. Len(stack'[u]) :
                             stack'[u][j].builder = stack'[t][i].builder => u = t /\ j = i
    BY DEF RunsOnce
  <2>1. ProcessOf(t) # "server" /\ stack'[t] = stack[t] /\ ProcessOf(t) \notin doubled
    BY <1>1, <1>5
  <2>2. i \in 1 .. Len(stack[t]) /\ stack[t][i].builder \in Cached
    BY <2>1
  <2>3. /\ cache[ProcessOf(t)][stack[t][i].builder] = NoObject
        /\ \A u \in Line : ProcessOf(u) = ProcessOf(t) =>
             \A j \in 1 .. Len(stack[u]) :
               stack[u][j].builder = stack[t][i].builder => u = t /\ j = i
    BY <2>1, <2>2 DEF WiringIInv, RunsOnce
  <2>4. ASSUME NEW u \in Line, ProcessOf(u) = ProcessOf(t), NEW j \in 1 .. Len(stack'[u]),
               stack'[u][j].builder = stack'[t][i].builder
        PROVE  u = t /\ j = i
    <3>1. stack'[u] = stack[u]
      BY <1>5, <2>4
    <3> QED
      BY <2>1, <2>3, <2>4, <3>1
  <2>5. cache'[ProcessOf(t)][stack'[t][i].builder] = NoObject
    <3>1. ProcessOf(t) \in Process /\ ProcessOf(t) # "server"
      BY <2>1, Processes
    <3>2. cache'[ProcessOf(t)][stack[t][i].builder] = cache[ProcessOf(t)][stack[t][i].builder]
      BY <1>3, <2>2, <3>1
    <3> QED
      BY <2>1, <2>3, <3>2
  <2> QED
    BY <2>4, <2>5
<1>10. FromCache'
  <2>1. \A p \in Process, b \in Cached : cache'[p][b] # NoObject =>
          \A e \in cache'[p][b] : Counts(p, e)' => InCache(p, e)'
    BY <1>3, <1>8 DEF WiringIInv, FromCache
  <2>2. \A t \in Line : \A i \in 1 .. Len(stack'[t]) : \A e \in stack'[t][i].got :
          Counts(ProcessOf(t), e)' => InCache(ProcessOf(t), e)'
    BY <1>5, <1>8, StackShape, Processes
  <2>3. ASSUME NEW p \in Process, NEW e \in used', Counts(p, <<e[2], e[3]>>)'
        PROVE  InCache(p, <<e[2], e[3]>>)'
    <3>1. e \in used /\ e[3][1] # "server"
      BY <1>1
    <3>2. p # "server"
      BY <2>3, <3>1 DEF Counts
    <3> QED
      BY <1>8, <2>3, <3>1, <3>2, UsedShape
  <2> QED
    BY <2>1, <2>2, <2>3 DEF FromCache
<1>11. OneEach'
  <2> SUFFICES ASSUME NEW p \in Process, NEW b \in Cached, cache'[p][b] # NoObject,
                      NEW e \in cache'[p][b], NEW f \in cache'[p][b],
                      Counts(p, e)', Counts(p, f)', e[1] = f[1], e[1] \in OwnOf(b)
               PROVE  e = f
    BY DEF OneEach
  <2>1. p # "server" /\ cache'[p][b] = cache[p][b]
    BY <1>3
  <2> QED
    BY <1>8, <2>1 DEF WiringIInv, OneEach
<1> QED
  BY <1>6, <1>7, <1>9, <1>10, <1>11 DEF WiringIInv

-----------------------------------------------------------------------------
(* The theorem *)

LEMMA WiringInitEstablishes == WiringInit => WiringIInv
<1> SUFFICES ASSUME WiringInit PROVE WiringIInv
  OBVIOUS
<1>1. <<>> \in Seq(Frames) /\ Len(<<>>) = 0 /\ Well(<<>>) /\ \A i \in 1 .. Len(<<>>) : FALSE
  <2>1. <<>> \in Seq(Frames) /\ Len(<<>>) = 0
    OBVIOUS
  <2> QED
    BY <2>1 DEF Well
<1>2. /\ \A t \in Line : stack[t] = <<>>
      /\ \A p \in Process, b \in Cached : cache[p][b] = NoObject
      /\ used = {}
  BY DEF WiringInit
<1>3. WiringTypes
  BY <1>1 DEF WiringInit, WiringTypes
<1>4. AtHome /\ FromCache /\ RunsOnce /\ OneEach
  BY <1>1, <1>2 DEF AtHome, FromCache, RunsOnce, OneEach
<1> QED
  BY <1>3, <1>4 DEF WiringIInv

LEMMA WiringStepKeeps == WiringIInv /\ [WiringNext]_wiringVars => WiringIInv'
<1> SUFFICES ASSUME WiringIInv, [WiringNext]_wiringVars PROVE WiringIInv'
  OBVIOUS
<1>0. up \in BOOLEAN
  BY DEF WiringIInv, WiringTypes
<1>1. CASE StartUp
  <2>1. CASE Begin("main", "scan") /\ UNCHANGED up
    <3>1. "main" \in Line /\ "scan" \in Requests /\ up' \in BOOLEAN
      BY <1>0, <2>1, KnownBuilders DEF Line
    <3> QED
      BY <2>1, <3>1, BeginKeeps
  <2>2. CASE up' = TRUE /\ UNCHANGED <<settings, cache, stack, serial, used, doubled, restarts>>
    BY <2>2 DEF WiringIInv, WiringTypes, AtHome, At, RunsOnce, FromCache, OneEach, Counts, InCache
  <2> QED
    BY <1>1, <2>1, <2>2 DEF StartUp
<1>2. ASSUME NEW t \in Thread, NEW r \in Asked, Serve(t, r) PROVE WiringIInv'
  <2>1. t \in Line /\ r \in Requests /\ Begin(t, r) /\ up' \in BOOLEAN
    BY <1>0, <1>2, WiringAssumption DEF Serve, Line
  <2> QED
    BY <2>1, BeginKeeps
<1>3. CASE Work
  <2>1. "worker" \in Line /\ "work" \in Requests /\ Begin("worker", "work") /\ up' \in BOOLEAN
    BY <1>0, <1>3, KnownBuilders DEF Work, Line
  <2> QED
    BY <2>1, BeginKeeps
<1>4. ASSUME NEW t \in Line, Hit(t) \/ Miss(t) \/ Return(t) \/ Raise(t) \/ Finish(t)
      PROVE  WiringIInv'
  BY <1>4, HitKeeps, MissKeeps, ReturnKeeps, RaiseKeeps, FinishKeeps
<1>5. CASE Restart
  BY <1>5, RestartKeeps
<1>6. CASE UNCHANGED wiringVars
  BY <1>6 DEF wiringVars, WiringIInv, WiringTypes, AtHome, At, RunsOnce, FromCache, OneEach,
              Counts, InCache
<1> QED
  BY <1>1, <1>2, <1>3, <1>4, <1>5, <1>6 DEF WiringNext

LEMMA WiringInvFollows == WiringIInv => WiringInv
<1> SUFFICES ASSUME WiringIInv PROVE WiringInv
  OBVIOUS
<1>1. WiringTypeOK
  BY DEF WiringIInv, WiringTypes, WiringTypeOK
<1>2. ASSUME NEW p \in Process, NEW r \in Role \ {"vectors"}, p \notin doubled
      PROVE  Cardinality({o \in OwnersOf(UsedBy(Requests, r)) : o[1] = p}) <= 1
  <2> DEFINE S == {o \in OwnersOf(UsedBy(Requests, r)) : o[1] = p}
  <2>1. ASSUME NEW o \in S PROVE Counts(p, <<r, o>>) /\ InCache(p, <<r, o>>)
    <3>1. PICK e \in used : e[2] = r /\ e[3] = o
      BY DEF OwnersOf, UsedBy
    <3>2. Counts(p, <<r, o>>)
      BY <1>2 DEF Counts
    <3> QED
      BY <3>1, <3>2, UsedShape
  <2>2. ASSUME NEW o \in S, NEW x \in S PROVE o = x
    <3>1. PICK b \in Cached :
            r \in OwnOf(b) /\ cache[p][b] # NoObject /\ <<r, o>> \in cache[p][b]
      BY <2>1 DEF InCache
    <3>2. PICK c \in Cached :
            r \in OwnOf(c) /\ cache[p][c] # NoObject /\ <<r, x>> \in cache[p][c]
      BY <2>1 DEF InCache
    <3>3. b = c
      BY <3>1, <3>2, OneMaker, KnownBuilders
    <3>4. <<r, o>> = <<r, x>>
      BY <2>1, <3>1, <3>2, <3>3 DEF WiringIInv, OneEach
    <3> QED
      BY <3>4
  <2>3. S = {} \/ \E o : S = {o}
    BY <2>2
  <2> HIDE DEF S
  <2>4. Cardinality(S) <= 1
    <3>1. CASE S = {}
      BY <3>1, FS_EmptySet
    <3>2. ASSUME NEW o, S = {o} PROVE Cardinality(S) <= 1
      <4>1. Cardinality({o}) = 1
        BY FS_Singleton
      <4> QED
        BY <3>2, <4>1
    <3> QED
      BY <2>3, <3>1, <3>2
  <2> QED
    BY <2>4 DEF S
<1>3. BuiltOnce
  BY <1>2 DEF BuiltOnce, OneState
<1> QED
  BY <1>1, <1>3 DEF WiringInv

\* Whatever is asked for, by however many threads, and however often the server is
\* restarted: unless a builder ran twice at once in it, all that a process has used of
\* a role, but for the vectors, is one and the same state.
THEOREM WiringIsSafe == WiringSpec => []WiringInv
<1>1. WiringInit => WiringIInv
  BY WiringInitEstablishes
<1>2. WiringIInv /\ [WiringNext]_wiringVars => WiringIInv'
  BY WiringStepKeeps
<1>3. WiringIInv => WiringInv
  BY WiringInvFollows
<1> QED
  BY <1>1, <1>2, <1>3, PTL DEF WiringSpec
=============================================================================
