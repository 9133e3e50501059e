------------------------------ MODULE Accounts -------------------------------
(***************************************************************************)
(* Registration, login and bearer tokens (AuthService over one of two user *)
(* stores), with requests served by several threads without a lock: a      *)
(* registration looks the address up and creates the account in two calls. *)
(* A token is signed and stateless, so it outlives a restart; the accounts *)
(* of the in-memory store do not.                                          *)
(***************************************************************************)
EXTENDS Naturals, FiniteSets

CONSTANTS
  Address,     \* addresses as typed
  Canon,       \* Canon[a]: the address trimmed and lower-cased
  Password,
  Client,      \* threads, each serving one client's request at a time
  MaxAccounts, \* bound: accounts ever created
  NoRequest

ASSUME AccountsAssumption == MaxAccounts \in Nat

VARIABLES
  postgres,  \* DATABASE_URL is set
  users,     \* the accounts, by id (_by_id, or the rows)
  byEmail,   \* the id an address leads to (_by_email, or the unique column)
  nextId,
  req,       \* a registration between its lookup and its insert
  tokens,    \* tokens in clients' hands, not expired: id and address
  told,      \* history: what clients were told they registered (201)
  raced      \* history: addresses two registrations went for at once

accountVars == <<postgres, users, byEmail, nextId, req, tokens, told, raced>>

Email == {Canon[a] : a \in Address}
Accounts == [id : Nat, email : Email, password : Password]

AccountsTypeOK ==
  /\ postgres \in BOOLEAN
  /\ users \subseteq Accounts
  /\ byEmail \in [Email -> 0 .. MaxAccounts]
  /\ nextId \in 1 .. MaxAccounts + 1
  /\ req \in [Client -> {NoRequest} \cup [email : Email, password : Password]]
  /\ tokens \subseteq [sub : Nat, email : Email]
  /\ told \subseteq Accounts
  /\ raced \subseteq Email

AccountsInit ==
  /\ postgres \in BOOLEAN
  /\ users = {}
  /\ byEmail = [e \in Email |-> 0]
  /\ nextId = 1
  /\ req = [c \in Client |-> NoRequest]
  /\ tokens = {}
  /\ told = {}
  /\ raced = {}

\* Which account a login with e and p gets: one, or none.
Authenticated(e, p) == {u \in users : u.id = byEmail[e] /\ u.email = e /\ u.password = p}

\* The token of an account.
Minted(u) == [sub |-> u.id, email |-> u.email]

\* The account a token stands for: one, or none.
Identified(t) == {u \in users : u.id = t.sub}

-----------------------------------------------------------------------------

\* register: the address is normalized and is not taken.  (When it is, the
\* answer is 409 and nothing changes.)
Register(c, a, p) ==
  /\ req[c] = NoRequest
  /\ byEmail[Canon[a]] = 0
  /\ req' = [req EXCEPT ![c] = [email |-> Canon[a], password |-> p]]
  /\ raced' = IF \E d \in Client : req[d] # NoRequest /\ req[d].email = Canon[a]
              THEN raced \cup {Canon[a]}
              ELSE raced
  /\ UNCHANGED <<postgres, users, byEmail, nextId, tokens, told>>

\* The account is created, a token minted and the client answered.
Answer(c, u) ==
  /\ users' = users \cup {u}
  /\ byEmail' = [byEmail EXCEPT ![u.email] = u.id]
  /\ nextId' = nextId + 1
  /\ req' = [req EXCEPT ![c] = NoRequest]
  /\ tokens' = tokens \cup {Minted(u)}
  /\ told' = told \cup {u}
  /\ UNCHANGED <<postgres, raced>>

\* create: Postgres refuses a second row for the address, the dict does not.
Create(c) ==
  /\ req[c] # NoRequest
  /\ postgres => byEmail[req[c].email] = 0
  /\ nextId <= MaxAccounts
  /\ Answer(c, [id |-> nextId, email |-> req[c].email, password |-> req[c].password])

\* The insert raises: another row has the address, or the database is away.
CreateFails(c) ==
  /\ req[c] # NoRequest
  /\ postgres
  /\ req' = [req EXCEPT ![c] = NoRequest]
  /\ UNCHANGED <<postgres, users, byEmail, nextId, tokens, told, raced>>

\* Mutated: the token is made out to the last account created.
LoginAsLatest(a, p) ==
  /\ \E u \in Authenticated(Canon[a], p) :
       tokens' = tokens \cup {[sub |-> nextId - 1, email |-> u.email]}
  /\ UNCHANGED <<postgres, users, byEmail, nextId, req, told, raced>>

\* login; wrong credentials change nothing.
Login(a, p) ==
  /\ \E u \in Authenticated(Canon[a], p) :
       tokens' = tokens \cup {Minted(u)}
  /\ UNCHANGED <<postgres, users, byEmail, nextId, req, told, raced>>

ExpireToken(t) ==
  /\ tokens' = tokens \ {t}
  /\ UNCHANGED <<postgres, users, byEmail, nextId, req, told, raced>>

\* The process is started again: requests are gone, and so is the dict.
RestartServer ==
  /\ req' = [c \in Client |-> NoRequest]
  /\ IF postgres
     THEN UNCHANGED <<users, byEmail, told>>
     ELSE users' = {} /\ byEmail' = [e \in Email |-> 0] /\ told' = {}
  /\ UNCHANGED <<postgres, nextId, tokens, raced>>

AccountsNext ==
  \/ \E c \in Client, a \in Address, p \in Password : Register(c, a, p)
  \/ \E c \in Client : Create(c) \/ CreateFails(c)
  \/ \E a \in Address, p \in Password : Login(a, p)
  \/ \E t \in tokens : ExpireToken(t)
  \/ RestartServer

AccountsSpec == AccountsInit /\ [][AccountsNext]_accountVars

-----------------------------------------------------------------------------

\* Whoever was told an account is theirs logs into that very account with the
\* password they chose, whatever else was registered since; in memory this needs
\* that no other registration of the address ran at the same time.
RegisteredLogsIn ==
  \A u \in told :
    postgres \/ u.email \notin raced => Authenticated(u.email, u.password) = {u}

\* A token leads to an account of the address it was issued for or, after the
\* in-memory store was lost, to none: never to another one, as ids do not return.
TokenIsTheirs ==
  \A t \in tokens :
    /\ \A u \in Identified(t) : u.email = t.email
    /\ postgres => Identified(t) # {}

\* Users, requests and tokens are well-formed, who registered logs in, and a token
\* leads to its own account.
AccountsInv == AccountsTypeOK /\ RegisteredLogsIn /\ TokenIsTheirs

\* "Create a new account, or raise EmailAlreadyRegistered" (register): an address has
\* one account.  In memory two registrations of it that run at once make two.
OneAccountPerAddress == \A u, v \in users : u.email = v.email => u = v
=============================================================================
