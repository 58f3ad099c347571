-------------------------------- MODULE Login --------------------------------
(***************************************************************************)
(* Login by challenge and response, and the requests of those logged in    *)
(* (esp-web-utils/src/lib.rs): handle_login and the extractor Authorized,  *)
(* composed of the NonceStore and the LruMemoryStore they share.           *)
(*                                                                         *)
(* handle_login awaits the nonce, the username, the password and a random  *)
(* number.  UserStorage and next_random_u64 are the application's and may  *)
(* pend, so other requests and changes of the credentials come between any *)
(* two of these steps; the stores never make it wait.  A response is taken *)
(* for the three values it is the hash of.  The clients are browsers, one  *)
(* request each at a time; they are external.                              *)
(***************************************************************************)
EXTENDS Integers, Sequences, FiniteSets

CONSTANTS
  Clients,     \* browsers
  Nonces,      \* random numbers handed out as nonces
  NonceSlots,  \* size of the ring of nonces
  Lifetime,    \* 30 s, in steps of the clock
  Ids,         \* random numbers used as session ids
  Capacity,    \* size of the session store
  Window,      \* 3600 s, in steps of the clock
  Names, Passwords,  \* usernames and passwords
  StoredNames, StoredPasswords,  \* what UserStorage may return for them
  Submitted,   \* the LoginData clients send
  OtherParts,  \* what else a Cookie header may start with
  DropCookies, \* TRUE: clients drop a cookie after Max-Age, as browsers do
  None,
  MaxIssued,   \* bound: how often a nonce is handed out
  MaxTime      \* bound: the clock

\* A part of a Cookie header: its name, and its value as an id or None.
Part(name, id) == [name |-> name, id |-> id]

ASSUME LoginAssumption ==
  /\ None \notin Nonces \cup {0} \cup Ids \cup Names \cup Passwords
  /\ NonceSlots \in Nat \ {0} /\ Capacity \in Nat \ {0}
  /\ Lifetime \in Nat /\ Window \in Nat /\ MaxIssued \in Nat /\ MaxTime \in Nat
  /\ OtherParts \subseteq {Part("session", None), Part("other", None)}
  /\ StoredNames \subseteq Names \cup {None}
  /\ StoredPasswords \subseteq Passwords \cup {None}
  /\ DropCookies \in BOOLEAN

VARIABLES
  nonces, next_idx, verdict,  \* the NonceStore, what verify() returned last
  records, reply,             \* the LruMemoryStore, its last reply
  clock,     \* the time
  storage,   \* what UserStorage returns: username and password, or None
  handler,   \* progress of the login of each client
  jar,       \* the session cookie each client holds
  issues,    \* history: how often each nonce was handed out
  logins,    \* history: the sessions opened with each nonce
  current,   \* history: what storage has been since the nonce was verified
  seen       \* history: who opened a session, and when it was last used

vars == <<nonces, next_idx, verdict, records, reply, clock, storage, handler,
          jar, issues, logins, current, seen>>

Inactivity == [kind |-> "OnInactivity", ticks |-> Window]

Nonce == INSTANCE NonceStore WITH
  N <- NonceSlots, issued <- <<>>, claimed <- {}, accepted <- issues, MaxAccepted <- 0

Store == INSTANCE SessionStore WITH
  Data <- Names, Expiries <- {Inactivity}, N <- Capacity, Reuse <- FALSE,
  MaxDelay <- 0, closed <- {}

\* A step that does not use one of the stores; what a method returned is kept
\* for its own step only.
NoVerdict == [nonce |-> None, valid |-> FALSE]
NoncesIdle == UNCHANGED <<nonces, next_idx>> /\ verdict' = NoVerdict
StoreIdle == UNCHANGED records /\ reply' = Store!NoReply

\* The hash of a nonce, a username and a password; and LoginData.  The nonce in it is
\* the client's choice: one handed out or not, or 0, the mark of an empty slot.
Hash(nonce, user, password) == [nonce |-> nonce, user |-> user, password |-> password]
Hashes == [nonce : Nonce!Claims, user : Names, password : Passwords]
LoginData == [user : Names, response : Hashes, nonce : Nonce!Claims]

ASSUME SubmittedAssumption == Submitted \subseteq LoginData

Storages == [username : StoredNames, password : StoredPasswords]

Frame(pc, data, user) == [pc |-> pc, data |-> data, user |-> user]
Idle == Frame("idle", None, None)
Cookie(id, until) == [id |-> id, until |-> until]
Use(user, at) == [user |-> user, at |-> at]

Records == [id : Ids, data : Names, expiry : {Inactivity}, last_active : Nat]
Cookies == [id : Ids, until : Nat]
Uses == [user : Names, at : Nat]

ASSUME NoneAssumption ==
  None \notin Records /\ None \notin Cookies /\ None \notin Uses /\ None \notin LoginData

Init ==
  /\ Nonce!Init
  /\ Store!Init
  /\ storage \in Storages
  /\ handler = [c \in Clients |-> Idle]
  /\ jar = [c \in Clients |-> None]
  /\ issues = [nonce \in Nonce!Claims |-> 0]
  /\ logins = [nonce \in Nonce!Claims |-> 0]
  /\ current = [c \in Clients |-> {}]
  /\ seen = [id \in Ids |-> None]

-----------------------------------------------------------------------------
\* The login page of the application hands out a nonce.
Issue(nonce) ==
  /\ issues[nonce] < MaxIssued
  /\ Nonce!insert(nonce)
  /\ issues' = [issues EXCEPT ![nonce] = @ + 1]
  /\ verdict' = NoVerdict
  /\ StoreIdle
  /\ UNCHANGED <<clock, storage, handler, jar, logins, current, seen>>

\* The application changes a credential; that is two calls for both.
Change(new) ==
  /\ storage' = new
  /\ current' = [c \in Clients |->
       IF handler[c].pc = "idle" THEN current[c] ELSE current[c] \cup {new}]
  /\ NoncesIdle
  /\ StoreIdle
  /\ UNCHANGED <<clock, handler, jar, issues, logins, seen>>

ChangeCredential ==
  \/ \E name \in StoredNames : Change([storage EXCEPT !.username = name])
  \/ \E word \in StoredPasswords : Change([storage EXCEPT !.password = word])

Goto(c, pc, user) ==
  handler' = [handler EXCEPT ![c] = Frame(pc, @.data, user)]
Respond401(c) == handler' = [handler EXCEPT ![c] = Idle]

\* Bound: a login is begun only while there is a session id left to give it.
IdLeft ==
  Cardinality({c \in Clients : handler[c] # Idle})
    + Cardinality({id \in Ids : seen[id] # None}) < Cardinality(Ids)

\* Faulty variant: the nonce is looked up, and not used up.
Verify_Peek(c, data) ==
  /\ handler[c] = Idle /\ IdLeft
  /\ Nonce!verify_Keep(data.nonce)
  /\ IF verdict'.valid
     THEN /\ handler' = [handler EXCEPT ![c] = Frame("username", data, None)]
          /\ current' = [current EXCEPT ![c] = {storage}]
     ELSE UNCHANGED <<handler, current>>
  /\ StoreIdle
  /\ UNCHANGED <<next_idx, clock, storage, jar, issues, logins, seen>>

\* handle_login is called with data: the nonce first.
Verify(c, data) ==
  /\ handler[c] = Idle /\ IdLeft
  /\ Nonce!verify(data.nonce)
  /\ IF verdict'.valid
     THEN /\ handler' = [handler EXCEPT ![c] = Frame("username", data, None)]
          /\ current' = [current EXCEPT ![c] = {storage}]
     ELSE UNCHANGED <<handler, current>>
  /\ StoreIdle
  /\ UNCHANGED <<next_idx, clock, storage, jar, issues, logins, seen>>

ReadUsername(c) ==
  /\ handler[c].pc = "username"
  /\ Goto(c, "password", storage.username)
  /\ NoncesIdle
  /\ StoreIdle
  /\ UNCHANGED <<clock, storage, jar, issues, logins, current, seen>>

\* Faulty variant: hashes the name that was submitted, not the stored one.
Matches_Submitted(data, user, password) ==
  /\ user # None /\ password # None
  /\ data.response = Hash(data.nonce, data.user, password)

Matches(data, user, password) ==
  /\ user # None /\ password # None
  /\ user = data.user
  /\ data.response = Hash(data.nonce, user, password)

ReadPassword(c) ==
  /\ handler[c].pc = "password"
  /\ IF Matches(handler[c].data, handler[c].user, storage.password)
     THEN Goto(c, "token", handler[c].user) /\ UNCHANGED current
     ELSE Respond401(c) /\ current' = [current EXCEPT ![c] = {}]
  /\ NoncesIdle
  /\ StoreIdle
  /\ UNCHANGED <<clock, storage, jar, issues, logins, seen>>

SessionRecord(id, user) ==
  [id |-> id, data |-> user, expiry |-> Inactivity, last_active |-> clock]

\* The random number is there, one of 64 bits that has not come up before: the
\* session is saved and its cookie sent, with Max-Age the seconds of the policy.
Open(c) ==
  LET user == handler[c].user IN
  /\ handler[c].pc = "token"
  /\ \E id \in Ids :
       /\ seen[id] = None
       /\ Store!save(SessionRecord(id, user))
       /\ jar' = [jar EXCEPT ![c] = Cookie(id, clock + Window)]
       /\ seen' = [seen EXCEPT ![id] = Use(user, clock)]
  /\ logins' = [logins EXCEPT ![handler[c].data.nonce] = @ + 1]
  /\ handler' = [handler EXCEPT ![c] = Idle]
  /\ current' = [current EXCEPT ![c] = {}]
  /\ NoncesIdle
  /\ UNCHANGED <<clock, storage, issues>>

-----------------------------------------------------------------------------
(* Authorized::from_request_parts.                                         *)

\* Faulty variant: a session part that is no number ends the scan.
CookieId_FirstPart(header) ==
  LET parts == {i \in DOMAIN header : header[i].name = "session"}
  IN IF parts = {} THEN None
     ELSE header[CHOOSE i \in parts : \A j \in parts : i <= j].id

\* The first part named session whose value is a number.
CookieId(header) ==
  LET parts == {i \in DOMAIN header : header[i].name = "session" /\ header[i].id # None}
  IN IF parts = {} THEN None
     ELSE header[CHOOSE i \in parts : \A j \in parts : i <= j].id

\* What client c sends.
Holds(c) == jar[c] # None /\ (DropCookies => clock <= jar[c].until)
Own(c) == IF Holds(c) THEN <<Part("session", jar[c].id)>> ELSE <<>>
Headers(c) == {Own(c)} \cup {<<part>> \o Own(c) : part \in OtherParts}

\* Faulty variant: the instant is sampled once, at start-up.
Authorize_OldInstant(id) ==
  /\ Store!load(id, 0)
  /\ seen' = IF reply'.ok THEN [seen EXCEPT ![id] = Use(seen[id].user, clock)] ELSE seen

Authorize(id) ==
  /\ Store!load(id, clock)
  /\ seen' = IF reply'.ok THEN [seen EXCEPT ![id] = Use(seen[id].user, clock)] ELSE seen

\* A request to a protected page; without an id it is redirected at once.
Visit(c) ==
  /\ \E header \in Headers(c) :
       /\ CookieId(header) # None
       /\ Authorize(CookieId(header))
  /\ NoncesIdle
  /\ UNCHANGED <<clock, storage, handler, jar, issues, logins, current>>

Tick ==
  /\ clock < MaxTime
  /\ clock' = clock + 1
  /\ NoncesIdle
  /\ StoreIdle
  /\ UNCHANGED <<storage, handler, jar, issues, logins, current, seen>>

Next ==
  \/ Tick \/ ChangeCredential
  \/ \E nonce \in Nonces : Issue(nonce)
  \/ \E c \in Clients :
       \/ \E data \in Submitted : Verify(c, data)
       \/ ReadUsername(c) \/ ReadPassword(c) \/ Open(c) \/ Visit(c)

Spec == Init /\ [][Next]_vars

-----------------------------------------------------------------------------
PCs == {"idle", "username", "password", "token"}

(* The types; no session was used in the future, and a login that waits    *)
(* for its random number has a user.                                       *)
TypeOK ==
  /\ nonces \in [Nonce!Slots -> [nonce : Nonce!Claims, at : 0 .. clock]]
  /\ next_idx \in Nonce!Slots
  /\ verdict \in [nonce : Nonce!Claims \cup {None}, valid : BOOLEAN]
  /\ records \in [Store!Slots -> Records \cup {None}]
  /\ \A slot \in Store!Slots : records[slot] # None => records[slot].last_active <= clock
  /\ clock \in 0 .. MaxTime
  /\ storage \in Storages
  /\ handler \in [Clients -> [pc : PCs, data : Submitted \cup {None},
                              user : StoredNames \cup {None}]]
  /\ \A c \in Clients : /\ handler[c].pc # "idle" => handler[c].data # None
                        /\ handler[c].pc = "token" => handler[c].user # None
  /\ jar \in [Clients -> Cookies \cup {None}]
  /\ issues \in [Nonce!Claims -> Nat] /\ logins \in [Nonce!Claims -> Nat]
  /\ current \in [Clients -> SUBSET Storages]
  /\ seen \in [Ids -> Uses \cup {None}]
  /\ \A id \in Ids : seen[id] # None => seen[id].at <= clock

(* A nonce that is not 0 opens at most as many sessions as it was handed   *)
(* out, whatever the order in which several logins with it are served.  A  *)
(* right response for 0 opens sessions without that, as an empty slot of   *)
(* the NonceStore matches it (lib.rs:90-94, 230).                          *)
OneLoginPerNonce == \A nonce \in Nonces \ {0} : logins[nonce] <= issues[nonce]

(* A session is opened only by a response made for the nonce given, with a *)
(* username and a password that were the stored ones after the nonce was   *)
(* verified: credentials replaced before are of no use.                    *)
LoginIsCurrent ==
  [][\A c \in Clients : Open(c) =>
       LET data == handler[c].data IN
       /\ data.response.nonce = data.nonce
       /\ data.response.user = data.user
       /\ \E now \in current[c] : now.username = data.user
       /\ \E now \in current[c] : now.password = data.response.password]_vars

(* A request is admitted only with the id of a session that was opened and *)
(* not left unused for longer than an hour, and as the user who opened it. *)
AdmittedWhileActive ==
  [][\A c \in Clients : Visit(c) /\ reply'.ok =>
       LET last == seen[reply'.id] IN
       /\ last # None
       /\ clock - last.at <= Window
       /\ reply'.record.data = last.user]_vars

\* Does Authorized let a request with this header pass now?
Admits(header) ==
  LET id == CookieId(header) IN
  /\ id # None
  /\ Store!Holding(id) # {}
  /\ ~Store!is_expired(records[Store!First(Store!Holding(id))], clock)

\* Used in the last hour, and one of the sessions used last.
Active(id) ==
  /\ clock <= seen[id].at + Window
  /\ Cardinality({other \in Ids : seen[other] # None /\ seen[other].at >= seen[id].at})
       <= Capacity

(* A browser that sends the cookie of a session used in the last hour, one *)
(* of the sessions used last, is admitted, whatever the other parts of its *)
(* Cookie header: no session is lost to other logins before that.          *)
ActiveNotForgotten ==
  \A c \in Clients : Holds(c) /\ Active(jar[c].id) =>
    \A header \in Headers(c) : Admits(header)

(* "Expire after a period of inactivity" (session-mgmt lib.rs:14): a       *)
(* browser that keeps using its session stays logged in.                   *)
ActiveStaysLoggedIn ==
  \A c \in Clients : jar[c] # None /\ Active(jar[c].id) =>
    \A header \in Headers(c) : Admits(header)
=============================================================================
