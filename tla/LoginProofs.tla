----------------------------- MODULE LoginProofs -----------------------------
(***************************************************************************)
(* Proofs about Login for every number of clients, nonces, ids, slots and  *)
(* credentials, whatever the clients submit and whatever their headers.    *)
(***************************************************************************)
EXTENDS Login, FiniteSetTheorems, SequenceTheorems, WellFoundedInduction, TLAPS

-----------------------------------------------------------------------------
(* What the scans of the two stores find.                                  *)

\* A nonempty set of natural numbers has a least element.
LEMMA LeastOf ==
  ASSUME NEW T, T \subseteq Nat, T # {}
  PROVE  \E x \in T : \A y \in T : x <= y
<1> DEFINE R == {pair \in Nat \X Nat : pair[1] < pair[2]}
<1>1. IsWellFoundedOn(R, Nat)
  BY NatLessThanWellFounded, Zenon DEF OpToRel
<1>2. PICK x \in T : \A y \in T : ~ <<y, x>> \in R
  <2> HIDE DEF R
  <2> QED
    BY <1>1, WFMin, Zenon
<1>3. \A y \in T : x <= y
  <2> TAKE y \in T
  <2>1. x \in Nat /\ y \in Nat /\ <<y, x>> \in Nat \X Nat
    OBVIOUS
  <2>2. ~(<<y, x>>[1] < <<y, x>>[2])
    BY <1>2, <2>1, Zenon
  <2> QED
    BY <2>1, <2>2
<1> QED
  BY <1>3

\* A nonce may be claimed, and so may 0, the mark of an empty slot.
LEMMA ClaimsFacts == Nonces \subseteq Nonce!Claims /\ 0 \in Nonce!Claims
BY DEF Nonce!Claims

LEMMA FirstNonceSlot ==
  ASSUME NEW T, T \subseteq Nonce!Slots, T # {}
  PROVE  Nonce!First(T) \in T
<1>1. T \subseteq Nat
  BY LoginAssumption DEF Nonce!Slots
<1>2. \E slot \in T : \A other \in T : slot <= other
  BY <1>1, LeastOf
<1> QED
  BY <1>2 DEF Nonce!First

LEMMA FirstRecordSlot ==
  ASSUME NEW T, T \subseteq Store!Slots, T # {}
  PROVE  Store!First(T) \in T
<1>1. T \subseteq Nat
  BY LoginAssumption DEF Store!Slots
<1>2. \E slot \in T : \A other \in T : slot <= other
  BY <1>1, LeastOf
<1> QED
  BY <1>2 DEF Store!First

-----------------------------------------------------------------------------
(* What each step does to the stores.                                      *)

\* insert() writes the slot of the index.
LEMMA InsertFacts ==
  ASSUME TypeOK, NEW nonce \in Nonces, Nonce!insert(nonce)
  PROVE  /\ next_idx' \in Nonce!Slots
         /\ nonces' \in [Nonce!Slots -> [nonce : Nonce!Claims, at : 0 .. clock]]
         /\ \A slot \in Nonce!Slots :
              nonces'[slot].nonce = IF slot = next_idx THEN nonce ELSE nonces[slot].nonce
<1>1. /\ nonces' = [nonces EXCEPT ![next_idx] = [nonce |-> nonce, at |-> clock]]
      /\ next_idx' = (next_idx + 1) % NonceSlots
  BY DEF Nonce!insert, Nonce!Slot
<1>2. [nonce |-> nonce, at |-> clock] \in [nonce : Nonce!Claims, at : 0 .. clock]
  BY LoginAssumption, ClaimsFacts DEF TypeOK
<1>3. next_idx \in 0 .. NonceSlots - 1 /\ NonceSlots \in Nat \ {0}
  BY LoginAssumption DEF TypeOK, Nonce!Slots
<1>4. next_idx' \in 0 .. NonceSlots - 1
  BY <1>1, <1>3
<1> QED
  BY <1>1, <1>2, <1>4 DEF TypeOK, Nonce!Slots

\* verify() empties a slot with the nonce, or rejects it and changes nothing.
LEMMA VerifyFacts ==
  ASSUME TypeOK, NEW nonce \in Nonce!Claims, Nonce!verify(nonce)
  PROVE  /\ nonces' \in [Nonce!Slots -> [nonce : Nonce!Claims, at : 0 .. clock]]
         /\ verdict' \in [nonce : Nonce!Claims \cup {None}, valid : BOOLEAN]
         /\ \/ ~verdict'.valid /\ nonces' = nonces
            \/ \E slot \in Nonce!Holding(nonce) :
                 \A other \in Nonce!Slots :
                   nonces'[other].nonce = IF other = slot THEN 0 ELSE nonces[other].nonce
<1>1. CASE Nonce!Holding(nonce) = {}
  <2>1. nonces' = nonces /\ verdict' = [nonce |-> nonce, valid |-> FALSE]
    BY <1>1 DEF Nonce!verify
  <2> QED
    BY <2>1 DEF TypeOK
<1>2. CASE Nonce!Holding(nonce) # {}
  <2> DEFINE slot == Nonce!First(Nonce!Holding(nonce))
             valid == clock - nonces[slot].at < Lifetime
  <2>1. slot \in Nonce!Holding(nonce)
    BY <1>2, FirstNonceSlot DEF Nonce!Holding
  <2>2. slot \in Nonce!Slots
    BY <2>1 DEF Nonce!Holding
  <2>3. /\ nonces' = [nonces EXCEPT ![slot].nonce = 0]
        /\ verdict' = [nonce |-> nonce, valid |-> valid]
    BY <1>2 DEF Nonce!verify
  <2>4. nonces[slot] \in [nonce : Nonce!Claims, at : 0 .. clock]
    BY <2>2 DEF TypeOK
  <2>5. verdict' \in [nonce : Nonce!Claims \cup {None}, valid : BOOLEAN]
    BY <2>3
  <2> HIDE DEF slot, valid
  <2>6. nonces' \in [Nonce!Slots -> [nonce : Nonce!Claims, at : 0 .. clock]]
    BY <2>2, <2>3, <2>4, ClaimsFacts DEF TypeOK
  <2>7. \A other \in Nonce!Slots :
          nonces'[other].nonce = IF other = slot THEN 0 ELSE nonces[other].nonce
    BY <2>2, <2>3, <2>4 DEF TypeOK
  <2> QED
    BY <2>1, <2>5, <2>6, <2>7
<1> QED
  BY <1>1, <1>2

Recs == Records \cup {None}


\* A save writes one slot, which has none of the other sessions unless every slot
\* is taken and it is one of the oldest.
LEMMA SaveFacts ==
  ASSUME TypeOK, NEW record \in Records, Store!save(record)
  PROVE  \E slot \in Store!Slots :
           /\ records' = [records EXCEPT ![slot] = record]
           /\ \/ records[slot] = None \/ records[slot].id = record.id
              \/ \A other \in Store!Slots :
                   /\ records[other] # None
                   /\ records[slot].last_active <= records[other].last_active
<1> DEFINE Free == Store!Holding(record.id) \cup Store!Empty
           slot == Store!SaveSlot(record.id)
<1>1. records' = [records EXCEPT ![slot] = record]
  BY DEF Store!save
<1>2. CASE Free # {}
  <2>1. slot = Store!First(Free)
    BY <1>2 DEF Store!SaveSlot
  <2>2. Free \subseteq Store!Slots
    BY DEF Store!Holding, Store!Empty
  <2>3. slot \in Free
    BY <1>2, <2>1, <2>2, FirstRecordSlot, Zenon
  <2>4. records[slot] = None \/ records[slot].id = record.id
    BY <2>3 DEF Store!Holding, Store!Empty
  <2> HIDE DEF slot, Free
  <2> QED
    BY <1>1, <2>2, <2>3, <2>4
<1>3. CASE Free = {}
  <2>1. slot = Store!First(Store!Oldest)
    BY <1>3 DEF Store!SaveSlot
  <2>2. \A other \in Store!Slots : records[other] # None
    BY <1>3 DEF Store!Empty
  <2>3. \A other \in Store!Slots : records[other].last_active \in Nat
    BY <2>2 DEF TypeOK, Records
  <2> DEFINE Ages == {records[other].last_active : other \in Store!Slots}
  <2>4. 0 \in Store!Slots
    BY LoginAssumption DEF Store!Slots
  <2>5. Ages \subseteq Nat /\ Ages # {}
    BY <2>3, <2>4
  <2>6. PICK age \in Ages : \A other \in Ages : age <= other
    <3> HIDE DEF Ages
    <3> QED
      BY <2>5, LeastOf
  <2>7. Store!Oldest # {}
    BY <2>6 DEF Store!Oldest
  <2>8. Store!Oldest \subseteq Store!Slots
    BY DEF Store!Oldest
  <2>9. slot \in Store!Oldest
    BY <2>1, <2>7, <2>8, FirstRecordSlot, Zenon
  <2>10. slot \in Store!Slots /\ \A other \in Store!Slots :
           records[slot].last_active <= records[other].last_active
    BY <2>9 DEF Store!Oldest
  <2> HIDE DEF slot, Ages
  <2> QED
    BY <1>1, <2>2, <2>10
<1> QED
  BY <1>2, <1>3

Touched(slot) ==
  [id |-> records[slot].id, data |-> records[slot].data, expiry |-> Inactivity,
   last_active |-> clock]

\* A load finds the session in a slot, in time, and touches it; or it finds none, or
\* one that has expired, which it removes.
LEMMA LoadFacts ==
  ASSUME TypeOK, NEW id, Store!load(id, clock)
  PROVE  \/ ~reply'.ok /\ records' = records
         \/ \E slot \in Store!Slots :
              /\ records[slot] # None /\ records[slot].id = id /\ id \in Ids
              /\ \/ /\ ~reply'.ok
                    /\ clock > records[slot].last_active + Window
                    /\ records' = [records EXCEPT ![slot] = None]
                 \/ /\ reply'.ok
                    /\ clock <= records[slot].last_active + Window
                    /\ reply'.id = id /\ reply'.record = Touched(slot)
                    /\ Touched(slot) \in Records
                    /\ records' = [records EXCEPT ![slot] = Touched(slot)]
<1>1. CASE Store!Holding(id) = {}
  <2>1. records' = records /\ reply' = [op |-> "load", id |-> id, ok |-> FALSE, record |-> None]
    BY <1>1 DEF Store!load, Store!Reply
  <2> QED
    BY <2>1
<1>2. CASE Store!Holding(id) # {}
  <2> DEFINE slot == Store!First(Store!Holding(id))
             valid == ~Store!is_expired(records[slot], clock)
             new == IF valid THEN Store!Touched(records[slot], clock) ELSE None
  <2>1. slot \in Store!Holding(id)
    BY <1>2, FirstRecordSlot DEF Store!Holding
  <2>2. /\ slot \in Store!Slots /\ records[slot] # None /\ records[slot].id = id
        /\ records[slot] \in Records
    BY <2>1 DEF Store!Holding, TypeOK
  <2>3. /\ records' = [records EXCEPT ![slot] = new]
        /\ reply' = [op |-> "load", id |-> id, ok |-> valid, record |-> new]
    BY <1>2, Zenon DEF Store!load, Store!Reply
  <2>4. /\ id \in Ids /\ records[slot].expiry = Inactivity
        /\ records[slot].last_active \in Nat /\ records[slot].data \in Names
    BY <2>2 DEF Records
  <2>5. valid <=> ~(clock > records[slot].last_active + Window)
    BY <2>4 DEF Store!is_expired, Inactivity
  <2>6. Store!Touched(records[slot], clock) = Touched(slot)
    BY <2>4 DEF Store!Touched, Touched
  <2>7. Touched(slot) \in Records
    BY <2>2, <2>4 DEF Touched, Records, TypeOK
  <2>8. valid \in BOOLEAN
    OBVIOUS
  <2> HIDE DEF slot, valid
  <2>9. clock \in Nat /\ Window \in Nat
    BY LoginAssumption DEF TypeOK
  <2>10. CASE valid
    <3>1. /\ records' = [records EXCEPT ![slot] = Touched(slot)]
          /\ reply' = [op |-> "load", id |-> id, ok |-> TRUE, record |-> Touched(slot)]
      BY <2>3, <2>6, <2>10
    <3>2. clock <= records[slot].last_active + Window
      BY <2>4, <2>5, <2>9, <2>10
    <3> QED
      BY <2>2, <2>4, <2>7, <3>1, <3>2
  <2>11. CASE ~valid
    <3>1. valid = FALSE
      BY <2>11, <2>8
    <3>2. new = None
      BY <3>1
    <3>3. /\ records' = [records EXCEPT ![slot] = None]
          /\ reply' = [op |-> "load", id |-> id, ok |-> FALSE, record |-> None]
      <4> HIDE DEF new
      <4> QED
        BY <2>3, <3>1, <3>2
    <3> QED
      BY <2>2, <2>4, <2>5, <2>11, <3>3
  <2> QED
    BY <2>10, <2>11
<1> QED
  BY <1>1, <1>2
-----------------------------------------------------------------------------
(* Type correctness, step by step.                                         *)

Frames == [pc : PCs, data : Submitted \cup {None}, user : StoredNames \cup {None}]

\* What is there to send for a login that is under way.
LEMMA FrameFacts ==
  ASSUME TypeOK, NEW c \in Clients, handler[c].pc # "idle"
  PROVE  /\ handler[c].data \in Submitted
         /\ handler[c].data \in LoginData
         /\ handler[c].data.user \in Names
         /\ handler[c].data.nonce \in Nonce!Claims
         /\ handler[c].data.response \in Hashes
<1>1. handler[c].data \in Submitted
  BY DEF TypeOK
<1>2. handler[c].data \in LoginData
  BY <1>1, SubmittedAssumption
<1> QED
  BY <1>1, <1>2 DEF LoginData

\* A change of a credential leaves a username and a password.
LEMMA ChangeFacts ==
  ASSUME TypeOK, ChangeCredential
  PROVE  \E new \in Storages : Change(new)
<1>1. storage \in [username : StoredNames, password : StoredPasswords]
  BY DEF TypeOK, Storages
<1>2. \A name \in StoredNames : [storage EXCEPT !.username = name] \in Storages
  BY <1>1, Zenon DEF Storages
<1>3. \A word \in StoredPasswords : [storage EXCEPT !.password = word] \in Storages
  BY <1>1, Zenon DEF Storages
<1> QED
  BY <1>2, <1>3, Zenon DEF ChangeCredential

\* A step that leaves the stores alone.
LEMMA IdleFacts ==
  /\ NoVerdict \in [nonce : Nonce!Claims \cup {None}, valid : BOOLEAN]
  /\ NoncesIdle => UNCHANGED <<nonces, next_idx>> /\ verdict' = NoVerdict
  /\ StoreIdle => UNCHANGED records
BY DEF NoVerdict, NoncesIdle, StoreIdle

\* The record saved has the types.
LEMMA NewRecord ==
  ASSUME TypeOK, NEW c \in Clients, handler[c].pc = "token", NEW id \in Ids
  PROVE  /\ SessionRecord(id, handler[c].user) \in Records
         /\ SessionRecord(id, handler[c].user).id = id
         /\ SessionRecord(id, handler[c].user).data = handler[c].user
         /\ SessionRecord(id, handler[c].user).last_active = clock
         /\ handler[c].user \in Names
<1>1. handler[c].user \in Names /\ clock \in Nat
  BY LoginAssumption DEF TypeOK
<1> QED
  BY <1>1 DEF SessionRecord, Records

LEMMA TickTyped == TypeOK /\ Tick => TypeOK'
<1> SUFFICES ASSUME TypeOK, Tick PROVE TypeOK'
  OBVIOUS
<1>1. /\ clock' = clock + 1 /\ clock < MaxTime
      /\ UNCHANGED <<nonces, next_idx, records, storage, handler, jar, issues, logins,
                     current, seen>>
      /\ verdict' = NoVerdict
  BY DEF Tick, NoncesIdle, StoreIdle
<1>2. clock \in Nat /\ clock' \in 0 .. MaxTime
  BY <1>1, LoginAssumption DEF TypeOK
<1>3. (0 .. clock) \subseteq (0 .. clock')
  BY <1>1, <1>2
<1>4. ASSUME NEW slot \in Nonce!Slots
      PROVE  nonces[slot] \in [nonce : Nonce!Claims, at : 0 .. clock']
  BY <1>3 DEF TypeOK
<1>5. nonces' \in [Nonce!Slots -> [nonce : Nonce!Claims, at : 0 .. clock']]
  BY <1>1, <1>4 DEF TypeOK
<1>6. \A slot \in Store!Slots :
        records'[slot] # None => records'[slot].last_active <= clock'
  BY <1>1, <1>2 DEF TypeOK, Records
<1>7. \A id \in Ids : seen'[id] # None => seen'[id].at <= clock'
  BY <1>1, <1>2 DEF TypeOK, Uses
<1> QED
  BY <1>1, <1>2, <1>5, <1>6, <1>7, IdleFacts DEF TypeOK

LEMMA IssueTyped ==
  ASSUME TypeOK, NEW nonce \in Nonces, Issue(nonce)
  PROVE  TypeOK'
<1>1. /\ Nonce!insert(nonce)
      /\ issues' = [issues EXCEPT ![nonce] = @ + 1]
      /\ verdict' = NoVerdict /\ UNCHANGED records
      /\ UNCHANGED <<clock, storage, handler, jar, logins, current, seen>>
  BY DEF Issue, StoreIdle
<1>2. issues' \in [Nonce!Claims -> Nat]
  BY <1>1, ClaimsFacts DEF TypeOK
<1> QED
  BY <1>1, <1>2, InsertFacts, IdleFacts DEF TypeOK

LEMMA ChangeTyped == TypeOK /\ ChangeCredential => TypeOK'
<1> SUFFICES ASSUME TypeOK, ChangeCredential PROVE TypeOK'
  OBVIOUS
<1>1. PICK new \in Storages : Change(new)
  BY ChangeFacts
<1>2. /\ storage' = new
      /\ current' = [c \in Clients |->
           IF handler[c].pc = "idle" THEN current[c] ELSE current[c] \cup {new}]
      /\ UNCHANGED <<nonces, next_idx, records, clock, handler, jar, issues, logins, seen>>
      /\ verdict' = NoVerdict
  BY <1>1 DEF Change, NoncesIdle, StoreIdle
<1>3. current' \in [Clients -> SUBSET Storages]
  BY <1>2 DEF TypeOK
<1> QED
  BY <1>2, <1>3, IdleFacts DEF TypeOK

\* The parts of a step of handle_login that changes only its own progress.
LEMMA HandlerTyped ==
  ASSUME TypeOK, NEW c \in Clients, NEW frame \in Frames,
         frame.pc # "idle" => frame.data # None,
         frame.pc = "token" => frame.user # None,
         handler' = [handler EXCEPT ![c] = frame]
  PROVE  /\ handler' \in [Clients -> Frames]
         /\ \A d \in Clients : /\ handler'[d].pc # "idle" => handler'[d].data # None
                               /\ handler'[d].pc = "token" => handler'[d].user # None
BY DEF TypeOK, Frames

LEMMA VerifyTyped ==
  ASSUME TypeOK, NEW c \in Clients, NEW data \in Submitted, Verify(c, data)
  PROVE  TypeOK'
<1>1. /\ Nonce!verify(data.nonce)
      /\ UNCHANGED <<records, next_idx, clock, storage, jar, issues, logins, seen>>
      /\ \/ UNCHANGED <<handler, current>>
         \/ /\ handler' = [handler EXCEPT ![c] = Frame("username", data, None)]
            /\ current' = [current EXCEPT ![c] = {storage}]
  BY DEF Verify, StoreIdle
<1>2. data \in LoginData /\ data.nonce \in Nonce!Claims
  BY SubmittedAssumption DEF LoginData
<1>3. /\ Frame("username", data, None) \in Frames
      /\ Frame("username", data, None).pc = "username"
      /\ Frame("username", data, None).data # None
  BY <1>2, NoneAssumption DEF Frame, Frames, PCs
<1>4. /\ handler' \in [Clients -> Frames]
      /\ \A d \in Clients : /\ handler'[d].pc # "idle" => handler'[d].data # None
                            /\ handler'[d].pc = "token" => handler'[d].user # None
      /\ current' \in [Clients -> SUBSET Storages]
  <2>1. CASE UNCHANGED <<handler, current>>
    BY <2>1 DEF TypeOK, Frames
  <2>2. CASE /\ handler' = [handler EXCEPT ![c] = Frame("username", data, None)]
             /\ current' = [current EXCEPT ![c] = {storage}]
    <3>1. current' \in [Clients -> SUBSET Storages]
      BY <2>2 DEF TypeOK
    <3> QED
      BY <1>3, <2>2, <3>1, HandlerTyped
  <2> QED
    BY <1>1, <2>1, <2>2
<1>5. /\ nonces' \in [Nonce!Slots -> [nonce : Nonce!Claims, at : 0 .. clock]]
      /\ verdict' \in [nonce : Nonce!Claims \cup {None}, valid : BOOLEAN]
  BY <1>1, <1>2, VerifyFacts
<1> QED
  BY <1>1, <1>4, <1>5 DEF TypeOK, Frames

LEMMA ReadUsernameTyped ==
  ASSUME TypeOK, NEW c \in Clients, ReadUsername(c)
  PROVE  TypeOK'
<1> DEFINE frame == Frame("password", handler[c].data, storage.username)
<1>1. /\ handler' = [handler EXCEPT ![c] = frame] /\ handler[c].pc = "username"
      /\ UNCHANGED <<nonces, next_idx, records, clock, storage, jar, issues, logins,
                     current, seen>>
      /\ verdict' = NoVerdict
  BY DEF ReadUsername, Goto, NoncesIdle, StoreIdle
<1>2. handler[c].data \in Submitted /\ handler[c].data # None
  BY <1>1, FrameFacts DEF TypeOK
<1>3. storage.username \in StoredNames
  BY DEF TypeOK, Storages
<1>4. frame \in Frames /\ frame.pc = "password" /\ frame.data # None
  BY <1>2, <1>3 DEF Frame, Frames, PCs
<1> HIDE DEF frame
<1>5. /\ handler' \in [Clients -> Frames]
      /\ \A d \in Clients : /\ handler'[d].pc # "idle" => handler'[d].data # None
                            /\ handler'[d].pc = "token" => handler'[d].user # None
  BY <1>1, <1>4, HandlerTyped
<1> QED
  BY <1>1, <1>5, IdleFacts DEF TypeOK, Frames

\* A login that is refused, or done.
LEMMA IdleFrame == Idle \in Frames /\ Idle.pc = "idle" /\ Idle.data = None
BY DEF Idle, Frame, Frames, PCs

LEMMA ReadPasswordTyped ==
  ASSUME TypeOK, NEW c \in Clients, ReadPassword(c)
  PROVE  TypeOK'
<1> DEFINE frame == Frame("token", handler[c].data, handler[c].user)
<1>1. /\ handler[c].pc = "password"
      /\ UNCHANGED <<nonces, next_idx, records, clock, storage, jar, issues, logins, seen>>
      /\ verdict' = NoVerdict
  BY DEF ReadPassword, NoncesIdle, StoreIdle
<1>2. \/ /\ Matches(handler[c].data, handler[c].user, storage.password)
         /\ handler' = [handler EXCEPT ![c] = frame]
         /\ UNCHANGED current
      \/ /\ handler' = [handler EXCEPT ![c] = Idle]
         /\ current' = [current EXCEPT ![c] = {}]
  BY DEF ReadPassword, Goto, Respond401
<1>3. handler[c].data \in Submitted /\ handler[c].data # None
  BY <1>1, FrameFacts DEF TypeOK
<1>4. frame \in Frames /\ frame.data # None /\ frame.user = handler[c].user
  BY <1>3 DEF Frame, Frames, PCs, TypeOK
<1> HIDE DEF frame
<1>5. /\ handler' \in [Clients -> Frames]
      /\ \A d \in Clients : /\ handler'[d].pc # "idle" => handler'[d].data # None
                            /\ handler'[d].pc = "token" => handler'[d].user # None
  <2>1. CASE handler' = [handler EXCEPT ![c] = Idle]
    BY <2>1, IdleFrame, HandlerTyped
  <2>2. CASE /\ Matches(handler[c].data, handler[c].user, storage.password)
             /\ handler' = [handler EXCEPT ![c] = frame]
    <3>1. handler[c].user # None
      BY <2>2 DEF Matches
    <3> QED
      BY <1>4, <2>2, <3>1, HandlerTyped
  <2> QED
    BY <1>2, <2>1, <2>2
<1>6. current' \in [Clients -> SUBSET Storages]
  BY <1>2 DEF TypeOK
<1> QED
  BY <1>1, <1>5, <1>6, IdleFacts DEF TypeOK, Frames

\* A slot that gets a record or loses one.
LEMMA SlotTyped ==
  ASSUME TypeOK, NEW slot \in Store!Slots, NEW record \in Records \cup {None},
         record # None => record.last_active <= clock,
         records' = [records EXCEPT ![slot] = record]
  PROVE  /\ records' \in [Store!Slots -> Records \cup {None}]
         /\ \A other \in Store!Slots :
              records'[other] # None => records'[other].last_active <= clock
BY DEF TypeOK

LEMMA OpenTyped ==
  ASSUME TypeOK, NEW c \in Clients, Open(c)
  PROVE  TypeOK'
<1>1. /\ handler[c].pc = "token"
      /\ logins' = [logins EXCEPT ![handler[c].data.nonce] = @ + 1]
      /\ handler' = [handler EXCEPT ![c] = Idle]
      /\ current' = [current EXCEPT ![c] = {}]
      /\ UNCHANGED <<nonces, next_idx, clock, storage, issues>>
      /\ verdict' = NoVerdict
  BY DEF Open, NoncesIdle
<1>2. PICK id \in Ids :
        /\ Store!save(SessionRecord(id, handler[c].user))
        /\ jar' = [jar EXCEPT ![c] = [id |-> id, until |-> clock + Window]]
        /\ seen' = [seen EXCEPT ![id] = [user |-> handler[c].user, at |-> clock]]
  BY DEF Open, Cookie, Use
<1>3. /\ handler[c].user \in Names
      /\ SessionRecord(id, handler[c].user) \in Records
      /\ SessionRecord(id, handler[c].user).last_active = clock
  BY <1>1, NewRecord
<1>4. clock \in Nat /\ clock + Window \in Nat
  BY LoginAssumption DEF TypeOK
<1>5. PICK slot \in Store!Slots :
        records' = [records EXCEPT ![slot] = SessionRecord(id, handler[c].user)]
  BY <1>2, <1>3, SaveFacts
<1>6. /\ records' \in [Store!Slots -> Records \cup {None}]
      /\ \A other \in Store!Slots :
           records'[other] # None => records'[other].last_active <= clock
  <2> DEFINE record == SessionRecord(id, handler[c].user)
  <2>1. record \in Records \cup {None} /\ record.last_active <= clock
    BY <1>3, <1>4
  <2>2. records' = [records EXCEPT ![slot] = record]
    BY <1>5
  <2> HIDE DEF record
  <2> QED
    BY <2>1, <2>2, SlotTyped
<1>7. jar' \in [Clients -> Cookies \cup {None}]
  BY <1>2, <1>4 DEF TypeOK, Cookies
<1>8. /\ seen' \in [Ids -> Uses \cup {None}]
      /\ \A other \in Ids : seen'[other] # None => seen'[other].at <= clock
  BY <1>2, <1>3, <1>4 DEF TypeOK, Uses
<1>9. logins' \in [Nonce!Claims -> Nat] /\ current' \in [Clients -> SUBSET Storages]
  BY <1>1, FrameFacts DEF TypeOK
<1>10. /\ handler' \in [Clients -> Frames]
       /\ \A d \in Clients : /\ handler'[d].pc # "idle" => handler'[d].data # None
                             /\ handler'[d].pc = "token" => handler'[d].user # None
  BY <1>1, IdleFrame, HandlerTyped
<1> QED
  BY <1>1, <1>6, <1>7, <1>8, <1>9, <1>10, IdleFacts DEF TypeOK, Frames

\* A request to a protected page is a load.
LEMMA VisitFacts ==
  ASSUME NEW c \in Clients, Visit(c)
  PROVE  /\ \E id : /\ Store!load(id, clock)
                    /\ seen' = IF reply'.ok THEN [seen EXCEPT ![id] = Use(seen[id].user, clock)]
                                            ELSE seen
         /\ UNCHANGED <<nonces, next_idx, clock, storage, handler, jar, issues, logins,
                        current>>
         /\ verdict' = NoVerdict
<1>1. \E header \in Headers(c) : Authorize(CookieId(header))
  BY DEF Visit
<1> QED
  BY <1>1 DEF Visit, Authorize, NoncesIdle

-----------------------------------------------------------------------------
(* The slots and the history.                                              *)

\* A stored session was opened, by the user it names; it was used last when its
\* record says so; and no other slot holds it.
SeenInv ==
  \A slot \in Store!Slots : records[slot] # None =>
    LET last == seen[records[slot].id] IN
    /\ last # None /\ last.user = records[slot].data
    /\ last.at = records[slot].last_active
    /\ \A other \in Store!Slots :
         records[other] # None /\ records[other].id = records[slot].id => other = slot

LEMMA VisitTyped ==
  ASSUME TypeOK, SeenInv, NEW c \in Clients, Visit(c)
  PROVE  TypeOK'
<1>1. PICK id : /\ Store!load(id, clock)
                /\ seen' = IF reply'.ok THEN [seen EXCEPT ![id] = Use(seen[id].user, clock)]
                                        ELSE seen
  BY VisitFacts
<1>2. /\ UNCHANGED <<nonces, next_idx, clock, storage, handler, jar, issues, logins, current>>
      /\ verdict' = NoVerdict
  BY VisitFacts
<1>3. CASE ~reply'.ok /\ records' = records
  BY <1>1, <1>2, <1>3, IdleFacts DEF TypeOK
<1>4. ASSUME NEW slot \in Store!Slots, ~reply'.ok,
             records' = [records EXCEPT ![slot] = None]
      PROVE  TypeOK'
  <2>1. /\ records' \in [Store!Slots -> Records \cup {None}]
        /\ \A other \in Store!Slots :
             records'[other] # None => records'[other].last_active <= clock
    BY <1>4, SlotTyped
  <2> QED
    BY <1>1, <1>2, <1>4, <2>1, IdleFacts DEF TypeOK
<1>5. ASSUME NEW slot \in Store!Slots, id \in Ids, reply'.ok,
             records[slot] # None, records[slot].id = id, Touched(slot) \in Records,
             records' = [records EXCEPT ![slot] = Touched(slot)]
      PROVE  TypeOK'
  <2>1. Touched(slot).last_active = clock /\ clock <= clock
    BY DEF Touched, TypeOK
  <2>2. /\ records' \in [Store!Slots -> Records \cup {None}]
        /\ \A other \in Store!Slots :
             records'[other] # None => records'[other].last_active <= clock
    BY <1>5, <2>1, SlotTyped
  <2>3. seen' = [seen EXCEPT ![id] = [user |-> seen[id].user, at |-> clock]]
    BY <1>1, <1>5 DEF Use
  <2>4. seen[id].user \in Names /\ clock \in Nat
    BY <1>5 DEF SeenInv, TypeOK, Uses
  <2>5. /\ seen' \in [Ids -> Uses \cup {None}]
        /\ \A other \in Ids : seen'[other] # None => seen'[other].at <= clock
    BY <2>3, <2>4, <1>5 DEF TypeOK, Uses
  <2> QED
    BY <1>2, <2>2, <2>5, IdleFacts DEF TypeOK
<1> QED
  BY <1>1, <1>3, <1>4, <1>5, LoadFacts

LEMMA SeenStep ==
  ASSUME TypeOK, SeenInv, [Next]_vars
  PROVE  SeenInv'
<1>1. ASSUME UNCHANGED <<records, seen>>
      PROVE  SeenInv'
  BY <1>1 DEF SeenInv
<1>2. ASSUME NEW c \in Clients, Open(c)
      PROVE  SeenInv'
  <2>1. handler[c].pc = "token"
    BY <1>2 DEF Open
  <2>2. PICK id \in Ids :
          /\ seen[id] = None
          /\ Store!save(SessionRecord(id, handler[c].user))
          /\ seen' = [seen EXCEPT ![id] = [user |-> handler[c].user, at |-> clock]]
    BY <1>2 DEF Open, Use
  <2> DEFINE record == SessionRecord(id, handler[c].user)
  <2>3. /\ record \in Records /\ record.id = id /\ record.data = handler[c].user
        /\ record.last_active = clock /\ handler[c].user \in Names /\ clock \in Nat
    BY <2>1, NewRecord DEF TypeOK
  <2>4. PICK slot \in Store!Slots : records' = [records EXCEPT ![slot] = record]
    BY <2>2, <2>3, SaveFacts
  <2>5. \A other \in Store!Slots : records[other] # None => records[other].id # id
    BY <2>2 DEF SeenInv
  <2>6. seen'[id] # None
    BY <2>2, <2>3, NoneAssumption DEF TypeOK, Uses
  <2>7. record # None
    BY <2>3, NoneAssumption
  <2>8. \A other \in Store!Slots : records[other] # None => records[other].id \in Ids
    BY DEF TypeOK, Records
  <2> HIDE DEF record
  <2> QED
    BY <2>2, <2>3, <2>4, <2>5, <2>6, <2>7, <2>8 DEF SeenInv, TypeOK
<1>3. ASSUME NEW c \in Clients, Visit(c)
      PROVE  SeenInv'
  <2>1. PICK id : /\ Store!load(id, clock)
                  /\ seen' = IF reply'.ok THEN [seen EXCEPT ![id] = Use(seen[id].user, clock)]
                                          ELSE seen
    BY <1>3, VisitFacts
  <2>2. CASE ~reply'.ok /\ records' = records
    BY <1>1, <2>1, <2>2
  <2>3. ASSUME NEW slot \in Store!Slots, ~reply'.ok,
               records' = [records EXCEPT ![slot] = None]
        PROVE  SeenInv'
    BY <2>1, <2>3 DEF SeenInv, TypeOK
  <2>4. ASSUME NEW slot \in Store!Slots, id \in Ids, reply'.ok,
               records[slot] # None, records[slot].id = id, Touched(slot) \in Records,
               records' = [records EXCEPT ![slot] = Touched(slot)]
        PROVE  SeenInv'
    <3>1. seen' = [seen EXCEPT ![id] = [user |-> seen[id].user, at |-> clock]]
      BY <2>1, <2>4 DEF Use
    <3>2. seen[id].user \in Names /\ clock \in Nat
      BY <2>4 DEF SeenInv, TypeOK, Uses
    <3>3. seen'[id] # None
      BY <2>4, <3>1, <3>2, NoneAssumption DEF TypeOK, Uses
    <3>4. /\ Touched(slot).id = id /\ Touched(slot).data = records[slot].data
          /\ Touched(slot).last_active = clock
      BY <2>4 DEF Touched
    <3>5. \A other \in Store!Slots : records[other] # None => records[other].id \in Ids
      BY DEF TypeOK, Records
    <3> QED
      BY <2>4, <3>1, <3>3, <3>4, <3>5 DEF SeenInv, TypeOK
  <2> QED
    BY <2>1, <2>2, <2>3, <2>4, LoadFacts
<1> QED
  BY <1>1, <1>2, <1>3 DEF Next, Tick, Issue, ChangeCredential, Change, Verify,
     ReadUsername, ReadPassword, StoreIdle, vars

LEMMA TypeStep ==
  ASSUME TypeOK, SeenInv, [Next]_vars
  PROVE  TypeOK'
<1>1. CASE UNCHANGED vars
  BY <1>1 DEF TypeOK, vars
<1> QED
  BY <1>1, TickTyped, ChangeTyped, IssueTyped, VerifyTyped, ReadUsernameTyped,
     ReadPasswordTyped, OpenTyped, VisitTyped DEF Next

LEMMA TypeInit == Init => TypeOK /\ SeenInv
<1> SUFFICES ASSUME Init PROVE TypeOK /\ SeenInv
  OBVIOUS
<1>1. /\ nonces = [slot \in Nonce!Slots |-> [nonce |-> 0, at |-> 0]]
      /\ next_idx = 0 /\ clock = 0
      /\ verdict = [nonce |-> None, valid |-> FALSE]
      /\ records = [slot \in Store!Slots |-> None]
  BY DEF Init, Nonce!Init, Store!Init, Nonce!EmptySlot, Nonce!Slot
<1>2. next_idx \in Nonce!Slots /\ clock \in 0 .. MaxTime
  BY <1>1, LoginAssumption DEF Nonce!Slots
<1>3. nonces \in [Nonce!Slots -> [nonce : Nonce!Claims, at : 0 .. clock]]
  BY <1>1, ClaimsFacts
<1>4. /\ handler \in [Clients -> Frames]
      /\ \A c \in Clients : handler[c].pc = "idle"
  BY IdleFrame DEF Init
<1>5. /\ storage \in Storages /\ jar \in [Clients -> Cookies \cup {None}]
      /\ issues \in [Nonce!Claims -> Nat] /\ logins \in [Nonce!Claims -> Nat]
      /\ current \in [Clients -> SUBSET Storages]
      /\ seen \in [Ids -> Uses \cup {None}] /\ \A id \in Ids : seen[id] = None
  BY DEF Init
<1>6. verdict \in [nonce : Nonce!Claims \cup {None}, valid : BOOLEAN]
  BY <1>1
<1>7. /\ records \in [Store!Slots -> Records \cup {None}]
      /\ \A slot \in Store!Slots : records[slot] = None
  BY <1>1
<1> QED
  BY <1>2, <1>3, <1>4, <1>5, <1>6, <1>7 DEF TypeOK, SeenInv, Frames

LEMMA SeenCorrect == Spec => [](TypeOK /\ SeenInv)
<1>1. TypeOK /\ SeenInv /\ [Next]_vars => (TypeOK /\ SeenInv)'
  BY TypeStep, SeenStep
<1> QED
  BY <1>1, TypeInit, PTL DEF Spec

\* Type correctness, whatever is submitted and whatever the application does: a
\* session is opened only for a user there is.
THEOREM TypeCorrect == Spec => []TypeOK
BY SeenCorrect, PTL

-----------------------------------------------------------------------------
(* Who is admitted.                                                        *)

\* A visitor is admitted only with the id of a session that was opened and used in
\* the last hour, and as the user who opened it: for all numbers of clients and
\* slots, whatever ids they send.
THEOREM OnlyActiveAdmitted == Spec => AdmittedWhileActive
<1> DEFINE Step == \A c \in Clients : Visit(c) /\ reply'.ok =>
             LET last == seen[reply'.id] IN
             /\ last # None
             /\ clock - last.at <= Window
             /\ reply'.record.data = last.user
<1>1. ASSUME TypeOK, SeenInv, NEW c \in Clients, Visit(c), reply'.ok
      PROVE  /\ seen[reply'.id] # None
             /\ clock - seen[reply'.id].at <= Window
             /\ reply'.record.data = seen[reply'.id].user
  <2>1. PICK id : Store!load(id, clock)
    BY <1>1, VisitFacts
  <2>2. PICK slot \in Store!Slots :
          /\ records[slot] # None /\ records[slot].id = id
          /\ clock <= records[slot].last_active + Window
          /\ reply'.id = id /\ reply'.record = Touched(slot)
    BY <1>1, <2>1, LoadFacts
  <2>3. Touched(slot).data = records[slot].data
    BY DEF Touched
  <2>4. clock \in Nat /\ Window \in Nat /\ records[slot].last_active \in Nat
    BY <1>1, <2>2, LoginAssumption DEF TypeOK, Records
  <2> QED
    BY <1>1, <2>2, <2>3, <2>4 DEF SeenInv
<1>2. TypeOK /\ SeenInv /\ [Next]_vars => [Step]_vars
  BY <1>1
<1>3. [Step]_vars <=>
        [\A c \in Clients : Visit(c) /\ reply'.ok =>
             LET last == seen[reply'.id] IN
             /\ last # None
             /\ clock - last.at <= Window
             /\ reply'.record.data = last.user]_vars
  BY Zenon
<1> HIDE DEF Step
<1> QED
  BY <1>2, <1>3, SeenCorrect, PTL DEF Spec, AdmittedWhileActive

-----------------------------------------------------------------------------
(* What a response has been checked against.                               *)

\* What has been read from UserStorage was there after the nonce was verified.
CurrentInv ==
  \A c \in Clients :
    LET data == handler[c].data IN
    /\ handler[c].pc # "idle" => storage \in current[c]
    /\ handler[c].pc = "password" =>
         \E now \in current[c] : now.username = handler[c].user
    /\ handler[c].pc = "token" =>
         /\ data.response.nonce = data.nonce
         /\ data.response.user = data.user
         /\ \E now \in current[c] : now.username = data.user
         /\ \E now \in current[c] : now.password = data.response.password

LEMMA CurrentStep ==
  ASSUME TypeOK, CurrentInv, [Next]_vars
  PROVE  CurrentInv'
<1>1. ASSUME UNCHANGED <<handler, storage, current>>
      PROVE  CurrentInv'
  BY <1>1 DEF CurrentInv
<1>2. CASE ChangeCredential
  <2>1. PICK new \in Storages :
          /\ storage' = new /\ UNCHANGED handler
          /\ current' = [c \in Clients |->
               IF handler[c].pc = "idle" THEN current[c] ELSE current[c] \cup {new}]
    BY <1>2, ChangeFacts DEF Change
  <2> QED
    BY <2>1 DEF CurrentInv
<1>3. ASSUME NEW c \in Clients, NEW data \in Submitted, Verify(c, data)
      PROVE  CurrentInv'
  <2>1. CASE UNCHANGED <<handler, current>>
    BY <1>1, <1>3, <2>1 DEF Verify
  <2>2. CASE /\ handler' = [handler EXCEPT ![c] = Frame("username", data, None)]
             /\ current' = [current EXCEPT ![c] = {storage}]
    BY <1>3, <2>2 DEF Verify, Frame, CurrentInv, TypeOK
  <2> QED
    BY <1>3, <2>1, <2>2 DEF Verify
<1>4. ASSUME NEW c \in Clients, ReadUsername(c)
      PROVE  CurrentInv'
  <2>1. /\ handler[c].pc = "username" /\ UNCHANGED <<storage, current>>
        /\ handler' = [handler EXCEPT ![c] =
             [pc |-> "password", data |-> handler[c].data, user |-> storage.username]]
    BY <1>4 DEF ReadUsername, Goto, Frame
  <2> QED
    BY <2>1 DEF CurrentInv, TypeOK
<1>5. ASSUME NEW c \in Clients, handler' = [handler EXCEPT ![c] = Idle],
             current' = [current EXCEPT ![c] = {}], storage' = storage
      PROVE  CurrentInv'
  BY <1>5, IdleFrame DEF CurrentInv, TypeOK
<1>6. ASSUME NEW c \in Clients, ReadPassword(c)
      PROVE  CurrentInv'
  <2>1. CASE /\ handler' = [handler EXCEPT ![c] = Idle]
             /\ current' = [current EXCEPT ![c] = {}]
    BY <1>5, <1>6, <2>1 DEF ReadPassword
  <2>2. CASE /\ Matches(handler[c].data, handler[c].user, storage.password)
             /\ handler' = [handler EXCEPT ![c] =
                  [pc |-> "token", data |-> handler[c].data, user |-> handler[c].user]]
             /\ UNCHANGED current
    <3>1. handler[c].pc = "password" /\ UNCHANGED storage
      BY <1>6 DEF ReadPassword
    <3>2. /\ handler[c].user = handler[c].data.user
          /\ handler[c].data.response =
               [nonce |-> handler[c].data.nonce, user |-> handler[c].user,
                password |-> storage.password]
      BY <2>2 DEF Matches, Hash
    <3>3. /\ handler[c].data.response.nonce = handler[c].data.nonce
          /\ handler[c].data.response.user = handler[c].data.user
          /\ handler[c].data.response.password = storage.password
      BY <3>2
    <3>4. storage \in current[c] /\ \E now \in current[c] : now.username = handler[c].user
      BY <3>1 DEF CurrentInv
    <3> QED
      BY <2>2, <3>1, <3>2, <3>3, <3>4 DEF CurrentInv, TypeOK
  <2> QED
    BY <1>6, <2>1, <2>2 DEF ReadPassword, Goto, Respond401, Frame
<1>7. ASSUME NEW c \in Clients, Open(c)
      PROVE  CurrentInv'
  BY <1>5, <1>7 DEF Open
<1>8. ASSUME NEW c \in Clients, Visit(c)
      PROVE  CurrentInv'
  BY <1>1, <1>8 DEF Visit
<1> QED
  BY <1>1, <1>2, <1>3, <1>4, <1>6, <1>7, <1>8 DEF Next, Tick, Issue, vars

\* Every session is opened by a response to the nonce given with a name and a
\* password that UserStorage had after the nonce was verified, however the steps of
\* several logins and changes of the credentials interleave.
THEOREM LoginsAreCurrent == Spec => LoginIsCurrent
<1> DEFINE Step == \A c \in Clients : Open(c) =>
       LET data == handler[c].data IN
       /\ data.response.nonce = data.nonce
       /\ data.response.user = data.user
       /\ \E now \in current[c] : now.username = data.user
       /\ \E now \in current[c] : now.password = data.response.password
<1>1. Init => CurrentInv
  BY IdleFrame DEF Init, CurrentInv
<1>2. TypeOK /\ CurrentInv /\ [Next]_vars => CurrentInv'
  BY CurrentStep
<1>3. CurrentInv /\ [Next]_vars => [Step]_vars
  BY DEF CurrentInv, Open
<1>4. [Step]_vars <=>
        [\A c \in Clients : Open(c) =>
           LET data == handler[c].data IN
           /\ data.response.nonce = data.nonce
           /\ data.response.user = data.user
           /\ \E now \in current[c] : now.username = data.user
           /\ \E now \in current[c] : now.password = data.response.password]_vars
  BY Zenon
<1> HIDE DEF Step
<1> QED
  BY <1>1, <1>2, <1>3, <1>4, TypeCorrect, PTL DEF Spec, LoginIsCurrent

-----------------------------------------------------------------------------
(* How often a nonce is of use.                                            *)

\* The logins under way with a nonce.
InFlight(nonce) ==
  {c \in Clients : handler[c].pc # "idle" /\ handler[c].data.nonce = nonce}

\* The sessions opened with a nonce, the logins under way with it and the slots that
\* hold it are together at most as many as its issues: each step of a login only
\* moves one from a slot to a handler, and from there to a session.  0 is held by
\* every empty slot and is left out.
SpentInv ==
  \A nonce \in Nonces \ {0} :
    /\ IsFiniteSet(InFlight(nonce))
    /\ logins[nonce] + Cardinality(InFlight(nonce))
         + Cardinality(Nonce!Holding(nonce)) <= issues[nonce]

LEMMA Counts ==
  ASSUME TypeOK, SpentInv, NEW nonce \in Nonces \ {0}
  PROVE  /\ IsFiniteSet(InFlight(nonce)) /\ Cardinality(InFlight(nonce)) \in Nat
         /\ IsFiniteSet(Nonce!Holding(nonce)) /\ Cardinality(Nonce!Holding(nonce)) \in Nat
         /\ logins[nonce] \in Nat /\ issues[nonce] \in Nat
         /\ logins[nonce] + Cardinality(InFlight(nonce))
              + Cardinality(Nonce!Holding(nonce)) <= issues[nonce]
<1>1. IsFiniteSet(Nonce!Slots)
  BY FS_Interval, LoginAssumption DEF Nonce!Slots
<1>2. Nonce!Holding(nonce) \in SUBSET Nonce!Slots
  BY DEF Nonce!Holding
<1>3. IsFiniteSet(Nonce!Holding(nonce)) /\ IsFiniteSet(InFlight(nonce))
  BY <1>1, <1>2, FS_Subset DEF SpentInv
<1> QED
  BY <1>3, FS_CardinalityType, ClaimsFacts DEF SpentInv, TypeOK

\* A set that gains or loses at most one element.
LEMMA AddAtMost ==
  ASSUME NEW S, NEW x, IsFiniteSet(S)
  PROVE  /\ IsFiniteSet(S \cup {x}) /\ Cardinality(S \cup {x}) \in Nat
         /\ Cardinality(S \cup {x}) <= Cardinality(S) + 1
<1>1. IsFiniteSet(S \cup {x})
  BY FS_AddElement
<1>2. Cardinality(S) \in Nat /\ Cardinality(S \cup {x}) \in Nat
  BY <1>1, FS_CardinalityType
<1>3. Cardinality(S \cup {x}) = IF x \in S THEN Cardinality(S) ELSE Cardinality(S) + 1
  BY FS_AddElement
<1> QED
  BY <1>1, <1>2, <1>3

LEMMA RemoveAtMost ==
  ASSUME NEW S, NEW x, IsFiniteSet(S)
  PROVE  /\ IsFiniteSet(S \ {x}) /\ Cardinality(S \ {x}) \in Nat
         /\ Cardinality(S \ {x}) <= Cardinality(S)
<1>1. IsFiniteSet(S \ {x}) /\ Cardinality(S) \in Nat /\ Cardinality(S \ {x}) \in Nat
  BY FS_CardinalityType, FS_RemoveElement
<1> QED
  BY <1>1, FS_RemoveElement

LEMMA SpentStep ==
  ASSUME TypeOK, SpentInv, [Next]_vars
  PROVE  SpentInv'
<1>1. ASSUME UNCHANGED <<nonces, handler, issues, logins>>
      PROVE  SpentInv'
  BY <1>1 DEF SpentInv, InFlight, Nonce!Holding
<1>2. ASSUME NEW nonce \in Nonces, Issue(nonce)
      PROVE  SpentInv'
  <2>1. /\ issues' = [issues EXCEPT ![nonce] = @ + 1]
        /\ UNCHANGED <<handler, logins>>
        /\ \A slot \in Nonce!Slots :
             nonces'[slot].nonce = IF slot = next_idx THEN nonce ELSE nonces[slot].nonce
    BY <1>2, InsertFacts DEF Issue
  <2>2. Nonce!Holding(nonce)' = Nonce!Holding(nonce) \cup {next_idx}
    BY <2>1 DEF Nonce!Holding, TypeOK
  <2>3. ASSUME NEW other \in Nonces \ {0}, other # nonce
        PROVE  Nonce!Holding(other)' = Nonce!Holding(other) \ {next_idx}
    BY <2>1, <2>3 DEF Nonce!Holding
  <2>4. ASSUME NEW other \in Nonces \ {0}
        PROVE  InFlight(other)' = InFlight(other)
    BY <2>1 DEF InFlight
  <2>5. ASSUME nonce # 0
        PROVE  /\ Cardinality(Nonce!Holding(nonce)') <= Cardinality(Nonce!Holding(nonce)) + 1
               /\ Cardinality(Nonce!Holding(nonce)') \in Nat
    <3>1. IsFiniteSet(Nonce!Holding(nonce))
      BY <2>5, Counts
    <3> QED
      BY <2>2, <3>1, AddAtMost
  <2>6. ASSUME NEW other \in Nonces \ {0}, other # nonce
        PROVE  /\ Cardinality(Nonce!Holding(other)') <= Cardinality(Nonce!Holding(other))
               /\ Cardinality(Nonce!Holding(other)') \in Nat
    <3>1. IsFiniteSet(Nonce!Holding(other))
      BY Counts
    <3>2. Nonce!Holding(other)' = Nonce!Holding(other) \ {next_idx}
      BY <2>3, <2>6
    <3> QED
      BY <3>1, <3>2, RemoveAtMost
  <2>7. ASSUME NEW other \in Nonces \ {0}
        PROVE  /\ IsFiniteSet(InFlight(other)')
               /\ logins'[other] + Cardinality(InFlight(other)')
                    + Cardinality(Nonce!Holding(other)') <= issues'[other]
    <3>1. CASE other = nonce
      <4>1. issues'[other] = issues[other] + 1
        BY <2>1, <3>1, ClaimsFacts DEF TypeOK
      <4> QED
        BY <2>1, <2>4, <2>5, <3>1, <4>1, Counts
    <3>2. CASE other # nonce
      <4>1. issues'[other] = issues[other]
        BY <2>1, <3>2 DEF TypeOK
      <4> QED
        BY <2>1, <2>4, <2>6, <3>2, <4>1, Counts
    <3> QED
      BY <3>1, <3>2
  <2> QED
    BY <2>7 DEF SpentInv
<1>3. ASSUME NEW c \in Clients, NEW data \in Submitted, Verify(c, data)
      PROVE  SpentInv'
  <2>1. /\ data.nonce \in Nonce!Claims
        /\ Nonce!verify(data.nonce) /\ handler[c] = Idle
        /\ UNCHANGED <<issues, logins>>
    BY <1>3, SubmittedAssumption DEF Verify, LoginData
  <2>2. CASE ~verdict'.valid
    <3>1. UNCHANGED handler
      BY <1>3, <2>2 DEF Verify
    <3>2. CASE nonces' = nonces
      BY <1>1, <2>1, <3>1, <3>2
    <3>3. ASSUME NEW slot \in Nonce!Holding(data.nonce),
                 \A other \in Nonce!Slots :
                   nonces'[other].nonce = IF other = slot THEN 0 ELSE nonces[other].nonce
          PROVE  SpentInv'
      <4>1. ASSUME NEW nonce \in Nonces \ {0}
            PROVE  /\ Nonce!Holding(nonce)' = Nonce!Holding(nonce) \ {slot}
                   /\ InFlight(nonce)' = InFlight(nonce)
        BY <2>1, <3>1, <3>3 DEF Nonce!Holding, InFlight
      <4>2. ASSUME NEW nonce \in Nonces \ {0}
            PROVE  /\ Cardinality(Nonce!Holding(nonce)') <= Cardinality(Nonce!Holding(nonce))
                   /\ Cardinality(Nonce!Holding(nonce)') \in Nat
        <5>1. IsFiniteSet(Nonce!Holding(nonce))
          BY Counts
        <5> QED
          BY <4>1, <5>1, RemoveAtMost
      <4>3. ASSUME NEW nonce \in Nonces \ {0}
            PROVE  /\ IsFiniteSet(InFlight(nonce)')
                   /\ logins'[nonce] + Cardinality(InFlight(nonce)')
                        + Cardinality(Nonce!Holding(nonce)') <= issues'[nonce]
        BY <2>1, <4>1, <4>2, Counts
      <4> QED
        BY <4>3 DEF SpentInv
    <3> QED
      BY <2>1, <3>2, <3>3, VerifyFacts
  <2>3. CASE verdict'.valid
    <3>1. handler' = [handler EXCEPT ![c] = Frame("username", data, None)]
      BY <1>3, <2>3 DEF Verify
    <3>2. PICK slot \in Nonce!Holding(data.nonce) :
            \A other \in Nonce!Slots :
              nonces'[other].nonce = IF other = slot THEN 0 ELSE nonces[other].nonce
      BY <2>1, <2>3, VerifyFacts
    <3>3. Frame("username", data, None).pc = "username"
          /\ Frame("username", data, None).data = data
      BY DEF Frame
    <3>4. ASSUME NEW nonce \in Nonces \ {0}
          PROVE  /\ Nonce!Holding(nonce)' = Nonce!Holding(nonce) \ {slot}
                 /\ slot \in Nonce!Holding(nonce) <=> nonce = data.nonce
                 /\ InFlight(nonce)' = IF nonce = data.nonce THEN InFlight(nonce) \cup {c}
                                                            ELSE InFlight(nonce)
                 /\ c \notin InFlight(nonce)
      <4>1. /\ Nonce!Holding(nonce)' = Nonce!Holding(nonce) \ {slot}
            /\ slot \in Nonce!Holding(nonce) <=> nonce = data.nonce
        BY <2>1, <3>2 DEF Nonce!Holding
      <4>2. c \notin InFlight(nonce)
        BY <2>1, IdleFrame DEF InFlight
      <4>3. \A d \in Clients : handler'[d] = IF d = c THEN Frame("username", data, None)
                                                     ELSE handler[d]
        BY <3>1 DEF TypeOK
      <4>4. InFlight(nonce)' = IF nonce = data.nonce THEN InFlight(nonce) \cup {c}
                                                    ELSE InFlight(nonce)
        BY <2>1, <3>3, <4>2, <4>3, IdleFrame DEF InFlight
      <4> QED
        BY <4>1, <4>2, <4>4
    <3>5. ASSUME NEW nonce \in Nonces \ {0}
          PROVE  /\ IsFiniteSet(InFlight(nonce)')
                 /\ logins'[nonce] + Cardinality(InFlight(nonce)')
                      + Cardinality(Nonce!Holding(nonce)') <= issues'[nonce]
      <4>1. CASE nonce = data.nonce
        <5>1. /\ IsFiniteSet(InFlight(nonce)')
              /\ Cardinality(InFlight(nonce)') = Cardinality(InFlight(nonce)) + 1
          BY <3>4, <4>1, Counts, FS_AddElement
        <5>2. Cardinality(Nonce!Holding(nonce)') = Cardinality(Nonce!Holding(nonce)) - 1
          BY <3>4, <4>1, Counts, FS_RemoveElement
        <5> QED
          BY <2>1, <5>1, <5>2, Counts
      <4>2. CASE nonce # data.nonce
        <5>1. Nonce!Holding(nonce)' = Nonce!Holding(nonce) /\ InFlight(nonce)' = InFlight(nonce)
          BY <3>4, <4>2
        <5> QED
          BY <2>1, <5>1, Counts
      <4> QED
        BY <4>1, <4>2
    <3> QED
      BY <3>5 DEF SpentInv
  <2> QED
    BY <2>2, <2>3
<1>4. ASSUME NEW c \in Clients, handler[c].pc # "idle", NEW frame \in Frames,
             frame.pc # "idle", frame.data = handler[c].data,
             handler' = [handler EXCEPT ![c] = frame],
             UNCHANGED <<nonces, issues, logins>>
      PROVE  SpentInv'
  <2>1. \A nonce \in Nonces \ {0} : InFlight(nonce)' = InFlight(nonce)
    BY <1>4 DEF InFlight, TypeOK
  <2> QED
    BY <1>4, <2>1 DEF SpentInv, Nonce!Holding
<1>5. ASSUME NEW c \in Clients, handler[c].pc # "idle",
             handler' = [handler EXCEPT ![c] = Idle],
             logins' = logins \/ logins' = [logins EXCEPT ![handler[c].data.nonce] = @ + 1],
             UNCHANGED <<nonces, issues>>
      PROVE  SpentInv'
  <2>1. handler[c].data.nonce \in Nonce!Claims
    BY <1>5, FrameFacts
  <2>2. ASSUME NEW nonce \in Nonces \ {0}
        PROVE  /\ InFlight(nonce)' = InFlight(nonce) \ {c}
               /\ c \in InFlight(nonce) <=> nonce = handler[c].data.nonce
               /\ Nonce!Holding(nonce)' = Nonce!Holding(nonce)
    BY <1>5, IdleFrame DEF InFlight, TypeOK, Nonce!Holding
  <2>3. ASSUME NEW nonce \in Nonces \ {0}
        PROVE  /\ IsFiniteSet(InFlight(nonce)')
               /\ logins'[nonce] + Cardinality(InFlight(nonce)')
                    + Cardinality(Nonce!Holding(nonce)') <= issues'[nonce]
    <3>1. /\ IsFiniteSet(InFlight(nonce)')
          /\ Cardinality(InFlight(nonce)') =
               IF nonce = handler[c].data.nonce THEN Cardinality(InFlight(nonce)) - 1
                                                ELSE Cardinality(InFlight(nonce))
      BY <2>2, Counts, FS_RemoveElement
    <3>2. logins'[nonce] = logins[nonce] \/
          (nonce = handler[c].data.nonce /\ logins'[nonce] = logins[nonce] + 1)
      BY <1>5, <2>1, ClaimsFacts DEF TypeOK
    <3> QED
      BY <1>5, <2>2, <3>1, <3>2, Counts
  <2> QED
    BY <2>3 DEF SpentInv
<1>6. ASSUME NEW c \in Clients, ReadUsername(c)
      PROVE  SpentInv'
  <2> DEFINE frame == Frame("password", handler[c].data, storage.username)
  <2>1. /\ frame \in Frames /\ frame.pc = "password" /\ frame.data = handler[c].data
    BY DEF Frame, Frames, PCs, TypeOK, Storages
  <2>2. handler[c].pc = "username" /\ handler' = [handler EXCEPT ![c] = frame]
        /\ UNCHANGED <<nonces, issues, logins>>
    BY <1>6 DEF ReadUsername, Goto, NoncesIdle
  <2> HIDE DEF frame
  <2> QED
    BY <1>4, <2>1, <2>2
<1>7. ASSUME NEW c \in Clients, ReadPassword(c)
      PROVE  SpentInv'
  <2> DEFINE frame == Frame("token", handler[c].data, handler[c].user)
  <2>1. /\ frame \in Frames /\ frame.pc = "token" /\ frame.data = handler[c].data
    BY DEF Frame, Frames, PCs, TypeOK
  <2>2. /\ handler[c].pc = "password" /\ UNCHANGED <<nonces, issues, logins>>
        /\ \/ handler' = [handler EXCEPT ![c] = frame]
           \/ handler' = [handler EXCEPT ![c] = Idle]
    BY <1>7 DEF ReadPassword, Goto, Respond401, NoncesIdle
  <2> HIDE DEF frame
  <2> QED
    BY <1>4, <1>5, <2>1, <2>2
<1>8. ASSUME NEW c \in Clients, Open(c)
      PROVE  SpentInv'
  <2>1. /\ handler[c].pc = "token" /\ UNCHANGED <<nonces, issues>>
        /\ handler' = [handler EXCEPT ![c] = Idle]
        /\ logins' = [logins EXCEPT ![handler[c].data.nonce] = @ + 1]
    BY <1>8 DEF Open, NoncesIdle
  <2> QED
    BY <1>5, <2>1
<1>9. ASSUME NEW c \in Clients, Visit(c)
      PROVE  SpentInv'
  BY <1>1, <1>9, VisitFacts
<1>10. CASE ChangeCredential
  BY <1>1, <1>10, ChangeFacts DEF Change, NoncesIdle
<1> QED
  BY <1>1, <1>2, <1>3, <1>6, <1>7, <1>8, <1>9, <1>10 DEF Next, Tick, NoncesIdle, vars

LEMMA SpentInit == Init => SpentInv
<1> SUFFICES ASSUME Init, NEW nonce \in Nonces \ {0}
             PROVE  /\ IsFiniteSet(InFlight(nonce))
                    /\ logins[nonce] + Cardinality(InFlight(nonce))
                         + Cardinality(Nonce!Holding(nonce)) <= issues[nonce]
  BY DEF SpentInv
<1>1. InFlight(nonce) = {}
  BY IdleFrame DEF Init, InFlight
<1>2. Nonce!Holding(nonce) = {}
  BY LoginAssumption DEF Init, Nonce!Init, Nonce!Holding, Nonce!EmptySlot, Nonce!Slot
<1>3. logins[nonce] = 0 /\ issues[nonce] = 0
  BY ClaimsFacts DEF Init
<1> QED
  BY <1>1, <1>2, <1>3, FS_EmptySet

\* A nonce that is not 0 opens at most as many sessions as it was handed out, for all
\* sizes of the ring, all numbers of clients and all interleavings of their logins,
\* those with 0 among them.
THEOREM NonceOpensOnce == Spec => []OneLoginPerNonce
<1>1. TypeOK /\ SpentInv /\ [Next]_vars => SpentInv'
  BY SpentStep
<1>2. TypeOK /\ SpentInv => OneLoginPerNonce
  <2> SUFFICES ASSUME TypeOK, SpentInv, NEW nonce \in Nonces \ {0}
               PROVE  logins[nonce] <= issues[nonce]
    BY DEF OneLoginPerNonce
  <2> QED
    BY Counts
<1> QED
  BY <1>1, <1>2, SpentInit, TypeCorrect, PTL DEF Spec

-----------------------------------------------------------------------------
(* Who stays logged in.                                                    *)

Used == {id \in Ids : seen[id] # None}

\* The other sessions that were used since this one was.
Later(id) == {other \in Used \ {id} : seen[other].at >= seen[id].at}

\* A session that was opened is stored, or its hour is over, or as many others as
\* there are slots were used since.
KeptInv ==
  /\ IsFiniteSet(Used)
  /\ \A id \in Used :
       \/ \E slot \in Store!Slots : records[slot] # None /\ records[slot].id = id
       \/ clock > seen[id].at + Window
       \/ Cardinality(Later(id)) >= Capacity
  /\ \A c \in Clients : jar[c] # None => jar[c].id \in Used

LEMMA LaterFacts ==
  ASSUME IsFiniteSet(Used), NEW id
  PROVE  IsFiniteSet(Later(id)) /\ Cardinality(Later(id)) \in Nat
<1>1. Later(id) \in SUBSET Used
  BY DEF Later
<1> QED
  BY <1>1, FS_Subset, FS_CardinalityType

\* Sessions only come to be used later: those used since another stay so.
LEMMA LaterGrows ==
  ASSUME NEW S, NEW T, IsFiniteSet(T), S \subseteq T, Cardinality(S) >= Capacity
  PROVE  Cardinality(T) >= Capacity
<1>1. S \in SUBSET T
  OBVIOUS
<1>2. IsFiniteSet(S) /\ Cardinality(S) <= Cardinality(T)
  BY <1>1, FS_Subset
<1>3. Cardinality(S) \in Nat /\ Cardinality(T) \in Nat
  BY <1>2, FS_CardinalityType
<1> QED
  BY <1>2, <1>3, LoginAssumption

\* An eviction leaves one session in every slot that was used no earlier than the one
\* evicted.
LEMMA EvictedIsOld ==
  ASSUME TypeOK, SeenInv, NEW id \in Ids, NEW user, NEW slot \in Store!Slots,
         NEW victim, records[slot].id = victim, seen[id] = None,
         seen' = [seen EXCEPT ![id] = [user |-> user, at |-> clock]],
         seen'[id] # None,
         IsFiniteSet(Used'),
         \A other \in Store!Slots :
           /\ records[other] # None
           /\ records[slot].last_active <= records[other].last_active
  PROVE  Cardinality(Later(victim)') >= Capacity
<1> DEFINE f == [s \in Store!Slots |-> IF s = slot THEN id ELSE records[s].id]
<1>1. /\ \A s \in Store!Slots : records[s].id \in Ids /\ records[s].last_active \in Nat
      /\ \A s \in Store!Slots : records[s].id # id
      /\ \A s \in Store!Slots : seen[records[s].id] # None
      /\ \A s \in Store!Slots : seen[records[s].id].at = records[s].last_active
      /\ \A s, t \in Store!Slots : records[s].id = records[t].id => s = t
  BY DEF TypeOK, Records, SeenInv
<1>2. \A other \in Ids : other # id => seen'[other] = seen[other]
  BY DEF TypeOK
<1>3. victim \in Ids /\ victim # id /\ seen'[victim].at = records[slot].last_active
  BY <1>1, <1>2
<1>4. /\ seen'[id].at = clock /\ records[slot].last_active <= clock
      /\ clock \in Nat
  BY DEF TypeOK
<1>5. ASSUME NEW s \in Store!Slots
      PROVE  f[s] \in Later(victim)'
  <2>1. CASE s = slot
    BY <1>3, <1>4, <2>1 DEF Later, Used
  <2>2. CASE s # slot
    <3>1. f[s] = records[s].id /\ f[s] # victim /\ f[s] \in Ids /\ f[s] # id
      BY <1>1, <2>2
    <3>2. seen'[f[s]] # None /\ seen'[f[s]].at >= seen'[victim].at
      BY <1>1, <1>2, <1>3, <3>1
    <3> HIDE DEF f
    <3> QED
      BY <3>1, <3>2 DEF Later, Used
  <2> QED
    BY <2>1, <2>2
<1>6. \A s, t \in Store!Slots : f[s] = f[t] => s = t
  BY <1>1
<1>7. f \in Injection(Store!Slots, Later(victim)')
  <2>1. f \in [Store!Slots -> Later(victim)']
    BY <1>5
  <2> HIDE DEF f
  <2> QED
    BY <1>6, <2>1, Zenon DEF Injection, IsInjective
<1>8. IsFiniteSet(Later(victim)')
  <2>1. Later(victim)' \in SUBSET Used'
    BY DEF Later
  <2> QED
    BY <2>1, FS_Subset
<1>9. Cardinality(Store!Slots) = Capacity
  BY FS_Interval, LoginAssumption DEF Store!Slots
<1> HIDE DEF f
<1>10. Cardinality(Store!Slots) <= Cardinality(Later(victim)')
  BY <1>7, <1>8, FS_Injection
<1>11. Cardinality(Later(victim)') \in Nat /\ Capacity \in Nat
  BY <1>8, FS_CardinalityType, LoginAssumption
<1> QED
  BY <1>9, <1>10, <1>11

LEMMA KeptStep ==
  ASSUME TypeOK, SeenInv, KeptInv, [Next]_vars
  PROVE  KeptInv'
<1>1. ASSUME UNCHANGED <<records, seen, jar>>, clock' = clock \/ clock' = clock + 1
      PROVE  KeptInv'
  <2>1. Used' = Used /\ \A id : Later(id)' = Later(id)
    BY <1>1 DEF Used, Later
  <2>2. \A id \in Used : seen[id].at \in Nat
    BY DEF Used, TypeOK, Uses
  <2>3. \A id \in Used : clock > seen[id].at + Window => clock' > seen'[id].at + Window
    BY <1>1, <2>2, LoginAssumption DEF TypeOK
  <2> QED
    BY <1>1, <2>1, <2>3 DEF KeptInv
<1>2. ASSUME NEW c \in Clients, Open(c)
      PROVE  KeptInv'
  <2>1. handler[c].pc = "token" /\ clock' = clock
    BY <1>2 DEF Open
  <2>2. PICK id \in Ids :
          /\ seen[id] = None
          /\ Store!save(SessionRecord(id, handler[c].user))
          /\ jar' = [jar EXCEPT ![c] = [id |-> id, until |-> clock + Window]]
          /\ seen' = [seen EXCEPT ![id] = [user |-> handler[c].user, at |-> clock]]
    BY <1>2 DEF Open, Cookie, Use
  <2> DEFINE record == SessionRecord(id, handler[c].user)
  <2>3. /\ record \in Records /\ record # None /\ record.id = id
        /\ handler[c].user \in Names /\ clock \in Nat
    BY <2>1, NewRecord, NoneAssumption DEF TypeOK
  <2>4. PICK slot \in Store!Slots :
          /\ records' = [records EXCEPT ![slot] = record]
          /\ \/ records[slot] = None \/ records[slot].id = record.id
             \/ \A other \in Store!Slots :
                  /\ records[other] # None
                  /\ records[slot].last_active <= records[other].last_active
    BY <2>2, <2>3, SaveFacts
  <2> HIDE DEF record
  <2>5. seen'[id] # None
    BY <2>2, <2>3, NoneAssumption DEF TypeOK, Uses
  <2>6. \A other \in Ids : other # id => seen'[other] = seen[other]
    BY <2>2 DEF TypeOK
  <2>7. Used' = Used \cup {id}
    BY <2>5, <2>6 DEF Used
  <2>8. IsFiniteSet(Used')
    BY <2>7, FS_AddElement DEF KeptInv
  <2>9. \A d \in Clients : jar'[d] # None => jar'[d].id \in Used'
    BY <2>2, <2>7 DEF KeptInv, TypeOK
  <2>10. ASSUME NEW other \in Used
         PROVE  \/ \E s \in Store!Slots : records'[s] # None /\ records'[s].id = other
                \/ clock' > seen'[other].at + Window
                \/ Cardinality(Later(other)') >= Capacity
    <3>1. other \in Ids /\ other # id /\ seen'[other] = seen[other]
      BY <2>2, <2>6 DEF Used
    <3>2. CASE clock > seen[other].at + Window
      BY <2>1, <3>1, <3>2
    <3>3. CASE Cardinality(Later(other)) >= Capacity
      <4>1. Later(other) \subseteq Later(other)'
        BY <2>2, <2>6, <2>7, <3>1 DEF Later, Used
      <4>2. IsFiniteSet(Later(other)')
        <5>1. Later(other)' \in SUBSET Used'
          BY DEF Later
        <5> QED
          BY <2>8, <5>1, FS_Subset
      <4> QED
        BY <3>3, <4>1, <4>2, LaterGrows
    <3>4. ASSUME NEW s \in Store!Slots, records[s] # None, records[s].id = other
          PROVE  \/ \E t \in Store!Slots : records'[t] # None /\ records'[t].id = other
                 \/ Cardinality(Later(other)') >= Capacity
      <4>1. CASE s # slot
        BY <2>4, <3>4, <4>1 DEF TypeOK
      <4>2. CASE s = slot
        <5>1. \A t \in Store!Slots :
                /\ records[t] # None
                /\ records[slot].last_active <= records[t].last_active
          BY <2>3, <2>4, <3>1, <3>4, <4>2
        <5> QED
          BY <2>2, <2>5, <2>8, <3>4, <4>2, <5>1, EvictedIsOld
      <4> QED
        BY <4>1, <4>2
    <3> QED
      BY <3>2, <3>3, <3>4 DEF KeptInv
  <2>11. \E s \in Store!Slots : records'[s] # None /\ records'[s].id = id
    BY <2>3, <2>4 DEF TypeOK
  <2> QED
    BY <2>7, <2>8, <2>9, <2>10, <2>11 DEF KeptInv
<1>3. ASSUME NEW c \in Clients, Visit(c)
      PROVE  KeptInv'
  <2>1. PICK id : /\ Store!load(id, clock)
                  /\ seen' = IF reply'.ok THEN [seen EXCEPT ![id] = Use(seen[id].user, clock)]
                                          ELSE seen
    BY <1>3, VisitFacts
  <2>2. UNCHANGED <<clock, jar>>
    BY <1>3, VisitFacts
  <2>3. CASE ~reply'.ok /\ records' = records
    BY <1>1, <2>1, <2>2, <2>3
  <2>4. ASSUME NEW slot \in Store!Slots, ~reply'.ok,
               records[slot] # None, records[slot].id = id, id \in Ids,
               clock > records[slot].last_active + Window,
               records' = [records EXCEPT ![slot] = None]
        PROVE  KeptInv'
    <3>1. seen' = seen /\ Used' = Used /\ \A other : Later(other)' = Later(other)
      BY <2>1, <2>4 DEF Used, Later
    <3>2. clock' > seen'[id].at + Window
      BY <2>2, <2>4, <3>1 DEF SeenInv
    <3>3. \A s \in Store!Slots : s # slot => records'[s] = records[s]
      BY <2>4 DEF TypeOK
    <3>4. ASSUME NEW other \in Used
          PROVE  \/ \E s \in Store!Slots : records'[s] # None /\ records'[s].id = other
                 \/ clock' > seen'[other].at + Window
                 \/ Cardinality(Later(other)') >= Capacity
      BY <2>2, <2>4, <3>1, <3>2, <3>3 DEF KeptInv
    <3> QED
      BY <2>2, <3>1, <3>4 DEF KeptInv
  <2>5. ASSUME NEW slot \in Store!Slots, id \in Ids, reply'.ok,
               records[slot] # None, records[slot].id = id, Touched(slot) \in Records,
               records' = [records EXCEPT ![slot] = Touched(slot)]
        PROVE  KeptInv'
    <3>1. seen' = [seen EXCEPT ![id] = [user |-> seen[id].user, at |-> clock]]
      BY <2>1, <2>5 DEF Use
    <3>2. /\ seen[id].user \in Names /\ clock \in Nat /\ seen[id] # None
          /\ seen[id].at <= clock
      BY <2>5 DEF SeenInv, TypeOK, Uses
    <3>3. seen'[id] # None /\ seen'[id].at = clock
      BY <2>5, <3>1, <3>2, NoneAssumption DEF TypeOK, Uses
    <3>4. \A other \in Ids : other # id => seen'[other] = seen[other]
      BY <3>1 DEF TypeOK
    <3>5. Used' = Used /\ id \in Used
      BY <2>5, <3>2, <3>3, <3>4 DEF Used
    <3>6. Touched(slot).id = id /\ Touched(slot) # None
      BY <2>5, NoneAssumption DEF Touched
    <3>7. \A s \in Store!Slots : records[s] # None =>
            records'[s] # None /\ records'[s].id = records[s].id
      BY <2>5, <3>6 DEF TypeOK
    <3>8. ASSUME NEW other \in Used
          PROVE  \/ \E s \in Store!Slots : records'[s] # None /\ records'[s].id = other
                 \/ clock' > seen'[other].at + Window
                 \/ Cardinality(Later(other)') >= Capacity
      <4>1. CASE other = id
        BY <2>5, <3>7, <4>1
      <4>2. CASE other # id
        <5>1. other \in Ids /\ seen'[other] = seen[other] /\ seen[other].at \in Nat
              /\ seen[other].at <= clock
          BY <3>4, <4>2 DEF Used, TypeOK, Uses
        <5>2. Later(other) \subseteq Later(other)'
          BY <3>2, <3>3, <3>4, <3>5, <4>2, <5>1 DEF Later, Used
        <5>3. IsFiniteSet(Later(other)')
          <6>1. Later(other)' \in SUBSET Used'
            BY DEF Later
          <6>2. IsFiniteSet(Used')
            BY <3>5 DEF KeptInv
          <6> QED
            BY <6>1, <6>2, FS_Subset
        <5>4. CASE Cardinality(Later(other)) >= Capacity
          BY <5>2, <5>3, <5>4, LaterGrows
        <5> QED
          BY <2>2, <3>7, <5>1, <5>4 DEF KeptInv
      <4> QED
        BY <4>1, <4>2
    <3> QED
      BY <2>2, <3>5, <3>8 DEF KeptInv
  <2> QED
    BY <2>1, <2>3, <2>4, <2>5, LoadFacts
<1> QED
  BY <1>1, <1>2, <1>3 DEF Next, Tick, Issue, ChangeCredential, Change, Verify,
     ReadUsername, ReadPassword, StoreIdle, vars

LEMMA KeptInit == Init => KeptInv
<1> SUFFICES ASSUME Init PROVE KeptInv
  OBVIOUS
<1>1. Used = {} /\ \A c \in Clients : jar[c] = None
  BY DEF Init, Used
<1> QED
  BY <1>1, FS_EmptySet DEF KeptInv

LEMMA PairOf ==
  ASSUME NEW a, NEW b
  PROVE  /\ DOMAIN (<<a>> \o <<b>>) = {1, 2}
         /\ (<<a>> \o <<b>>)[1] = a /\ (<<a>> \o <<b>>)[2] = b
<1> DEFINE S == {a, b}
           pair == <<a>> \o <<b>>
<1>1. <<a>> \in Seq(S) /\ <<b>> \in Seq(S)
  OBVIOUS
<1>2. Len(<<a>>) = 1 /\ Len(<<b>>) = 1 /\ <<a>>[1] = a /\ <<b>>[1] = b
  OBVIOUS
<1> HIDE DEF S
<1>3. /\ pair \in Seq(S) /\ Len(pair) = Len(<<a>>) + Len(<<b>>)
      /\ \A i \in 1 .. Len(<<a>>) + Len(<<b>>) :
           pair[i] = IF i <= Len(<<a>>) THEN <<a>>[i] ELSE <<b>>[i - Len(<<a>>)]
  BY <1>1, ConcatProperties
<1>4. DOMAIN pair = 1 .. Len(pair)
  BY <1>3, LenProperties
<1> HIDE DEF pair
<1>5. 1 .. 2 = {1, 2}
  OBVIOUS
<1>6. DOMAIN pair = {1, 2} /\ pair[1] = a /\ pair[2] = b
  BY <1>2, <1>3, <1>4, <1>5
<1> QED
  BY <1>6 DEF pair

\* The id of a cookie that is sent is found behind any other part.
LEMMA OwnIdFound ==
  ASSUME TypeOK, NEW c \in Clients, Holds(c), NEW header \in Headers(c)
  PROVE  CookieId(header) = jar[c].id /\ jar[c].id \in Ids /\ jar[c].id # None
<1> DEFINE id == jar[c].id
           own == [name |-> "session", id |-> id]
<1>1. id \in Ids /\ id # None
  BY LoginAssumption DEF Holds, TypeOK, Cookies
<1>2. Own(c) = <<own>>
  BY DEF Own, Part
<1> HIDE DEF id
<1> DEFINE parts == {i \in DOMAIN header : header[i].name = "session" /\ header[i].id # None}
<1>3. \E i \in parts : parts = {i} /\ header[i].id = id
  <2>1. CASE header = Own(c)
    <3>1. parts = {1} /\ header[1].id = id
      BY <1>1, <1>2, <2>1
    <3> QED
      BY <3>1
  <2>2. ASSUME NEW part \in OtherParts, header = <<part>> \o Own(c)
        PROVE  \E i \in parts : parts = {i} /\ header[i].id = id
    <3>1. DOMAIN header = {1, 2} /\ header[1] = part /\ header[2] = own
      BY <1>2, <2>2, PairOf
    <3>2. part.name # "session" \/ part.id = None
      BY LoginAssumption DEF Part
    <3>3. parts = {2} /\ header[2].id = id
      BY <1>1, <3>1, <3>2
    <3> QED
      BY <3>3
  <2> QED
    BY <2>1, <2>2 DEF Headers
<1>4. PICK i \in parts : parts = {i} /\ header[i].id = id
  BY <1>3
<1>5. CookieId(header) = header[CHOOSE k \in parts : \A j \in parts : k <= j].id
  BY <1>4 DEF CookieId
<1>6. i \in Nat
  <2>1. DOMAIN header \subseteq Nat
    <3>1. CASE header = Own(c)
      BY <1>2, <3>1
    <3>2. ASSUME NEW part \in OtherParts, header = <<part>> \o Own(c)
          PROVE  DOMAIN header \subseteq Nat
      <4>1. DOMAIN header = {1, 2}
        BY <1>2, <3>2, PairOf
      <4> QED
        BY <4>1
    <3> QED
      BY <3>1, <3>2 DEF Headers
  <2> QED
    BY <2>1
<1>7. (CHOOSE k \in parts : \A j \in parts : k <= j) = i
  <2>1. parts = {i}
    BY <1>4
  <2> HIDE DEF parts
  <2>2. (CHOOSE k \in {i} : \A j \in {i} : k <= j) = i
    BY <1>6
  <2> QED
    BY <2>1, <2>2
<1> QED
  BY <1>1, <1>4, <1>5, <1>7 DEF id

\* A session used in the last hour, with fewer others used since than there are
\* slots, is stored and has not expired.
LEMMA ActiveIsStored ==
  ASSUME TypeOK, SeenInv, KeptInv, NEW id \in Used, Active(id)
  PROVE  /\ Store!Holding(id) # {}
         /\ ~Store!is_expired(records[Store!First(Store!Holding(id))], clock)
<1> DEFINE Since == {other \in Ids : seen[other] # None /\ seen[other].at >= seen[id].at}
<1>1. clock <= seen[id].at + Window /\ Cardinality(Since) <= Capacity
  BY DEF Active
<1>2. id \in Ids /\ seen[id].at \in Nat /\ clock \in Nat /\ Window \in Nat /\ Capacity \in Nat
  BY LoginAssumption DEF Used, TypeOK, Uses
<1>3. Since = Later(id) \cup {id} /\ id \notin Later(id)
  BY <1>2 DEF Later, Used
<1> HIDE DEF Since
<1>4. IsFiniteSet(Later(id)) /\ Cardinality(Later(id)) \in Nat
  BY LaterFacts DEF KeptInv
<1>5. Cardinality(Since) = Cardinality(Later(id)) + 1
  BY <1>3, <1>4, FS_AddElement
<1>6. ~(Cardinality(Later(id)) >= Capacity) /\ ~(clock > seen[id].at + Window)
  BY <1>1, <1>2, <1>4, <1>5
<1>7. \E slot \in Store!Slots : records[slot] # None /\ records[slot].id = id
  BY <1>6 DEF KeptInv
<1>8. Store!Holding(id) # {}
  BY <1>7 DEF Store!Holding
<1> DEFINE slot == Store!First(Store!Holding(id))
<1>9. slot \in Store!Holding(id)
  BY <1>8, FirstRecordSlot DEF Store!Holding
<1>10. slot \in Store!Slots /\ records[slot] # None /\ records[slot].id = id
  BY <1>9 DEF Store!Holding
<1> HIDE DEF slot
<1>11. records[slot].last_active = seen[id].at /\ records[slot].expiry = Inactivity
  BY <1>10 DEF SeenInv, TypeOK, Records
<1>12. ~Store!is_expired(records[slot], clock)
  BY <1>6, <1>11 DEF Store!is_expired, Inactivity
<1> QED
  BY <1>8, <1>12 DEF slot

\* A browser that sends the cookie of a session used in the last hour is admitted as
\* long as fewer other sessions were used since than there are slots: for all sizes
\* of the store, all numbers of clients and whatever precedes the cookie.
THEOREM ActiveAdmitted == Spec => []ActiveNotForgotten
<1>1. TypeOK /\ SeenInv /\ KeptInv => ActiveNotForgotten
  <2> SUFFICES ASSUME TypeOK, SeenInv, KeptInv, NEW c \in Clients, Holds(c),
                      Active(jar[c].id), NEW header \in Headers(c)
               PROVE  Admits(header)
    BY DEF ActiveNotForgotten
  <2>1. CookieId(header) = jar[c].id /\ jar[c].id # None
    BY OwnIdFound
  <2>2. jar[c].id \in Used
    BY DEF Holds, KeptInv
  <2>3. /\ Store!Holding(jar[c].id) # {}
        /\ ~Store!is_expired(records[Store!First(Store!Holding(jar[c].id))], clock)
    BY <2>2, ActiveIsStored
  <2> QED
    BY <2>1, <2>3 DEF Admits
<1>2. TypeOK /\ SeenInv /\ KeptInv /\ [Next]_vars => KeptInv'
  BY KeptStep
<1> QED
  BY <1>1, <1>2, KeptInit, SeenCorrect, PTL DEF Spec
==============================================================================
