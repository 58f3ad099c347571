------------------------- MODULE SessionStoreProofs -------------------------
(***************************************************************************)
(* Theorems about SessionStore, for every capacity, every set of ids, data *)
(* and expiry policies, and every bound.                                   *)
(***************************************************************************)
EXTENDS SessionStore, FiniteSetTheorems, WellFoundedInduction, TLAPS

-----------------------------------------------------------------------------
\* What the scans of the slots find.

(* There is a slot, and slots are natural numbers.                         *)
LEMMA SlotsFacts == Slots \subseteq Nat /\ Slots # {}
<1>1. 0 \in Slots
  BY SessionAssumption DEF Slots
<1> QED
  BY <1>1 DEF Slots

(* A nonempty set of natural numbers has a least element.                  *)
LEMMA LeastOf ==
  ASSUME NEW T, T \subseteq Nat, T # {}
  PROVE  \E x \in T : \A y \in T : x <= y
<1> DEFINE R == {pair \in Nat \X Nat : pair[1] < pair[2]}
<1>1. IsWellFoundedOn(R, Nat)
  BY NatLessThanWellFounded, Zenon DEF OpToRel
<1>2. PICK x \in T : \A y \in T : ~ <<y, x>> \in R
  <2> HIDE DEF R
  <2> QED
    BY <1>1, WFMin, Zenon
<1>3. \A y \in T : x <= y
  <2> TAKE y \in T
  <2>1. x \in Nat /\ y \in Nat /\ <<y, x>> \in Nat \X Nat
    OBVIOUS
  <2>2. ~(<<y, x>>[1] < <<y, x>>[2])
    BY <1>2, <2>1, Zenon
  <2> QED
    BY <2>1, <2>2
<1> QED
  BY <1>3

(* A scan that can find something finds a member of what it looks for,     *)
(* and the first.                                                          *)
LEMMA FirstFacts ==
  ASSUME NEW T, T \subseteq Slots, T # {}
  PROVE  First(T) \in T /\ \A slot \in T : First(T) <= slot
<1>1. \E slot \in T : \A other \in T : slot <= other
  BY SlotsFacts, LeastOf
<1> QED
  BY <1>1 DEF First

(* A slot that is not empty holds a record, with a time of the past.       *)
LEMMA RecordFacts ==
  ASSUME TypeOK, NEW slot \in Slots, records[slot] # None
  PROVE  /\ records[slot] \in Records
         /\ records[slot].last_active \in Nat
         /\ records[slot].last_active <= clock
<1>1. records[slot] \in Records
  BY DEF TypeOK
<1>2. records[slot].last_active \in Nat
  BY <1>1 DEF Records
<1>3. slot \in Slots \ Empty
  BY DEF Empty
<1> QED
  BY <1>1, <1>2, <1>3 DEF TypeOK

(* When every slot is taken there is one with the earliest activity.       *)
LEMMA OldestExists ==
  ASSUME TypeOK, Empty = {}
  PROVE  Oldest # {}
<1> DEFINE times == {records[slot].last_active : slot \in Slots}
<1>1. ASSUME NEW slot \in Slots
      PROVE  records[slot].last_active \in Nat
  BY RecordFacts DEF Empty
<1>2. times \subseteq Nat /\ times # {}
  BY <1>1, SlotsFacts
<1>3. PICK t \in times : \A u \in times : t <= u
  BY <1>2, LeastOf
<1>4. PICK slot \in Slots : t = records[slot].last_active
  BY <1>3
<1>5. slot \in Oldest
  BY <1>3, <1>4 DEF Oldest
<1> QED
  BY <1>5

(* save() takes a slot that holds the id or is empty, and when there is    *)
(* none one with the earliest activity.                                    *)
LEMMA SaveSlotFacts ==
  ASSUME TypeOK, NEW id
  PROVE  /\ SaveSlot(id) \in Slots
         /\ Holding(id) \cup Empty # {} => SaveSlot(id) \in Holding(id) \cup Empty
         /\ Holding(id) \cup Empty = {} => SaveSlot(id) \in Oldest
<1>1. Holding(id) \subseteq Slots /\ Empty \subseteq Slots /\ Oldest \subseteq Slots
  BY DEF Holding, Empty, Oldest
<1>2. CASE Holding(id) \cup Empty # {}
  <2>1. First(Holding(id) \cup Empty) \in Holding(id) \cup Empty
    BY <1>1, <1>2, FirstFacts
  <2> QED
    BY <1>1, <1>2, <2>1 DEF SaveSlot
<1>3. CASE Holding(id) \cup Empty = {}
  <2>1. Oldest # {}
    BY <1>3, OldestExists
  <2>2. First(Oldest) \in Oldest
    BY <1>1, <2>1, FirstFacts
  <2> QED
    BY <1>1, <1>3, <2>2 DEF SaveSlot
<1> QED
  BY <1>2, <1>3

-----------------------------------------------------------------------------
\* What each operation does to the slots.

(* load() leaves the slots alone when none holds the id; otherwise it      *)
(* replaces the record of one that does by the same session with a new     *)
(* time, or empties it.                                                    *)
LEMMA LoadFacts ==
  ASSUME NEW id \in Ids, NEW now, load(id, now), Holding(id) # {}
  PROVE  LET slot  == First(Holding(id))
             valid == ~is_expired(records[slot], now)
             new   == IF valid THEN Touched(records[slot], now) ELSE None
         IN /\ slot \in Slots /\ slot \in Holding(id)
            /\ records[slot] # None /\ records[slot].id = id
            /\ records' = [records EXCEPT ![slot] = new]
            /\ reply' = Reply("load", id, valid, new)
<1>1. First(Holding(id)) \in Holding(id)
  BY FirstFacts DEF Holding
<1> QED
  BY <1>1 DEF load, Holding

(* A record that a lookup has touched is a record, and keeps its id.       *)
LEMMA TouchedFacts ==
  ASSUME NEW record \in Records, NEW now \in Nat
  PROVE  /\ Touched(record, now) \in Records
         /\ Touched(record, now).id = record.id
         /\ Touched(record, now).last_active = now
         /\ Touched(record, now) # None
<1>1. Touched(record, now) \in Records
  BY DEF Touched, Records
<1> QED
  BY <1>1, SessionAssumption DEF Touched

(* A reply that is built from the parts of one is one.                     *)
LEMMA ReplyFacts ==
  ASSUME NEW op \in {"none", "load", "save", "delete", "exists"},
         NEW id \in Ids \cup {None}, NEW ok \in BOOLEAN,
         NEW record \in Records \cup {None}
  PROVE  Reply(op, id, ok, record) \in Replies
BY DEF Reply, Replies

(* is_expired() of a record at a time is a truth value.                    *)
LEMMA ExpiredType ==
  ASSUME NEW record \in Records, NEW now
  PROVE  is_expired(record, now) \in BOOLEAN
BY DEF is_expired

(* A method that writes one slot changes what is held there, and nothing   *)
(* else.                                                                   *)
LEMMA WriteFacts ==
  ASSUME TypeOK, NEW slot \in Slots, NEW value \in Records \cup {None},
         records' = [records EXCEPT ![slot] = value]
  PROVE  /\ records' \in [Slots -> Records \cup {None}]
         /\ \A other \in Slots : records'[other] =
                                   IF other = slot THEN value ELSE records[other]
         /\ \A id : Holding(id)' =
              IF value # None /\ value.id = id THEN Holding(id) \cup {slot}
                                               ELSE Holding(id) \ {slot}
<1>1. /\ records' \in [Slots -> Records \cup {None}]
      /\ \A other \in Slots : records'[other] =
                                IF other = slot THEN value ELSE records[other]
  BY DEF TypeOK
<1>2. ASSUME NEW id
      PROVE  Holding(id)' = IF value # None /\ value.id = id
                            THEN Holding(id) \cup {slot} ELSE Holding(id) \ {slot}
  BY <1>1 DEF Holding
<1> QED
  BY <1>1, <1>2

(* The slots hold no record of the future after a write of a record that   *)
(* is not one.                                                             *)
LEMMA WriteKeepsPast ==
  ASSUME TypeOK, NEW slot \in Slots, NEW value \in Records \cup {None},
         records' = [records EXCEPT ![slot] = value], clock' = clock,
         value # None => value.last_active <= clock
  PROVE  \A other \in Slots \ Empty' : records'[other].last_active <= clock'
<1>1. \A other \in Slots : records'[other] =
                             IF other = slot THEN value ELSE records[other]
  BY WriteFacts
<1>2. ASSUME NEW other \in Slots, records'[other] # None
      PROVE  records'[other].last_active <= clock'
  BY <1>1, <1>2, RecordFacts
<1> QED
  BY <1>2 DEF Empty

-----------------------------------------------------------------------------
\* Type correctness.

(* A call of load() keeps the types.                                       *)
LEMMA LoadType ==
  ASSUME TypeOK, NEW id \in Ids, Load(id)
  PROVE  TypeOK'
<1>1. PICK now \in Sampled(clock) : load(id, now)
  BY DEF Load
<1>2. now \in Nat /\ now <= clock
  BY DEF Sampled, TypeOK
<1>3. clock' = clock /\ closed' = closed
  BY DEF Load
<1>4. CASE Holding(id) = {}
  <2>1. records' = records /\ reply' = Reply("load", id, FALSE, None)
    BY <1>1, <1>4 DEF load
  <2>2. reply' \in Replies
    BY <2>1, ReplyFacts
  <2> QED
    BY <1>3, <2>1, <2>2 DEF TypeOK, Empty
<1>5. CASE Holding(id) # {}
  <2> DEFINE slot  == First(Holding(id))
             valid == ~is_expired(records[slot], now)
             new   == IF valid THEN Touched(records[slot], now) ELSE None
  <2>1. /\ slot \in Slots /\ records[slot] # None
        /\ records' = [records EXCEPT ![slot] = new]
        /\ reply' = Reply("load", id, valid, new)
    BY <1>1, <1>5, LoadFacts
  <2>2. records[slot] \in Records
    BY <2>1, RecordFacts
  <2>3. /\ new \in Records \cup {None}
        /\ new # None => new.last_active <= clock
    BY <1>2, <2>2, TouchedFacts
  <2>4. valid \in BOOLEAN
    BY <2>2, ExpiredType
  <2>5. reply' \in Replies
    <3> HIDE DEF valid, new
    <3> QED
      BY <2>1, <2>3, <2>4, ReplyFacts
  <2> HIDE DEF slot, valid, new
  <2>6. records' \in [Slots -> Records \cup {None}]
    BY <2>1, <2>3, WriteFacts
  <2>7. \A other \in Slots \ Empty' : records'[other].last_active <= clock'
    BY <1>3, <2>1, <2>3, WriteKeepsPast
  <2> QED
    BY <1>3, <2>5, <2>6, <2>7 DEF TypeOK
<1> QED
  BY <1>4, <1>5

(* A record that is saved, with the time of the call, is a record.         *)
LEMMA SavedRecord ==
  ASSUME NEW id \in Ids, NEW data \in Data, NEW expiry \in Expiries,
         NEW now \in Nat
  PROVE  LET record == [id |-> id, data |-> data, expiry |-> expiry,
                        last_active |-> now]
         IN record \in Records /\ record.id = id /\ record # None
BY SessionAssumption DEF Records

(* A call of save() keeps the types.                                       *)
LEMMA SaveType ==
  ASSUME TypeOK, NEW record \in Records, Save(record)
  PROVE  TypeOK'
<1>1. /\ records' = [records EXCEPT ![SaveSlot(record.id)] = record]
      /\ reply' = Reply("save", record.id, TRUE, None)
      /\ clock' = clock /\ closed' = closed \ {record.id}
      /\ record.last_active \in Sampled(clock)
  BY DEF Save, save
<1>2. SaveSlot(record.id) \in Slots
  BY SaveSlotFacts
<1>3. record.last_active <= clock
  BY <1>1 DEF Sampled, TypeOK
<1>4. reply' \in Replies
  <2>1. record.id \in Ids
    BY DEF Records
  <2> QED
    BY <1>1, <2>1, ReplyFacts
<1>5. records' \in [Slots -> Records \cup {None}]
  BY <1>1, <1>2, WriteFacts
<1>6. \A other \in Slots \ Empty' : records'[other].last_active <= clock'
  BY <1>1, <1>2, <1>3, WriteKeepsPast
<1> QED
  BY <1>1, <1>4, <1>5, <1>6 DEF TypeOK

(* A call of delete() keeps the types.                                     *)
LEMMA DeleteType ==
  ASSUME TypeOK, NEW id \in Ids, Delete(id)
  PROVE  TypeOK'
<1>1. /\ clock' = clock /\ closed' = closed \cup {id}
      /\ reply' = Reply("delete", id, Holding(id) # {}, None)
  BY DEF Delete, delete
<1>2. reply' \in Replies
  BY <1>1, ReplyFacts
<1>3. CASE Holding(id) = {}
  <2>1. records' = records
    BY <1>3 DEF Delete, delete
  <2> QED
    BY <1>1, <1>2, <2>1 DEF TypeOK, Empty
<1>4. CASE Holding(id) # {}
  <2> DEFINE slot == First(Holding(id))
  <2>1. records' = [records EXCEPT ![slot] = None]
    BY <1>4 DEF Delete, delete
  <2>2. slot \in Slots
    BY <1>4, FirstFacts DEF Holding
  <2> HIDE DEF slot
  <2>3. records' \in [Slots -> Records \cup {None}]
    BY <2>1, <2>2, WriteFacts
  <2>4. \A other \in Slots \ Empty' : records'[other].last_active <= clock'
    BY <1>1, <2>1, <2>2, WriteKeepsPast
  <2> QED
    BY <1>1, <1>2, <2>3, <2>4 DEF TypeOK
<1> QED
  BY <1>3, <1>4

(* The types hold of the empty store.                                      *)
LEMMA TypeInit == Init => TypeOK
<1> SUFFICES ASSUME Init
             PROVE  TypeOK
  OBVIOUS
<1>1. records = [slot \in Slots |-> None] /\ clock = 0 /\ closed = {}
  BY DEF Init
<1>2. reply \in Replies
  BY ReplyFacts DEF Init, NoReply
<1>3. clock \in 0 .. MaxTime
  BY <1>1, SessionAssumption
<1> QED
  BY <1>1, <1>2, <1>3 DEF TypeOK, Empty

(* Every step keeps the types.                                             *)
LEMMA TypeStep == TypeOK /\ [Next]_vars => TypeOK'
<1> SUFFICES ASSUME TypeOK, [Next]_vars
             PROVE  TypeOK'
  OBVIOUS
<1>1. CASE Tick
  <2>1. /\ clock' = clock + 1 /\ clock < MaxTime
        /\ records' = records /\ reply' = reply /\ closed' = closed
    BY <1>1 DEF Tick
  <2>2. clock' \in 0 .. MaxTime /\ clock \in Nat
    BY <2>1, SessionAssumption DEF TypeOK
  <2>3. ASSUME NEW slot \in Slots, records'[slot] # None
        PROVE  records'[slot].last_active <= clock'
    BY <2>1, <2>2, <2>3, RecordFacts
  <2> QED
    BY <2>1, <2>2, <2>3 DEF TypeOK, Empty
<1>2. ASSUME NEW id \in Ids, Load(id)
      PROVE  TypeOK'
  BY <1>2, LoadType
<1>3. ASSUME NEW id \in Ids, Delete(id)
      PROVE  TypeOK'
  BY <1>3, DeleteType
<1>4. ASSUME NEW id \in Ids, Exists(id)
      PROVE  TypeOK'
  <2>1. /\ records' = records /\ clock' = clock /\ closed' = closed
        /\ reply' = Reply("exists", id, Holding(id) # {}, None)
    BY <1>4 DEF Exists, exists
  <2>2. reply' \in Replies
    BY <2>1, ReplyFacts
  <2> QED
    BY <2>1, <2>2 DEF TypeOK, Empty
<1>5. ASSUME NEW id \in Ids, NEW data \in Data, NEW expiry \in Expiries,
             NEW now \in Sampled(clock),
             Save([id |-> id, data |-> data, expiry |-> expiry,
                   last_active |-> now])
      PROVE  TypeOK'
  <2>1. now \in Nat
    BY DEF Sampled
  <2> QED
    BY <1>5, <2>1, SavedRecord, SaveType
<1>6. CASE UNCHANGED vars
  BY <1>6 DEF vars, TypeOK, Empty
<1> QED
  BY <1>1, <1>2, <1>3, <1>4, <1>5, <1>6 DEF Next

(* The slots hold records, none of them of the future: the type invariant  *)
(* of LruMemoryStore, for every capacity.                                  *)
THEOREM TypeCorrect == Spec => []TypeOK
BY TypeInit, TypeStep, PTL DEF Spec

-----------------------------------------------------------------------------
\* A session that is deleted is gone.

(* A lookup leaves each session where it was, or removes it.               *)
LEMMA LoadHolding ==
  ASSUME TypeOK, NEW id \in Ids, NEW now \in Nat, load(id, now)
  PROVE  \A x : Holding(x)' \subseteq Holding(x)
<1>1. CASE Holding(id) = {}
  BY <1>1 DEF load, Holding
<1>2. CASE Holding(id) # {}
  <2> DEFINE slot  == First(Holding(id))
             valid == ~is_expired(records[slot], now)
             new   == IF valid THEN Touched(records[slot], now) ELSE None
  <2>1. /\ slot \in Slots /\ slot \in Holding(id)
        /\ records[slot] # None /\ records[slot].id = id
        /\ records' = [records EXCEPT ![slot] = new]
    BY <1>2, LoadFacts
  <2>2. records[slot] \in Records
    BY <2>1, RecordFacts
  <2>3. new \in Records \cup {None} /\ (new # None => new.id = id)
    BY <2>1, <2>2, TouchedFacts
  <2> HIDE DEF slot, valid, new
  <2>4. \A x : Holding(x)' = IF new # None /\ new.id = x
                             THEN Holding(x) \cup {slot} ELSE Holding(x) \ {slot}
    BY <2>1, <2>3, WriteFacts
  <2> QED
    BY <2>1, <2>3, <2>4
<1> QED
  BY <1>1, <1>2

(* A save leaves the other sessions where they were or removes them, and   *)
(* adds the slot it takes to those of its own.                             *)
LEMMA SaveHolding ==
  ASSUME TypeOK, NEW record \in Records, save(record)
  PROVE  /\ \A x : x # record.id => Holding(x)' \subseteq Holding(x)
         /\ Holding(record.id)' = Holding(record.id) \cup {SaveSlot(record.id)}
<1> DEFINE slot == SaveSlot(record.id)
<1>1. slot \in Slots
  BY SaveSlotFacts
<1>2. records' = [records EXCEPT ![slot] = record]
  BY DEF save
<1>3. record # None
  BY SessionAssumption
<1> HIDE DEF slot
<1>4. \A x : Holding(x)' = IF record # None /\ record.id = x
                           THEN Holding(x) \cup {slot} ELSE Holding(x) \ {slot}
  BY <1>1, <1>2, WriteFacts
<1> QED
  BY <1>3, <1>4 DEF slot

(* A deletion removes the session, when it is held in one slot only, and   *)
(* no other.                                                               *)
LEMMA DeleteHolding ==
  ASSUME TypeOK, NEW id \in Ids, delete(id)
  PROVE  /\ \A x : Holding(x)' \subseteq Holding(x)
         /\ UniqueIds => Holding(id)' = {}
<1>1. CASE Holding(id) = {}
  BY <1>1 DEF delete, Holding
<1>2. CASE Holding(id) # {}
  <2> DEFINE slot == First(Holding(id))
  <2>1. slot \in Holding(id)
    BY <1>2, FirstFacts DEF Holding
  <2>2. slot \in Slots /\ records' = [records EXCEPT ![slot] = None]
    BY <1>2, <2>1 DEF delete, Holding
  <2> HIDE DEF slot
  <2>3. \A x : Holding(x)' = Holding(x) \ {slot}
    BY <2>2, WriteFacts
  <2> QED
    BY <2>1, <2>3 DEF UniqueIds
<1> QED
  BY <1>1, <1>2

(* Nothing is held under the id of a session that was deleted and not      *)
(* saved again: what a reply about it rests on.                            *)
ClosedGone == \A id \in closed : Holding(id) = {}

(* The inductive invariant behind ClosedStaysClosed.  Without UniqueIds a  *)
(* deletion would leave a second copy to be found.                         *)
SessionInv == TypeOK /\ UniqueIds /\ ClosedGone

(* When save() is only given ids that are not stored, every step keeps     *)
(* the invariant.                                                          *)
LEMMA SessionInvStep ==
  ASSUME ~Reuse
  PROVE  SessionInv /\ [Next]_vars => SessionInv'
<1> SUFFICES ASSUME SessionInv, [Next]_vars
             PROVE  SessionInv'
  OBVIOUS
<1> USE DEF SessionInv
<1>1. TypeOK'
  BY TypeStep
<1>2. ASSUME \A x : Holding(x)' \subseteq Holding(x), closed' \subseteq closed
      PROVE  SessionInv'
  <2>1. UniqueIds'
    <3> SUFFICES ASSUME NEW x \in Ids,
                        NEW s1 \in Holding(x)', NEW s2 \in Holding(x)'
                 PROVE  s1 = s2
      BY DEF UniqueIds
    <3>1. s1 \in Holding(x) /\ s2 \in Holding(x)
      BY <1>2
    <3> QED
      BY <3>1 DEF UniqueIds
  <2>2. ClosedGone'
    BY <1>2 DEF ClosedGone
  <2> QED
    BY <1>1, <2>1, <2>2
<1>3. CASE Tick
  BY <1>2, <1>3 DEF Tick, Holding
<1>4. ASSUME NEW id \in Ids, Load(id)
      PROVE  SessionInv'
  <2>1. PICK now \in Sampled(clock) : load(id, now)
    BY <1>4 DEF Load
  <2>2. now \in Nat
    BY DEF Sampled
  <2> QED
    BY <1>2, <1>4, <2>1, <2>2, LoadHolding DEF Load
<1>5. ASSUME NEW id \in Ids, Exists(id)
      PROVE  SessionInv'
  BY <1>2, <1>5 DEF Exists, exists, Holding
<1>6. ASSUME NEW id \in Ids, Delete(id)
      PROVE  SessionInv'
  <2>1. delete(id) /\ closed' = closed \cup {id}
    BY <1>6 DEF Delete
  <2>2. (\A x : Holding(x)' \subseteq Holding(x)) /\ Holding(id)' = {}
    BY <2>1, DeleteHolding
  <2>3. UniqueIds'
    <3> SUFFICES ASSUME NEW x \in Ids,
                        NEW s1 \in Holding(x)', NEW s2 \in Holding(x)'
                 PROVE  s1 = s2
      BY DEF UniqueIds
    <3>1. s1 \in Holding(x) /\ s2 \in Holding(x)
      BY <2>2
    <3> QED
      BY <3>1 DEF UniqueIds
  <2>4. ClosedGone'
    BY <2>1, <2>2 DEF ClosedGone
  <2> QED
    BY <1>1, <2>3, <2>4
<1>7. ASSUME NEW record \in Records, Save(record)
      PROVE  SessionInv'
  <2>1. /\ save(record) /\ Holding(record.id) = {}
        /\ closed' = closed \ {record.id}
    BY <1>7 DEF Save
  <2>2. /\ \A x : x # record.id => Holding(x)' \subseteq Holding(x)
        /\ Holding(record.id)' = {SaveSlot(record.id)}
    BY <2>1, SaveHolding
  <2>3. UniqueIds'
    <3> SUFFICES ASSUME NEW x \in Ids,
                        NEW s1 \in Holding(x)', NEW s2 \in Holding(x)'
                 PROVE  s1 = s2
      BY DEF UniqueIds
    <3>1. CASE x = record.id
      BY <2>2, <3>1
    <3>2. CASE x # record.id
      <4>1. s1 \in Holding(x) /\ s2 \in Holding(x)
        BY <2>2, <3>2
      <4> QED
        BY <4>1 DEF UniqueIds
    <3> QED
      BY <3>1, <3>2
  <2>4. ClosedGone'
    BY <2>1, <2>2 DEF ClosedGone
  <2> QED
    BY <1>1, <2>3, <2>4
<1>8. ASSUME NEW id \in Ids, NEW data \in Data, NEW expiry \in Expiries,
             NEW now \in Sampled(clock),
             Save([id |-> id, data |-> data, expiry |-> expiry,
                   last_active |-> now])
      PROVE  SessionInv'
  <2>1. now \in Nat
    BY DEF Sampled
  <2> QED
    BY <1>7, <1>8, <2>1, SavedRecord
<1>9. CASE UNCHANGED vars
  BY <1>2, <1>9 DEF vars, Holding
<1> QED
  BY <1>3, <1>4, <1>5, <1>6, <1>8, <1>9 DEF Next

(* The invariant holds when save() is only given ids that are not stored.  *)
LEMMA SessionInvariant ==
  ASSUME ~Reuse
  PROVE  Spec => []SessionInv
<1>1. Init => SessionInv
  BY TypeInit DEF SessionInv, Init, UniqueIds, ClosedGone, Holding
<1> QED
  BY <1>1, SessionInvStep, PTL DEF Spec

(* No two slots hold the same session, as long as save() is only given ids *)
(* that are not stored, which handle_login's random ids justify.           *)
THEOREM OneSlotPerSession ==
  ASSUME ~Reuse
  PROVE  Spec => []UniqueIds
<1>1. SessionInv => UniqueIds
  BY DEF SessionInv
<1> QED
  BY <1>1, SessionInvariant, PTL

(* Every step keeps that a reply about a deleted session says no.          *)
LEMMA ClosedStep ==
  SessionInv /\ ClosedStaysClosed /\ [Next]_vars => ClosedStaysClosed'
<1> SUFFICES ASSUME SessionInv, ClosedStaysClosed, [Next]_vars
             PROVE  ClosedStaysClosed'
  OBVIOUS
<1>1. CASE UNCHANGED <<reply, closed>>
  BY <1>1 DEF ClosedStaysClosed
<1>2. ASSUME reply'.op \notin {"load", "exists"}
      PROVE  ClosedStaysClosed'
  BY <1>2 DEF ClosedStaysClosed
<1>3. ASSUME NEW id \in Ids, Load(id)
      PROVE  ClosedStaysClosed'
  <2>1. PICK now \in Sampled(clock) : load(id, now)
    BY <1>3 DEF Load
  <2>2. closed' = closed
    BY <1>3 DEF Load
  <2>3. CASE Holding(id) = {}
    <3>1. reply' = Reply("load", id, FALSE, None)
      BY <2>1, <2>3 DEF load
    <3> QED
      BY <3>1 DEF ClosedStaysClosed, Reply
  <2>4. CASE Holding(id) # {}
    <3>1. id \notin closed
      BY <2>4 DEF SessionInv, ClosedGone
    <3>2. reply'.id = id
      BY <2>1, <2>4, LoadFacts DEF Reply
    <3> QED
      BY <2>2, <3>1, <3>2 DEF ClosedStaysClosed
  <2> QED
    BY <2>3, <2>4
<1>4. ASSUME NEW id \in Ids, Exists(id)
      PROVE  ClosedStaysClosed'
  <2>1. reply' = Reply("exists", id, Holding(id) # {}, None) /\ closed' = closed
    BY <1>4 DEF Exists, exists
  <2>2. id \in closed => Holding(id) = {}
    BY DEF SessionInv, ClosedGone
  <2> QED
    BY <2>1, <2>2 DEF ClosedStaysClosed, Reply
<1>5. ASSUME NEW id \in Ids, Delete(id)
      PROVE  ClosedStaysClosed'
  BY <1>2, <1>5 DEF Delete, delete, Reply
<1>6. ASSUME NEW record, Save(record)
      PROVE  ClosedStaysClosed'
  BY <1>2, <1>6 DEF Save, save, Reply
<1>7. CASE Tick
  BY <1>1, <1>7 DEF Tick
<1>8. CASE UNCHANGED vars
  BY <1>1, <1>8 DEF vars
<1> QED
  BY <1>3, <1>4, <1>5, <1>6, <1>7, <1>8 DEF Next

(* Once a session is deleted no lookup finds it until it is saved again,   *)
(* for every capacity and all interleavings of the calls.                  *)
THEOREM DeletedStaysDeleted ==
  ASSUME ~Reuse
  PROVE  Spec => []ClosedStaysClosed
<1>1. Init => ClosedStaysClosed
  BY DEF Init, ClosedStaysClosed, NoReply, Reply
<1> QED
  BY <1>1, SessionInvariant, ClosedStep, PTL DEF Spec

-----------------------------------------------------------------------------
\* What an eviction takes.

(* Of two records with one inactivity policy, the one that was active      *)
(* earlier has expired when the other has.                                 *)
LEMMA EarlierExpiresFirst ==
  ASSUME NEW r1 \in Records, NEW r2 \in Records, NEW now \in Nat,
         r1.expiry = r2.expiry, r1.expiry.kind = "OnInactivity",
         r1.last_active <= r2.last_active, is_expired(r2, now)
  PROVE  is_expired(r1, now)
<1>1. /\ r1.expiry.ticks \in Nat
      /\ r1.last_active \in Nat /\ r2.last_active \in Nat
  BY SessionAssumption DEF Records, Policies
<1>2. now > r2.last_active + r1.expiry.ticks
  BY DEF is_expired
<1>3. now > r1.last_active + r1.expiry.ticks
  BY <1>1, <1>2
<1> QED
  BY <1>3 DEF is_expired

(* Every step that puts another session into a slot is a save() that found *)
(* every slot taken, and took one of the least recently active.            *)
LEMMA EvictionStep ==
  ASSUME TypeOK, [Next]_vars, NEW slot \in Slots,
         records[slot] # None, records'[slot] # None,
         records'[slot].id # records[slot].id
  PROVE  Empty = {} /\ slot \in Oldest
<1>1. ASSUME records' = records
      PROVE  FALSE
  BY <1>1
<1>2. ASSUME NEW id \in Ids, Load(id)
      PROVE  FALSE
  <2>1. PICK now \in Sampled(clock) : load(id, now)
    BY <1>2 DEF Load
  <2>2. CASE Holding(id) = {}
    BY <1>1, <2>1, <2>2 DEF load
  <2>3. CASE Holding(id) # {}
    <3> DEFINE found == First(Holding(id))
               valid == ~is_expired(records[found], now)
               new   == IF valid THEN Touched(records[found], now) ELSE None
    <3>1. /\ found \in Slots /\ records[found] # None
          /\ records' = [records EXCEPT ![found] = new]
      BY <2>1, <2>3, LoadFacts
    <3>2. records[found] \in Records /\ now \in Nat
      BY <3>1, RecordFacts DEF Sampled
    <3>3. /\ new \in Records \cup {None}
          /\ new # None => new.id = records[found].id
      BY <3>2, TouchedFacts
    <3> HIDE DEF found, valid, new
    <3>4. records'[slot] = IF slot = found THEN new ELSE records[slot]
      BY <3>1, <3>3, WriteFacts
    <3> QED
      BY <3>3, <3>4
  <2> QED
    BY <2>2, <2>3
<1>3. ASSUME NEW id \in Ids, Delete(id)
      PROVE  FALSE
  <2>1. CASE Holding(id) = {}
    BY <1>1, <1>3, <2>1 DEF Delete, delete
  <2>2. CASE Holding(id) # {}
    <3> DEFINE found == First(Holding(id))
    <3>1. found \in Slots /\ records' = [records EXCEPT ![found] = None]
      BY <1>3, <2>2, FirstFacts DEF Delete, delete, Holding
    <3> HIDE DEF found
    <3>2. records'[slot] = IF slot = found THEN None ELSE records[slot]
      BY <3>1, WriteFacts
    <3> QED
      BY <3>2
  <2> QED
    BY <2>1, <2>2
<1>4. ASSUME NEW record \in Records, Save(record)
      PROVE  Empty = {} /\ slot \in Oldest
  <2> DEFINE taken == SaveSlot(record.id)
  <2>1. records' = [records EXCEPT ![taken] = record]
    BY <1>4 DEF Save, save
  <2>2. taken \in Slots
    BY SaveSlotFacts
  <2>3. records'[slot] = IF slot = taken THEN record ELSE records[slot]
    <3> HIDE DEF taken
    <3> QED
      BY <2>1, <2>2, WriteFacts
  <2>4. slot = taken /\ records[slot].id # record.id
    BY <2>3
  <2>5. slot \notin Holding(record.id) \cup Empty
    BY <2>4 DEF Holding, Empty
  <2> QED
    BY <2>4, <2>5, SaveSlotFacts
<1>5. ASSUME NEW id \in Ids, NEW data \in Data, NEW expiry \in Expiries,
             NEW now \in Sampled(clock),
             Save([id |-> id, data |-> data, expiry |-> expiry,
                   last_active |-> now])
      PROVE  Empty = {} /\ slot \in Oldest
  <2>1. now \in Nat
    BY DEF Sampled
  <2> QED
    BY <1>4, <1>5, <2>1, SavedRecord
<1>6. ASSUME NEW id \in Ids, Exists(id)
      PROVE  FALSE
  BY <1>1, <1>6 DEF Exists, exists
<1>7. CASE Tick
  BY <1>1, <1>7 DEF Tick
<1>8. CASE UNCHANGED vars
  BY <1>1, <1>8 DEF vars
<1> QED
  BY <1>2, <1>3, <1>5, <1>6, <1>7, <1>8 DEF Next

(* A session is evicted only when every slot is taken, and with one        *)
(* inactivity policy a live one never while one that has expired is kept.  *)
THEOREM EvictsExpired == Spec => EvictsExpiredFirst
<1> DEFINE Evicted(slot) ==
             /\ records[slot] # None /\ records'[slot] # None
             /\ records'[slot].id # records[slot].id
           OnePolicy(slot) ==
             /\ records[slot].expiry.kind = "OnInactivity"
             /\ \A other \in Slots : records[other].expiry = records[slot].expiry
           Right(slot) ==
             /\ Empty = {}
             /\ OnePolicy(slot) =>
                  \A other \in Slots : is_expired(records[other], clock)
                                         => is_expired(records[slot], clock)
           Evicts == \A slot \in Slots : Evicted(slot) => Right(slot)
<1>1. TypeOK /\ [Next]_vars => Evicts
  <2> SUFFICES ASSUME TypeOK, [Next]_vars, NEW slot \in Slots, Evicted(slot)
               PROVE  Right(slot)
    OBVIOUS
  <2>1. Empty = {} /\ slot \in Oldest
    BY EvictionStep
  <2>2. ASSUME OnePolicy(slot), NEW other \in Slots,
               is_expired(records[other], clock)
        PROVE  is_expired(records[slot], clock)
    <3>1. records[slot] # None /\ records[other] # None
      BY <2>1 DEF Empty
    <3>2. records[slot] \in Records /\ records[other] \in Records
      BY <3>1, RecordFacts
    <3>3. records[slot].last_active <= records[other].last_active
      BY <2>1 DEF Oldest
    <3>4. clock \in Nat
      BY DEF TypeOK
    <3> QED
      BY <2>2, <3>2, <3>3, <3>4, EarlierExpiresFirst
  <2> QED
    BY <2>1, <2>2
<1>2. Evicts <=> \A slot \in Slots :
       LET victim  == records[slot]
           evicted == /\ victim # None /\ records'[slot] # None
                      /\ records'[slot].id # victim.id
           onePolicy == /\ victim.expiry.kind = "OnInactivity"
                        /\ \A other \in Slots :
                             records[other].expiry = victim.expiry
       IN evicted =>
            /\ Empty = {}
            /\ onePolicy =>
                 \A other \in Slots : is_expired(records[other], clock)
                                        => is_expired(victim, clock)
  BY Zenon
<1> HIDE DEF Evicts
<1> QED
  BY <1>1, <1>2, TypeCorrect, PTL DEF Spec, EvictsExpiredFirst

-----------------------------------------------------------------------------
\* What the map holds.

(* A session is in the map when some slot holds it, and then the map has   *)
(* the record of that slot.                                                *)
LEMMA SessionFacts ==
  ASSUME SessionInv, NEW id \in Ids
  PROVE  /\ SessionOf(id) = None <=> Holding(id) = {}
         /\ \A slot \in Holding(id) : SessionOf(id) = records[slot]
<1>1. CASE Holding(id) = {}
  BY <1>1 DEF SessionOf
<1>2. CASE Holding(id) # {}
  <2>1. First(Holding(id)) \in Holding(id)
    BY <1>2, FirstFacts DEF Holding
  <2>2. \A slot \in Holding(id) : slot = First(Holding(id))
    BY <2>1 DEF SessionInv, UniqueIds
  <2>3. SessionOf(id) = records[First(Holding(id))]
    BY <1>2 DEF SessionOf
  <2>4. records[First(Holding(id))] # None
    BY <2>1 DEF Holding
  <2> QED
    BY <1>2, <2>2, <2>3, <2>4
<1> QED
  BY <1>1, <1>2

(* The same, after a step.                                                 *)
LEMMA SessionFactsNext ==
  ASSUME SessionInv', NEW id \in Ids
  PROVE  /\ SessionOf(id)' = None <=> Holding(id)' = {}
         /\ \A slot \in Holding(id)' : SessionOf(id)' = records'[slot]
<1>1. CASE Holding(id)' = {}
  BY <1>1 DEF SessionOf
<1>2. CASE Holding(id)' # {}
  <2>1. First(Holding(id)') \in Holding(id)'
    BY <1>2, FirstFacts DEF Holding
  <2>2. \A slot \in Holding(id)' : slot = First(Holding(id)')
    BY <2>1 DEF SessionInv, UniqueIds
  <2>3. SessionOf(id)' = records'[First(Holding(id)')]
    BY <1>2 DEF SessionOf, First
  <2>4. records'[First(Holding(id)')] # None
    BY <2>1 DEF Holding
  <2> QED
    BY <1>2, <2>2, <2>3, <2>4
<1> QED
  BY <1>1, <1>2

(* What the write of one slot means to the map: the session written is     *)
(* stored, the one the slot held before is gone.                           *)
LEMMA WriteSession ==
  ASSUME SessionInv, SessionInv', NEW slot \in Slots,
         NEW value \in Records \cup {None},
         records' = [records EXCEPT ![slot] = value], NEW id \in Ids
  PROVE  SessionOf(id)' = IF value # None /\ value.id = id THEN value
                          ELSE IF slot \in Holding(id) THEN None
                          ELSE SessionOf(id)
<1>1. TypeOK
  BY DEF SessionInv
<1>2. /\ \A other \in Slots : records'[other] =
                                IF other = slot THEN value ELSE records[other]
      /\ Holding(id)' = IF value # None /\ value.id = id
                        THEN Holding(id) \cup {slot} ELSE Holding(id) \ {slot}
  BY <1>1, WriteFacts
<1>3. CASE value # None /\ value.id = id
  <2>1. slot \in Holding(id)' /\ records'[slot] = value
    BY <1>2, <1>3
  <2> QED
    BY <1>3, <2>1, SessionFactsNext
<1>4. CASE ~(value # None /\ value.id = id) /\ slot \in Holding(id)
  <2>1. Holding(id) = {slot}
    BY <1>4 DEF SessionInv, UniqueIds
  <2>2. Holding(id)' = {}
    BY <1>2, <1>4, <2>1
  <2> QED
    BY <1>4, <2>2, SessionFactsNext
<1>5. CASE ~(value # None /\ value.id = id) /\ slot \notin Holding(id)
  <2>1. Holding(id)' = Holding(id)
    BY <1>2, <1>5
  <2>2. CASE Holding(id) = {}
    BY <1>5, <2>1, <2>2, SessionFacts, SessionFactsNext
  <2>3. CASE Holding(id) # {}
    <3>1. PICK other \in Holding(id) : TRUE
      BY <2>3
    <3>2. other \in Slots /\ other # slot
      BY <1>5 DEF Holding
    <3>3. SessionOf(id)' = records'[other]
      BY <2>1, SessionFactsNext
    <3>4. SessionOf(id) = records[other]
      BY SessionFacts
    <3> QED
      BY <1>2, <1>5, <3>2, <3>3, <3>4
  <2> QED
    BY <2>2, <2>3
<1> QED
  BY <1>3, <1>4, <1>5

-----------------------------------------------------------------------------
\* The capacity.

\* The ids stored.
StoredIds == {id \in Ids : Holding(id) # {}}

(* As many sessions are stored as slots are taken.                         *)
LEMMA StoredCount ==
  ASSUME SessionInv
  PROVE  /\ IsFiniteSet(Slots \ Empty)
         /\ Cardinality(StoredIds) = Cardinality(Slots \ Empty)
<1> DEFINE taken == Slots \ Empty
           f == [slot \in taken |-> records[slot].id]
<1>1. IsFiniteSet(taken)
  <2>1. N - 1 \in Int /\ 0 \in Int
    BY SessionAssumption
  <2>2. IsFiniteSet(Slots)
    BY <2>1, FS_Interval DEF Slots
  <2> QED
    BY <2>2, FS_Subset
<1>2. ASSUME NEW slot \in taken
      PROVE  f[slot] \in StoredIds /\ slot \in Holding(f[slot])
  <2>1. records[slot] # None
    BY DEF Empty
  <2>2. records[slot].id \in Ids
    BY <2>1, RecordFacts DEF SessionInv, Records
  <2>3. slot \in Holding(records[slot].id)
    BY <2>1 DEF Holding
  <2> QED
    BY <2>2, <2>3 DEF StoredIds
<1>3. f \in Injection(taken, StoredIds)
  <2>1. f \in [taken -> StoredIds]
    BY <1>2
  <2>2. ASSUME NEW a \in taken, NEW b \in taken, f[a] = f[b]
        PROVE  a = b
    <3>1. a \in Holding(f[a]) /\ b \in Holding(f[a]) /\ f[a] \in Ids
      BY <1>2, <2>2 DEF StoredIds
    <3> QED
      BY <3>1 DEF SessionInv, UniqueIds
  <2> HIDE DEF f, taken
  <2> QED
    BY <2>1, <2>2 DEF Injection, IsInjective
<1>4. f \in Surjection(taken, StoredIds)
  <2>1. f \in [taken -> StoredIds]
    BY <1>2
  <2>2. ASSUME NEW id \in StoredIds
        PROVE  \E slot \in taken : f[slot] = id
    <3>1. PICK slot \in Holding(id) : TRUE
      BY DEF StoredIds
    <3>2. slot \in taken /\ records[slot].id = id
      BY DEF Holding, Empty
    <3> QED
      BY <3>2
  <2> HIDE DEF f, taken
  <2> QED
    BY <2>1, <2>2 DEF Surjection
<1> HIDE DEF f, taken
<1>5. ExistsBijection(taken, StoredIds)
  BY <1>3, <1>4 DEF ExistsBijection, Bijection
<1>6. Cardinality(StoredIds) = Cardinality(taken)
  BY <1>1, <1>5, FS_Bijection
<1> QED
  BY <1>1, <1>6 DEF taken

(* The map is full when every slot is taken.                               *)
LEMMA FullWhenNoneEmpty ==
  ASSUME SessionInv
  PROVE  Cardinality(StoredIds) < N <=> Empty # {}
<1>1. IsFiniteSet(Slots) /\ Cardinality(Slots) = N
  <2>1. N - 1 \in Int /\ 0 \in Int /\ ~(0 > N - 1) /\ (N - 1) - 0 + 1 = N
    BY SessionAssumption
  <2> QED
    BY <2>1, FS_Interval DEF Slots
<1>2. Cardinality(StoredIds) = Cardinality(Slots \ Empty)
  BY StoredCount
<1>3. /\ Slots \ Empty \in SUBSET Slots
      /\ Cardinality(Slots \ Empty) <= Cardinality(Slots)
      /\ Cardinality(Slots) = Cardinality(Slots \ Empty) => Slots = Slots \ Empty
  BY <1>1, FS_Subset
<1>4. Cardinality(Slots \ Empty) \in Nat
  BY StoredCount, FS_CardinalityType
<1>5. Slots = Slots \ Empty <=> Empty = {}
  BY DEF Empty
<1>6. Empty = {} => Cardinality(Slots \ Empty) = N
  BY <1>1, <1>5
<1>7. Empty # {} => Cardinality(Slots \ Empty) < N
  BY <1>1, <1>3, <1>4, <1>5, SessionAssumption
<1> QED
  BY <1>2, <1>4, <1>6, <1>7, SessionAssumption

-----------------------------------------------------------------------------
\* Each call is the call of the map.

\* The map that the slots represent: what SessionStore puts for the
\* variable of SessionMap.
Represented == [id \in Ids |-> SessionOf(id)]

(* What is stored in the map represented are the ids that slots hold.      *)
LEMMA MapStored ==
  ASSUME SessionInv
  PROVE  Map!Stored = StoredIds
BY SessionFacts DEF Map!Stored, StoredIds

(* A step that changes no slot changes no entry of the map.                *)
LEMMA SameSlotsSameMap ==
  ASSUME UNCHANGED records
  PROVE  Represented' = Represented
BY DEF Represented, SessionOf, Holding, First

(* The two names of Cardinality are of one definition.                     *)
LEMMA MapCardinality ==
  ASSUME NEW S
  PROVE  Map!Cardinality(S) = Cardinality(S)
BY DEF Map!Cardinality, Cardinality

(* A call of load().                                                       *)
LEMMA LoadRefines ==
  ASSUME SessionInv, SessionInv', NEW id \in Ids, Load(id)
  PROVE  Map!Load(id)
<1>1. PICK now \in Sampled(clock) : load(id, now)
  BY DEF Load
<1>2. clock' = clock /\ now \in Nat
  BY DEF Load, Sampled
<1> DEFINE valid == id \in StoredIds /\ ~is_expired(SessionOf(id), now)
           new   == IF valid THEN Touched(SessionOf(id), now) ELSE None
<1>3. /\ Represented' = [Represented EXCEPT ![id] = new]
      /\ reply' = Reply("load", id, valid, new)
  <2>1. CASE Holding(id) = {}
    <3>1. records' = records /\ reply' = Reply("load", id, FALSE, None)
      BY <1>1, <2>1 DEF load
    <3>2. valid = FALSE /\ new = None
      BY <2>1 DEF StoredIds
    <3>3. Represented[id] = None
      BY <2>1, SessionFacts DEF Represented
    <3>4. Represented' = [Represented EXCEPT ![id] = None]
      BY <3>1, <3>3, SameSlotsSameMap DEF Represented
    <3> QED
      BY <3>1, <3>2, <3>4
  <2>2. CASE Holding(id) # {}
    <3> DEFINE slot == First(Holding(id))
               val  == ~is_expired(records[slot], now)
               upd  == IF val THEN Touched(records[slot], now) ELSE None
    <3>1. /\ slot \in Slots /\ slot \in Holding(id)
          /\ records[slot] # None /\ records[slot].id = id
          /\ records' = [records EXCEPT ![slot] = upd]
          /\ reply' = Reply("load", id, val, upd)
      BY <1>1, <2>2, LoadFacts
    <3>2. records[slot] \in Records
      BY <3>1, RecordFacts DEF SessionInv
    <3>3. upd \in Records \cup {None} /\ (upd # None => upd.id = id)
      BY <1>2, <3>1, <3>2, TouchedFacts
    <3>4. SessionOf(id) = records[slot] /\ id \in StoredIds
      BY <2>2, <3>1, SessionFacts DEF StoredIds
    <3>5. valid = val /\ new = upd
      BY <3>4
    <3> HIDE DEF slot, val, upd, valid, new
    <3>6. ASSUME NEW x \in Ids
          PROVE  SessionOf(x)' = IF x = id THEN upd ELSE SessionOf(x)
      <4>1. SessionOf(x)' = IF upd # None /\ upd.id = x THEN upd
                            ELSE IF slot \in Holding(x) THEN None
                            ELSE SessionOf(x)
        BY <3>1, <3>3, WriteSession
      <4>2. slot \in Holding(x) <=> x = id
        BY <3>1 DEF Holding
      <4> QED
        BY <3>3, <4>1, <4>2
    <3>7. Represented' = [Represented EXCEPT ![id] = upd]
      BY <3>6 DEF Represented
    <3> QED
      BY <3>1, <3>5, <3>7
  <2> QED
    BY <2>1, <2>2
<1>4. Map!Stored = StoredIds /\ Represented[id] = SessionOf(id)
  BY MapStored DEF Represented
<1> QED
  BY <1>1, <1>2, <1>3, <1>4
  DEF Map!Load, Map!Sampled, Map!is_expired, Map!Touched, Map!Reply,
      Sampled, is_expired, Touched, Reply, Represented

(* A call of delete().                                                     *)
LEMMA DeleteRefines ==
  ASSUME SessionInv, SessionInv', NEW id \in Ids, Delete(id)
  PROVE  Map!Delete(id)
<1>1. delete(id) /\ clock' = clock
  BY DEF Delete
<1>2. reply' = Reply("delete", id, id \in StoredIds, None)
  BY <1>1 DEF delete, StoredIds
<1>3. Represented' = [Represented EXCEPT ![id] = None]
  <2>1. CASE Holding(id) = {}
    <3>1. records' = records
      BY <1>1, <2>1 DEF delete
    <3>2. Represented[id] = None
      BY <2>1, SessionFacts DEF Represented
    <3> QED
      BY <3>1, <3>2, SameSlotsSameMap DEF Represented
  <2>2. CASE Holding(id) # {}
    <3> DEFINE slot == First(Holding(id))
    <3>1. slot \in Holding(id)
      BY <2>2, FirstFacts DEF Holding
    <3>2. slot \in Slots /\ records[slot].id = id
      BY <3>1 DEF Holding
    <3>3. records' = [records EXCEPT ![slot] = None]
      BY <1>1, <2>2 DEF delete
    <3> HIDE DEF slot
    <3>4. ASSUME NEW x \in Ids
          PROVE  SessionOf(x)' = IF x = id THEN None ELSE SessionOf(x)
      <4>1. SessionOf(x)' = IF slot \in Holding(x) THEN None ELSE SessionOf(x)
        BY <3>2, <3>3, WriteSession
      <4>2. slot \in Holding(x) <=> x = id
        BY <3>1 DEF Holding
      <4> QED
        BY <4>1, <4>2
    <3> QED
      BY <3>4 DEF Represented
  <2> QED
    BY <2>1, <2>2
<1>4. Map!Stored = StoredIds
  BY MapStored
<1> QED
  BY <1>1, <1>2, <1>3, <1>4 DEF Map!Delete, Map!Reply, Reply, Represented

(* A call of exists().                                                     *)
LEMMA ExistsRefines ==
  ASSUME SessionInv, NEW id \in Ids, Exists(id)
  PROVE  Map!Exists(id)
<1>1. /\ UNCHANGED <<records, clock>>
      /\ reply' = Reply("exists", id, id \in StoredIds, None)
  BY DEF Exists, exists, StoredIds
<1>2. Represented' = Represented
  BY <1>1, SameSlotsSameMap
<1>3. Map!Stored = StoredIds
  BY MapStored
<1> QED
  BY <1>1, <1>2, <1>3 DEF Map!Exists, Map!Reply, Reply, Represented

(* A call of save() for an id that is not stored.  When every slot is      *)
(* taken the session it evicts is one of the least recently active.        *)
LEMMA SaveRefines ==
  ASSUME ~Reuse, SessionInv, SessionInv', NEW record \in Records, Save(record)
  PROVE  Map!Save(record)
<1> DEFINE slot == SaveSlot(record.id)
<1>1. /\ records' = [records EXCEPT ![slot] = record]
      /\ reply' = Reply("save", record.id, TRUE, None)
      /\ clock' = clock /\ Holding(record.id) = {}
  BY DEF Save, save
<1>2. /\ slot \in Slots
      /\ Empty # {} => slot \in Empty
      /\ Empty = {} => slot \in Oldest
  BY <1>1, SaveSlotFacts DEF SessionInv
<1>3. record # None /\ record.id \in Ids
  BY SessionAssumption DEF Records
<1> HIDE DEF slot
<1>4. ASSUME NEW x \in Ids
      PROVE  SessionOf(x)' = IF x = record.id THEN record
                             ELSE IF slot \in Holding(x) THEN None
                             ELSE SessionOf(x)
  BY <1>1, <1>2, <1>3, WriteSession
<1>5. record.id \notin StoredIds /\ (Cardinality(StoredIds) < N <=> Empty # {})
  BY <1>1, FullWhenNoneEmpty DEF StoredIds
<1>6. CASE Empty # {}
  <2>1. \A x \in Ids : slot \notin Holding(x)
    BY <1>2, <1>6 DEF Empty, Holding
  <2>2. Represented' = [Represented EXCEPT ![record.id] = record]
    BY <1>3, <1>4, <2>1 DEF Represented
  <2> QED
    BY <1>1, <1>5, <1>6, <2>2, MapStored, MapCardinality
    DEF Map!Save, Map!Reply, Reply, Represented
<1>7. CASE Empty = {}
  <2> DEFINE victim == records[slot].id
  <2>1. records[slot] # None /\ records[slot] \in Records /\ slot \in Oldest
    BY <1>2, <1>7, RecordFacts DEF Empty, SessionInv
  <2>2. victim \in Ids /\ slot \in Holding(victim)
    BY <1>2, <2>1 DEF Records, Holding
  <2>3. victim \in StoredIds /\ victim # record.id /\ SessionOf(victim) = records[slot]
    BY <1>1, <2>2, SessionFacts DEF StoredIds
  <2>4. \A x \in Ids : slot \in Holding(x) <=> x = victim
    BY <2>2 DEF Holding
  <2>5. ASSUME NEW x \in StoredIds
        PROVE  SessionOf(victim).last_active <= SessionOf(x).last_active
    <3>1. PICK other \in Holding(x) : TRUE
      BY DEF StoredIds
    <3>2. other \in Slots /\ SessionOf(x) = records[other]
      BY <3>1, SessionFacts DEF Holding, StoredIds
    <3> QED
      BY <2>1, <2>3, <3>2 DEF Oldest
  <2>6. victim \in Map!LeastActive
    BY <2>2, <2>3, <2>5, MapStored DEF Map!LeastActive, StoredIds
  <2> HIDE DEF victim
  <2>7. \A x \in Ids : SessionOf(x)' = IF x = record.id THEN record
                                       ELSE IF x = victim THEN None
                                       ELSE SessionOf(x)
    BY <1>4, <2>4
  <2>8. Represented' = [Represented EXCEPT ![record.id] = record,
                                           ![victim] = None]
    BY <1>3, <2>2, <2>3, <2>7 DEF Represented
  <2> QED
    BY <1>1, <1>5, <1>7, <2>6, <2>8, MapStored, MapCardinality
    DEF Map!Save, Map!Reply, Reply, Represented
<1> QED
  BY <1>6, <1>7

(* Every step of the store is one of the map, or changes nothing of it.    *)
LEMMA StepRefines ==
  ASSUME ~Reuse
  PROVE  SessionInv /\ SessionInv' /\ [Next]_vars => [Map!Next]_Map!mapvars
<1> SUFFICES ASSUME SessionInv, SessionInv', [Next]_vars
             PROVE  [Map!Next]_Map!mapvars
  OBVIOUS
<1>1. CASE Tick
  <2>1. UNCHANGED records
    BY <1>1 DEF Tick
  <2>2. Map!Tick
    BY <1>1, <2>1, SameSlotsSameMap DEF Tick, Map!Tick, Represented
  <2> QED
    BY <2>2 DEF Map!Next
<1>2. ASSUME NEW id \in Ids, Load(id)
      PROVE  Map!Next
  BY <1>2, LoadRefines DEF Map!Next
<1>3. ASSUME NEW id \in Ids, Delete(id)
      PROVE  Map!Next
  BY <1>3, DeleteRefines DEF Map!Next
<1>4. ASSUME NEW id \in Ids, Exists(id)
      PROVE  Map!Next
  BY <1>4, ExistsRefines DEF Map!Next
<1>5. ASSUME NEW id \in Ids, NEW data \in Data, NEW expiry \in Expiries,
             NEW now \in Sampled(clock),
             Save([id |-> id, data |-> data, expiry |-> expiry,
                   last_active |-> now])
      PROVE  Map!Next
  <2>1. now \in Nat
    BY DEF Sampled
  <2>2. Map!Save([id |-> id, data |-> data, expiry |-> expiry,
                  last_active |-> now])
    BY <1>5, <2>1, SavedRecord, SaveRefines
  <2>3. now \in Map!Sampled(clock)
    BY DEF Map!Sampled, Sampled
  <2> QED
    BY <2>2, <2>3 DEF Map!Next
<1>6. CASE UNCHANGED vars
  <2>1. Represented' = Represented /\ clock' = clock /\ reply' = reply
    BY <1>6, SameSlotsSameMap DEF vars
  <2> QED
    BY <2>1 DEF Map!mapvars, Represented
<1> QED
  BY <1>1, <1>2, <1>3, <1>4, <1>5, <1>6 DEF Next

(* The slots implement the map: every behaviour of LruMemoryStore whose    *)
(* saves are of new ids is one of the SessionStore trait's bounded map,    *)
(* with the same replies.                                                  *)
THEOREM StoreImplementsMap ==
  ASSUME ~Reuse
  PROVE  Spec => ImplementsMap
<1>1. Init => Map!Init
  <2> SUFFICES ASSUME Init
               PROVE  Map!Init
    OBVIOUS
  <2>1. \A id \in Ids : Holding(id) = {}
    BY DEF Init, Holding
  <2> QED
    BY <2>1 DEF Init, SessionOf, Map!Init, Map!NoReply, Map!Reply, NoReply, Reply
<1> QED
  BY <1>1, SessionInvariant, StepRefines, PTL DEF Spec, ImplementsMap, Map!Spec
=============================================================================
