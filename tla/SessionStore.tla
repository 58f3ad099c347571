---------------------------- MODULE SessionStore ----------------------------
(***************************************************************************)
(* LruMemoryStore (esp-session-mgmt/src/lib.rs): the sessions in N slots   *)
(* under one mutex.  Each method is one critical section with no await in  *)
(* it, hence one step; the instant it works with was sampled before it     *)
(* waited for the mutex.                                                   *)
(***************************************************************************)
EXTENDS Sessions

VARIABLES
  records,  \* the slots
  clock,    \* the time
  reply,    \* history: the last call and what it returned
  closed    \* history: ids deleted, and not saved since

vars == <<records, clock, reply, closed>>

Slots == 0 .. N - 1

Init ==
  /\ records = [slot \in Slots |-> None]
  /\ clock = 0
  /\ reply = NoReply
  /\ closed = {}

Tick ==
  /\ clock < MaxTime
  /\ clock' = clock + 1
  /\ UNCHANGED <<records, reply, closed>>

-----------------------------------------------------------------------------
\* The slots a scan for an id stops at, and the first of a set of slots.
Holding(id) == {slot \in Slots : records[slot] # None /\ records[slot].id = id}
Empty == {slot \in Slots : records[slot] = None}
First(slots) == CHOOSE slot \in slots : \A other \in slots : slot <= other

load(id, now) ==
  IF Holding(id) = {}
  THEN UNCHANGED records /\ reply' = Reply("load", id, FALSE, None)
  ELSE LET slot  == First(Holding(id))
           valid == ~is_expired(records[slot], now)
           new   == IF valid THEN Touched(records[slot], now) ELSE None
       IN /\ records' = [records EXCEPT ![slot] = new]
          /\ reply' = Reply("load", id, valid, new)

\* Faulty variant: the comparison the other way round.
Oldest_Newest == {slot \in Slots : \A other \in Slots :
             records[slot].last_active >= records[other].last_active}

\* The slot evicted: the first of those with the earliest activity.
Oldest == {slot \in Slots : \A other \in Slots :
             records[slot].last_active <= records[other].last_active}

\* Faulty variant: the eviction does not look for the oldest.
SaveSlot_First(id) ==
  IF Holding(id) \cup Empty # {} THEN First(Holding(id) \cup Empty) ELSE 0

\* save() takes the first slot that is empty or holds the id.
SaveSlot(id) ==
  IF Holding(id) \cup Empty # {} THEN First(Holding(id) \cup Empty)
                                 ELSE First(Oldest)

save(record) ==
  /\ records' = [records EXCEPT ![SaveSlot(record.id)] = record]
  /\ reply' = Reply("save", record.id, TRUE, None)

\* Faulty variant: the slot is found, and its copy cleared.
delete_Copy(id) ==
  /\ UNCHANGED records
  /\ reply' = Reply("delete", id, Holding(id) # {}, None)

delete(id) ==
  /\ records' = IF Holding(id) = {} THEN records
                ELSE [records EXCEPT ![First(Holding(id))] = None]
  /\ reply' = Reply("delete", id, Holding(id) # {}, None)

exists(id) ==
  /\ reply' = Reply("exists", id, Holding(id) # {}, None)
  /\ UNCHANGED records

-----------------------------------------------------------------------------
Load(id) ==
  /\ \E now \in Sampled(clock) : load(id, now)
  /\ UNCHANGED <<clock, closed>>

Save(record) ==
  /\ record.last_active \in Sampled(clock)
  /\ Holding(record.id) # {} => Reuse
  /\ save(record)
  /\ closed' = closed \ {record.id}
  /\ UNCHANGED clock

Delete(id) ==
  /\ delete(id)
  /\ closed' = closed \cup {id}
  /\ UNCHANGED clock

Exists(id) ==
  /\ exists(id)
  /\ UNCHANGED <<clock, closed>>

Next ==
  \/ Tick
  \/ \E id \in Ids : Load(id) \/ Delete(id) \/ Exists(id)
  \/ \E id \in Ids, data \in Data, expiry \in Expiries, now \in Sampled(clock) :
       Save([id |-> id, data |-> data, expiry |-> expiry, last_active |-> now])

Spec == Init /\ [][Next]_vars

-----------------------------------------------------------------------------
(* The slots hold records, none of them of the future.                     *)
TypeOK ==
  /\ records \in [Slots -> Records \cup {None}]
  /\ \A slot \in Slots \ Empty : records[slot].last_active <= clock
  /\ clock \in 0 .. MaxTime
  /\ reply \in Replies
  /\ closed \subseteq Ids

(* No two slots hold the same session: otherwise what a lookup finds, an   *)
(* update changes and a delete removes depends on the order of the slots.  *)
UniqueIds == \A id \in Ids : \A s1, s2 \in Holding(id) : s1 = s2

(* Once a session is deleted, nothing is found under its id until it is    *)
(* saved again ("Delete a session record.").                               *)
ClosedStaysClosed ==
  reply.op \in {"load", "exists"} /\ reply.id \in closed => ~reply.ok

(* A session is evicted only when every slot is taken; and when all the    *)
(* stored sessions have one inactivity policy, as handle_login's have, a   *)
(* live session is never evicted while one that has expired is stored.     *)
EvictsExpiredFirst ==
  [][\A slot \in Slots :
       LET victim  == records[slot]
           evicted == /\ victim # None /\ records'[slot] # None
                      /\ records'[slot].id # victim.id
           onePolicy == /\ victim.expiry.kind = "OnInactivity"
                        /\ \A other \in Slots :
                             records[other].expiry = victim.expiry
       IN evicted =>
            /\ Empty = {}
            /\ onePolicy =>
                 \A other \in Slots : is_expired(records[other], clock)
                                        => is_expired(victim, clock)
    ]_vars

\* What the slots hold for each id.
SessionOf(id) == IF Holding(id) = {} THEN None ELSE records[First(Holding(id))]

Map == INSTANCE SessionMap WITH sessions <- [id \in Ids |-> SessionOf(id)]

(* The slots implement the bounded map of the SessionStore trait.          *)
ImplementsMap == Map!Spec
=============================================================================
