----------------------------- MODULE SessionMap -----------------------------
(***************************************************************************)
(* What the SessionStore trait of esp-session-mgmt promises: a map from    *)
(* ids to records of at most N entries.  load() answers with the record    *)
(* last saved unless it has expired, and counts as activity; save() stores *)
(* or updates; when the map is full a new id takes the place of a session  *)
(* that has been inactive for longest; delete() removes.                   *)
(***************************************************************************)
EXTENDS Sessions

VARIABLES sessions, clock, reply

mapvars == <<sessions, clock, reply>>

Stored == {id \in Ids : sessions[id] # None}

Init ==
  /\ sessions = [id \in Ids |-> None]
  /\ clock = 0
  /\ reply = NoReply

Tick == clock < MaxTime /\ clock' = clock + 1 /\ UNCHANGED <<sessions, reply>>

Load(id) ==
  \E now \in Sampled(clock) :
    LET valid == id \in Stored /\ ~is_expired(sessions[id], now)
        new   == IF valid THEN Touched(sessions[id], now) ELSE None
    IN /\ sessions' = [sessions EXCEPT ![id] = new]
       /\ reply' = Reply("load", id, valid, new)
       /\ UNCHANGED clock

\* Those inactive for longest.
LeastActive == {id \in Stored : \A other \in Stored :
                  sessions[id].last_active <= sessions[other].last_active}

Save(record) ==
  /\ record.id \in Stored => Reuse
  /\ IF record.id \in Stored \/ Cardinality(Stored) < N
     THEN sessions' = [sessions EXCEPT ![record.id] = record]
     ELSE \E victim \in LeastActive :
            sessions' = [sessions EXCEPT ![record.id] = record, ![victim] = None]
  /\ reply' = Reply("save", record.id, TRUE, None)
  /\ UNCHANGED clock

Delete(id) ==
  /\ sessions' = [sessions EXCEPT ![id] = None]
  /\ reply' = Reply("delete", id, id \in Stored, None)
  /\ UNCHANGED clock

Exists(id) ==
  /\ reply' = Reply("exists", id, id \in Stored, None)
  /\ UNCHANGED <<sessions, clock>>

Next ==
  \/ Tick
  \/ \E id \in Ids : Load(id) \/ Delete(id) \/ Exists(id)
  \/ \E id \in Ids, data \in Data, expiry \in Expiries, now \in Sampled(clock) :
       Save([id |-> id, data |-> data, expiry |-> expiry, last_active |-> now])

Spec == Init /\ [][Next]_mapvars
=============================================================================
