------------------------------ MODULE Sessions ------------------------------
(***************************************************************************)
(* The records of esp-session-mgmt (src/lib.rs), common to the session     *)
(* store and to the map it implements.  Time is counted in steps of a      *)
(* clock; the ticks of an Instant are 64 bits wide and are taken not to    *)
(* overflow.                                                               *)
(***************************************************************************)
EXTENDS Integers, FiniteSets

CONSTANTS
  Ids,       \* session ids that clients hold or guess
  Data,      \* what a session carries
  Expiries,  \* the expiry policies that records are saved with
  None,      \* no record
  N,         \* capacity
  Reuse,     \* TRUE: save() may be given the id of a stored session
  MaxDelay,  \* how old the now of a call may be when it has the lock
  MaxTime    \* bound on the clock

OnInactivity(ticks) == [kind |-> "OnInactivity", ticks |-> ticks]
AtDateTime(ticks)   == [kind |-> "AtDateTime", ticks |-> ticks]

Policies == [kind : {"OnInactivity", "AtDateTime"}, ticks : Nat]
Records == [id : Ids, data : Data, expiry : Expiries, last_active : Nat]

ASSUME SessionAssumption ==
  /\ Expiries \subseteq Policies
  /\ None \notin Records
  /\ N \in Nat \ {0}
  /\ Reuse \in BOOLEAN
  /\ MaxDelay \in Nat /\ MaxTime \in Nat

is_expired(record, now) ==
  \/ /\ record.expiry.kind = "OnInactivity"
     /\ now > record.last_active + record.expiry.ticks
  \/ /\ record.expiry.kind = "AtDateTime"
     /\ now > record.expiry.ticks

\* Faulty variant: the deadline is stored for the time of the last activity.
Touched_Deadline(record, now) ==
  [id |-> record.id, data |-> record.data, expiry |-> record.expiry,
   last_active |-> now + record.expiry.ticks]

\* load() sets the time of the last activity.
Touched(record, now) ==
  [id |-> record.id, data |-> record.data, expiry |-> record.expiry,
   last_active |-> now]

\* The last call, its argument and what it returned.
Reply(op, id, ok, record) == [op |-> op, id |-> id, ok |-> ok, record |-> record]
Replies == [op : {"none", "load", "save", "delete", "exists"},
            id : Ids \cup {None}, ok : BOOLEAN, record : Records \cup {None}]
NoReply == Reply("none", None, TRUE, None)

\* The instants a call may have sampled when it runs at time clock.
Sampled(clock) == {now \in 0 .. clock : clock - now <= MaxDelay}
=============================================================================
