----------------------------- MODULE NonceStore -----------------------------
(***************************************************************************)
(* NonceStore of esp-web-utils (src/lib.rs): a ring of the N latest login  *)
(* nonces.  The store is used under one mutex and its methods have no      *)
(* await, so each is one step.  insert() is given random numbers, and the  *)
(* same one may come up again; verify() is given what a client sent, which *)
(* may also be 0, the mark of an empty slot: the code makes no exception,  *)
(* and neither does the model.                                             *)
(***************************************************************************)
EXTENDS Integers, Sequences, FiniteSets

CONSTANTS
  Nonces,    \* what insert() is called with
  N,         \* the size of the ring
  Lifetime,  \* 30 s, in steps of the clock
  None,      \* no nonce
  MaxIssued, \* bound: calls of insert()
  MaxAccepted,  \* bound: how often verify() accepts one nonce; for TLC above MaxIssued
  MaxTime    \* bound: the clock

ASSUME NonceAssumption ==
  /\ Nonces \subseteq Nat
  /\ None \notin Nat
  /\ N \in Nat \ {0}
  /\ Lifetime \in Nat /\ MaxTime \in Nat
  /\ MaxIssued \in Nat /\ MaxAccepted \in Nat

VARIABLES
  nonces,    \* the slots
  next_idx,  \* the slot insert() writes next
  clock,     \* the time
  issued,    \* history: the nonces inserted, oldest first, with their times
  claimed,   \* history: the claims there were when a nonce was inserted last
  accepted,  \* history: how often each nonce was accepted
  verdict    \* history: the last claim and what verify() returned

vars == <<nonces, next_idx, clock, issued, claimed, accepted, verdict>>

\* What verify() is called with; any other number is rejected like one of Nonces
\* that was not issued yet.
Claims == Nonces \cup {0}

Slots == 0 .. N - 1
Slot(nonce, at) == [nonce |-> nonce, at |-> at]
EmptySlot == Slot(0, 0)

Init ==
  /\ nonces = [slot \in Slots |-> EmptySlot]
  /\ next_idx = 0
  /\ clock = 0
  /\ issued = <<>>
  /\ claimed = {}
  /\ accepted = [nonce \in Claims |-> 0]
  /\ verdict = [nonce |-> None, valid |-> FALSE]

Tick ==
  /\ clock < MaxTime
  /\ clock' = clock + 1
  /\ UNCHANGED <<nonces, next_idx, issued, claimed, accepted, verdict>>

\* Faulty variant: the ring is one slot short.
insert_OneShort(nonce) ==
  /\ nonces' = [nonces EXCEPT ![next_idx] = Slot(nonce, clock)]
  /\ next_idx' = IF next_idx + 1 >= N - 1 THEN 0 ELSE next_idx + 1

insert(nonce) ==
  /\ nonces' = [nonces EXCEPT ![next_idx] = Slot(nonce, clock)]
  /\ next_idx' = (next_idx + 1) % N

Holding(nonce) == {slot \in Slots : nonces[slot].nonce = nonce}
First(slots) == CHOOSE slot \in slots : \A other \in slots : slot <= other

\* The nonce is used up by a claim that comes too late as well.
\* Faulty variants: a valid claim leaves the nonce; 30 s are still in time.
verify_Keep(nonce) ==
  IF Holding(nonce) = {}
  THEN UNCHANGED nonces /\ verdict' = [nonce |-> nonce, valid |-> FALSE]
  ELSE /\ verdict' = [nonce |-> nonce,
                      valid |-> clock - nonces[First(Holding(nonce))].at < Lifetime]
       /\ UNCHANGED nonces
verify_LateByOne(nonce) ==
  IF Holding(nonce) = {}
  THEN UNCHANGED nonces /\ verdict' = [nonce |-> nonce, valid |-> FALSE]
  ELSE LET slot == First(Holding(nonce))
       IN /\ verdict' = [nonce |-> nonce,
                         valid |-> clock - nonces[slot].at <= Lifetime]
          /\ nonces' = [nonces EXCEPT ![slot].nonce = 0]

verify(nonce) ==
  IF Holding(nonce) = {}
  THEN UNCHANGED nonces /\ verdict' = [nonce |-> nonce, valid |-> FALSE]
  ELSE LET slot == First(Holding(nonce))
       IN /\ verdict' = [nonce |-> nonce,
                         valid |-> clock - nonces[slot].at < Lifetime]
          /\ nonces' = [nonces EXCEPT ![slot].nonce = 0]

-----------------------------------------------------------------------------
Insert(nonce) ==
  /\ Len(issued) < MaxIssued
  /\ insert(nonce)
  /\ issued' = Append(issued, Slot(nonce, clock))
  /\ claimed' = claimed \ {nonce}
  /\ UNCHANGED <<clock, accepted, verdict>>

Verify(nonce) ==
  /\ accepted[nonce] < MaxAccepted
  /\ verify(nonce)
  /\ claimed' = claimed \cup {nonce}
  /\ accepted' = [accepted EXCEPT ![nonce] = @ + IF verdict'.valid THEN 1 ELSE 0]
  /\ UNCHANGED <<next_idx, clock, issued>>

Next ==
  \/ Tick
  \/ \E nonce \in Nonces : Insert(nonce)
  \/ \E nonce \in Claims : Verify(nonce)

Spec == Init /\ [][Next]_vars

-----------------------------------------------------------------------------
(* The slots hold nonces of the past, and the index is one of a slot.      *)
TypeOK ==
  /\ nonces \in [Slots -> [nonce : Claims, at : 0 .. clock]]
  /\ next_idx \in Slots
  /\ clock \in 0 .. MaxTime
  /\ issued \in Seq([nonce : Nonces, at : 0 .. clock])
  /\ claimed \subseteq Claims
  /\ accepted \in [Claims -> Nat]
  /\ verdict \in [nonce : Claims \cup {None}, valid : BOOLEAN]

Issues(nonce) == {i \in DOMAIN issued : issued[i].nonce = nonce}

(* A nonce that is not 0 is accepted at most as often as it was issued: a  *)
(* login answer is good once, also when the slot was overwritten or comes  *)
(* round again.  0 has to be left out: an empty slot matches it and is not *)
(* used up (lib.rs:90-94), so it is accepted again and again.              *)
AcceptedOnce ==
  \A nonce \in Nonces \ {0} : accepted[nonce] <= Cardinality(Issues(nonce))

\* Something was issued less than 30 s ago, or the device booted then, at 0.
StoreIsYoung ==
  \/ clock < Lifetime
  \/ \E i \in DOMAIN issued : clock - issued[i].at < Lifetime

(* A nonce is accepted only when it was issued less than 30 s ago; and 0,  *)
(* which is accepted without having been issued, only while a slot is      *)
(* young: never 30 s after the boot and after the last nonce was issued.   *)
AcceptedYoung ==
  [][\A nonce \in Claims : accepted'[nonce] > accepted[nonce] =>
       IF nonce = 0
       THEN StoreIsYoung
       ELSE \E i \in Issues(nonce) : clock - issued[i].at < Lifetime]_vars

(* A nonce that was issued once, is among the last N issued, has not been  *)
(* claimed and is younger than 30 s is accepted: the ring forgets no       *)
(* nonce that can still be answered before N others were issued.           *)
RecentAccepted ==
  [][\A nonce \in Nonces \ {0} :
       /\ nonce \in claimed' /\ nonce \notin claimed
       /\ \E i \in Len(issued) - N + 1 .. Len(issued) :
            Issues(nonce) = {i} /\ clock - issued[i].at < Lifetime
       => accepted'[nonce] = accepted[nonce] + 1]_vars

(* What the name of the store promises of every number a client may send:  *)
(* none is accepted more often than it was issued.  The code breaks it     *)
(* with the first verify(0) after the boot.                                *)
OnlyIssuedAccepted ==
  \A nonce \in Claims : accepted[nonce] <= Cardinality(Issues(nonce))
=============================================================================
