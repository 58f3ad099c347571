-------------------------- MODULE NonceStoreProofs --------------------------
(***************************************************************************)
(* Theorems about NonceStore, for every size of the ring, every set of     *)
(* nonces and every bound.                                                 *)
(***************************************************************************)
EXTENDS NonceStore, SequenceTheorems, FiniteSetTheorems, WellFoundedInduction, TLAPS

(* There is a slot, and slots are natural numbers.                         *)
LEMMA SlotsFacts == Slots \subseteq Nat /\ Slots # {}
<1>1. 0 \in Slots
  BY NonceAssumption DEF Slots
<1> QED
  BY <1>1 DEF Slots

(* The index of the next slot wraps at the end of the ring.                *)
LEMMA Wraps ==
  ASSUME NEW idx \in Slots
  PROVE  (idx + 1) % N = IF idx + 1 = N THEN 0 ELSE idx + 1
BY NonceAssumption DEF Slots

(* A nonempty set of natural numbers has a least element.                  *)
LEMMA LeastOf ==
  ASSUME NEW T, T \subseteq Nat, T # {}
  PROVE  \E x \in T : \A y \in T : x <= y
<1> DEFINE R == {pair \in Nat \X Nat : pair[1] < pair[2]}
<1>1. IsWellFoundedOn(R, Nat)
  BY NatLessThanWellFounded, Zenon DEF OpToRel
<1>2. PICK x \in T : \A y \in T : ~ <<y, x>> \in R
  <2> HIDE DEF R
  <2> QED
    BY <1>1, WFMin, Zenon
<1>3. \A y \in T : x <= y
  <2> TAKE y \in T
  <2>1. x \in Nat /\ y \in Nat /\ <<y, x>> \in Nat \X Nat
    OBVIOUS
  <2>2. ~(<<y, x>>[1] < <<y, x>>[2])
    BY <1>2, <2>1, Zenon
  <2> QED
    BY <2>1, <2>2
<1> QED
  BY <1>3

(* A scan that can find something finds a member of what it looks for.     *)
LEMMA FirstFacts ==
  ASSUME NEW T, T \subseteq Slots, T # {}
  PROVE  First(T) \in T
<1>1. \E slot \in T : \A other \in T : slot <= other
  BY SlotsFacts, LeastOf
<1> QED
  BY <1>1 DEF First

(* A nonce may be claimed, and so may 0, the mark of an empty slot.        *)
LEMMA ClaimsFacts == Nonces \subseteq Claims /\ 0 \in Claims
BY DEF Claims

-----------------------------------------------------------------------------
\* What each operation does to the ring.

(* insert() writes the slot of the index and moves the index on; the       *)
(* history grows by the nonce.                                             *)
LEMMA InsertFacts ==
  ASSUME TypeOK, NEW nonce \in Nonces, Insert(nonce)
  PROVE  /\ nonces' \in [Slots -> [nonce : Claims, at : 0 .. clock]]
         /\ \A slot \in Slots :
              nonces'[slot] = IF slot = next_idx THEN Slot(nonce, clock)
                                                 ELSE nonces[slot]
         /\ next_idx' = IF next_idx + 1 = N THEN 0 ELSE next_idx + 1
         /\ Len(issued') = Len(issued) + 1
         /\ issued' \in Seq([nonce : Nonces, at : 0 .. clock])
         /\ issued'[Len(issued) + 1] = Slot(nonce, clock)
         /\ \A i \in DOMAIN issued : i \in DOMAIN issued' /\ issued'[i] = issued[i]
<1>1. /\ nonces' = [nonces EXCEPT ![next_idx] = Slot(nonce, clock)]
      /\ next_idx' = (next_idx + 1) % N
      /\ issued' = Append(issued, Slot(nonce, clock))
  BY DEF Insert, insert
<1>2. clock \in 0 .. clock
  BY DEF TypeOK
<1>3. /\ Slot(nonce, clock) \in [nonce : Nonces, at : 0 .. clock]
      /\ Slot(nonce, clock) \in [nonce : Claims, at : 0 .. clock]
  BY <1>2, ClaimsFacts DEF Slot
<1>4. next_idx \in Slots
  BY DEF TypeOK
<1>5. /\ nonces' \in [Slots -> [nonce : Claims, at : 0 .. clock]]
      /\ \A slot \in Slots :
           nonces'[slot] = IF slot = next_idx THEN Slot(nonce, clock)
                                              ELSE nonces[slot]
  BY <1>1, <1>3, <1>4 DEF TypeOK
<1>6. next_idx' = IF next_idx + 1 = N THEN 0 ELSE next_idx + 1
  BY <1>1, <1>4, Wraps
<1>7. issued \in Seq([nonce : Nonces, at : 0 .. clock])
  BY DEF TypeOK
<1>8. issued' \in Seq([nonce : Nonces, at : 0 .. clock])
  BY <1>1, <1>3, <1>7
<1>9. Len(issued') = Len(issued) + 1
  BY <1>1, <1>3, <1>7
<1>10. issued'[Len(issued) + 1] = Slot(nonce, clock)
  BY <1>1, <1>3, <1>7
<1>11. ASSUME NEW i \in DOMAIN issued
       PROVE  i \in DOMAIN issued' /\ issued'[i] = issued[i]
  BY <1>1, <1>3, <1>7
<1> QED
  BY <1>5, <1>6, <1>8, <1>9, <1>10, <1>11

(* verify() of a nonce that some slot holds empties that slot, and accepts *)
(* when the slot is young enough.                                          *)
LEMMA VerifyFound ==
  ASSUME TypeOK, NEW nonce \in Claims, Verify(nonce), Holding(nonce) # {}
  PROVE  \E slot \in Holding(nonce) :
           /\ slot \in Slots /\ nonces[slot].nonce = nonce
           /\ nonces' \in [Slots -> [nonce : Claims, at : 0 .. clock]]
           /\ nonces'[slot].nonce = 0 /\ nonces'[slot].at = nonces[slot].at
           /\ \A other \in Slots : other # slot => nonces'[other] = nonces[other]
           /\ verdict' = [nonce |-> nonce,
                          valid |-> clock - nonces[slot].at < Lifetime]
           /\ accepted' = [accepted EXCEPT ![nonce] =
                IF clock - nonces[slot].at < Lifetime THEN @ + 1 ELSE @]
<1> DEFINE slot == First(Holding(nonce))
           valid == clock - nonces[slot].at < Lifetime
<1>1. slot \in Holding(nonce)
  BY FirstFacts DEF Holding
<1>2. slot \in Slots /\ nonces[slot].nonce = nonce
  BY <1>1 DEF Holding
<1>3. /\ nonces' = [nonces EXCEPT ![slot].nonce = 0]
      /\ verdict' = [nonce |-> nonce, valid |-> valid]
  BY DEF Verify, verify
<1>4. accepted' = [accepted EXCEPT ![nonce] = @ + IF verdict'.valid THEN 1 ELSE 0]
  BY DEF Verify
<1>5. /\ nonces[slot] \in [nonce : Claims, at : 0 .. clock]
      /\ accepted[nonce] \in Nat
  BY <1>2 DEF TypeOK
<1> HIDE DEF slot
<1>6. /\ nonces' \in [Slots -> [nonce : Claims, at : 0 .. clock]]
      /\ nonces'[slot].nonce = 0 /\ nonces'[slot].at = nonces[slot].at
      /\ \A other \in Slots : other # slot => nonces'[other] = nonces[other]
  BY <1>2, <1>3, <1>5, ClaimsFacts DEF TypeOK
<1>7. accepted' = [accepted EXCEPT ![nonce] = IF valid THEN @ + 1 ELSE @]
  <2>1. verdict'.valid = valid /\ valid \in BOOLEAN
    BY <1>3
  <2>2. CASE valid
    BY <1>4, <1>5, <2>1, <2>2
  <2>3. CASE ~valid
    <3>1. verdict'.valid = FALSE
      BY <2>1, <2>3
    <3>2. accepted' = [accepted EXCEPT ![nonce] = @ + 0]
      BY <1>4, <3>1
    <3>3. accepted[nonce] + 0 = accepted[nonce]
      BY <1>5
    <3>4. accepted' = [accepted EXCEPT ![nonce] = @]
      BY <3>2, <3>3
    <3> QED
      BY <2>3, <3>4
  <2> QED
    BY <2>2, <2>3
<1> QED
  BY <1>1, <1>2, <1>3, <1>6, <1>7

(* verify() of any other nonce changes no slot and rejects.                *)
LEMMA VerifyNotFound ==
  ASSUME TypeOK, NEW nonce \in Claims, Verify(nonce), Holding(nonce) = {}
  PROVE  /\ nonces' = nonces /\ accepted' = accepted
         /\ verdict' = [nonce |-> nonce, valid |-> FALSE]
<1>1. nonces' = nonces /\ verdict' = [nonce |-> nonce, valid |-> FALSE]
  BY DEF Verify, verify
<1>2. accepted' = [accepted EXCEPT ![nonce] = @ + IF verdict'.valid THEN 1 ELSE 0]
  BY DEF Verify
<1>3. accepted[nonce] \in Nat /\ accepted \in [Claims -> Nat]
  BY DEF TypeOK
<1>4. accepted' = [accepted EXCEPT ![nonce] = @ + 0]
  BY <1>1, <1>2
<1> QED
  BY <1>1, <1>3, <1>4

-----------------------------------------------------------------------------
\* Type correctness.

(* A nonce of the past stays one.                                          *)
LEMMA PastGrows ==
  ASSUME clock \in Nat, clock' = clock + 1
  PROVE  (0 .. clock) \subseteq (0 .. clock')
OBVIOUS

(* Every step keeps the types.                                             *)
LEMMA TypeStep == TypeOK /\ [Next]_vars => TypeOK'
<1> SUFFICES ASSUME TypeOK, [Next]_vars
             PROVE  TypeOK'
  OBVIOUS
<1>1. CASE Tick
  <2>1. /\ clock' = clock + 1 /\ clock < MaxTime
        /\ UNCHANGED <<nonces, next_idx, issued, claimed, accepted, verdict>>
    BY <1>1 DEF Tick
  <2>2. clock \in Nat /\ clock' \in 0 .. MaxTime
    BY <2>1, NonceAssumption DEF TypeOK
  <2>3. (0 .. clock) \subseteq (0 .. clock')
    BY <2>1, <2>2, PastGrows
  <2>4. nonces' \in [Slots -> [nonce : Claims, at : 0 .. clock']]
    <3>1. ASSUME NEW slot \in Slots
          PROVE  nonces[slot] \in [nonce : Claims, at : 0 .. clock']
      <4>1. nonces[slot] \in [nonce : Claims, at : 0 .. clock]
        BY DEF TypeOK
      <4> QED
        BY <2>3, <4>1
    <3> QED
      BY <2>1, <3>1 DEF TypeOK
  <2>5. issued' \in Seq([nonce : Nonces, at : 0 .. clock'])
    <3>1. issued \in Seq([nonce : Nonces, at : 0 .. clock])
      BY DEF TypeOK
    <3>2. [nonce : Nonces, at : 0 .. clock] \subseteq [nonce : Nonces, at : 0 .. clock']
      BY <2>3
    <3>3. issued \in Seq([nonce : Nonces, at : 0 .. clock'])
      BY <3>1, <3>2, SeqMonotonic
    <3> QED
      BY <2>1, <3>3
  <2> QED
    BY <2>1, <2>2, <2>4, <2>5 DEF TypeOK
<1>2. ASSUME NEW nonce \in Nonces, Insert(nonce)
      PROVE  TypeOK'
  <2>1. /\ UNCHANGED <<clock, accepted, verdict>>
        /\ claimed' = claimed \ {nonce}
    BY <1>2 DEF Insert
  <2>2. next_idx' \in Slots
    <3>1. next_idx \in Slots /\ next_idx' = IF next_idx + 1 = N THEN 0 ELSE next_idx + 1
      BY <1>2, InsertFacts DEF TypeOK
    <3> QED
      BY <3>1, NonceAssumption DEF Slots
  <2>3. /\ nonces' \in [Slots -> [nonce : Claims, at : 0 .. clock]]
        /\ issued' \in Seq([nonce : Nonces, at : 0 .. clock])
    BY <1>2, InsertFacts
  <2> QED
    BY <2>1, <2>2, <2>3 DEF TypeOK
<1>3. ASSUME NEW nonce \in Claims, Verify(nonce)
      PROVE  TypeOK'
  <2>1. /\ UNCHANGED <<next_idx, clock, issued>>
        /\ claimed' = claimed \cup {nonce}
    BY <1>3 DEF Verify
  <2>2. /\ nonces' \in [Slots -> [nonce : Claims, at : 0 .. clock]]
        /\ accepted' \in [Claims -> Nat]
        /\ verdict' \in [nonce : Claims \cup {None}, valid : BOOLEAN]
    <3>1. CASE Holding(nonce) = {}
      <4>1. /\ nonces' = nonces /\ accepted' = accepted
            /\ verdict' = [nonce |-> nonce, valid |-> FALSE]
        BY <1>3, <3>1, VerifyNotFound
      <4>2. verdict' \in [nonce : Claims \cup {None}, valid : BOOLEAN]
        BY <4>1
      <4> QED
        BY <4>1, <4>2 DEF TypeOK
    <3>2. CASE Holding(nonce) # {}
      <4>1. PICK slot \in Slots :
              /\ nonces' \in [Slots -> [nonce : Claims, at : 0 .. clock]]
              /\ verdict' = [nonce |-> nonce,
                             valid |-> clock - nonces[slot].at < Lifetime]
              /\ accepted' = [accepted EXCEPT ![nonce] =
                   IF clock - nonces[slot].at < Lifetime THEN @ + 1 ELSE @]
        BY <1>3, <3>2, VerifyFound
      <4>2. accepted' \in [Claims -> Nat]
        BY <4>1 DEF TypeOK
      <4> QED
        BY <4>1, <4>2
    <3> QED
      BY <3>1, <3>2
  <2> QED
    BY <2>1, <2>2 DEF TypeOK
<1>4. CASE UNCHANGED vars
  BY <1>4 DEF vars, TypeOK
<1> QED
  BY <1>1, <1>2, <1>3, <1>4 DEF Next

(* The types hold of the empty ring.                                       *)
LEMMA TypeInit == Init => TypeOK
<1> SUFFICES ASSUME Init
             PROVE  TypeOK
  OBVIOUS
<1>1. clock = 0 /\ clock \in 0 .. MaxTime /\ next_idx \in Slots
  BY NonceAssumption DEF Init, Slots
<1>2. nonces \in [Slots -> [nonce : Claims, at : 0 .. clock]]
  BY <1>1, ClaimsFacts DEF Init, EmptySlot, Slot
<1>3. issued = <<>>
  BY DEF Init
<1>4. issued \in Seq([nonce : Nonces, at : 0 .. clock])
  BY <1>3
<1>5. verdict \in [nonce : Claims \cup {None}, valid : BOOLEAN]
  BY DEF Init
<1>6. claimed \subseteq Claims /\ accepted \in [Claims -> Nat]
  BY DEF Init
<1> QED
  BY <1>1, <1>2, <1>4, <1>5, <1>6 DEF TypeOK

(* The slots hold nonces of the past and the index is the one of a slot:   *)
(* the type invariant of the ring, for every size.                         *)
THEOREM TypeCorrect == Spec => []TypeOK
BY TypeInit, TypeStep, PTL DEF Spec

-----------------------------------------------------------------------------
\* A nonce is accepted at most as often as it was issued.

(* How often a nonce was accepted and how often the ring holds it, together,*)
(* are within how often it was issued: what an acceptance adds on one side  *)
(* it takes from the other.  0 is held by every empty slot.                 *)
Spent == \A nonce \in Nonces \ {0} :
  accepted[nonce] + Cardinality(Holding(nonce)) <= Cardinality(Issues(nonce))

(* The numbers in Spent are numbers.                                       *)
LEMMA Counts ==
  ASSUME TypeOK, NEW nonce \in Nonces
  PROVE  /\ IsFiniteSet(Holding(nonce)) /\ IsFiniteSet(Issues(nonce))
         /\ Cardinality(Holding(nonce)) \in Nat
         /\ Cardinality(Issues(nonce)) \in Nat
         /\ accepted[nonce] \in Nat
<1>1. N - 1 \in Int /\ 0 \in Int /\ 1 \in Int
  BY NonceAssumption
<1>2. IsFiniteSet(Slots)
  BY <1>1, FS_Interval DEF Slots
<1>3. Holding(nonce) \in SUBSET Slots
  BY DEF Holding
<1>4. IsFiniteSet(Holding(nonce))
  BY <1>2, <1>3, FS_Subset
<1>5. issued \in Seq([nonce : Nonces, at : 0 .. clock])
  BY DEF TypeOK
<1>6. Len(issued) \in Nat /\ DOMAIN issued = 1 .. Len(issued)
  BY <1>5, LenProperties
<1>7. IsFiniteSet(DOMAIN issued)
  BY <1>1, <1>6, FS_Interval
<1>8. Issues(nonce) \in SUBSET DOMAIN issued
  BY DEF Issues
<1>9. IsFiniteSet(Issues(nonce))
  BY <1>7, <1>8, FS_Subset
<1> QED
  BY <1>4, <1>9, FS_CardinalityType, ClaimsFacts DEF TypeOK

(* insert() adds one to what was issued, at most one to what is held, and  *)
(* takes from the others at most.                                          *)
LEMMA InsertSpent ==
  ASSUME TypeOK, Spent, NEW nonce \in Nonces, Insert(nonce)
  PROVE  Spent'
<1>0. /\ accepted' = accepted
      /\ issued \in Seq([nonce : Nonces, at : 0 .. clock])
  BY DEF Insert, TypeOK
<1>1. /\ Len(issued) \in Nat /\ DOMAIN issued = 1 .. Len(issued)
      /\ DOMAIN issued' = 1 .. Len(issued) + 1
  <2>1. /\ issued' \in Seq([nonce : Nonces, at : 0 .. clock])
        /\ Len(issued') = Len(issued) + 1
    BY InsertFacts
  <2> QED
    BY <1>0, <2>1, LenProperties
<1>2. /\ \A slot \in Slots : nonces'[slot].nonce =
           IF slot = next_idx THEN nonce ELSE nonces[slot].nonce
      /\ issued'[Len(issued) + 1].nonce = nonce
      /\ \A i \in DOMAIN issued : issued'[i] = issued[i]
  <2>1. Slot(nonce, clock).nonce = nonce
    BY DEF Slot
  <2>2. \A slot \in Slots :
          nonces'[slot] = IF slot = next_idx THEN Slot(nonce, clock)
                                             ELSE nonces[slot]
    BY InsertFacts
  <2>3. issued'[Len(issued) + 1] = Slot(nonce, clock)
    BY InsertFacts
  <2>4. \A i \in DOMAIN issued : issued'[i] = issued[i]
    BY InsertFacts
  <2> QED
    BY <2>1, <2>2, <2>3, <2>4
<1>3. /\ Issues(nonce)' = Issues(nonce) \cup {Len(issued) + 1}
      /\ Len(issued) + 1 \notin Issues(nonce)
  BY <1>1, <1>2 DEF Issues
<1>4. ASSUME NEW other \in Nonces, other # nonce
      PROVE  Issues(other)' = Issues(other)
  BY <1>1, <1>2, <1>4 DEF Issues
<1>5. Holding(nonce)' = Holding(nonce) \cup {next_idx}
  BY <1>2 DEF Holding, TypeOK
<1>6. ASSUME NEW other \in Nonces, other # nonce
      PROVE  Holding(other)' = Holding(other) \ {next_idx}
  BY <1>2, <1>6 DEF Holding
<1>7. ASSUME nonce # 0
      PROVE  accepted[nonce] + Cardinality(Holding(nonce))' <= Cardinality(Issues(nonce))'
  <2>1. Cardinality(Issues(nonce))' = Cardinality(Issues(nonce)) + 1
    BY <1>3, Counts, FS_AddElement
  <2>2. \/ Cardinality(Holding(nonce))' = Cardinality(Holding(nonce))
        \/ Cardinality(Holding(nonce))' = Cardinality(Holding(nonce)) + 1
    BY <1>5, Counts, FS_AddElement
  <2>3. accepted[nonce] + Cardinality(Holding(nonce)) <= Cardinality(Issues(nonce))
    BY <1>7 DEF Spent
  <2> QED
    BY <2>1, <2>2, <2>3, Counts
<1>8. ASSUME NEW other \in Nonces \ {0}, other # nonce
      PROVE  accepted[other] + Cardinality(Holding(other))'
               <= Cardinality(Issues(other))'
  <2>1. Cardinality(Issues(other))' = Cardinality(Issues(other))
    BY <1>4, <1>8
  <2>2. \/ Cardinality(Holding(other))' = Cardinality(Holding(other))
        \/ Cardinality(Holding(other))' = Cardinality(Holding(other)) - 1
    BY <1>6, <1>8, Counts, FS_RemoveElement
  <2>3. accepted[other] + Cardinality(Holding(other)) <= Cardinality(Issues(other))
    BY DEF Spent
  <2> QED
    BY <2>1, <2>2, <2>3, Counts
<1> QED
  BY <1>0, <1>7, <1>8 DEF Spent

(* verify() empties a slot for each nonce that it accepts.                 *)
LEMMA VerifySpent ==
  ASSUME TypeOK, Spent, NEW nonce \in Claims, Verify(nonce)
  PROVE  Spent'
<1>1. issued' = issued
  BY DEF Verify
<1>2. \A other : Issues(other)' = Issues(other)
  BY <1>1 DEF Issues
<1>3. CASE Holding(nonce) = {}
  BY <1>2, <1>3, VerifyNotFound DEF Spent, Holding
<1>4. CASE Holding(nonce) # {}
  <2>1. PICK slot \in Holding(nonce) :
          /\ slot \in Slots /\ nonces[slot].nonce = nonce
          /\ nonces'[slot].nonce = 0
          /\ \A other \in Slots : other # slot => nonces'[other] = nonces[other]
          /\ accepted' = [accepted EXCEPT ![nonce] =
               IF clock - nonces[slot].at < Lifetime THEN @ + 1 ELSE @]
    BY <1>4, VerifyFound
  <2>2. ASSUME NEW other \in Nonces \ {0}
        PROVE  Holding(other)' = Holding(other) \ {slot}
    BY <2>1 DEF Holding
  <2>3. ASSUME NEW other \in Nonces \ {0}
        PROVE  accepted'[other] + Cardinality(Holding(other))'
                 <= Cardinality(Issues(other))'
    <3>1. accepted[other] + Cardinality(Holding(other)) <= Cardinality(Issues(other))
      BY DEF Spent
    <3>2. CASE other = nonce
      <4>1. Cardinality(Holding(other))' = Cardinality(Holding(other)) - 1
        BY <2>1, <2>2, <3>2, Counts, FS_RemoveElement
      <4>2. accepted'[other] = accepted[other] \/ accepted'[other] = accepted[other] + 1
        BY <2>1, <3>2 DEF TypeOK
      <4> QED
        BY <1>2, <3>1, <4>1, <4>2, Counts
    <3>3. CASE other # nonce
      <4>1. slot \notin Holding(other)
        BY <2>1, <3>3 DEF Holding
      <4>2. Holding(other)' = Holding(other)
        BY <2>2, <4>1
      <4>3. accepted'[other] = accepted[other]
        BY <2>1, <3>3 DEF TypeOK
      <4> QED
        BY <1>2, <3>1, <4>2, <4>3
    <3> QED
      BY <3>2, <3>3
  <2> QED
    BY <2>3 DEF Spent
<1> QED
  BY <1>3, <1>4

(* A nonce that is not 0 is accepted at most as often as it was issued,    *)
(* for every size of the ring and every order of the calls, those with 0   *)
(* among them, also when the same nonce comes up again.                    *)
THEOREM NonceAcceptedOnce == Spec => []AcceptedOnce
<1>1. Init => Spent
  <2> SUFFICES ASSUME Init, NEW nonce \in Nonces \ {0}
               PROVE  accepted[nonce] + Cardinality(Holding(nonce))
                        <= Cardinality(Issues(nonce))
    BY DEF Spent
  <2>1. Holding(nonce) = {}
    BY DEF Init, Holding, EmptySlot, Slot
  <2>2. Cardinality(Holding(nonce)) = 0 /\ accepted[nonce] = 0
    BY <2>1, FS_EmptySet, ClaimsFacts DEF Init
  <2>3. Cardinality(Issues(nonce)) \in Nat
    BY TypeInit, Counts
  <2> QED
    BY <2>2, <2>3
<1>2. TypeOK /\ Spent /\ [Next]_vars => Spent'
  <2> SUFFICES ASSUME TypeOK, Spent, [Next]_vars
               PROVE  Spent'
    OBVIOUS
  <2>1. ASSUME UNCHANGED <<nonces, issued, accepted>>
        PROVE  Spent'
    BY <2>1 DEF Spent, Holding, Issues
  <2>2. CASE Tick
    BY <2>1, <2>2 DEF Tick
  <2>3. ASSUME NEW nonce \in Nonces, Insert(nonce)
        PROVE  Spent'
    BY <2>3, InsertSpent
  <2>4. ASSUME NEW nonce \in Claims, Verify(nonce)
        PROVE  Spent'
    BY <2>4, VerifySpent
  <2>5. CASE UNCHANGED vars
    BY <2>1, <2>5 DEF vars
  <2> QED
    BY <2>2, <2>3, <2>4, <2>5 DEF Next
<1>3. TypeOK /\ Spent => AcceptedOnce
  <2> SUFFICES ASSUME TypeOK, Spent, NEW nonce \in Nonces \ {0}
               PROVE  accepted[nonce] <= Cardinality(Issues(nonce))
    BY DEF AcceptedOnce
  <2>1. accepted[nonce] + Cardinality(Holding(nonce)) <= Cardinality(Issues(nonce))
    BY DEF Spent
  <2> QED
    BY <2>1, Counts
<1> QED
  BY <1>1, <1>2, <1>3, TypeCorrect, PTL DEF Spec

-----------------------------------------------------------------------------
\* What the ring remembers.

\* The slot written d insertions before the last.
Back(d) == IF next_idx > d THEN next_idx - 1 - d ELSE next_idx - 1 - d + N

(* Every slot that is not empty holds a nonce that was issued, and when.   *)
SlotsIssued == \A slot \in Slots :
  nonces[slot].nonce # 0 => \E i \in DOMAIN issued : issued[i] = nonces[slot]

(* The slots hold the N latest nonces, except those that were claimed      *)
(* since, or were issued more than once.                                   *)
Remembers == \A d \in 0 .. N - 1 : d < Len(issued) =>
  LET i == Len(issued) - d
  IN \/ nonces[Back(d)] = issued[i]
     \/ issued[i].nonce \in claimed
     \/ \E j \in DOMAIN issued \ {i} : issued[j].nonce = issued[i].nonce

(* The time of a slot, of an empty one too, is that of an issue or 0, that *)
(* of the boot.                                                            *)
SlotTimes == \A slot \in Slots :
  nonces[slot].at = 0 \/ \E i \in DOMAIN issued : issued[i].at = nonces[slot].at

RingInv == TypeOK /\ SlotsIssued /\ SlotTimes /\ Remembers

(* The slots counted back from the index are slots, each at one distance.  *)
LEMMA BackFacts ==
  ASSUME TypeOK
  PROVE  /\ \A d \in 0 .. N - 1 : Back(d) \in Slots
         /\ \A d \in 0 .. N - 2 : Back(d) # next_idx
BY NonceAssumption DEF TypeOK, Slots, Back

(* An insertion moves every slot one back.                                 *)
LEMMA BackShifts ==
  ASSUME TypeOK, NEW nonce \in Nonces, Insert(nonce)
  PROVE  /\ Back(0)' = next_idx
         /\ \A d \in 1 .. N - 1 : Back(d)' = Back(d - 1)
<1>1. next_idx' = IF next_idx + 1 = N THEN 0 ELSE next_idx + 1
  BY InsertFacts
<1>2. next_idx \in Slots
  BY DEF TypeOK
<1>3. Back(0)' = next_idx
  BY <1>1, <1>2, NonceAssumption DEF Back, Slots
<1>4. ASSUME NEW d \in 1 .. N - 1
      PROVE  Back(d)' = Back(d - 1)
  BY <1>1, <1>2, NonceAssumption DEF Back, Slots
<1> QED
  BY <1>3, <1>4

(* The history is a sequence of nonces with their times.                   *)
LEMMA IssuedFacts ==
  ASSUME TypeOK
  PROVE  /\ Len(issued) \in Nat /\ DOMAIN issued = 1 .. Len(issued)
         /\ \A i \in DOMAIN issued : issued[i].nonce \in Nonces
<1>1. issued \in Seq([nonce : Nonces, at : 0 .. clock])
  BY DEF TypeOK
<1>2. Len(issued) \in Nat /\ DOMAIN issued = 1 .. Len(issued)
  BY <1>1, LenProperties
<1>3. ASSUME NEW i \in DOMAIN issued
      PROVE  issued[i] \in [nonce : Nonces, at : 0 .. clock]
  BY <1>1, <1>2, ElementOfSeq
<1> QED
  BY <1>2, <1>3

(* insert() keeps what the ring remembers.                                 *)
LEMMA InsertRing ==
  ASSUME RingInv, NEW nonce \in Nonces, Insert(nonce)
  PROVE  SlotsIssued' /\ SlotTimes' /\ Remembers'
<1> DEFINE len == Len(issued)
<1>1. TypeOK /\ claimed' = claimed \ {nonce}
  BY DEF RingInv, Insert
<1>2. /\ len \in Nat /\ DOMAIN issued = 1 .. len
      /\ Len(issued') = len + 1 /\ DOMAIN issued' = 1 .. len + 1
  <2>1. len \in Nat /\ DOMAIN issued = 1 .. len /\ Len(issued') = len + 1
    BY <1>1, IssuedFacts, InsertFacts
  <2>2. issued' \in Seq([nonce : Nonces, at : 0 .. clock])
    BY <1>1, InsertFacts
  <2> QED
    BY <2>1, <2>2, LenProperties
<1>3. \A slot \in Slots :
        nonces'[slot] = IF slot = next_idx THEN Slot(nonce, clock) ELSE nonces[slot]
  BY <1>1, InsertFacts
<1>4. issued'[len + 1] = Slot(nonce, clock) /\ issued'[len + 1].nonce = nonce
  BY <1>1, InsertFacts DEF Slot
<1>5. \A i \in DOMAIN issued : issued'[i] = issued[i]
  BY <1>1, InsertFacts
<1> HIDE DEF len
<1>6. SlotsIssued'
  <2> SUFFICES ASSUME NEW slot \in Slots, nonces'[slot].nonce # 0
               PROVE  \E i \in DOMAIN issued' : issued'[i] = nonces'[slot]
    BY DEF SlotsIssued
  <2>1. CASE slot = next_idx
    BY <1>2, <1>3, <1>4, <2>1
  <2>2. CASE slot # next_idx
    <3>1. nonces'[slot] = nonces[slot]
      BY <1>3, <2>2
    <3>2. PICK i \in DOMAIN issued : issued[i] = nonces[slot]
      BY <3>1 DEF RingInv, SlotsIssued
    <3> QED
      BY <1>2, <1>5, <3>1, <3>2
  <2> QED
    BY <2>1, <2>2
<1>7. Remembers'
  <2> SUFFICES ASSUME NEW d \in 0 .. N - 1, d < len + 1
               PROVE  \/ nonces'[Back(d)'] = issued'[len + 1 - d]
                      \/ issued'[len + 1 - d].nonce \in claimed'
                      \/ \E j \in DOMAIN issued' \ {len + 1 - d} :
                           issued'[j].nonce = issued'[len + 1 - d].nonce
    BY <1>2 DEF Remembers, Back
  <2>1. CASE d = 0
    <3>1. Back(d)' = next_idx /\ next_idx \in Slots
      BY <1>1, <2>1, BackShifts DEF TypeOK
    <3>2. len + 1 - d = len + 1
      BY <1>2, <2>1
    <3> QED
      BY <1>3, <1>4, <3>1, <3>2
  <2>2. CASE d # 0
    <3> DEFINE i == len - (d - 1)
    <3>1. /\ i = len + 1 - d /\ i \in DOMAIN issued /\ i # len + 1
          /\ d \in 1 .. N - 1 /\ d - 1 \in 0 .. N - 2 /\ d - 1 \in 0 .. N - 1
          /\ d - 1 < len
      BY <1>2, <2>2, NonceAssumption
    <3>2. Back(d)' = Back(d - 1) /\ Back(d - 1) \in Slots /\ Back(d - 1) # next_idx
      BY <1>1, <3>1, BackShifts, BackFacts
    <3>3. nonces'[Back(d)'] = nonces[Back(d - 1)]
      BY <1>3, <3>2
    <3>4. issued'[i] = issued[i]
      BY <1>5, <3>1
    <3>5. \/ nonces[Back(d - 1)] = issued[i]
          \/ issued[i].nonce \in claimed
          \/ \E j \in DOMAIN issued \ {i} : issued[j].nonce = issued[i].nonce
      BY <3>1 DEF RingInv, Remembers, len
    <3> HIDE DEF i
    <3>6. CASE nonces[Back(d - 1)] = issued[i]
      BY <3>1, <3>3, <3>4, <3>6
    <3>7. CASE issued[i].nonce \in claimed /\ issued[i].nonce # nonce
      BY <1>1, <3>1, <3>4, <3>7
    <3>8. CASE issued[i].nonce = nonce
      BY <1>2, <1>4, <3>1, <3>4, <3>8
    <3>9. CASE \E j \in DOMAIN issued \ {i} : issued[j].nonce = issued[i].nonce
      BY <1>2, <1>5, <3>1, <3>4, <3>9
    <3> QED
      BY <3>5, <3>6, <3>7, <3>8, <3>9
  <2> QED
    BY <2>1, <2>2
<1>8. SlotTimes'
  <2> SUFFICES ASSUME NEW slot \in Slots
               PROVE  \/ nonces'[slot].at = 0
                      \/ \E i \in DOMAIN issued' : issued'[i].at = nonces'[slot].at
    BY DEF SlotTimes
  <2>1. CASE slot = next_idx
    BY <1>2, <1>3, <1>4, <2>1
  <2>2. CASE slot # next_idx
    BY <1>2, <1>3, <1>5, <2>2 DEF RingInv, SlotTimes
  <2> QED
    BY <2>1, <2>2
<1> QED
  BY <1>6, <1>7, <1>8

(* verify() empties a slot of a nonce that is claimed from then on.        *)
LEMMA VerifyRing ==
  ASSUME RingInv, NEW nonce \in Claims, Verify(nonce)
  PROVE  SlotsIssued' /\ SlotTimes' /\ Remembers'
<1>1. /\ TypeOK /\ SlotsIssued /\ SlotTimes /\ Remembers
      /\ claimed' = claimed \cup {nonce} /\ nonce \in claimed'
      /\ issued' = issued /\ next_idx' = next_idx
  BY DEF RingInv, Verify
<1>2. ASSUME \A slot \in Slots : \/ nonces'[slot] = nonces[slot]
                                 \/ /\ nonces[slot].nonce = nonce
                                    /\ nonces'[slot].nonce = 0
                                    /\ nonces'[slot].at = nonces[slot].at
      PROVE  SlotsIssued' /\ SlotTimes' /\ Remembers'
  <2>1. SlotsIssued'
    BY <1>1, <1>2 DEF SlotsIssued
  <2>2. Remembers'
    <3> SUFFICES ASSUME NEW d \in 0 .. N - 1, d < Len(issued)
                 PROVE  LET i == Len(issued) - d
                        IN \/ nonces'[Back(d)] = issued[i]
                           \/ issued[i].nonce \in claimed'
                           \/ \E j \in DOMAIN issued \ {i} :
                                issued[j].nonce = issued[i].nonce
      BY <1>1 DEF Remembers, Back
    <3> DEFINE i == Len(issued) - d
    <3>1. Back(d) \in Slots
      BY <1>1, BackFacts
    <3>2. \/ nonces[Back(d)] = issued[i]
          \/ issued[i].nonce \in claimed
          \/ \E j \in DOMAIN issued \ {i} : issued[j].nonce = issued[i].nonce
      BY <1>1 DEF Remembers
    <3> HIDE DEF i
    <3>3. CASE nonces[Back(d)] = issued[i]
      BY <1>1, <1>2, <3>1, <3>3 DEF i
    <3> QED
      BY <1>1, <3>2, <3>3 DEF i
  <2>3. SlotTimes'
    BY <1>1, <1>2 DEF SlotTimes
  <2> QED
    BY <2>1, <2>2, <2>3
<1>3. CASE Holding(nonce) = {}
  BY <1>1, <1>2, <1>3, VerifyNotFound
<1>4. CASE Holding(nonce) # {}
  <2>1. PICK slot \in Slots :
          /\ nonces[slot].nonce = nonce /\ nonces'[slot].nonce = 0
          /\ nonces'[slot].at = nonces[slot].at
          /\ \A other \in Slots : other # slot => nonces'[other] = nonces[other]
    BY <1>1, <1>4, VerifyFound
  <2> QED
    BY <1>2, <2>1
<1> QED
  BY <1>3, <1>4

(* What the ring remembers is an invariant.                                *)
LEMMA RingInvariant == Spec => []RingInv
<1>1. Init => RingInv
  <2> SUFFICES ASSUME Init
               PROVE  SlotsIssued /\ SlotTimes /\ Remembers
    BY TypeInit DEF RingInv
  <2>1. SlotsIssued
    BY DEF Init, SlotsIssued, EmptySlot, Slot
  <2>2. Len(issued) = 0
    BY DEF Init
  <2>3. Remembers
    BY <2>2 DEF Remembers
  <2>4. SlotTimes
    BY DEF Init, SlotTimes, EmptySlot, Slot
  <2> QED
    BY <2>1, <2>3, <2>4
<1>2. RingInv /\ [Next]_vars => RingInv'
  <2> SUFFICES ASSUME RingInv, [Next]_vars
               PROVE  RingInv'
    OBVIOUS
  <2>1. TypeOK'
    BY TypeStep DEF RingInv
  <2>2. ASSUME UNCHANGED <<nonces, next_idx, issued, claimed>>
        PROVE  RingInv'
    <3>1. SlotsIssued'
      BY <2>2 DEF RingInv, SlotsIssued
    <3>2. Remembers'
      BY <2>2 DEF RingInv, Remembers, Back
    <3>3. SlotTimes'
      BY <2>2 DEF RingInv, SlotTimes
    <3> QED
      BY <2>1, <3>1, <3>2, <3>3 DEF RingInv
  <2>3. CASE Tick
    BY <2>2, <2>3 DEF Tick
  <2>4. ASSUME NEW nonce \in Nonces, Insert(nonce)
        PROVE  RingInv'
    BY <2>1, <2>4, InsertRing DEF RingInv
  <2>5. ASSUME NEW nonce \in Claims, Verify(nonce)
        PROVE  RingInv'
    BY <2>1, <2>5, VerifyRing DEF RingInv
  <2>6. CASE UNCHANGED vars
    BY <2>2, <2>6 DEF vars
  <2> QED
    BY <2>3, <2>4, <2>5, <2>6 DEF Next
<1> QED
  BY <1>1, <1>2, PTL DEF Spec

-----------------------------------------------------------------------------
\* What a claim is answered.

(* When a nonce may be accepted.                                           *)
Due(nonce) ==
  IF nonce = 0
  THEN StoreIsYoung
  ELSE \E i \in Issues(nonce) : clock - issued[i].at < Lifetime

(* A step that counts an acceptance is a verify() of that nonce, and the   *)
(* slot it found is one that was issued less than 30 s ago, or an empty    *)
(* one with the time of an issue or of the boot.                           *)
LEMMA AcceptanceStep ==
  ASSUME RingInv, [Next]_vars, NEW nonce \in Claims,
         accepted'[nonce] > accepted[nonce]
  PROVE  Due(nonce)
<1>0. TypeOK /\ accepted[nonce] \in Nat
  BY DEF RingInv, TypeOK
<1>1. ASSUME accepted'[nonce] = accepted[nonce]
      PROVE  FALSE
  BY <1>0, <1>1
<1>2. CASE Tick
  BY <1>1, <1>2 DEF Tick
<1>3. ASSUME NEW other \in Nonces, Insert(other)
      PROVE  FALSE
  BY <1>1, <1>3 DEF Insert
<1>4. ASSUME NEW other \in Claims, Verify(other)
      PROVE  Due(nonce)
  <2>1. CASE Holding(other) = {}
    BY <1>0, <1>1, <1>4, <2>1, VerifyNotFound
  <2>2. CASE Holding(other) # {}
    <3>1. PICK slot \in Slots :
            /\ nonces[slot].nonce = other
            /\ accepted' = [accepted EXCEPT ![other] =
                 IF clock - nonces[slot].at < Lifetime THEN @ + 1 ELSE @]
      BY <1>0, <1>4, <2>2, VerifyFound
    <3>2. other = nonce /\ clock - nonces[slot].at < Lifetime
      BY <1>0, <1>1, <3>1 DEF TypeOK
    <3>3. CASE nonce = 0
      <4>1. clock \in Nat
        BY <1>0, NonceAssumption DEF TypeOK
      <4>2. CASE nonces[slot].at = 0
        BY <3>2, <3>3, <4>1, <4>2 DEF Due, StoreIsYoung
      <4>3. ASSUME NEW i \in DOMAIN issued, issued[i].at = nonces[slot].at
            PROVE  Due(nonce)
        BY <3>2, <3>3, <4>3 DEF Due, StoreIsYoung
      <4> QED
        BY <4>2, <4>3 DEF RingInv, SlotTimes
    <3>4. CASE nonce # 0
      <4>1. PICK i \in DOMAIN issued : issued[i] = nonces[slot]
        BY <3>1, <3>2, <3>4 DEF RingInv, SlotsIssued
      <4>2. i \in Issues(nonce)
        BY <3>1, <3>2, <4>1 DEF Issues
      <4> QED
        BY <3>2, <3>4, <4>1, <4>2 DEF Due
    <3> QED
      BY <3>3, <3>4
  <2> QED
    BY <2>1, <2>2
<1>5. CASE UNCHANGED vars
  BY <1>1, <1>5 DEF vars
<1> QED
  BY <1>2, <1>3, <1>4, <1>5 DEF Next

(* A nonce is accepted only less than 30 s after it was issued, and 0,     *)
(* issued or not, only less than 30 s after the boot or the issue of some  *)
(* nonce.                                                                  *)
THEOREM NonceAcceptedYoung == Spec => AcceptedYoung
<1> DEFINE Young == \A nonce \in Claims :
                      accepted'[nonce] > accepted[nonce] => Due(nonce)
<1>1. RingInv /\ [Next]_vars => Young
  BY AcceptanceStep
<1> HIDE DEF Young
<1>2. RingInv /\ [Next]_vars => [Young]_vars
  BY <1>1
<1>3. Spec => [][Young]_vars
  BY <1>2, RingInvariant, PTL DEF Spec
<1> QED
  BY <1>3 DEF AcceptedYoung, Young, Due

(* A step that makes a nonce a claimed one, while it was issued once, is   *)
(* among the N latest and young, accepts it: the ring still has it.        *)
LEMMA ClaimStep ==
  ASSUME RingInv, [Next]_vars, NEW nonce \in Nonces \ {0},
         nonce \in claimed', nonce \notin claimed,
         NEW i \in Len(issued) - N + 1 .. Len(issued),
         Issues(nonce) = {i}, clock - issued[i].at < Lifetime
  PROVE  accepted'[nonce] = accepted[nonce] + 1
<1>1. TypeOK /\ SlotsIssued /\ Remembers
  BY DEF RingInv
<1>2. /\ i \in DOMAIN issued /\ issued[i].nonce = nonce
      /\ \A j \in DOMAIN issued : issued[j].nonce = nonce => j = i
  BY DEF Issues
<1>3. Verify(nonce)
  <2>1. ASSUME claimed' = claimed
        PROVE  FALSE
    BY <2>1
  <2>2. CASE Tick
    BY <2>1, <2>2 DEF Tick
  <2>3. ASSUME NEW other \in Nonces, Insert(other)
        PROVE  FALSE
    BY <2>3 DEF Insert
  <2>4. ASSUME NEW other \in Claims, Verify(other)
        PROVE  other = nonce
    BY <2>4 DEF Verify
  <2>5. CASE UNCHANGED vars
    BY <2>1, <2>5 DEF vars
  <2> QED
    BY <2>2, <2>3, <2>4, <2>5 DEF Next
<1>4. Holding(nonce) # {}
  <2> DEFINE d == Len(issued) - i
  <2>1. /\ d \in 0 .. N - 1 /\ d < Len(issued) /\ Len(issued) - d = i
    BY <1>1, <1>2, IssuedFacts, NonceAssumption
  <2>2. \/ nonces[Back(d)] = issued[i]
        \/ issued[i].nonce \in claimed
        \/ \E j \in DOMAIN issued \ {i} : issued[j].nonce = issued[i].nonce
    BY <1>1, <2>1 DEF Remembers
  <2>3. nonces[Back(d)].nonce = nonce
    BY <1>2, <2>2
  <2>4. Back(d) \in Slots
    BY <1>1, <2>1, BackFacts
  <2> QED
    BY <2>3, <2>4 DEF Holding
<1>5. PICK slot \in Slots :
        /\ nonces[slot].nonce = nonce
        /\ accepted' = [accepted EXCEPT ![nonce] =
             IF clock - nonces[slot].at < Lifetime THEN @ + 1 ELSE @]
  BY <1>1, <1>3, <1>4, VerifyFound, ClaimsFacts
<1>6. nonces[slot] = issued[i]
  <2>1. PICK j \in DOMAIN issued : issued[j] = nonces[slot]
    BY <1>1, <1>5 DEF SlotsIssued
  <2> QED
    BY <1>2, <1>5, <2>1
<1> QED
  BY <1>1, <1>5, <1>6, ClaimsFacts DEF TypeOK

(* A nonce that can still be answered is accepted: the ring of N slots     *)
(* forgets none before N others were issued.                               *)
THEOREM RecentNonceAccepted == Spec => RecentAccepted
<1> DEFINE Recent == \A nonce \in Nonces \ {0} :
             /\ nonce \in claimed' /\ nonce \notin claimed
             /\ \E i \in Len(issued) - N + 1 .. Len(issued) :
                  Issues(nonce) = {i} /\ clock - issued[i].at < Lifetime
             => accepted'[nonce] = accepted[nonce] + 1
<1>1. RingInv /\ [Next]_vars => Recent
  BY ClaimStep
<1> HIDE DEF Recent
<1>2. Spec => [][Recent]_vars
  BY <1>1, RingInvariant, PTL DEF Spec
<1> QED
  BY <1>2 DEF RecentAccepted, Recent
=============================================================================
