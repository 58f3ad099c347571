-------------------------- MODULE SharedFlashProofs --------------------------
(***************************************************************************)
(* Proofs about SharedFlash for every number of tasks, uploaders, stores,  *)
(* keys, values, chunks and levels.                                        *)
(***************************************************************************)
EXTENDS SharedFlash, SequenceTheorems, WellFoundedInduction, TLAPS

-----------------------------------------------------------------------------
(* Type correctness, step by step.                                         *)

PCs == {"idle", "begin", "read", "write", "finalize"}

\* Where an upload goes on to.
LEMMA UploadTypes ==
  ASSUME OtaTypeOK, NEW u \in Uploaders, NEW pc \in PCs, NEW total \in 0 .. Chunks,
         pc = "write" => total > 0,
         upload' = [upload EXCEPT ![u] = [pc |-> pc, total |-> total]]
  PROVE  /\ upload' \in [Uploaders -> [pc : PCs, total : 0 .. Chunks]]
         /\ \A v \in Uploaders : upload'[v].pc = "write" => upload'[v].total > 0
<1>1. [pc |-> pc, total |-> total] \in [pc : PCs, total : 0 .. Chunks]
  OBVIOUS
<1>2. upload \in [Uploaders -> [pc : PCs, total : 0 .. Chunks]]
  BY DEF OtaTypeOK, PCs
<1>3. \A v \in Uploaders : upload'[v] = IF v = u THEN [pc |-> pc, total |-> total] ELSE upload[v]
  BY <1>2
<1>4. upload' \in [Uploaders -> [pc : PCs, total : 0 .. Chunks]]
  BY <1>1, <1>2
<1>5. ASSUME NEW v \in Uploaders, upload'[v].pc = "write"
      PROVE  upload'[v].total > 0
  <2>1. CASE v = u
    BY <1>3, <1>5, <2>1
  <2>2. CASE v # u
    BY <1>3, <1>5, <2>2 DEF OtaTypeOK
  <2> QED
    BY <2>1, <2>2
<1> QED
  BY <1>4, <1>5

\* The steps of run_ota keep the types of their variables.
LEMMA OtaTypes ==
  ASSUME OtaTypeOK, NEW u \in Uploaders,
         from_request(u) \/ begin_ota(u) \/ Read(u) \/ write_chunk(u)
           \/ finalize_err(u) \/ finalize_ok(u)
  PROVE  OtaTypeOK'
<1> DEFINE UploadOK == /\ upload' \in [Uploaders -> [pc : PCs, total : 0 .. Chunks]]
                       /\ \A v \in Uploaders : upload'[v].pc = "write" => upload'[v].total > 0
<1>a. upload[u].total \in 0 .. Chunks /\ 0 \in 0 .. Chunks
  BY OtaAssumption DEF OtaTypeOK
<1>b. ASSUME NEW pc \in PCs \ {"write"}, At(u, pc) \/ Then(u, pc)
      PROVE  UploadOK
  <2>1. CASE At(u, pc)
    BY <1>a, <2>1, UploadTypes DEF At
  <2>2. CASE Then(u, pc)
    BY <1>a, <2>2, UploadTypes DEF Then
  <2> QED
    BY <1>b, <2>1, <2>2
<1>c. {"idle", "begin", "read", "finalize"} \subseteq PCs \ {"write"}
  BY DEF PCs
<1>1. CASE from_request(u)
  <2>1. UploadOK
    BY <1>1, <1>b, <1>c DEF from_request
  <2> QED
    BY <1>1, <2>1 DEF from_request, OtaTypeOK, PCs
<1>2. CASE begin_ota(u)
  <2>1. UploadOK
    BY <1>2, <1>b, <1>c DEF begin_ota
  <2> QED
    BY <1>2, <2>1 DEF begin_ota, OtaTypeOK, PCs
<1>3. CASE Read(u)
  <2>1. CASE upload[u].total < Chunks
               /\ upload' = [upload EXCEPT ![u] = [pc |-> "write", total |-> upload[u].total + 1]]
    <3>1. upload[u].total + 1 \in 0 .. Chunks /\ upload[u].total + 1 > 0
      BY <1>a, <2>1, OtaAssumption
    <3>2. UploadOK
      BY <2>1, <3>1, UploadTypes DEF PCs
    <3> QED
      BY <1>3, <3>2 DEF Read, OtaTypeOK, PCs
  <2>2. CASE Then(u, "finalize") \/ At(u, "idle")
    <3>1. UploadOK
      BY <1>b, <1>c, <2>2
    <3> QED
      BY <1>3, <3>1 DEF Read, OtaTypeOK, PCs
  <2> QED
    BY <1>3, <2>1, <2>2 DEF Read
<1>4. CASE write_chunk(u)
  <2>1. upload[u].total \in 1 .. Chunks
    BY <1>4, <1>a, OtaAssumption DEF write_chunk, OtaTypeOK
  <2>2. slot' \in [1 .. Chunks -> Uploaders \cup {None}] /\ active' = active
    BY <1>4, <2>1 DEF write_chunk, OtaTypeOK
  <2>3. UploadOK
    BY <1>4, <1>b, <1>c DEF write_chunk
  <2> QED
    BY <2>2, <2>3 DEF OtaTypeOK, PCs
<1>5. CASE finalize_err(u)
  <2>1. UploadOK
    BY <1>5, <1>b, <1>c DEF finalize_err
  <2> QED
    BY <1>5, <2>1 DEF finalize_err, OtaTypeOK, PCs
<1>6. CASE finalize_ok(u)
  BY <1>6, <1>a DEF finalize_ok, OtaTypeOK, NoUpload, Erased
<1> QED
  BY <1>1, <1>2, <1>3, <1>4, <1>5, <1>6

\* What is written over an item, or behind the last, leaves a log.
LEMMA LogTypes ==
  ASSUME NEW S, NEW items \in Seq(S), NEW item \in S, NEW mark \in S, NEW at \in Nat
  PROVE  (IF at > Len(items) THEN Append(items, item) ELSE [items EXCEPT ![at] = mark])
           \in Seq(S)
<1>0. Len(items) \in Nat /\ items \in [1 .. Len(items) -> S]
  BY LenProperties
<1>1. CASE at > Len(items)
  BY <1>1, AppendProperties
<1>2. CASE at \in 1 .. Len(items)
  BY <1>0, <1>2, ExceptSeq
<1>3. CASE at = 0
  <2>1. [items EXCEPT ![at] = mark] = items
    BY <1>0, <1>3
  <2>2. ~(at > Len(items))
    BY <1>0, <1>3
  <2>3. items \in Seq(S)
    OBVIOUS
  <2> HIDE <1>0
  <2> QED
    BY <2>1, <2>2, <2>3, Zenon
<1> QED
  BY <1>0, <1>1, <1>2, <1>3

LEMMA TypeStep ==
  ASSUME TypeOK, [Next]_vars
  PROVE  TypeOK'
<1> USE SharedFlashAssumption DEF TypeOK, Holders, Accesses, Storage
<1>1. ASSUME NEW t \in Tasks, Call(t)
      PROVE  TypeOK'
  BY <1>1 DEF Call, GoesOn, ota, OtaTypeOK
<1>2. ASSUME NEW t \in Tasks, Lock(t)
      PROVE  TypeOK'
  BY <1>2 DEF Lock, To, GoesOn, ota, OtaTypeOK
<1>3. ASSUME NEW t \in Tasks, Acquire(t)
      PROVE  TypeOK'
  BY <1>3 DEF Acquire, GoesOn, ota, OtaTypeOK
<1>4. ASSUME NEW t \in Tasks, Wait(t)
      PROVE  TypeOK'
  BY <1>4 DEF Wait, Yields, ota, OtaTypeOK
<1>5. ASSUME NEW t \in Tasks, ReadItems(t)
      PROVE  TypeOK'
  <2>1. Len(log) + 1 \in Nat
    BY LenProperties
  <2>2. CASE task[t].val = None
    <3>1. task' = [task EXCEPT ![t] = NoCall] /\ storage' = [storage EXCEPT ![Storage(t)] = None]
      BY <1>5, <2>2 DEF ReadItems, Return
    <3>2. Storage(t) \in Stores
      OBVIOUS
    <3>3. Holders'
      BY <1>5, <2>2, <3>1, <3>2 DEF ReadItems, NoCall
    <3> QED
      BY <1>5, <2>2, <3>1, <3>3 DEF ReadItems, Return, NoCall, Yields, ota, OtaTypeOK
  <2>3. CASE task[t].val # None
    <3>1. task' = [task EXCEPT ![t] = [pc |-> "write", key |-> task[t].key,
                                        val |-> task[t].val, at |-> Len(log) + 1]]
      BY <1>5, <2>3 DEF ReadItems, To
    <3>2. /\ task' \in [Tasks -> [pc : {"idle", "lock", "read", "write"}, key : Keys \cup {None},
                                 val : Vals \cup {None}, at : Nat]]
          /\ \A s \in Tasks : task'[s].pc # "idle" => task'[s].key \in Keys
          /\ \A s \in Tasks : task'[s].pc = "write" => task'[s].val \in Vals
      BY <1>5, <2>1, <2>3, <3>1 DEF ReadItems
    <3>3. Holders'
      BY <1>5, <2>3, <3>1 DEF ReadItems
    <3> QED
      BY <1>5, <2>3, <3>2, <3>3 DEF ReadItems, GoesOn, ota, OtaTypeOK
  <2> QED
    BY <2>2, <2>3
<1>6. ASSUME NEW t \in Tasks, WriteItem(t)
      PROVE  TypeOK'
  <2> DEFINE item == <<task[t].key, task[t].val>>
  <2>1. item \in Keys \X Vals /\ task[t].at \in Nat
    BY <1>6 DEF WriteItem
  <2>2. log' \in Seq((Keys \X Vals) \cup {Garbage})
    <3>1. item \in (Keys \X Vals) \cup {Garbage} /\ Garbage \in (Keys \X Vals) \cup {Garbage}
      BY <2>1
    <3>2. log' = IF task[t].at > Len(log) THEN Append(log, item)
                 ELSE [log EXCEPT ![task[t].at] = Garbage]
      BY <1>6 DEF WriteItem, Written
    <3> HIDE DEF item
    <3> QED
      BY <2>1, <3>1, <3>2, LogTypes
  <2> HIDE DEF item
  <2> QED
    BY <1>6, <2>2 DEF WriteItem, Return, NoCall, Yields, ota, OtaTypeOK
<1>7. ASSUME NEW u \in Uploaders, Request(u)
      PROVE  TypeOK'
  <2>1. OtaTypeOK'
    BY <1>7, OtaTypes DEF Request
  <2>2. Holders'
    BY <1>7 DEF Request, from_request, At, OtaTypeOK
  <2> QED
    BY <1>7, <2>1, <2>2 DEF Request, GoesOn
<1>8. ASSUME NEW u \in Uploaders, TryLock(u)
      PROVE  TypeOK'
  <2>1. panicked' \in BOOLEAN
    BY <1>8, Zenon DEF TryLock
  <2>2. OtaTypeOK' /\ Holders'
    BY <1>8 DEF TryLock, ota, OtaTypeOK
  <2> QED
    BY <1>8, <2>1, <2>2 DEF TryLock, GoesOn
<1>9. ASSUME NEW u \in Uploaders, Access(u)
      PROVE  TypeOK'
  <2>1. OtaTypeOK'
    BY <1>9, OtaTypes DEF Access
  <2> QED
    BY <1>9, <2>1 DEF Access, GoesOn, Yields
<1>10. ASSUME NEW u \in Uploaders, Receive(u)
       PROVE  TypeOK'
  <2>1. OtaTypeOK'
    BY <1>10, OtaTypes DEF Receive
  <2>2. Holders'
    BY <1>10 DEF Receive, Read, At, Then, OtaTypeOK
  <2> QED
    BY <1>10, <2>1, <2>2 DEF Receive, GoesOn, Yields
<1>11. ASSUME NEW u \in Uploaders, Finalize(u)
       PROVE  TypeOK'
  <2>1. OtaTypeOK'
    BY <1>11, OtaTypes DEF Finalize
  <2> QED
    BY <1>11, <2>1 DEF Finalize, Reset, NoCall
<1>12. ASSUME PowerLoss
       PROVE  TypeOK'
  <2>1. OtaTypeOK'
    BY <1>12, OtaAssumption DEF PowerLoss, Interrupted, OtaTypeOK, NoUpload
  <2> QED
    BY <1>12, <2>1 DEF PowerLoss, Reset, NoCall
<1>13. CASE UNCHANGED vars
  BY <1>13 DEF vars, shared, ota, OtaTypeOK
<1> QED
  BY <1>1, <1>2, <1>3, <1>4, <1>5, <1>6, <1>7, <1>8, <1>9, <1>10, <1>11, <1>12, <1>13
     DEF Next, Caller, run_ota

LEMMA TypeInit == Init => TypeOK
<1> SUFFICES ASSUME Init PROVE TypeOK
  OBVIOUS
<1>1. <<>> \in Seq((Keys \X Vals) \cup {Garbage})
  BY EmptySeq
<1>2. OtaTypeOK
  BY OtaAssumption DEF Init, OtaInit, OtaTypeOK, NoUpload, Erased
<1>3. panicked \in BOOLEAN
  BY Zenon DEF Init
<1>4. Holders
  BY SharedFlashAssumption DEF Init, Holders, NoCall
<1> QED
  BY <1>1, <1>2, <1>3, <1>4, SharedFlashAssumption DEF Init, TypeOK, NoCall

(* Type correctness, and who holds the mutexes, for all layouts: only a    *)
(* task that is at an access holds the mutex of the flash, and a task in   *)
(* the middle of a call has that of its FlashStore.                        *)
THEOREM TypeCorrect == Spec => []TypeOK
BY TypeInit, TypeStep, PTL DEF Spec

-----------------------------------------------------------------------------
(* Who is in the way of whom.                                              *)

\* The updates run on the lowest level.
UpdatesLowest ==
  \A w \in Layouts : \A u \in Uploaders, t \in Tasks \cup Uploaders :
    w.level[u] <= w.level[t]

\* Tasks of different levels use the same FlashStore.
LevelsShareStore ==
  \A w \in Layouts : \A t, s \in Tasks :
    w.store[t] # w.store[s] => w.level[t] = w.level[s]

\* Who holds the mutex of the flash is being polled, and has preempted the
\* tasks that are about to write an item; those were polled when they read.
PolledInv ==
  /\ FLASH # None => FLASH \in polled
  /\ \A t \in Tasks : task[t].pc = "write" => t \in polled
  /\ \A t \in Tasks : task[t].pc = "write" /\ FLASH \notin {None, t}
       => layout.level[t] < layout.level[FLASH]

LEMMA Levels ==
  ASSUME TypeOK, NEW t \in Tasks \cup Uploaders
  PROVE  layout.level[t] \in Nat
BY SharedFlashAssumption DEF TypeOK

LEMMA PolledStep ==
  ASSUME TypeOK, PolledInv, [Next]_vars
  PROVE  PolledInv'
<1> USE SharedFlashAssumption DEF PolledInv
<1>0. /\ task \in [Tasks -> [pc : {"idle", "lock", "read", "write"}, key : Keys \cup {None},
                             val : Vals \cup {None}, at : Nat]]
      /\ polled \subseteq Tasks \cup Uploaders
      /\ FLASH \in Tasks \cup Uploaders \cup {None}
      /\ Holders
      /\ \A t \in Tasks \cup Uploaders : layout.level[t] \in Nat
  BY Levels DEF TypeOK
<1>1. ASSUME NEW t \in Tasks, Call(t)
      PROVE  PolledInv'
  BY <1>0, <1>1 DEF Call, GoesOn
<1>2. ASSUME NEW t \in Tasks, Lock(t)
      PROVE  PolledInv'
  BY <1>0, <1>2 DEF Lock, To, GoesOn
<1>3. ASSUME NEW t \in Tasks, Acquire(t)
      PROVE  PolledInv'
  BY <1>0, <1>3 DEF Acquire, GoesOn, Runs
<1>4. ASSUME NEW t \in Tasks, Wait(t)
      PROVE  PolledInv'
  <2>1. FLASH # t
    BY <1>0, <1>4 DEF Wait, Holders
  <2>2. task[t].pc # "write"
    <3> SUFFICES ASSUME task[t].pc = "write" PROVE FALSE
      OBVIOUS
    <3>1. FLASH \notin {None, t}
      BY <1>4 DEF Wait
    <3>2. layout.level[FLASH] < layout.level[t]
      BY <1>4, <3>1 DEF Wait, Runs
    <3>3. layout.level[t] < layout.level[FLASH]
      BY <3>1
    <3> QED
      BY <1>0, <3>1, <3>2, <3>3
  <2> QED
    BY <1>0, <1>4, <2>1, <2>2 DEF Wait, Yields
<1>5. ASSUME NEW t \in Tasks, ReadItems(t)
      PROVE  PolledInv'
  BY <1>0, <1>5 DEF ReadItems, To, Return, NoCall, GoesOn, Yields
<1>6. ASSUME NEW t \in Tasks, WriteItem(t)
      PROVE  PolledInv'
  BY <1>0, <1>6 DEF WriteItem, Return, NoCall, Yields
<1>7. ASSUME NEW u \in Uploaders, Request(u)
      PROVE  PolledInv'
  BY <1>0, <1>7 DEF Request, GoesOn
<1>8. ASSUME NEW u \in Uploaders, TryLock(u)
      PROVE  PolledInv'
  BY <1>0, <1>8 DEF TryLock, GoesOn, Runs
<1>9. ASSUME NEW u \in Uploaders, Access(u)
      PROVE  PolledInv'
  BY <1>0, <1>9 DEF Access, GoesOn, Yields
<1>10. ASSUME NEW u \in Uploaders, Receive(u)
       PROVE  PolledInv'
  <2>1. FLASH # u
    BY <1>0, <1>10 DEF Receive, Read, Holders, Accesses
  <2> QED
    BY <1>0, <1>10, <2>1 DEF Receive, GoesOn, Yields
<1>11. ASSUME Reset
       PROVE  PolledInv'
  BY <1>11 DEF Reset, NoCall
<1>12. CASE UNCHANGED vars
  BY <1>12 DEF vars, shared
<1> QED
  BY <1>1, <1>2, <1>3, <1>4, <1>5, <1>6, <1>7, <1>8, <1>9, <1>10, <1>11, <1>12
     DEF Next, Caller, run_ota, Finalize, PowerLoss

LEMMA PolledInit == Init => PolledInv
BY SharedFlashAssumption DEF Init, PolledInv, NoCall

LEMMA PolledCorrect == Spec => [](TypeOK /\ PolledInv)
<1>1. TypeOK /\ PolledInv /\ [Next]_vars => (TypeOK /\ PolledInv)'
  BY TypeStep, PolledStep
<1>2. Init => TypeOK /\ PolledInv
  BY TypeInit, PolledInit
<1> QED
  BY <1>1, <1>2, PTL DEF Spec

(* No blocking access panics when the updates run on the lowest level of   *)
(* all that use the flash, whatever the levels of the others: a task below *)
(* it is the only one that could hold the mutex when it runs.              *)
THEOREM UpdatesNeverPanic ==
  ASSUME UpdatesLowest
  PROVE  Spec => []NoPanic
<1>1. Init => NoPanic
  BY DEF Init, NoPanic
<1>2. TypeOK /\ PolledInv /\ NoPanic /\ [Next]_vars => NoPanic'
  <2> SUFFICES ASSUME TypeOK, PolledInv, NoPanic, [Next]_vars
               PROVE  NoPanic'
    OBVIOUS
  <2>1. ASSUME NEW u \in Uploaders, TryLock(u)
        PROVE  FLASH = None
    <3> SUFFICES ASSUME FLASH # None PROVE FALSE
      OBVIOUS
    <3>1. FLASH \in polled \ {u} /\ FLASH \in Tasks \cup Uploaders
      BY <2>1 DEF TryLock, PolledInv, TypeOK
    <3>2. layout.level[FLASH] < layout.level[u]
      BY <2>1, <3>1 DEF TryLock, Runs
    <3>3. layout.level[u] <= layout.level[FLASH]
      BY <3>1, UpdatesLowest DEF UpdatesLowest, TypeOK
    <3>4. layout.level[u] \in Nat /\ layout.level[FLASH] \in Nat
      BY <3>1, Levels
    <3> QED
      BY <3>2, <3>3, <3>4
  <2> QED
    BY <2>1 DEF NoPanic, Next, Call, Caller, Lock, Acquire, Wait, ReadItems, WriteItem,
       Request, run_ota, TryLock, Access, Receive, Finalize, PowerLoss, Reset, vars, shared
<1> QED
  BY <1>1, <1>2, PolledCorrect, PTL DEF Spec

-----------------------------------------------------------------------------
(* Stores are atomic.                                                      *)

\* A task that is about to write has found the first free place.
PlaceInv == \A t \in Tasks : task[t].pc = "write" => task[t].at = Len(log) + 1

\* Two tasks are never both between their read and their write.
LEMMA OneWriter ==
  ASSUME LevelsShareStore, TypeOK, PolledInv, NEW t \in Tasks, NEW s \in Tasks,
         WriteItem(t), task[s].pc = "write"
  PROVE  s = t
<1> SUFFICES ASSUME s # t PROVE FALSE
  OBVIOUS
<1>1. task[t].pc = "write" /\ FLASH = t /\ Runs(t)
  BY DEF WriteItem
<1>2. Storage(s) # Storage(t)
  BY <1>1 DEF TypeOK, Holders
<1>3. layout.level[s] = layout.level[t]
  BY <1>2, LevelsShareStore DEF LevelsShareStore, TypeOK, Storage
<1>4. layout.level[s] < layout.level[t]
  BY <1>1 DEF PolledInv, Runs
<1>5. layout.level[t] \in Nat
  BY Levels
<1> QED
  BY <1>3, <1>4, <1>5

LEMMA PlaceStep ==
  ASSUME LevelsShareStore, TypeOK, PolledInv, PlaceInv, [Next]_vars
  PROVE  PlaceInv'
<1> USE DEF PlaceInv
<1>0. task \in [Tasks -> [pc : {"idle", "lock", "read", "write"}, key : Keys \cup {None},
                         val : Vals \cup {None}, at : Nat]]
  BY DEF TypeOK
<1>1. ASSUME NEW t \in Tasks, Call(t)
      PROVE  PlaceInv'
  BY <1>0, <1>1 DEF Call
<1>2. ASSUME NEW t \in Tasks, Lock(t)
      PROVE  PlaceInv'
  BY <1>0, <1>2 DEF Lock, To
<1>3. ASSUME NEW t \in Tasks, ReadItems(t)
      PROVE  PlaceInv'
  BY <1>0, <1>3 DEF ReadItems, To, Return, NoCall
<1>4. ASSUME NEW t \in Tasks, WriteItem(t)
      PROVE  PlaceInv'
  <2>1. \A s \in Tasks : task'[s].pc # "write"
    BY <1>0, <1>4, OneWriter DEF WriteItem, Return, NoCall
  <2> QED
    BY <2>1
<1>5. ASSUME Reset
      PROVE  PlaceInv'
  BY <1>5 DEF Reset, NoCall
<1>6. CASE UNCHANGED <<task, log>>
  BY <1>6
<1> QED
  BY <1>1, <1>2, <1>3, <1>4, <1>5, <1>6
     DEF Next, Caller, Acquire, Wait, Request, run_ota, TryLock, Access, Receive, Finalize,
         PowerLoss, vars, shared

(* A nonempty set of natural numbers has a least element.                  *)
LEMMA LeastOf ==
  ASSUME NEW T, T \subseteq Nat, T # {}
  PROVE  \E x \in T : \A y \in T : x <= y
<1> DEFINE R == {pair \in Nat \X Nat : pair[1] < pair[2]}
<1>1. IsWellFoundedOn(R, Nat)
  BY NatLessThanWellFounded, Zenon DEF OpToRel
<1>2. PICK x \in T : \A y \in T : ~ <<y, x>> \in R
  <2> HIDE DEF R
  <2> QED
    BY <1>1, WFMin, Zenon
<1>3. \A y \in T : x <= y
  <2> TAKE y \in T
  <2>1. x \in Nat /\ y \in Nat /\ <<y, x>> \in Nat \X Nat
    OBVIOUS
  <2>2. ~(<<y, x>>[1] < <<y, x>>[2])
    BY <1>2, <2>1, Zenon
  <2> QED
    BY <2>1, <2>2
<1> QED
  BY <1>3

(* A nonempty set of places has a last one.                                *)
LEMMA LastPlace ==
  ASSUME NEW n \in Nat, NEW P, P \subseteq 1 .. n, P # {}
  PROVE  \E i \in P : \A j \in P : j <= i
<1> DEFINE T == {n - i : i \in P}
<1>1. T \subseteq Nat /\ T # {}
  <2>1. \A i \in P : n - i \in Nat
    OBVIOUS
  <2>2. T # {}
    OBVIOUS
  <2> QED
    BY <2>1, <2>2
<1>2. PICK x \in T : \A y \in T : x <= y
  BY <1>1, LeastOf
<1>3. PICK i \in P : x = n - i
  BY <1>2
<1>4. ASSUME NEW j \in P
      PROVE  j <= i
  <2>1. n - i <= n - j
    BY <1>2, <1>3
  <2> QED
    BY <2>1
<1> QED
  BY <1>4

(* An item behind all others is the one that is found, and the items of    *)
(* other keys are found as before.                                         *)
LEMMA FoundBehind ==
  ASSUME TypeOK, NEW key \in Keys, NEW val \in Vals, log' = Append(log, <<key, val>>)
  PROVE  \A k \in Keys : Found(k)' = IF k = key THEN val ELSE Found(k)
<1> DEFINE item == <<key, val>>
<1> DEFINE S == (Keys \X Vals) \cup {Garbage}
<1>1. log \in Seq(S) /\ item \in S /\ item # Garbage
  BY SharedFlashAssumption DEF TypeOK
<1>2. item[1] = key /\ item[2] = val
  OBVIOUS
<1> HIDE DEF item, S
<1>3. /\ Len(log') = Len(log) + 1 /\ Len(log) \in Nat
      /\ \A i \in 1 .. Len(log) : log'[i] = log[i]
      /\ log'[Len(log) + 1] = item
  BY <1>1, AppendProperties, LenProperties DEF item
<1>4. ASSUME NEW k \in Keys
      PROVE  Places(k)' = Places(k) \cup (IF k = key THEN {Len(log) + 1} ELSE {})
  <2>1. ASSUME NEW i \in 1 .. Len(log) + 1
        PROVE  i \in Places(k)' <=> i \in Places(k) \/ (k = key /\ i = Len(log) + 1)
    <3>1. CASE i = Len(log) + 1
      BY <1>1, <1>2, <1>3, <3>1 DEF Places
    <3>2. CASE i \in 1 .. Len(log)
      BY <1>3, <3>2 DEF Places
    <3> QED
      BY <1>3, <3>1, <3>2
  <2>2. Places(k)' \subseteq 1 .. Len(log) + 1 /\ Places(k) \subseteq 1 .. Len(log) + 1
    BY <1>3 DEF Places
  <2>3. Len(log) + 1 \in 1 .. Len(log) + 1
    BY <1>3
  <2> QED
    BY <2>1, <2>2, <2>3
<1>5. Found(key)' = val
  <2> DEFINE P == Places(key)'
  <2>1. Len(log) + 1 \in P /\ \A j \in P : j \in Nat /\ j <= Len(log) + 1
    BY <1>3, <1>4 DEF Places
  <2> HIDE DEF P
  <2>2. (CHOOSE i \in P : \A j \in P : j <= i) = Len(log) + 1
    <3>1. \E i \in P : \A j \in P : j <= i
      BY <2>1
    <3>2. PICK c \in P : c = (CHOOSE i \in P : \A j \in P : j <= i) /\ \A j \in P : j <= c
      BY <3>1
    <3>3. c <= Len(log) + 1 /\ Len(log) + 1 <= c /\ c \in Nat
      BY <2>1, <3>2
    <3> QED
      BY <1>3, <3>2, <3>3
  <2> QED
    BY <1>2, <1>3, <2>1, <2>2 DEF Found, P
<1>6. ASSUME NEW k \in Keys, k # key
      PROVE  Found(k)' = Found(k)
  <2>1. Places(k)' = Places(k)
    BY <1>4, <1>6
  <2>2. CASE Places(k) = {}
    BY <2>1, <2>2 DEF Found
  <2>3. CASE Places(k) # {}
    <3> DEFINE P == Places(k)
    <3>1. P \subseteq 1 .. Len(log) /\ P # {}
      BY <2>3 DEF Places
    <3> HIDE DEF P
    <3>2. \E i \in P : \A j \in P : j <= i
      BY <1>3, <3>1, LastPlace
    <3>3. (CHOOSE i \in P : \A j \in P : j <= i) \in 1 .. Len(log)
      BY <3>1, <3>2
    <3> QED
      BY <1>3, <2>1, <2>3, <3>3 DEF Found, P
  <2> QED
    BY <2>2, <2>3
<1> QED
  BY <1>5, <1>6

(* Every store() is atomic when tasks on different levels use the same     *)
(* FlashStore: the place it found is still the first free one when it      *)
(* writes.                                                                 *)
THEOREM StoresAtomic ==
  ASSUME LevelsShareStore
  PROVE  Spec => StoresAreAtomic
<1> DEFINE AtomicStep == \A t \in Tasks :
             WriteItem(t) => Items!store(task[t].key, task[t].val, TRUE)
<1>1. Spec => [](TypeOK /\ PolledInv /\ PlaceInv)
  <2>1. Init => PlaceInv
    BY DEF Init, PlaceInv, NoCall
  <2>2. TypeOK /\ PolledInv /\ PlaceInv /\ [Next]_vars => PlaceInv'
    BY PlaceStep, LevelsShareStore
  <2> QED
    BY <2>1, <2>2, PolledCorrect, PTL DEF Spec
<1>2. TypeOK /\ PolledInv /\ PlaceInv => AtomicStep
  <2> SUFFICES ASSUME TypeOK, PolledInv, PlaceInv, NEW t \in Tasks, WriteItem(t)
               PROVE  Items!store(task[t].key, task[t].val, TRUE)
    OBVIOUS
  <2> DEFINE key == task[t].key
             val == task[t].val
             found == [k \in Keys |-> Found(k)]
  <2>1. key \in Keys /\ val \in Vals /\ task[t].at = Len(log) + 1 /\ Len(log) \in Nat
    BY LenProperties DEF WriteItem, TypeOK, PlaceInv
  <2>2. log' = Append(log, <<key, val>>)
    BY <2>1 DEF WriteItem, Written
  <2> HIDE DEF key, val
  <2>3. \A k \in Keys : Found(k)' = IF k = key THEN val ELSE Found(k)
    BY <2>1, <2>2, FoundBehind
  <2>4. [k \in Keys |-> Found(k)'] = [found EXCEPT ![key] = val]
    BY <2>1, <2>3
  <2> QED
    BY <2>4 DEF Items!store, key, val
<1> HIDE DEF AtomicStep
<1>3. Spec => [][AtomicStep]_vars
  BY <1>1, <1>2, PTL
<1> QED
  BY <1>3 DEF StoresAreAtomic, AtomicStep

-----------------------------------------------------------------------------
(* Whole images.                                                           *)

OneUploader == ~Truncated /\ \A u, v \in Uploaders : u = v

\* An upload has written every chunk it has read before the one at hand, and
\* it is finalized after the last.
WrittenInv ==
  \A u \in Uploaders :
    /\ upload[u].pc = "write" => \A i \in 1 .. upload[u].total - 1 : slot[i] = u
    /\ upload[u].pc \in {"read", "finalize"} => \A i \in 1 .. upload[u].total : slot[i] = u
    /\ upload[u].pc = "finalize" => upload[u].total = Chunks

WholeInv == WrittenInv /\ ActiveIsWhole

LEMMA WholeStep ==
  ASSUME OneUploader, TypeOK, WholeInv, [Next]_vars
  PROVE  WholeInv'
<1> USE OtaAssumption DEF WholeInv, WrittenInv
<1>0. /\ upload \in [Uploaders -> [pc : PCs, total : 0 .. Chunks]]
      /\ \A u \in Uploaders : upload[u].pc = "write" => upload[u].total > 0
      /\ slot \in [1 .. Chunks -> Uploaders \cup {None}]
  BY DEF TypeOK, OtaTypeOK, PCs
<1>1. ASSUME NEW u \in Uploaders, from_request(u)
      PROVE  WholeInv'
  BY <1>0, <1>1 DEF from_request, At, ActiveIsWhole, Image, Erased
<1>2. ASSUME NEW u \in Uploaders, begin_ota(u)
      PROVE  WholeInv'
  BY <1>0, <1>2 DEF begin_ota, At, ActiveIsWhole, Image, Erased
<1>3. ASSUME NEW u \in Uploaders, Read(u)
      PROVE  WholeInv'
  <2>1. CASE upload[u].total < Chunks
               /\ upload' = [upload EXCEPT ![u] = [pc |-> "write", total |-> upload[u].total + 1]]
    BY <1>0, <1>3, <2>1, OneUploader DEF Read, ActiveIsWhole, Image, Erased, OneUploader
  <2>2. CASE upload[u].total = Chunks /\ Then(u, "finalize")
    BY <1>0, <1>3, <2>2, OneUploader DEF Read, Then, ActiveIsWhole, Image, Erased, OneUploader
  <2>3. CASE At(u, "idle")
    BY <1>0, <1>3, <2>3, OneUploader DEF Read, At, ActiveIsWhole, Image, Erased, OneUploader
  <2> QED
    BY <1>3, <2>1, <2>2, <2>3, OneUploader DEF Read, OneUploader
<1>4. ASSUME NEW u \in Uploaders, write_chunk(u)
      PROVE  WholeInv'
  <2>1. CASE At(u, "idle") /\ UNCHANGED slot
    BY <1>0, <1>4, <2>1, OneUploader DEF write_chunk, At, ActiveIsWhole, Image, Erased, OneUploader
  <2>2. CASE slot' = [slot EXCEPT ![upload[u].total] = u]
    <3>1. upload[u].total \in 1 .. Chunks
      BY <1>0, <1>4 DEF write_chunk
    <3>2. \A i \in 1 .. upload[u].total : slot'[i] = u
      <4>1. ASSUME NEW i \in 1 .. upload[u].total
            PROVE  slot'[i] = u
        <5>1. CASE i = upload[u].total
          BY <1>0, <2>2, <3>1, <5>1
        <5>2. CASE i \in 1 .. upload[u].total - 1
          BY <1>0, <1>4, <2>2, <3>1, <5>2 DEF write_chunk
        <5> QED
          BY <3>1, <5>1, <5>2
      <4> QED
        BY <4>1
    <3>3. CASE Then(u, "read")
      BY <1>0, <1>4, <3>2, <3>3, OneUploader DEF write_chunk, Then, ActiveIsWhole, Image, Erased, OneUploader
    <3>4. CASE upload[u].total = Chunks /\ Then(u, "finalize")
      BY <1>0, <1>4, <3>2, <3>4, OneUploader DEF write_chunk, Then, ActiveIsWhole, Image, Erased, OneUploader
    <3>5. CASE At(u, "idle")
      BY <1>0, <1>4, <3>5, OneUploader DEF write_chunk, At, ActiveIsWhole, Image, Erased, OneUploader
    <3> QED
      BY <1>4, <3>3, <3>4, <3>5 DEF write_chunk
  <2> QED
    BY <1>4, <2>1, <2>2 DEF write_chunk
<1>5. ASSUME NEW u \in Uploaders, finalize_err(u)
      PROVE  WholeInv'
  BY <1>0, <1>5 DEF finalize_err, At, ActiveIsWhole, Image, Erased
<1>6. ASSUME NEW u \in Uploaders, finalize_ok(u)
      PROVE  WholeInv'
  <2>1. slot = Image(u)
    BY <1>0, <1>6 DEF finalize_ok, Image
  <2>2. ActiveIsWhole'
    BY <1>6, <2>1 DEF finalize_ok, ActiveIsWhole, Image, Erased
  <2>3. WrittenInv'
    BY <1>6 DEF finalize_ok, NoUpload
  <2> QED
    BY <2>2, <2>3
<1>7. ASSUME Interrupted
      PROVE  WholeInv'
  BY <1>7 DEF Interrupted, NoUpload, ActiveIsWhole, Image, Erased
<1>8. CASE UNCHANGED ota
  BY <1>8 DEF ota, ActiveIsWhole, Image, Erased
<1> QED
  BY <1>1, <1>2, <1>3, <1>4, <1>5, <1>6, <1>7, <1>8
     DEF Next, Call, Caller, Lock, Acquire, Wait, ReadItems, WriteItem,
         Request, run_ota, TryLock, Access, Receive, Finalize, PowerLoss, vars

(* With one upload at a time, and bodies that are not shorter than their   *)
(* image, an image that boots is whole: an upload that failed, lost its    *)
(* power or panicked is never booted, in parts or mixed with another.      *)
THEOREM WholeImages ==
  ASSUME OneUploader
  PROVE  Spec => []ActiveIsWhole
<1>1. Init => WholeInv
  BY DEF Init, OtaInit, WholeInv, WrittenInv, NoUpload, ActiveIsWhole
<1>2. TypeOK /\ WholeInv /\ [Next]_vars => WholeInv'
  BY WholeStep, OneUploader
<1>3. WholeInv => ActiveIsWhole
  BY DEF WholeInv
<1> QED
  BY <1>1, <1>2, <1>3, TypeCorrect, PTL DEF Spec

-----------------------------------------------------------------------------
(* Nobody waits in a circle.                                               *)

\* A FlashStore is locked by a call that has come to its accesses.
StoreHolders ==
  \A s \in Stores, t \in Tasks : storage[s] = t =>
    Storage(t) = s /\ task[t].pc \in {"read", "write"}

\* A task that is being polled has something to do; each one has preempted
\* those below it, and the levels of those on the way are bounded.
BusyInv ==
  /\ \A t \in polled \cap Tasks : task[t].pc # "idle"
  /\ \A u \in polled \cap Uploaders : Accesses(u)
  /\ \A u, v \in polled : u # v => layout.level[u] # layout.level[v]
  /\ \E n \in Nat : \A u \in polled : layout.level[u] <= n

\* A call has a step: it takes a mutex or makes its access, or it is being
\* polled and leaves the processor to wait.
CanGoOn(t) ==
  /\ Runs(t)
  /\ \/ task[t].pc = "lock" /\ (storage[Storage(t)] = None \/ t \in polled)
     \/ task[t].pc \in {"read", "write"} /\ (FLASH \in {None, t} \/ t \in polled)

\* While a call is under way, some call or some access of an upload has a step.
NeverStuck ==
  ~panicked /\ (\E t \in Tasks : task[t].pc # "idle") =>
    \/ \E t \in Tasks : CanGoOn(t)
    \/ \E u \in Uploaders : Runs(u) /\ Accesses(u)

\* The polls and waits a call has left, at most.
Polled(t) == IF t \in polled THEN 1 ELSE 0
Left(t) ==
  CASE task[t].pc = "idle"  -> 0
    [] task[t].pc = "lock"  -> 8 + Polled(t)
    [] task[t].pc = "read"  -> IF FLASH = t THEN 5 ELSE 6 + Polled(t)
    [] task[t].pc = "write" -> IF FLASH = t THEN 1 ELSE 2 + Polled(t)

LEMMA HoldersStep ==
  ASSUME TypeOK, StoreHolders, [Next]_vars
  PROVE  StoreHolders'
<1> USE SharedFlashAssumption DEF StoreHolders, Storage
<1>0. /\ task \in [Tasks -> [pc : {"idle", "lock", "read", "write"}, key : Keys \cup {None},
                             val : Vals \cup {None}, at : Nat]]
      /\ storage \in [Stores -> Tasks \cup {None}]
      /\ \A t \in Tasks : layout.store[t] \in Stores
  BY DEF TypeOK
<1>1. ASSUME NEW t \in Tasks, Call(t)
      PROVE  StoreHolders'
  BY <1>0, <1>1 DEF Call
<1>2. ASSUME NEW t \in Tasks, Lock(t)
      PROVE  StoreHolders'
  BY <1>0, <1>2 DEF Lock, To
<1>3. ASSUME NEW t \in Tasks, ReadItems(t)
      PROVE  StoreHolders'
  <2>1. CASE task[t].val = None
    <3>1. /\ task' = [task EXCEPT ![t] = NoCall] /\ layout' = layout
          /\ storage' = [storage EXCEPT ![Storage(t)] = None]
      BY <1>3, <2>1 DEF ReadItems, Return
    <3> QED
      BY <1>0, <3>1
  <2>2. CASE task[t].val # None
    <3>1. task' = [task EXCEPT ![t] = [pc |-> "write", key |-> task[t].key,
                                       val |-> task[t].val, at |-> Len(log) + 1]]
      BY <1>3, <2>2 DEF ReadItems, To
    <3>2. layout' = layout /\ storage' = storage
      BY <1>3, <2>2 DEF ReadItems
    <3>3. \A s \in Tasks : task'[s].pc = IF s = t THEN "write" ELSE task[s].pc
      BY <1>0, <3>1
    <3> QED
      BY <3>2, <3>3
  <2> QED
    BY <2>1, <2>2
<1>4. ASSUME NEW t \in Tasks, WriteItem(t)
      PROVE  StoreHolders'
  BY <1>0, <1>4 DEF WriteItem, Return
<1>5. ASSUME Reset
      PROVE  StoreHolders'
  BY <1>5 DEF Reset
<1>6. CASE UNCHANGED <<layout, task, storage>>
  BY <1>6
<1> QED
  BY <1>1, <1>2, <1>3, <1>4, <1>5, <1>6
     DEF Next, Caller, Acquire, Wait, Request, run_ota, TryLock, Access, Receive, Finalize,
         PowerLoss, vars, shared

(* What the poll of a task adds to those that are polled.                  *)
LEMMA Preempts ==
  ASSUME TypeOK, BusyInv, NEW t \in Tasks \cup Uploaders, Runs(t), layout' = layout,
         polled' = polled \cup {t}
  PROVE  /\ \A u, v \in polled' : u # v => layout'.level[u] # layout'.level[v]
         /\ \E n \in Nat : \A u \in polled' : layout'.level[u] <= n
<1>1. /\ polled \subseteq Tasks \cup Uploaders
      /\ \A u \in Tasks \cup Uploaders : layout.level[u] \in Nat
  BY Levels DEF TypeOK
<1>2. \A u \in polled \ {t} : layout.level[u] < layout.level[t]
  BY DEF Runs
<1>3. \A u, v \in polled' : u # v => layout'.level[u] # layout'.level[v]
  BY <1>1, <1>2 DEF BusyInv
<1>4. \A u \in polled' : layout'.level[u] <= layout.level[t]
  BY <1>1, <1>2
<1> QED
  BY <1>1, <1>3, <1>4

LEMMA BusyStep ==
  ASSUME TypeOK, BusyInv, [Next]_vars
  PROVE  BusyInv'
<1> DEFINE Busy == /\ \A t \in polled \cap Tasks : task[t].pc # "idle"
                   /\ \A u \in polled \cap Uploaders : Accesses(u)
           Apart == /\ \A u, v \in polled : u # v => layout.level[u] # layout.level[v]
                    /\ \E n \in Nat : \A u \in polled : layout.level[u] <= n
<1>0. /\ task \in [Tasks -> [pc : {"idle", "lock", "read", "write"}, key : Keys \cup {None},
                             val : Vals \cup {None}, at : Nat]]
      /\ upload \in [Uploaders -> [pc : PCs, total : 0 .. Chunks]]
      /\ Tasks \cap Uploaders = {} /\ polled \subseteq Tasks \cup Uploaders
      /\ Busy /\ Apart
  BY SharedFlashAssumption DEF TypeOK, OtaTypeOK, PCs, BusyInv
<1>1. Apart'
  <2>1. CASE polled' \subseteq polled /\ layout' = layout
    BY <1>0, <2>1
  <2>2. ASSUME NEW t \in Tasks \cup Uploaders, Runs(t), layout' = layout, GoesOn(t)
        PROVE  Apart'
    BY <2>2, Preempts DEF GoesOn
  <2>3. CASE polled' = {}
    BY <2>3
  <2> QED
    BY <2>1, <2>2, <2>3 DEF Next, Call, Caller, Lock, Acquire, Wait, ReadItems, WriteItem,
       Return, Yields, Request, run_ota, TryLock, Access, Receive, Finalize, PowerLoss, Reset,
       vars, shared
<1>2. Busy'
  <2> HIDE DEF Apart
  <2>1. ASSUME NEW t \in Tasks, Call(t) \/ Lock(t)
        PROVE  Busy'
    BY <1>0, <2>1 DEF Call, Lock, To, GoesOn, Accesses, ota
  <2>2. ASSUME NEW t \in Tasks, Acquire(t) \/ Wait(t)
        PROVE  Busy'
    BY <1>0, <2>2 DEF Acquire, Wait, GoesOn, Yields, Accesses, ota
  <2>3. ASSUME NEW t \in Tasks, ReadItems(t) \/ WriteItem(t)
        PROVE  Busy'
    BY <1>0, <2>3 DEF ReadItems, WriteItem, To, Return, GoesOn, Yields, Accesses, ota
  <2>4. ASSUME NEW u \in Uploaders, Request(u) \/ TryLock(u)
        PROVE  Busy'
    BY <1>0, <2>4 DEF Request, from_request, At, TryLock, GoesOn, Accesses, ota
  <2>5. ASSUME NEW u \in Uploaders, Access(u)
        PROVE  Busy'
    BY <1>0, <2>5 DEF Access, begin_ota, write_chunk, finalize_err, At, Then, GoesOn, Yields,
       Accesses
  <2>6. ASSUME NEW u \in Uploaders, Receive(u)
        PROVE  Busy'
    BY <1>0, <2>6 DEF Receive, Read, At, Then, GoesOn, Yields, Accesses
  <2>7. CASE Reset
    BY <2>7 DEF Reset
  <2>8. CASE UNCHANGED vars
    BY <1>0, <2>8 DEF vars, shared, ota, Accesses
  <2> QED
    BY <2>1, <2>2, <2>3, <2>4, <2>5, <2>6, <2>7, <2>8
       DEF Next, Caller, run_ota, Finalize, PowerLoss
<1> QED
  BY <1>1, <1>2 DEF BusyInv

LEMMA BusyCorrect == Spec => [](TypeOK /\ PolledInv /\ StoreHolders /\ BusyInv)
<1>1. Init => StoreHolders /\ BusyInv
  BY SharedFlashAssumption DEF Init, StoreHolders, BusyInv
<1>2. TypeOK /\ StoreHolders /\ BusyInv /\ [Next]_vars => (StoreHolders /\ BusyInv)'
  BY HoldersStep, BusyStep
<1> QED
  BY <1>1, <1>2, PolledCorrect, PTL DEF Spec

(* Of the tasks that are polled one is above all others, and runs.         *)
LEMMA OneRuns ==
  ASSUME TypeOK, BusyInv, ~panicked, polled # {}
  PROVE  \E t \in polled : Runs(t)
<1>1. /\ polled \subseteq Tasks \cup Uploaders
      /\ \A u \in polled : layout.level[u] \in Nat
  BY Levels DEF TypeOK
<1>2. PICK n \in Nat : \A u \in polled : layout.level[u] <= n
  BY DEF BusyInv
<1> DEFINE P == {layout.level[u] + 1 : u \in polled}
<1>3. P \subseteq 1 .. n + 1 /\ P # {}
  BY <1>1, <1>2
<1>4. PICK i \in P : \A j \in P : j <= i
  <2>1. n + 1 \in Nat
    BY <1>2
  <2> HIDE DEF P
  <2> QED
    BY <1>3, <2>1, LastPlace
<1>5. PICK t \in polled : i = layout.level[t] + 1
  BY <1>4
<1>6. \A u \in polled \ {t} : layout.level[u] < layout.level[t]
  <2> TAKE u \in polled \ {t}
  <2>1. layout.level[u] + 1 <= layout.level[t] + 1
    BY <1>4, <1>5
  <2>2. layout.level[u] # layout.level[t]
    BY DEF BusyInv
  <2> QED
    BY <1>1, <2>1, <2>2
<1> QED
  BY <1>5, <1>6 DEF Runs

(* No deadlock: whatever the levels, the wiring of the stores and the      *)
(* order of the calls, the tasks never all wait for each other's mutexes   *)
(* (lib.rs:14-26).  Who is polled and above all others has a step; when    *)
(* nobody is polled the flash is free, and what a call waits for is held   *)
(* by one that waits for the flash only.                                   *)
THEOREM CallsNeverStuck == Spec => []NeverStuck
<1>1. ASSUME TypeOK, PolledInv, StoreHolders, BusyInv
      PROVE  NeverStuck
  <2> SUFFICES ASSUME ~panicked, NEW t \in Tasks, task[t].pc # "idle"
               PROVE  \/ \E s \in Tasks : CanGoOn(s)
                      \/ \E u \in Uploaders : Runs(u) /\ Accesses(u)
    BY DEF NeverStuck
  <2>0. /\ \A s \in Tasks : task[s].pc \in {"idle", "lock", "read", "write"}
        /\ \A s \in Tasks : storage[Storage(s)] \in Tasks \cup {None} /\ Storage(s) \in Stores
        /\ polled \subseteq Tasks \cup Uploaders
    <3>1. /\ task \in [Tasks -> [pc : {"idle", "lock", "read", "write"}, key : Keys \cup {None},
                                 val : Vals \cup {None}, at : Nat]]
          /\ storage \in [Stores -> Tasks \cup {None}] /\ layout \in Layouts
          /\ polled \subseteq Tasks \cup Uploaders
      BY <1>1 DEF TypeOK
    <3>2. \A s \in Tasks : Storage(s) \in Stores
      BY <3>1, SharedFlashAssumption DEF Storage
    <3> QED
      BY <3>1, <3>2
  <2>1. CASE polled = {}
    <3>1. FLASH = None /\ \A s \in Tasks : Runs(s)
      BY <1>1, <2>1 DEF PolledInv, Runs
    <3>2. CASE task[t].pc = "lock" /\ storage[Storage(t)] # None
      <4> DEFINE s == storage[Storage(t)]
      <4>1. s \in Tasks /\ task[s].pc \in {"read", "write"}
        BY <1>1, <2>0, <3>2 DEF StoreHolders
      <4> QED
        BY <3>1, <4>1 DEF CanGoOn
    <3> QED
      BY <2>0, <3>1, <3>2 DEF CanGoOn
  <2>2. CASE polled # {}
    <3>1. PICK s \in polled : Runs(s)
      BY <1>1, <2>2, OneRuns
    <3>2. CASE s \in Uploaders
      BY <1>1, <3>1, <3>2 DEF BusyInv
    <3>3. CASE s \in Tasks
      BY <1>1, <2>0, <3>1, <3>3 DEF BusyInv, CanGoOn
    <3> QED
      BY <2>0, <3>1, <3>2, <3>3
  <2> QED
    BY <2>1, <2>2
<1> QED
  BY <1>1, BusyCorrect, PTL

(* A call has a bounded way to go: each of its steps leaves less of it,    *)
(* the wait for a mutex included, and no step of another task adds to it.  *)
THEOREM CallsShorten ==
  Spec => [][\A t \in Tasks : /\ Caller(t) => Left(t)' < Left(t)
                              /\ ~Call(t) => Left(t)' <= Left(t)]_vars
<1> DEFINE Shorter == \A t \in Tasks : /\ Caller(t) => Left(t)' < Left(t)
                                       /\ ~Call(t) => Left(t)' <= Left(t)
<1>1. ASSUME TypeOK, Next, NEW t \in Tasks
      PROVE  (Caller(t) => Left(t)' < Left(t)) /\ (~Call(t) => Left(t)' <= Left(t))
  <2>0. /\ task \in [Tasks -> [pc : {"idle", "lock", "read", "write"}, key : Keys \cup {None},
                               val : Vals \cup {None}, at : Nat]]
        /\ FLASH = t => task[t].pc \in {"read", "write"}
        /\ t \notin Uploaders /\ t # None
    BY <1>1, SharedFlashAssumption DEF TypeOK, Holders
  <2>a. task'[t].pc \in {"idle", "lock", "read", "write"}
    BY <1>1, TypeStep DEF TypeOK
  <2>1. ASSUME Caller(t)
        PROVE  Left(t)' < Left(t)
    <3>1. CASE Lock(t)
      BY <2>0, <3>1 DEF Lock, To, Left, Polled
    <3>2. CASE Acquire(t)
      BY <2>0, <3>2 DEF Acquire, Left, Polled
    <3>3. CASE Wait(t)
      BY <2>0, <3>3 DEF Wait, Yields, Left, Polled
    <3>4. CASE ReadItems(t)
      BY <2>0, <3>4 DEF ReadItems, Return, NoCall, To, GoesOn, Left, Polled
    <3>5. CASE WriteItem(t)
      BY <2>0, <3>5 DEF WriteItem, Return, NoCall, Left, Polled
    <3> QED
      BY <2>1, <3>1, <3>2, <3>3, <3>4, <3>5 DEF Caller
  <2>2. Left(t) \in Nat /\ Left(t)' \in Nat
    BY <2>0, <2>a DEF Left, Polled
  <2>3. ASSUME ~Call(t), ~Caller(t)
        PROVE  Left(t)' <= Left(t)
    <3>1. CASE Reset
      <4>1. Left(t)' = 0
        BY <3>1 DEF Reset, NoCall, Left
      <4> QED
        BY <2>2, <4>1
    <3>2. CASE /\ task'[t] = task[t] /\ (FLASH' = t <=> FLASH = t)
               /\ (t \in polled' <=> t \in polled)
      <4>1. Left(t)' = Left(t)
        BY <2>0, <3>2 DEF Left, Polled
      <4> QED
        BY <2>2, <4>1
    <3>3. ASSUME NEW s \in Tasks, s # t, Call(s) \/ Caller(s)
          PROVE  /\ task'[t] = task[t] /\ (FLASH' = t <=> FLASH = t)
                 /\ (t \in polled' <=> t \in polled)
      BY <2>0, <3>3 DEF Call, Caller, Lock, Acquire, Wait, ReadItems, WriteItem, To, Return,
         GoesOn, Yields
    <3>4. ASSUME NEW u \in Uploaders, Request(u) \/ TryLock(u) \/ Access(u) \/ Receive(u)
          PROVE  /\ task'[t] = task[t] /\ (FLASH' = t <=> FLASH = t)
                 /\ (t \in polled' <=> t \in polled)
      BY <2>0, <3>4 DEF Request, TryLock, Access, Receive, GoesOn, Yields
    <3> QED
      BY <1>1, <2>3, <3>1, <3>2, <3>3, <3>4 DEF Next, run_ota, Finalize, PowerLoss
  <2>4. Caller(t) => Left(t)' <= Left(t)
    BY <2>1, <2>2
  <2> QED
    BY <2>1, <2>3, <2>4
<1>2. TypeOK /\ Next => Shorter
  BY <1>1
<1>3. Shorter <=> \A t \in Tasks : /\ Caller(t) => Left(t)' < Left(t)
                                   /\ ~Call(t) => Left(t)' <= Left(t)
  BY Zenon
<1> HIDE DEF Shorter
<1> QED
  BY <1>2, <1>3, TypeCorrect, PTL DEF Spec
==============================================================================
