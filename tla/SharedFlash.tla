----------------------------- MODULE SharedFlash -----------------------------
(***************************************************************************)
(* The flash chip behind its one mutex (esp-persistent-config/src/lib.rs): *)
(* FlashStores reach it through AsyncSharedFlash, which locks the mutex    *)
(* for each read and write and waits for it, firmware updates through      *)
(* BlockingSharedFlash, which panics when it finds the mutex locked.  A    *)
(* call of store() is several of these accesses.                           *)
(*                                                                         *)
(* Tasks run on executors of different levels: a task is polled until it   *)
(* waits or returns, and only one of a higher level preempts it.           *)
(*                                                                         *)
(* The items in the region are those of sequential-storage: store_item     *)
(* looks for the first free place and writes the item there; fetch_item    *)
(* takes the last intact item of the key.  What is written over an item    *)
(* makes it, and itself, unreadable.                                       *)
(***************************************************************************)
EXTENDS Ota, Sequences

CONSTANTS
  Tasks,     \* the tasks that call FlashStores
  Stores,    \* the FlashStores over the region
  Keys, Vals,
  Layouts,   \* possible wirings: the level of each task, the store of each caller
  MaxCalls,  \* bound on the calls and uploads
  Garbage    \* an item that was written over

ASSUME SharedFlashAssumption ==
  /\ Tasks \cap Uploaders = {}
  /\ None \notin Tasks \cup Uploaders \cup Vals
  /\ Garbage \notin Keys \X Vals
  /\ \A w \in Layouts : /\ w.level \in [Tasks \cup Uploaders -> Nat]
                        /\ w.store \in [Tasks -> Stores]
  /\ MaxCalls \in Nat

VARIABLES
  layout,    \* the wiring of this device
  FLASH,     \* who holds the mutex of the flash
  storage,   \* who holds the mutex of each FlashStore
  task,      \* progress of the call each task is in
  log,       \* the items in the region, in the order of their places
  polled,    \* the tasks being polled: preempted ones and the one that runs
  panicked,  \* a task has panicked
  calls      \* calls and uploads started

shared == <<layout, FLASH, storage, task, log, polled, panicked, calls>>
vars == <<ota, shared>>

NoCall == [pc |-> "idle", key |-> None, val |-> None, at |-> 0]

Init ==
  /\ OtaInit
  /\ layout \in Layouts
  /\ FLASH = None
  /\ storage = [s \in Stores |-> None]
  /\ task = [t \in Tasks |-> NoCall]
  /\ log = <<>>
  /\ polled = {}
  /\ panicked = FALSE
  /\ calls = 0

-----------------------------------------------------------------------------
(* The executors.                                                          *)

\* Whether t is polled on, or its executor may turn to it.
Runs(t) ==
  /\ ~panicked
  /\ \A u \in polled \ {t} : layout.level[u] < layout.level[t]

\* The task goes on to its next access; it waits or returns to its executor.
GoesOn(t) == polled' = polled \cup {t}
Yields(t) == polled' = polled \ {t}

-----------------------------------------------------------------------------
(* FlashStore::store and fetch (a fetch has no value).                     *)

Storage(t) == layout.store[t]

Places(key) == {i \in 1 .. Len(log) : log[i] # Garbage /\ log[i][1] = key}

\* What fetch_item finds: the last intact item of the key.
Found(key) ==
  IF Places(key) = {} THEN None
  ELSE log[CHOOSE i \in Places(key) : \A j \in Places(key) : j <= i][2]

Written(at, item) ==
  IF at > Len(log) THEN Append(log, item) ELSE [log EXCEPT ![at] = Garbage]

Call(t) ==
  /\ task[t].pc = "idle" /\ Runs(t) /\ calls < MaxCalls
  /\ \E key \in Keys, val \in Vals \cup {None} :
       task' = [task EXCEPT ![t] = [pc |-> "lock", key |-> key, val |-> val, at |-> 0]]
  /\ calls' = calls + 1
  /\ GoesOn(t)
  /\ UNCHANGED <<ota, layout, FLASH, storage, log, panicked>>

To(t, pc, at) ==
  task' = [task EXCEPT ![t] = [pc |-> pc, key |-> task[t].key, val |-> task[t].val,
                               at |-> at]]

Lock(t) ==
  /\ task[t].pc = "lock" /\ Runs(t) /\ storage[Storage(t)] = None
  /\ storage' = [storage EXCEPT ![Storage(t)] = t]
  /\ To(t, "read", 0)
  /\ GoesOn(t)
  /\ UNCHANGED <<ota, layout, FLASH, log, panicked, calls>>

\* self.mutex.lock().await in AsyncSharedFlash.
Acquire(t) ==
  /\ task[t].pc \in {"read", "write"} /\ Runs(t) /\ FLASH = None
  /\ FLASH' = t
  /\ GoesOn(t)
  /\ UNCHANGED <<ota, layout, storage, task, log, panicked, calls>>

\* A lock().await that finds the mutex locked.
Wait(t) ==
  /\ t \in polled /\ Runs(t)
  /\ \/ task[t].pc = "lock" /\ storage[Storage(t)] # None
     \/ task[t].pc \in {"read", "write"} /\ FLASH \notin {None, t}
  /\ Yields(t)
  /\ UNCHANGED <<ota, layout, FLASH, storage, task, log, panicked, calls>>

\* Faulty variant: the mutex of the FlashStore is kept.
Return_KeepsStorage(t) ==
  /\ task' = [task EXCEPT ![t] = NoCall]
  /\ Yields(t)
  /\ UNCHANGED storage

Return(t) ==
  /\ task' = [task EXCEPT ![t] = NoCall]
  /\ storage' = [storage EXCEPT ![Storage(t)] = None]
  /\ Yields(t)

\* Faulty variant: the FlashStore is unlocked between its accesses.
ReadItems_Unlocks(t) ==
  /\ task[t].pc = "read" /\ FLASH = t /\ Runs(t)
  /\ FLASH' = None
  /\ IF task[t].val = None
     THEN Return(t)
     ELSE /\ To(t, "write", Len(log) + 1)
          /\ GoesOn(t)
          /\ storage' = [storage EXCEPT ![Storage(t)] = None]
  /\ UNCHANGED <<ota, layout, log, panicked, calls>>

ReadItems(t) ==
  /\ task[t].pc = "read" /\ FLASH = t /\ Runs(t)
  /\ FLASH' = None
  /\ IF task[t].val = None
     THEN Return(t)
     ELSE To(t, "write", Len(log) + 1) /\ GoesOn(t) /\ UNCHANGED storage
  /\ UNCHANGED <<ota, layout, log, panicked, calls>>

\* Faulty variant: store returns with the mutex of the flash.
WriteItem_KeepsFlash(t) ==
  /\ task[t].pc = "write" /\ FLASH = t /\ Runs(t)
  /\ log' = Written(task[t].at, <<task[t].key, task[t].val>>)
  /\ Return(t)
  /\ UNCHANGED <<ota, layout, FLASH, panicked, calls>>

WriteItem(t) ==
  /\ task[t].pc = "write" /\ FLASH = t /\ Runs(t)
  /\ log' = Written(task[t].at, <<task[t].key, task[t].val>>)
  /\ FLASH' = None
  /\ Return(t)
  /\ UNCHANGED <<ota, layout, panicked, calls>>

Caller(t) == Lock(t) \/ Acquire(t) \/ Wait(t) \/ ReadItems(t) \/ WriteItem(t)

-----------------------------------------------------------------------------
(* run_ota over BlockingSharedFlash: the accesses of begin_ota,            *)
(* write_chunk and finalize.                                               *)

Request(u) ==
  /\ Runs(u) /\ calls < MaxCalls
  /\ from_request(u)
  /\ calls' = calls + 1
  /\ GoesOn(u)
  /\ UNCHANGED <<layout, FLASH, storage, task, log, panicked>>

Accesses(u) == upload[u].pc \in {"begin", "write", "finalize"}

\* mutex.try_lock().
TryLock(u) ==
  /\ Accesses(u) /\ FLASH # u /\ Runs(u)
  /\ IF FLASH = None
     THEN FLASH' = u /\ GoesOn(u) /\ UNCHANGED panicked
     ELSE panicked' = TRUE /\ UNCHANGED <<FLASH, polled>>
  /\ UNCHANGED <<ota, layout, storage, task, log, calls>>

Access(u) ==
  /\ FLASH = u /\ Runs(u)
  /\ begin_ota(u) \/ write_chunk(u) \/ finalize_err(u)
  /\ FLASH' = None
  /\ IF upload'[u].pc = "finalize" THEN GoesOn(u) ELSE Yields(u)
  /\ UNCHANGED <<layout, storage, task, log, panicked, calls>>

\* The body arrives from the network: the task was waiting for it.
Receive(u) ==
  /\ Runs(u)
  /\ Read(u)
  /\ IF upload'[u].pc = "idle" THEN Yields(u) ELSE GoesOn(u)
  /\ UNCHANGED <<layout, FLASH, storage, task, log, panicked, calls>>

Reset ==
  /\ FLASH' = None
  /\ storage' = [s \in Stores |-> None]
  /\ task' = [t \in Tasks |-> NoCall]
  /\ polled' = {}
  /\ panicked' = FALSE
  /\ UNCHANGED <<layout, log, calls>>

Finalize(u) ==
  /\ FLASH = u /\ Runs(u)
  /\ finalize_ok(u)
  /\ Reset

run_ota(u) == TryLock(u) \/ Access(u) \/ Receive(u) \/ Finalize(u)

PowerLoss == Interrupted /\ Reset

Next ==
  \/ \E t \in Tasks : Call(t) \/ Caller(t)
  \/ \E u \in Uploaders : Request(u) \/ run_ota(u)
  \/ PowerLoss

Spec == Init /\ [][Next]_vars

(* An executor turns to every task that is ready, and a task that may run  *)
(* does.  Nothing is assumed of the callers, the clients and the power.    *)
FairSpec ==
  /\ Spec
  /\ \A t \in Tasks : WF_vars(Caller(t))
  /\ \A u \in Uploaders : WF_vars(TryLock(u) \/ Access(u) \/ Finalize(u))

-----------------------------------------------------------------------------
\* A mutex is held by a task that is where it needs it.
Holders ==
  /\ FLASH \in Tasks => task[FLASH].pc \in {"read", "write"}
  /\ FLASH \in Uploaders => Accesses(FLASH)
  /\ \A t \in Tasks : task[t].pc \in {"read", "write"} => storage[Storage(t)] = t

(* The types, and who holds the mutexes.                                   *)
TypeOK ==
  /\ OtaTypeOK
  /\ layout \in Layouts
  /\ FLASH \in Tasks \cup Uploaders \cup {None}
  /\ storage \in [Stores -> Tasks \cup {None}]
  /\ task \in [Tasks -> [pc : {"idle", "lock", "read", "write"}, key : Keys \cup {None},
                         val : Vals \cup {None}, at : Nat]]
  /\ \A t \in Tasks : task[t].pc # "idle" => task[t].key \in Keys
  /\ \A t \in Tasks : task[t].pc = "write" => task[t].val \in Vals
  /\ log \in Seq((Keys \X Vals) \cup {Garbage})
  /\ polled \subseteq Tasks \cup Uploaders
  /\ panicked \in BOOLEAN
  /\ calls \in 0 .. MaxCalls
  /\ Holders

Items == INSTANCE FlashStore WITH flash <- [key \in Keys |-> Found(key)],
                                  WritesMayFail <- FALSE, ReadsMayFail <- FALSE

(* Each store() is atomic, as FlashStore has it: on the items that fetch   *)
(* finds, its write is the whole of its effect, with no other task's store *)
(* between its two accesses - whatever preempted it, and whatever resets   *)
(* cut earlier calls short.                                                *)
StoresAreAtomic ==
  [][\A t \in Tasks :
       WriteItem(t) => Items!store(task[t].key, task[t].val, TRUE)]_vars

(* "This lets both async (WiFi config init) and blocking (OTA) code share  *)
(* the same peripheral safely" (README.md:39): no blocking access finds    *)
(* the mutex of the flash locked.                                          *)
NoPanic == ~panicked

(* Every call of store and fetch returns, whatever the other tasks hold    *)
(* when it starts: the two mutexes are never waited for in a circle.       *)
CallsReturn == \A t \in Tasks : task[t].pc # "idle" ~> task[t].pc = "idle"
==============================================================================
