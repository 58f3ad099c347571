--------------------------- MODULE AppConfigProofs ---------------------------
(***************************************************************************)
(* Proofs about AppConfig for every struct, every set of setter calls and  *)
(* every number of tasks.                                                  *)
(***************************************************************************)
EXTENDS AppConfig, SequenceTheorems, TLAPS

Boots == [pc : {"open", "fetch", "default", "apply"},
          i : 1 .. Len(Order) + 1, val : Values \cup {None}]
Frames == [pc : {"idle", "publish"}, field : Fields \cup {None}, val : Values \cup {None}]

LEMMA OrderFacts ==
  /\ Len(Order) \in Nat
  /\ \A i \in 1 .. Len(Order) : Order[i] \in Fields
  /\ \A f \in Fields : \E i \in 1 .. Len(Order) : Order[i] = f
BY FieldAssumption, LenProperties, ElementOfSeq

LEMMA ValueFacts ==
  /\ Zero \in Values
  /\ \A f \in Fields : Default[f] \in Values /\ Default[f] # None /\ Key[f] \in Keys
  /\ \A r \in Requests : r[1] \in Fields /\ r[2] \in Values /\ r[2] # None
                         /\ r = <<r[1], r[2]>>
BY FieldAssumption DEF Values, Keys

\* A boot that is not done is at a field.
LEMMA FieldFacts ==
  ASSUME TypeOK, boot.pc \in {"default", "apply"} \/ (boot.pc = "fetch" /\ ~Up)
  PROVE  boot.i \in 1 .. Len(Order) /\ Field \in Fields
<1>1. boot.i \in 1 .. Len(Order) + 1 /\ boot.i <= Len(Order)
  BY OrderFacts DEF TypeOK, Up
<1>2. boot.i \in 1 .. Len(Order)
  BY <1>1, OrderFacts
<1> QED
  BY <1>2, OrderFacts DEF Field

LEMMA TypeStep ==
  ASSUME TypeOK, [Next]_vars
  PROVE  TypeOK'
<1>0. /\ flash \in [Keys -> Values \cup {None}]
      /\ CONFIG \in [Fields -> Values]
      /\ boot \in Boots
      /\ task \in [Tasks -> Frames]
      /\ opened \in BOOLEAN
      /\ Len(Order) \in Nat
  BY OrderFacts DEF TypeOK, Boots, Frames
<1>a. {TRUE, FALSE} \subseteq BOOLEAN
  OBVIOUS
<1>1. CASE Open
  <2>1. boot' \in Boots
    BY <1>0, <1>1 DEF Open, BootAt, Boots
  <2>2. opened' \in BOOLEAN
    BY <1>1, Zenon DEF Open
  <2> QED
    BY <1>1, <2>1, <2>2 DEF Open, BootAt, TypeOK, Boots
<1>2. CASE Fetch
  <2>1. Field \in Fields /\ boot.i \in 1 .. Len(Order)
    BY <1>2, FieldFacts DEF Fetch
  <2>2. PICK failed \in ReadErrors({Key[Field]}) :
          boot' = IF fetch(Key[Field], failed) = None THEN BootAt("default", boot.i, Default[Field])
                  ELSE BootAt("apply", boot.i, fetch(Key[Field], failed))
    BY <1>2 DEF Fetch
  <2>3. fetch(Key[Field], failed) \in Values \cup {None}
    BY <1>0, <2>1, ValueFacts DEF fetch
  <2>4. boot' \in Boots /\ boot'.val \in Values /\ boot'.i <= Len(Order)
    <3>1. CASE fetch(Key[Field], failed) = None
      BY <1>0, <2>1, <2>2, <3>1, ValueFacts DEF BootAt, Boots
    <3>2. CASE fetch(Key[Field], failed) # None
      BY <1>0, <2>1, <2>2, <2>3, <3>2, ValueFacts DEF BootAt, Boots
    <3> QED
      BY <3>1, <3>2
  <2> QED
    BY <1>2, <2>4 DEF Fetch, TypeOK, Boots
<1>3. CASE StoreDefault
  <2>1. Field \in Fields /\ boot.i \in 1 .. Len(Order) /\ boot.val \in Values
    BY <1>3, FieldFacts DEF StoreDefault, TypeOK
  <2>2. boot' \in Boots /\ boot'.val \in Values /\ boot'.i <= Len(Order)
    BY <1>0, <1>3, <2>1 DEF StoreDefault, BootAt, Boots
  <2>3. flash' \in [Keys -> Values \cup {None}]
    BY <1>0, <1>3, <2>1, ValueFacts DEF StoreDefault, store
  <2> QED
    BY <1>3, <2>2, <2>3 DEF StoreDefault, TypeOK, Boots
<1>4. CASE Apply
  <2>1. Field \in Fields /\ boot.i \in 1 .. Len(Order) /\ boot.val \in Values
    BY <1>4, FieldFacts DEF Apply, TypeOK
  <2>2. boot' \in Boots /\ boot'.pc = "fetch"
    BY <1>0, <1>4, <2>1 DEF Apply, BootAt, Boots
  <2>3. CONFIG' \in [Fields -> Values]
    BY <1>0, <1>4, <2>1 DEF Apply
  <2> QED
    BY <1>4, <2>2, <2>3 DEF Apply, TypeOK, Boots
<1>5. CASE PowerLoss
  <2>1. opened' \in BOOLEAN
    BY <1>5, Zenon DEF PowerLoss
  <2>2. boot' \in Boots /\ boot'.pc = "open"
    BY <1>0, <1>5 DEF PowerLoss, BootAt, Boots
  <2>3. CONFIG' \in [Fields -> Values]
    BY <1>5, ValueFacts DEF PowerLoss
  <2> QED
    BY <1>5, <2>1, <2>2, <2>3 DEF PowerLoss, TypeOK, Boots, Idle
<1>6. ASSUME NEW t \in Tasks, SetStore(t)
      PROVE  TypeOK'
  <2>1. PICK request \in Requests, ok \in WriteResults :
          /\ store(Key[request[1]], request[2], ok)
          /\ task' = IF ok
                     THEN [task EXCEPT ![t] =
                             [pc |-> "publish", field |-> request[1], val |-> request[2]]]
                     ELSE task
    BY <1>6 DEF SetStore
  <2>2. flash' \in [Keys -> Values \cup {None}]
    BY <1>0, <2>1, ValueFacts DEF store
  <2>3. [pc |-> "publish", field |-> request[1], val |-> request[2]] \in Frames
    BY ValueFacts DEF Frames
  <2>4. <<request[1], request[2]>> \in Requests
    BY ValueFacts
  <2>5. CASE ok
    BY <1>0, <1>6, <2>1, <2>2, <2>3, <2>4, <2>5 DEF SetStore, TypeOK, Frames
  <2>6. CASE ~ok
    BY <1>6, <2>1, <2>2, <2>6 DEF SetStore, TypeOK
  <2> QED
    BY <2>5, <2>6
<1>7. ASSUME NEW t \in Tasks, SetPublish(t)
      PROVE  TypeOK'
  <2>1. task[t].field \in Fields /\ task[t].val \in Values
    BY <1>7, ValueFacts DEF SetPublish, TypeOK
  <2>2. CONFIG' \in [Fields -> Values]
    BY <1>0, <1>7, <2>1 DEF SetPublish
  <2> QED
    BY <1>0, <1>7, <2>2 DEF SetPublish, TypeOK, Idle, Frames
<1>8. CASE UNCHANGED vars
  BY <1>8 DEF vars, TypeOK
<1> QED
  BY <1>1, <1>2, <1>3, <1>4, <1>5, <1>6, <1>7, <1>8 DEF Next, init_config

LEMMA TypeInit == Init => TypeOK
<1> SUFFICES ASSUME Init PROVE TypeOK
  OBVIOUS
<1>1. opened \in BOOLEAN
  BY Zenon DEF Init
<1> QED
  BY <1>1, OrderFacts, ValueFacts DEF Init, TypeOK, BootAt, Idle

(* Type correctness, with preemption, failing reads and writes and power   *)
(* losses: init_config always has a field and a value at hand.             *)
THEOREM TypeCorrect == Spec => []TypeOK
BY TypeInit, TypeStep, PTL DEF Spec

-----------------------------------------------------------------------------
(* RAM and flash.                                                          *)

Reliable == ~Preemptive /\ ~ReadsMayFail

\* What init_config has done so far; at most one task is in a setter, and the
\* value it has stored is the one it is about to publish.
SyncInv ==
  /\ \A t \in Tasks : task[t] # Idle => Up /\ task[t].pc = "publish"
  /\ \A t, u \in Tasks : task[t] # Idle /\ task[u] # Idle => t = u
  /\ \A t \in Tasks : task[t].pc = "publish" => task[t].val = Loaded(task[t].field)
  /\ boot.pc = "default" => boot.val = Default[Field] /\ flash[Key[Field]] = None
  /\ boot.pc = "apply" => boot.val = Loaded(Field)
  /\ boot.pc # "open" =>
       \A i \in 1 .. Len(Order) : i < boot.i =>
         \/ CONFIG[Order[i]] = Loaded(Order[i])
         \/ \E t \in Tasks : task[t].pc = "publish" /\ task[t].field = Order[i]

LEMMA SyncStep ==
  ASSUME Reliable, TypeOK, SyncInv, [Next]_vars
  PROVE  SyncInv'
<1> USE DEF SyncInv
<1>0. /\ flash \in [Keys -> Values \cup {None}]
      /\ CONFIG \in [Fields -> Values]
      /\ boot \in Boots
      /\ task \in [Tasks -> Frames]
      /\ Len(Order) \in Nat /\ \A i \in 1 .. Len(Order) : Order[i] \in Fields
  BY OrderFacts DEF TypeOK, Boots, Frames
<1>1. CASE Open
  <2>1. boot' = [pc |-> "fetch", i |-> 1, val |-> None]
    BY <1>1 DEF Open, BootAt
  <2> QED
    BY <1>1, <2>1, <1>0 DEF Open, Loaded, Up
<1>2. CASE Fetch
  <2>1. Field \in Fields /\ boot.i \in 1 .. Len(Order) /\ boot.pc = "fetch" /\ ~Up
    BY <1>2, FieldFacts DEF Fetch
  <2>2. boot' = IF flash[Key[Field]] = None
                THEN [pc |-> "default", i |-> boot.i, val |-> Default[Field]]
                ELSE [pc |-> "apply", i |-> boot.i, val |-> flash[Key[Field]]]
    BY <1>2 DEF Fetch, fetch, ReadErrors, Reliable, BootAt
  <2>3. boot'.i = boot.i /\ Field' = Field
    BY <2>2 DEF Field
  <2>4. \A f : Loaded(f)' = Loaded(f)
    BY <1>2 DEF Fetch, Loaded
  <2>5. \A t \in Tasks : task'[t] = Idle
    BY <1>2, <2>1 DEF Fetch
  <2>6. boot'.pc = "default" => boot'.val = Default[Field'] /\ flash'[Key[Field']] = None
    BY <1>2, <2>2, <2>3 DEF Fetch
  <2>7. boot'.pc = "apply" => boot'.val = Loaded(Field)'
    BY <1>2, <2>2, <2>3 DEF Fetch, Loaded
  <2> QED
    BY <1>2, <2>1, <2>3, <2>4, <2>5, <2>6, <2>7 DEF Fetch, Idle
<1>3. CASE StoreDefault
  <2>1. Field \in Fields /\ boot.i \in 1 .. Len(Order) /\ boot.pc = "default"
    BY <1>3, FieldFacts DEF StoreDefault
  <2>2. boot' = [pc |-> "apply", i |-> boot.i, val |-> boot.val] /\ Field' = Field
    BY <1>3 DEF StoreDefault, BootAt, Field
  <2>3. \A f \in Fields : Loaded(f)' = Loaded(f)
    <3>1. Default[Field] # None /\ Key[Field] \in Keys
      BY <2>1, ValueFacts
    <3>2. flash' = flash \/ flash' = [flash EXCEPT ![Key[Field]] = Default[Field]]
      BY <1>3 DEF StoreDefault, store
    <3>3. flash[Key[Field]] = None
      BY <2>1
    <3>4. Key \in [Fields -> 0 .. 255] /\ \A f \in Fields : Key[f] = Key[Field] => f = Field
      BY <2>1, FieldAssumption
    <3> HIDE DEF SyncInv
    <3>5. CASE flash' = flash
      BY <3>5 DEF Loaded
    <3>6. CASE flash' = [flash EXCEPT ![Key[Field]] = Default[Field]]
      <4>1. \A k \in Keys : flash'[k] = IF k = Key[Field] THEN Default[Field] ELSE flash[k]
        BY <1>0, <3>1, <3>6
      <4>2. \A f \in Fields : Key[f] \in Keys
        BY ValueFacts
      <4> QED
        BY <3>1, <3>3, <3>4, <4>1, <4>2 DEF Loaded
    <3> QED
      BY <3>2, <3>5, <3>6
  <2>4. \A t \in Tasks : task'[t] = Idle
    BY <1>3, <2>1 DEF StoreDefault, Up
  <2>5. boot'.val = Loaded(Field)'
    BY <2>1, <2>2, <2>3 DEF Loaded
  <2> QED
    BY <1>0, <1>3, <2>1, <2>2, <2>3, <2>4, <2>5 DEF StoreDefault, Idle
<1>4. CASE Apply
  <2>1. Field \in Fields /\ boot.i \in 1 .. Len(Order) /\ boot.pc = "apply"
    BY <1>4, FieldFacts DEF Apply
  <2>2. boot' = [pc |-> "fetch", i |-> boot.i + 1, val |-> None]
    BY <1>4 DEF Apply, BootAt
  <2>3. \A f : Loaded(f)' = Loaded(f)
    BY <1>4 DEF Apply, Loaded
  <2>4. \A t \in Tasks : task[t] = Idle /\ task'[t] = Idle
    BY <1>4, <2>1 DEF Apply, Up
  <2>5. ASSUME NEW i \in 1 .. Len(Order), i < boot.i + 1
        PROVE  CONFIG'[Order[i]] = Loaded(Order[i])'
    <3>1. CASE Order[i] = Field
      BY <1>0, <1>4, <2>1, <2>3, <3>1 DEF Apply
    <3>2. CASE Order[i] # Field
      <4>1. i < boot.i
        BY <2>1, <2>5, <3>2 DEF Field
      <4> QED
        BY <1>0, <1>4, <2>1, <2>3, <2>4, <3>2, <4>1 DEF Apply, Idle
    <3> QED
      BY <3>1, <3>2
  <2> QED
    BY <2>2, <2>4, <2>5 DEF Idle
<1>5. CASE PowerLoss
  <2>1. boot' = [pc |-> "open", i |-> 1, val |-> None]
    BY <1>5 DEF PowerLoss, BootAt
  <2>2. \A t \in Tasks : task'[t] = Idle
    BY <1>5 DEF PowerLoss
  <2> QED
    BY <2>1, <2>2 DEF Idle
<1>6. ASSUME NEW t \in Tasks, SetStore(t)
      PROVE  SyncInv'
  <2>1. PICK request \in Requests, ok \in WriteResults :
          /\ store(Key[request[1]], request[2], ok)
          /\ task' = IF ok
                     THEN [task EXCEPT ![t] =
                             [pc |-> "publish", field |-> request[1], val |-> request[2]]]
                     ELSE task
    BY <1>6 DEF SetStore
  <2>2. Up /\ \A u \in Tasks : task[u] = Idle
    BY <1>6 DEF SetStore, MayRun, Reliable
  <2>3. CASE ~ok
    BY <1>6, <2>1, <2>3 DEF SetStore, store, Loaded, Up, Field
  <2>4. CASE ok
    <3> DEFINE f == request[1]
               v == request[2]
    <3>1. f \in Fields /\ v # None /\ Key[f] \in Keys
      BY ValueFacts
    <3>2. flash' = [flash EXCEPT ![Key[f]] = v]
      BY <2>1, <2>4 DEF store
    <3>3. task' = [task EXCEPT ![t] = [pc |-> "publish", field |-> f, val |-> v]]
      BY <2>1, <2>4
    <3> HIDE DEF f, v
    <3>4. \A g \in Fields : Loaded(g)' = IF g = f THEN v ELSE Loaded(g)
      <4>1. ASSUME NEW g \in Fields
            PROVE  flash'[Key[g]] = IF g = f THEN v ELSE flash[Key[g]]
        BY <1>0, <3>1, <3>2, ValueFacts, FieldAssumption
      <4> QED
        BY <3>1, <4>1 DEF Loaded
    <3>5. Up' /\ boot' = boot
      BY <1>6, <2>2 DEF SetStore, Up
    <3>6. \A u \in Tasks : task'[u] = IF u = t THEN [pc |-> "publish", field |-> f, val |-> v]
                                       ELSE Idle
      BY <1>0, <2>2, <3>3
    <3>7. \A i \in 1 .. Len(Order) : i < boot.i =>
            \/ CONFIG'[Order[i]] = Loaded(Order[i])'
            \/ task'[t].pc = "publish" /\ task'[t].field = Order[i]
      BY <1>0, <1>6, <2>2, <3>4, <3>5, <3>6 DEF SetStore, Idle, Up
    <3> QED
      BY <2>2, <3>1, <3>4, <3>5, <3>6, <3>7 DEF Idle, Up
  <2> QED
    BY <2>3, <2>4
<1>7. ASSUME NEW t \in Tasks, SetPublish(t)
      PROVE  SyncInv'
  <2> DEFINE f == task[t].field
  <2>1. task[t].pc = "publish" /\ task[t].val = Loaded(f) /\ Up
    BY <1>7 DEF SetPublish, Idle
  <2>2. \A u \in Tasks : task'[u] = Idle
    <3>1. \A u \in Tasks \ {t} : task[u] = Idle
      BY <1>7, <2>1 DEF Idle
    <3> QED
      BY <1>0, <1>7, <3>1 DEF SetPublish
  <2>3. \A g : Loaded(g)' = Loaded(g)
    BY <1>7 DEF SetPublish, Loaded
  <2>4. boot' = boot /\ Up'
    BY <1>7, <2>1 DEF SetPublish, Up
  <2>5. ASSUME NEW i \in 1 .. Len(Order)
        PROVE  CONFIG'[Order[i]] = Loaded(Order[i])'
    <3>0. CONFIG' = [CONFIG EXCEPT ![f] = task[t].val] /\ Order[i] \in Fields
      BY <1>0, <1>7 DEF SetPublish
    <3>1. CASE Order[i] = f
      BY <1>0, <2>1, <2>3, <3>0, <3>1
    <3>2. CASE Order[i] # f
      <4>1. \A u \in Tasks : ~(task[u].pc = "publish" /\ task[u].field = Order[i])
        BY <2>1, <3>2 DEF Idle
      <4>2. i < boot.i /\ boot.pc # "open"
        BY <1>0, <2>1 DEF Up, Boots
      <4> QED
        BY <1>0, <2>3, <3>0, <3>2, <4>1, <4>2
    <3> QED
      BY <3>1, <3>2
  <2> QED
    BY <2>1, <2>2, <2>4, <2>5 DEF Idle, Up
<1>8. CASE UNCHANGED vars
  BY <1>8 DEF vars, Loaded, Field, Up
<1> QED
  BY <1>1, <1>2, <1>3, <1>4, <1>5, <1>6, <1>7, <1>8 DEF Next, init_config

LEMMA SyncInvariant ==
  ASSUME Reliable
  PROVE  Spec => [](TypeOK /\ SyncInv)
<1>1. Init => TypeOK /\ SyncInv
  BY TypeInit DEF Init, SyncInv, BootAt, Idle
<1>2. TypeOK /\ SyncInv /\ [Next]_vars => (TypeOK /\ SyncInv)'
  BY TypeStep, SyncStep, Reliable
<1> QED
  BY <1>1, <1>2, PTL DEF Spec

(* On one executor and with readable flash, a device that has booted has   *)
(* in RAM what the next boot loads - whatever power losses and failed      *)
(* stores came before - or the one setter under way is about to see to it. *)
THEOREM ConfigCorrect ==
  ASSUME Reliable
  PROVE  Spec => []ConfigSynced
<1>1. TypeOK /\ SyncInv => ConfigSynced
  <2> SUFFICES ASSUME TypeOK, SyncInv, Up, NEW f \in Fields
               PROVE  CONFIG[f] = Loaded(f) \/ \E t \in Tasks : AboutToPublish(t, f)
    BY DEF ConfigSynced
  <2>1. PICK i \in 1 .. Len(Order) : Order[i] = f
    BY OrderFacts
  <2>2. i < boot.i /\ boot.pc # "open"
    BY OrderFacts DEF Up, TypeOK
  <2> QED
    BY <2>1, <2>2 DEF SyncInv, AboutToPublish
<1> QED
  BY <1>1, SyncInvariant, Reliable, PTL

-----------------------------------------------------------------------------
(* The refinement of Settings.                                             *)

LEMMA StepRefines ==
  ASSUME Reliable, TypeOK, SyncInv, [Next]_vars
  PROVE  [Promise!Next]_([f \in Fields |-> Loaded(f)])
<1>0. flash \in [Keys -> Values \cup {None}]
  BY DEF TypeOK
<1>1. CASE StoreDefault
  <2>1. Field \in Fields /\ Default[Field] # None /\ Key[Field] \in Keys
    BY <1>1, FieldFacts, ValueFacts DEF StoreDefault
  <2>2. flash[Key[Field]] = None
    BY <1>1 DEF StoreDefault, SyncInv
  <2>3. flash' = flash \/ flash' = [flash EXCEPT ![Key[Field]] = Default[Field]]
    BY <1>1 DEF StoreDefault, store, SyncInv
  <2>4. \A f \in Fields : Loaded(f)' = Loaded(f)
    BY <1>0, <2>1, <2>2, <2>3, ValueFacts, FieldAssumption DEF Loaded
  <2> QED
    BY <2>4
<1>2. ASSUME NEW t \in Tasks, SetStore(t)
      PROVE  [Promise!Next]_([f \in Fields |-> Loaded(f)])
  <2>1. PICK request \in Requests, ok \in WriteResults :
          store(Key[request[1]], request[2], ok)
    BY <1>2 DEF SetStore
  <2> DEFINE g == request[1]
             v == request[2]
  <2>2. g \in Fields /\ v # None /\ Key[g] \in Keys
    BY ValueFacts
  <2>3. CASE ok
    <3>1. flash' = [flash EXCEPT ![Key[g]] = v]
      BY <2>1, <2>3 DEF store
    <3> HIDE DEF g, v
    <3>2. ASSUME NEW f \in Fields
          PROVE  Loaded(f)' = IF f = g THEN v ELSE Loaded(f)
      <4>1. flash'[Key[f]] = IF f = g THEN v ELSE flash[Key[f]]
        BY <1>0, <2>2, <3>1, ValueFacts, FieldAssumption
      <4> QED
        BY <2>2, <4>1 DEF Loaded
    <3>3. [f \in Fields |-> Loaded(f)'] = [[f \in Fields |-> Loaded(f)] EXCEPT ![g] = v]
      BY <2>2, <3>2
    <3> QED
      BY <3>3 DEF Promise!Next, Promise!Set, g, v
  <2>4. CASE ~ok
    <3>1. \A f \in Fields : Loaded(f)' = Loaded(f)
      BY <2>1, <2>4 DEF store, Loaded
    <3> QED
      BY <3>1
  <2> QED
    BY <2>3, <2>4
<1>3. CASE UNCHANGED flash
  <2>1. \A f \in Fields : Loaded(f)' = Loaded(f)
    BY <1>3 DEF Loaded
  <2> QED
    BY <2>1
<1> QED
  BY <1>1, <1>2, <1>3 DEF Next, init_config, Open, Fetch, Apply, PowerLoss, SetPublish, vars

(* The generated code keeps its promise: what a boot loads is a record of  *)
(* settings that starts as the defaults and that only setters change.      *)
THEOREM ConfigImplementsSettings ==
  ASSUME Reliable
  PROVE  Spec => ImplementsSettings
<1>1. Init => Promise!Init
  <2> SUFFICES ASSUME Init PROVE [f \in Fields |-> Loaded(f)] = Default
    BY DEF Promise!Init
  <2>1. \A f \in Fields : Loaded(f) = Default[f]
    BY ValueFacts DEF Init, Loaded
  <2> QED
    BY <2>1, FieldAssumption
<1>2. TypeOK /\ SyncInv /\ [Next]_vars => [Promise!Next]_([f \in Fields |-> Loaded(f)])
  BY StepRefines, Reliable
<1> QED
  BY <1>1, <1>2, SyncInvariant, Reliable, PTL DEF Spec, ImplementsSettings, Promise!Spec
==============================================================================
