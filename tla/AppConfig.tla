------------------------------ MODULE AppConfig ------------------------------
(***************************************************************************)
(* The code define_config! generates (esp-persistent-config/src/lib.rs):   *)
(* a record CONFIG in RAM, a FlashStore STORE, init_config() and a setter  *)
(* for each field.  A step is what happens between two awaits: a fetch, a  *)
(* store, a critical section on CONFIG.  When Preemptive is FALSE the      *)
(* callers share one cooperative executor, where no await of these pends;  *)
(* init_config is then called before the tasks are started (README.md).    *)
(* Power may fail between any two steps.                                   *)
(***************************************************************************)
EXTENDS FlashStore, Sequences

CONSTANTS
  Tasks,      \* the tasks that call setters
  Fields,     \* the fields of the struct
  Order,      \* the fields in the order of the struct
  Key,        \* the u8 key of each field
  Default,    \* the default of each field
  Requests,   \* the calls of setters: pairs of a field and a value
  Zero,       \* what a zeroed field reads as
  Preemptive  \* TRUE: calls interleave

ASSUME FieldAssumption ==
  /\ Order \in Seq(Fields)
  /\ \A f \in Fields : \E i \in 1 .. Len(Order) : Order[i] = f
  /\ Key \in [Fields -> 0 .. 255]
  /\ \A f, g \in Fields : Key[f] = Key[g] => f = g
  /\ Default = [f \in Fields |-> Default[f]]
  /\ \A r \in Requests : r[1] \in Fields /\ r = <<r[1], r[2]>>
  /\ \A f \in Fields : Default[f] # None
  /\ \A r \in Requests : r[2] # None
  /\ Preemptive \in BOOLEAN

Keys == {Key[f] : f \in Fields}

VARIABLES
  opened,  \* STORE holds a MapStorage (FlashStore::init has run)
  CONFIG,  \* the record in RAM
  boot,    \* progress of init_config
  task     \* progress of the setter each task is in

vars == <<flash, opened, CONFIG, boot, task>>

Idle == [pc |-> "idle", field |-> None, val |-> None]
BootAt(pc, i, val) == [pc |-> pc, i |-> i, val |-> val]

Init ==
  /\ flash = [k \in Keys |-> None]
  /\ opened = FALSE
  /\ CONFIG = [f \in Fields |-> Zero]
  /\ boot = BootAt("open", 1, None)
  /\ task = [t \in Tasks |-> Idle]

-----------------------------------------------------------------------------
(* init_config.                                                            *)

Up == boot.pc = "fetch" /\ boot.i > Len(Order)
Field == Order[boot.i]

Open ==
  /\ boot.pc = "open"
  /\ opened' = TRUE
  /\ boot' = BootAt("fetch", 1, None)
  /\ UNCHANGED <<flash, CONFIG, task>>

\* Faulty variant: a missing item is applied like one that was found.
Fetch_NoDefault ==
  /\ boot.pc = "fetch" /\ ~Up
  /\ \E failed \in ReadErrors({Key[Field]}) :
       boot' = BootAt("apply", boot.i, fetch(Key[Field], failed))
  /\ UNCHANGED <<flash, opened, CONFIG, task>>
\* Faulty variant: every boot is taken for the first.
Fetch_AlwaysFirst ==
  /\ boot.pc = "fetch" /\ ~Up
  /\ boot' = BootAt("default", boot.i, Default[Field])
  /\ UNCHANGED <<flash, opened, CONFIG, task>>

Fetch ==
  /\ boot.pc = "fetch" /\ ~Up
  /\ \E failed \in ReadErrors({Key[Field]}) :
       LET got == fetch(Key[Field], failed)
       IN boot' = IF got = None THEN BootAt("default", boot.i, Default[Field])
                                ELSE BootAt("apply", boot.i, got)
  /\ UNCHANGED <<flash, opened, CONFIG, task>>

\* What the store returns is ignored.
StoreDefault ==
  /\ boot.pc = "default"
  /\ \E ok \in WriteResults : store(Key[Field], boot.val, ok)
  /\ boot' = BootAt("apply", boot.i, boot.val)
  /\ UNCHANGED <<opened, CONFIG, task>>

Apply ==
  /\ boot.pc = "apply"
  /\ CONFIG' = [CONFIG EXCEPT ![Field] = boot.val]
  /\ boot' = BootAt("fetch", boot.i + 1, None)
  /\ UNCHANGED <<flash, opened, task>>

-----------------------------------------------------------------------------
(* The setters.  Before STORE is opened they return false.                 *)

MayRun(t) == Preemptive \/ (Up /\ \A u \in Tasks \ {t} : task[u] = Idle)

\* Faulty variant: does not look at what the store returned.
SetStore_IgnoresResult(t) ==
  \E request \in Requests, ok \in WriteResults :
    /\ task[t] = Idle /\ MayRun(t)
    /\ opened
    /\ store(Key[request[1]], request[2], ok)
    /\ task' = [task EXCEPT ![t] =
                  [pc |-> "publish", field |-> request[1], val |-> request[2]]]
    /\ UNCHANGED <<opened, CONFIG, boot>>

SetStore(t) ==
  \E request \in Requests, ok \in WriteResults :
    /\ task[t] = Idle /\ MayRun(t)
    /\ opened
    /\ store(Key[request[1]], request[2], ok)
    /\ task' = IF ok
               THEN [task EXCEPT ![t] =
                       [pc |-> "publish", field |-> request[1], val |-> request[2]]]
               ELSE task
    /\ UNCHANGED <<opened, CONFIG, boot>>

SetPublish(t) ==
  /\ task[t].pc = "publish" /\ MayRun(t)
  /\ CONFIG' = [CONFIG EXCEPT ![task[t].field] = task[t].val]
  /\ task' = [task EXCEPT ![t] = Idle]
  /\ UNCHANGED <<flash, opened, boot>>

PowerLoss ==
  /\ opened' = FALSE
  /\ CONFIG' = [f \in Fields |-> Zero]
  /\ boot' = BootAt("open", 1, None)
  /\ task' = [t \in Tasks |-> Idle]
  /\ UNCHANGED flash

init_config == Open \/ Fetch \/ StoreDefault \/ Apply

Next == init_config \/ PowerLoss \/ \E t \in Tasks : SetStore(t) \/ SetPublish(t)

Spec == Init /\ [][Next]_vars

-----------------------------------------------------------------------------
Values == {Zero} \cup {Default[f] : f \in Fields} \cup {r[2] : r \in Requests}

(* The types; init_config has a value to store or to apply, and a setter   *)
(* past its store one to publish.                                          *)
TypeOK ==
  /\ flash \in [Keys -> Values \cup {None}]
  /\ opened \in BOOLEAN
  /\ CONFIG \in [Fields -> Values]
  /\ boot \in [pc : {"open", "fetch", "default", "apply"},
               i : 1 .. Len(Order) + 1, val : Values \cup {None}]
  /\ boot.pc \in {"default", "apply"} => boot.val \in Values /\ boot.i <= Len(Order)
  /\ task \in [Tasks -> [pc : {"idle", "publish"}, field : Fields \cup {None},
                         val : Values \cup {None}]]
  /\ \A t \in Tasks : task[t].pc = "publish" => <<task[t].field, task[t].val>> \in Requests

\* What the next boot loads for a field.
Loaded(f) == IF flash[Key[f]] = None THEN Default[f] ELSE flash[Key[f]]

AboutToPublish(t, f) ==
  task[t].pc = "publish" /\ task[t].field = f /\ task[t].val = Loaded(f)

(* "On first boot the defaults are written; on subsequent boots the stored *)
(* values are loaded" (README.md:84): when init_config has returned, every *)
(* field in RAM is what the next boot loads, whatever cut the boots before *)
(* it short, unless a setter has stored another value and is about to      *)
(* publish it.                                                             *)
ConfigSynced ==
  Up => \A f \in Fields :
          CONFIG[f] = Loaded(f) \/ \E t \in Tasks : AboutToPublish(t, f)

(* "First boot: write the default to flash and apply it" (lib.rs:224): a   *)
(* boot writes a default only where there is no item.                      *)
DefaultsFillGaps ==
  [][~Up => \A k \in Keys : flash[k] # None => flash'[k] = flash[k]]_vars

Promise == INSTANCE Settings WITH value <- [f \in Fields |-> Loaded(f)]

(* What a boot loads is a record that only setters change.                 *)
ImplementsSettings == Promise!Spec
=============================================================================
