----------------------------- MODULE WifiConfig -----------------------------
(***************************************************************************)
(* FlashBackedWifiConfig (esp-wifi/src/config.rs): the saved Wi-Fi         *)
(* configuration, a RAM mirror of it, and the three signals by which the   *)
(* manager calls wake the connection loop.                                 *)
(*                                                                         *)
(* A step of this model is what a task does between two awaits.  store()   *)
(* is a step; so is each critical section on the mutex of the mirror,      *)
(* which no code holds over an await that another call could wait for.     *)
(* When Preemptive is FALSE all callers run on one cooperative executor:   *)
(* no await of a call can pend (the flash driver blocks, the mutexes are   *)
(* free), so a call runs to its end before another one starts.  When it    *)
(* is TRUE the callers are on executors of different priority, which the   *)
(* critical-section mutexes and the "thread-safe" of the type allow, and   *)
(* calls interleave at every await.  Power may fail between any two steps. *)
(***************************************************************************)
EXTENDS FlashStore, FiniteSets, SequencesExt

CONSTANTS
  Tasks,          \* the tasks that call the manager (HTTP workers, buttons)
  N,              \* how many station networks can be saved
  Text,           \* strings that fit String<64>, Empty among them
  Empty,          \* the empty string
  TooLong,        \* a string that does not fit
  CountryCodes,   \* the strings of two ASCII bytes
  DefaultCountry, \* "01"
  Env,            \* the compile-time environment variables
  Calls,          \* the manager calls the tasks may make
  Preemptive,     \* TRUE: calls interleave
  PowerMayFail    \* TRUE: the device may lose power between two steps

-----------------------------------------------------------------------------
AP_ENABLED    == 0
AP_SSID       == 1
AP_PASSWORD   == 2
AP_GATEWAY_IP == 3
STA_ENABLED   == 4
HOSTNAME      == 5
COUNTRY_CODE  == 6

ScalarKeys == AP_ENABLED .. COUNTRY_CODE
FlagKeys   == {AP_ENABLED, STA_ENABLED}

\* The keys of slot i: u8 arithmetic, the cast and the sum both wrap.
sta_ssid_key(i) == (10 + ((i * 2) % 256)) % 256
\* Faulty variant: the password keys are packed without the stride.
sta_pw_key_NoStride(i) == (11 + (i % 256)) % 256

sta_pw_key(i)   == (11 + ((i * 2) % 256)) % 256

Slots == 0 .. N - 1
Keys  == ScalarKeys \cup {sta_ssid_key(i) : i \in Slots}
                    \cup {sta_pw_key(i) : i \in Slots}

\* What an option_env! can be: unset, or a text that fits or does not.
EnvTexts == Text \cup {None, TooLong}
EnvNames == {"AP_SSID", "AP_PASSWORD", "AP_GATEWAY_IP", "STA_SSID",
             "STA_PASSWORD", "HOSTNAME", "WIFI_COUNTRY_CODE"}

\* A flag key is set to a bool, another one to a string.
SetCalls == [op : {"set"}, key : FlagKeys, val : BOOLEAN]
     \cup [op : {"set"}, key : ScalarKeys \ FlagKeys, val : Text \cup {TooLong}]
ConfigureCalls == [op : {"configure_ap"}, ssid : EnvTexts, password : EnvTexts]
AddCalls == [op : {"add"}, ssid : Text \cup {TooLong}, password : EnvTexts,
             connect : BOOLEAN]
RemoveCalls == [op : {"remove"}, index : Nat]

\* Above 123 slots the u8 keys would wrap around onto the scalar keys.
ASSUME SizeAssumption == N \in 1 .. 123

ASSUME TextAssumption ==
  /\ Empty \in Text
  /\ DefaultCountry \in CountryCodes
  /\ CountryCodes \subseteq Text
  /\ None \notin Text \cup BOOLEAN \cup Nat
  /\ TooLong \notin Text \cup BOOLEAN \cup {None}

ASSUME EnvAssumption == Env \in [EnvNames -> EnvTexts]

ASSUME CallsAssumption ==
  /\ Calls \subseteq SetCalls \cup ConfigureCalls \cup AddCalls \cup RemoveCalls
  /\ None \notin SetCalls \cup ConfigureCalls \cup AddCalls \cup RemoveCalls

ASSUME ModeAssumption == Preemptive \in BOOLEAN /\ PowerMayFail \in BOOLEAN

-----------------------------------------------------------------------------
VARIABLES
  data,            \* RAM mirror: the scalar fields of WifiConfigData
  sta_networks,    \* RAM mirror: the saved networks
  boot,            \* progress of init()
  task,            \* progress of the call each task is in
  AP_RECONFIG, STA_TOGGLED,  \* is the signal raised
  CONNECT_REQUEST, \* the index in the signal, or None
  era              \* history: has a boot completed, has a call stored since

ram     == <<data, sta_networks>>
signals == <<AP_RECONFIG, STA_TOGGLED, CONNECT_REQUEST>>
vars    == <<flash, data, sta_networks, boot, task, AP_RECONFIG, STA_TOGGLED,
             CONNECT_REQUEST, era>>

\* Option<String> to the item stored for it, and an item to the Option that
\* init reads back.
OrEmpty(p) == IF p = None THEN Empty ELSE p
Filtered(p) == IF p = Empty THEN None ELSE p

Network(ssid, password) == [ssid |-> ssid, password |-> password]
Networks == [ssid : Text, password : Text \cup {None}]

\* String::try_from(text).ok()
Fitting(text) == IF text \in Text THEN text ELSE None

-----------------------------------------------------------------------------
(* What init finds and writes.                                             *)

NewData == [k \in ScalarKeys |->
  CASE k = AP_ENABLED  -> Env.AP_SSID # None
    [] k = STA_ENABLED -> Env.STA_SSID # None
    [] OTHER           -> None]

\* The value init writes under a key it found missing, None for no write.
Default == [k \in ScalarKeys |->
  CASE k \in FlagKeys     -> NewData[k]
    [] k = AP_SSID        -> Fitting(Env.AP_SSID)
    [] k = AP_PASSWORD    -> Fitting(Env.AP_PASSWORD)
    [] k = AP_GATEWAY_IP  -> Fitting(Env.AP_GATEWAY_IP)
    [] k = HOSTNAME       -> Fitting(Env.HOSTNAME)
    [] k = COUNTRY_CODE   -> IF Env.WIFI_COUNTRY_CODE = None
                             THEN DefaultCountry
                             ELSE Fitting(Env.WIFI_COUNTRY_CODE)]

\* The order of the default writes; sta_ssid_key(0) is the station network.
DefaultOrder == <<AP_ENABLED, STA_ENABLED, AP_SSID, AP_PASSWORD,
                  AP_GATEWAY_IP, sta_ssid_key(0), HOSTNAME, COUNTRY_CODE>>

PoweredOn == [pc |-> "scalars", i |-> 0, missing |-> {}]

\* A call in progress: where it is, its arguments, the slot it writes, the
\* list it writes from, and whether all went well so far.
Frame(pc, call, i, networks, ok) ==
  [pc |-> pc, call |-> call, i |-> i, networks |-> networks, ok |-> ok]
Idle == Frame("idle", None, 0, <<>>, TRUE)

\* RAM after a reset: statics as the program image has them.
ResetRam ==
  /\ data' = NewData
  /\ sta_networks' = <<>>
  /\ boot' = PoweredOn
  /\ task' = [t \in Tasks |-> Idle]
  /\ AP_RECONFIG' = FALSE
  /\ STA_TOGGLED' = FALSE
  /\ CONNECT_REQUEST' = None

Init ==
  /\ flash = [k \in Keys |-> None]
  /\ data = NewData
  /\ sta_networks = <<>>
  /\ boot = PoweredOn
  /\ task = [t \in Tasks |-> Idle]
  /\ AP_RECONFIG = FALSE
  /\ STA_TOGGLED = FALSE
  /\ CONNECT_REQUEST = None
  /\ era = "factory"

Up == boot.pc = "up"

-----------------------------------------------------------------------------
(* init(): load what flash holds, then write the defaults that are missing. *)

\* Faulty variant: takes every boot for the first one.
LoadScalars_AlwaysFirst ==
  /\ boot.pc = "scalars"
  /\ data' = [k \in ScalarKeys |-> IF flash[k] = None THEN data[k] ELSE flash[k]]
  /\ boot' = [pc |-> "slots", i |-> 0, missing |-> ScalarKeys]
  /\ UNCHANGED <<flash, sta_networks, task, signals, era>>

LoadScalars ==
  /\ boot.pc = "scalars"
  /\ \E failed \in ReadErrors(ScalarKeys) :
       LET got == [k \in ScalarKeys |-> fetch(k, failed)] IN
       /\ data' = [k \in ScalarKeys |-> IF got[k] = None THEN data[k] ELSE got[k]]
       /\ boot' = [pc |-> "slots", i |-> 0,
                   missing |-> {k \in ScalarKeys : got[k] = None}]
  /\ UNCHANGED <<flash, sta_networks, task, signals, era>>

BootAt(pc, i) == boot' = [pc |-> pc, i |-> i, missing |-> boot.missing]

LoadSlot ==
  /\ boot.pc = "slots"
  /\ \E failed \in ReadErrors({sta_ssid_key(boot.i), sta_pw_key(boot.i)}) :
       LET ssid     == fetch(sta_ssid_key(boot.i), failed)
           password == Filtered(fetch(sta_pw_key(boot.i), failed))
       IN sta_networks' = IF ssid \in {None, Empty} THEN sta_networks
                          ELSE Append(sta_networks, Network(ssid, password))
  /\ IF boot.i + 1 < N THEN BootAt("slots", boot.i + 1) ELSE BootAt("defaults", 1)
  /\ UNCHANGED <<flash, data, task, signals, era>>

NextDefault == BootAt("defaults", boot.i + 1)

\* The default of a scalar key.  The flag keys have theirs in RAM already.
WriteDefault ==
  /\ boot.pc = "defaults"
  /\ boot.i <= Len(DefaultOrder)
  /\ LET k == DefaultOrder[boot.i] IN
     /\ k \in ScalarKeys
     /\ IF k \in boot.missing /\ Default[k] # None
        THEN \E ok \in WriteResults :
               /\ store(k, Default[k], ok)
               /\ data' = IF ok THEN [data EXCEPT ![k] = Default[k]] ELSE data
        ELSE UNCHANGED <<flash, data>>
  /\ NextDefault
  /\ UNCHANGED <<sta_networks, task, signals, era>>

\* The default network goes to slot 0 when no network was loaded.
WriteDefaultNetwork ==
  /\ boot.pc = "defaults"
  /\ boot.i <= Len(DefaultOrder)
  /\ DefaultOrder[boot.i] = sta_ssid_key(0)
  /\ IF sta_networks = <<>> /\ Fitting(Env.STA_SSID) # None
     THEN \E ok \in WriteResults :
            /\ store(sta_ssid_key(0), Env.STA_SSID, ok)
            /\ IF ok THEN BootAt("sta_password", boot.i) ELSE NextDefault
     ELSE UNCHANGED flash /\ NextDefault
  /\ UNCHANGED <<ram, task, signals, era>>

WriteDefaultPassword ==
  /\ boot.pc = "sta_password"
  /\ \E ok \in WriteResults :
       /\ store(sta_pw_key(0), OrEmpty(Fitting(Env.STA_PASSWORD)), ok)
       /\ IF ok
          THEN /\ sta_networks' = Append(sta_networks,
                    Network(Env.STA_SSID, Fitting(Env.STA_PASSWORD)))
               /\ data' = [data EXCEPT ![STA_ENABLED] = TRUE]
               /\ BootAt("sta_enabled", boot.i)
          ELSE NextDefault /\ UNCHANGED ram
  /\ UNCHANGED <<task, signals, era>>

\* Faulty variant: enables the station in RAM only.
WriteDefaultStaEnabled_RamOnly ==
  /\ boot.pc = "sta_enabled"
  /\ NextDefault
  /\ UNCHANGED <<flash, ram, task, signals, era>>

WriteDefaultStaEnabled ==
  /\ boot.pc = "sta_enabled"
  /\ \E ok \in WriteResults : store(STA_ENABLED, TRUE, ok)
  /\ NextDefault
  /\ UNCHANGED <<ram, task, signals, era>>

\* Faulty variant: one default too few.
BootDone_OneEarly ==
  /\ boot.pc = "defaults"
  /\ boot.i >= Len(DefaultOrder)
  /\ boot' = [pc |-> "up", i |-> 0, missing |-> {}]
  /\ era' = IF era = "factory" THEN "provisioned" ELSE era
  /\ UNCHANGED <<flash, ram, task, signals>>

BootDone ==
  /\ boot.pc = "defaults"
  /\ boot.i > Len(DefaultOrder)
  /\ boot' = [pc |-> "up", i |-> 0, missing |-> {}]
  /\ era' = IF era = "factory" THEN "provisioned" ELSE era
  /\ UNCHANGED <<flash, ram, task, signals>>

-----------------------------------------------------------------------------
(* The manager calls.  A call that its arguments make fail at once, before *)
(* it changes anything, is not a step.                                     *)

CanBegin(t) ==
  /\ Up
  /\ task[t] = Idle
  /\ Preemptive \/ \A u \in Tasks : task[u] = Idle

Goto(t, pc) ==
  LET f == task[t]
  IN task' = [task EXCEPT ![t] = Frame(pc, f.call, f.i, f.networks, f.ok)]
Return(t)   == task' = [task EXCEPT ![t] = Idle]

Edited(ok) == era' = IF ok THEN "edited" ELSE era

\* Faulty variant: does not look at what the store returned.
Set_IgnoresResult(t) ==
  \E c \in Calls, ok \in WriteResults :
    /\ CanBegin(t)
    /\ c.op = "set"
    /\ c.val # TooLong
    /\ c.key = COUNTRY_CODE => c.val \in CountryCodes
    /\ store(c.key, c.val, ok)
    /\ task' = [task EXCEPT ![t] = Frame("publish", c, 0, <<>>, TRUE)]
    /\ Edited(ok)
    /\ UNCHANGED <<ram, boot, signals>>

\* set_ap_enabled, set_ap_ssid, set_ap_password, set_ap_gateway_ip,
\* set_sta_enabled, set_country_code, set_hostname: store first.
Set(t) ==
  \E c \in Calls, ok \in WriteResults :
    /\ CanBegin(t)
    /\ c.op = "set"
    /\ c.val # TooLong
    /\ c.key = COUNTRY_CODE => c.val \in CountryCodes
    /\ store(c.key, c.val, ok)
    /\ task' = IF ok THEN [task EXCEPT ![t] = Frame("publish", c, 0, <<>>, TRUE)]
               ELSE task
    /\ Edited(ok)
    /\ UNCHANGED <<ram, boot, signals>>

\* ... then the mirror, and the signal of the field or a software reset.
ResetKeys == {AP_GATEWAY_IP, HOSTNAME, COUNTRY_CODE}

\* Faulty variant: the toggle is announced only when the station is turned on.
Publish_OnOnly(t) ==
  LET c == task[t].call IN
  /\ task[t].pc = "publish"
  /\ c.key \notin ResetKeys
  /\ data' = [data EXCEPT ![c.key] = c.val]
  /\ AP_RECONFIG' = (AP_RECONFIG \/ c.key # STA_ENABLED)
  /\ STA_TOGGLED' = (STA_TOGGLED \/ (c.key = STA_ENABLED /\ c.val))
  /\ Return(t)
  /\ UNCHANGED <<flash, sta_networks, boot, CONNECT_REQUEST, era>>

Publish(t) ==
  LET c == task[t].call IN
  /\ task[t].pc = "publish"
  /\ c.key \notin ResetKeys
  /\ data' = [data EXCEPT ![c.key] = c.val]
  /\ AP_RECONFIG' = (AP_RECONFIG \/ c.key # STA_ENABLED)
  /\ STA_TOGGLED' = (STA_TOGGLED \/ c.key = STA_ENABLED)
  /\ Return(t)
  /\ UNCHANGED <<flash, sta_networks, boot, CONNECT_REQUEST, era>>

PublishByReset(t) ==
  /\ task[t].pc = "publish"
  /\ task[t].call.key \in ResetKeys
  /\ ResetRam
  /\ UNCHANGED <<flash, era>>

\* configure_ap tries the password even when the SSID failed.
ConfigureApSsid(t) ==
  \E c \in Calls :
    /\ CanBegin(t)
    /\ c.op = "configure_ap"
    /\ IF c.ssid \in Text
       THEN \E ok \in WriteResults :
              /\ store(AP_SSID, c.ssid, ok)
              /\ task' = [task EXCEPT ![t] =
                   Frame(IF ok THEN "ap_ssid_mirror" ELSE "ap_password",
                         c, 0, <<>>, ok)]
              /\ Edited(ok)
       ELSE /\ task' = [task EXCEPT ![t] =
                 Frame("ap_password", c, 0, <<>>, c.ssid = None)]
            /\ UNCHANGED <<flash, era>>
    /\ UNCHANGED <<ram, boot, signals>>

\* Faulty variant: forgets the mirror of the SSID.
ConfigureApSsidMirror_Forgotten(t) ==
  /\ task[t].pc = "ap_ssid_mirror"
  /\ Goto(t, "ap_password")
  /\ UNCHANGED <<flash, ram, boot, signals, era>>

ConfigureApSsidMirror(t) ==
  /\ task[t].pc = "ap_ssid_mirror"
  /\ data' = [data EXCEPT ![AP_SSID] = task[t].call.ssid]
  /\ Goto(t, "ap_password")
  /\ UNCHANGED <<flash, sta_networks, boot, signals, era>>

ConfigureApPassword(t) ==
  LET c == task[t].call IN
  /\ task[t].pc = "ap_password"
  /\ c.password \in Text
  /\ \E ok \in WriteResults :
       /\ store(AP_PASSWORD, c.password, ok)
       /\ IF ok THEN Goto(t, "ap_password_mirror") ELSE Return(t)
       /\ Edited(ok)
  /\ UNCHANGED <<ram, boot, signals>>

ConfigureApPasswordMirror(t) ==
  /\ task[t].pc = "ap_password_mirror"
  /\ data' = [data EXCEPT ![AP_PASSWORD] = task[t].call.password]
  /\ AP_RECONFIG' = (AP_RECONFIG \/ task[t].ok)
  /\ Return(t)
  /\ UNCHANGED <<flash, sta_networks, boot, STA_TOGGLED, CONNECT_REQUEST, era>>

\* The call has no password, or one that does not fit.
ConfigureApNoPassword(t) ==
  /\ task[t].pc = "ap_password"
  /\ task[t].call.password \notin Text
  /\ AP_RECONFIG' = (AP_RECONFIG \/ (task[t].ok /\ task[t].call.password = None))
  /\ Return(t)
  /\ UNCHANGED <<flash, ram, boot, STA_TOGGLED, CONNECT_REQUEST, era>>

\* add_sta_network reads the index of the new network under the lock.
AddSta(t) ==
  \E c \in Calls :
    /\ CanBegin(t)
    /\ c.op = "add"
    /\ c.ssid # TooLong /\ c.password # TooLong
    /\ Len(sta_networks) < N
    /\ task' = [task EXCEPT ![t] =
                  Frame("slot_ssid", c, Len(sta_networks), <<>>, TRUE)]
    /\ UNCHANGED <<flash, ram, boot, signals, era>>

\* remove_sta_network updates the mirror first, then rewrites every slot
\* from its own copy of the list.
RemoveSta(t) ==
  \E c \in Calls :
    /\ CanBegin(t)
    /\ c.op = "remove"
    /\ c.index < Len(sta_networks)
    /\ sta_networks' = RemoveAt(sta_networks, c.index + 1)
    /\ task' = [task EXCEPT ![t] =
                  Frame("slot_ssid", c, 0, sta_networks', TRUE)]
    /\ UNCHANGED <<flash, data, boot, signals, era>>

\* Faulty variant: the last network of the copy is taken for a free slot.
SlotNetwork_LastCleared(f) ==
  IF f.call.op = "add" THEN Network(f.call.ssid, f.call.password)
  ELSE IF f.i + 1 < Len(f.networks) THEN f.networks[f.i + 1]
  ELSE Network(Empty, None)

\* What the call of a frame writes to the slot it has come to.
SlotNetwork(f) ==
  IF f.call.op = "add" THEN Network(f.call.ssid, f.call.password)
  ELSE IF f.i < Len(f.networks) THEN f.networks[f.i + 1]
  ELSE Network(Empty, None)

\* write_sta_slot, one store each; the first failure ends the call.
WriteSlotSsid(t) ==
  /\ task[t].pc = "slot_ssid"
  /\ \E ok \in WriteResults :
       /\ store(sta_ssid_key(task[t].i), SlotNetwork(task[t]).ssid, ok)
       /\ IF ok THEN Goto(t, "slot_password") ELSE Return(t)
       /\ Edited(ok)
  /\ UNCHANGED <<ram, boot, signals>>

\* Faulty variant: remove stops at the end of the new list.
WriteSlotPassword_NoClear(t) ==
  LET f == task[t] IN
  /\ f.pc = "slot_password"
  /\ \E ok \in WriteResults :
       /\ store(sta_pw_key(f.i), OrEmpty(SlotNetwork(f).password), ok)
       /\ IF ok /\ f.call.op = "add" THEN Goto(t, "push")
          ELSE IF ok /\ f.i + 1 < Len(f.networks)
          THEN task' = [task EXCEPT ![t] =
                          Frame("slot_ssid", f.call, f.i + 1, f.networks, TRUE)]
          ELSE Return(t)
       /\ Edited(ok)
  /\ UNCHANGED <<ram, boot, signals>>

WriteSlotPassword(t) ==
  LET f == task[t] IN
  /\ f.pc = "slot_password"
  /\ \E ok \in WriteResults :
       /\ store(sta_pw_key(f.i), OrEmpty(SlotNetwork(f).password), ok)
       /\ IF ok /\ f.call.op = "add" THEN Goto(t, "push")
          ELSE IF ok /\ f.i + 1 < N
          THEN task' = [task EXCEPT ![t] =
                          Frame("slot_ssid", f.call, f.i + 1, f.networks, TRUE)]
          ELSE Return(t)
       /\ Edited(ok)
  /\ UNCHANGED <<ram, boot, signals>>

\* push() on a full Vec returns Err, which add_sta_network ignores.
PushSta(t) ==
  LET c == task[t].call IN
  /\ task[t].pc = "push"
  /\ sta_networks' = IF Len(sta_networks) < N
                     THEN Append(sta_networks, Network(c.ssid, c.password))
                     ELSE sta_networks
  /\ IF c.connect THEN Goto(t, "connect") ELSE Return(t)
  /\ UNCHANGED <<flash, data, boot, signals, era>>

\* Faulty variants: the length for the last index; always the first network.
Connect_Length(t) ==
  /\ task[t].pc = "connect"
  /\ CONNECT_REQUEST' = Len(sta_networks)
  /\ Return(t)
  /\ UNCHANGED <<flash, ram, boot, AP_RECONFIG, STA_TOGGLED, era>>

Connect_First(t) ==
  /\ task[t].pc = "connect"
  /\ CONNECT_REQUEST' = 0
  /\ Return(t)
  /\ UNCHANGED <<flash, ram, boot, AP_RECONFIG, STA_TOGGLED, era>>

\* add_and_connect_sta_network asks for len.saturating_sub(1).
Connect(t) ==
  /\ task[t].pc = "connect"
  /\ CONNECT_REQUEST' = IF sta_networks = <<>> THEN 0 ELSE Len(sta_networks) - 1
  /\ Return(t)
  /\ UNCHANGED <<flash, ram, boot, AP_RECONFIG, STA_TOGGLED, era>>

-----------------------------------------------------------------------------
\* The connection loop takes a raised signal.
TakeSignal ==
  /\ \/ AP_RECONFIG /\ AP_RECONFIG' = FALSE /\ UNCHANGED <<STA_TOGGLED, CONNECT_REQUEST>>
     \/ STA_TOGGLED /\ STA_TOGGLED' = FALSE /\ UNCHANGED <<AP_RECONFIG, CONNECT_REQUEST>>
     \/ /\ CONNECT_REQUEST # None
        /\ CONNECT_REQUEST' = None
        /\ UNCHANGED <<AP_RECONFIG, STA_TOGGLED>>
  /\ UNCHANGED <<flash, ram, boot, task, era>>

\* Power fails and comes back.
PowerLoss ==
  /\ PowerMayFail
  /\ ResetRam
  /\ UNCHANGED <<flash, era>>

Boot == \/ LoadScalars \/ LoadSlot
        \/ WriteDefault \/ WriteDefaultNetwork
        \/ WriteDefaultPassword \/ WriteDefaultStaEnabled
        \/ BootDone

Step(t) == \/ Set(t) \/ Publish(t) \/ PublishByReset(t)
           \/ ConfigureApSsid(t) \/ ConfigureApSsidMirror(t)
           \/ ConfigureApPassword(t) \/ ConfigureApPasswordMirror(t)
           \/ ConfigureApNoPassword(t)
           \/ AddSta(t) \/ RemoveSta(t)
           \/ WriteSlotSsid(t) \/ WriteSlotPassword(t)
           \/ PushSta(t) \/ Connect(t)

Next == Boot \/ TakeSignal \/ PowerLoss \/ \E t \in Tasks : Step(t)

Spec == Init /\ [][Next]_vars
-----------------------------------------------------------------------------
(* What the module must guarantee.                                         *)

\* What may be under a key, and in a field of the mirror.
Values == Text \cup BOOLEAN \cup {None}
ItemsAt(k) == {None} \cup IF k \in FlagKeys THEN BOOLEAN ELSE Text
FieldsAt(k) == IF k \in FlagKeys THEN BOOLEAN ELSE Text \cup {None}

TaskPCs == {"idle", "publish", "ap_ssid_mirror", "ap_password",
            "ap_password_mirror", "slot_ssid", "slot_password", "push",
            "connect"}
BootPCs == {"scalars", "slots", "defaults", "sta_password", "sta_enabled", "up"}

Frames == [pc : TaskPCs, call : Calls \cup {None}, i : 0 .. N,
           networks : Seq(Networks), ok : BOOLEAN]

FlashTyped ==
  flash \in [Keys -> Values] /\ \A k \in Keys : flash[k] \in ItemsAt(k)

RamTyped ==
  /\ data \in [ScalarKeys -> Values]
  /\ \A k \in ScalarKeys : data[k] \in FieldsAt(k)
  /\ sta_networks \in Seq(Networks) /\ Len(sta_networks) <= N

SignalsTyped ==
  /\ AP_RECONFIG \in BOOLEAN /\ STA_TOGGLED \in BOOLEAN
  /\ CONNECT_REQUEST \in Slots \cup {None}

\* The types, and the capacity of the list: the Vec never holds more than N
\* networks and a connect request always is an index below N.
TypeOK ==
  /\ FlashTyped /\ RamTyped /\ SignalsTyped
  /\ boot \in [pc : BootPCs, i : Nat, missing : SUBSET ScalarKeys]
  /\ task \in [Tasks -> Frames]
  /\ era \in {"factory", "provisioned", "edited"}

Quiescent == Up /\ \A t \in Tasks : task[t] = Idle

\* What a reboot would load for a scalar field.
Loaded(k) == IF flash[k] = None THEN NewData[k] ELSE flash[k]

\* Task t has stored what flash holds under k and is about to mirror it.
AboutToMirror(t, k) ==
  LET f == task[t] IN
  \/ f.pc = "publish" /\ f.call.key = k /\ f.call.val = flash[k]
  \/ f.pc = "ap_ssid_mirror" /\ k = AP_SSID /\ f.call.ssid = flash[k]
  \/ f.pc = "ap_password_mirror" /\ k = AP_PASSWORD /\ f.call.password = flash[k]

\* The RAM mirror of a scalar field is what a reboot would load, or the call
\* that has just stored a new value is about to mirror it (config.rs:59).
\* No setting shown by the running device is lost or replaced by a reset.
ScalarsSynced ==
  Up => \A k \in ScalarKeys :
          data[k] = Loaded(k) \/ \E t \in Tasks : AboutToMirror(t, k)

\* Slot i of flash would be loaded as network n.
Holds(i, n) ==
  /\ flash[sta_ssid_key(i)] = n.ssid
  /\ Filtered(flash[sta_pw_key(i)]) = Filtered(n.password)

\* Between calls the slots hold exactly the networks of the mirror, in their
\* order and from slot 0 on (config.rs:59): the indices the calls and the
\* connection loop use mean the same networks before and after a reset.
NetworksSynced ==
  Quiescent => \A i \in Slots :
    IF i < Len(sta_networks) THEN Holds(i, sta_networks[i + 1])
    ELSE flash[sta_ssid_key(i)] \in {None, Empty}

\* At every instant each network of the mirror is in some slot of flash:
\* neither the rewriting of the slots by remove_sta_network nor the index
\* add_sta_network writes to loses a saved network (system-api lib.rs:68).
NetworksDurable ==
  Up => \A n \in 1 .. Len(sta_networks) :
          \E i \in Slots : Holds(i, sta_networks[n])

\* A network of the mirror is one that some call or the environment gave:
\* no SSID is ever joined with the password of another network, not even
\* after a reset (system-api lib.rs:42).
NetworksAsGiven ==
  \A n \in 1 .. Len(sta_networks) :
    \/ \E c \in Calls :
         /\ c.op = "add"
         /\ sta_networks[n].ssid = c.ssid
         /\ Filtered(sta_networks[n].password) = Filtered(c.password)
    \/ /\ sta_networks[n].ssid = Env.STA_SSID
       /\ Filtered(sta_networks[n].password) = Filtered(Fitting(Env.STA_PASSWORD))

\* The request of add_and_connect_sta_network names the network it has just
\* saved (system-api lib.rs:70).
ConnectNamesNewest ==
  [][\A t \in Tasks : LET c == task[t].call IN
       Connect(t) => /\ CONNECT_REQUEST' < Len(sta_networks)
                     /\ sta_networks[CONNECT_REQUEST' + 1]
                          = Network(c.ssid, c.password)]_vars

\* Once a boot has completed, booting never writes flash: what the user
\* changed or removed does not come back as a default (README.md:131).
DefaultsOnce == [][era # "factory" /\ ~Up => UNCHANGED flash]_vars

\* When the first boot completes, every default that is set is in flash
\* (config.rs:60, 67).
FirstBootComplete ==
  Up /\ era = "provisioned" =>
    /\ \A k \in ScalarKeys : Default[k] # None => flash[k] = Default[k]
    /\ Fitting(Env.STA_SSID) # None =>
         Holds(0, Network(Env.STA_SSID, Fitting(Env.STA_PASSWORD)))

\* What the connection loop sees: no configuration while init runs, and a
\* signal as raised from the step on that changes what it announces, although
\* configure_ap and add_and_connect_sta_network raise theirs in a later one.
LoopConfig ==
  IF Up THEN [ap |-> data[AP_ENABLED], sta |-> data[STA_ENABLED],
              ap_conf |-> <<data[AP_SSID], data[AP_PASSWORD]>>,
              networks |-> sta_networks]
  ELSE None
LoopReconfig ==
  AP_RECONFIG \/ \E t \in Tasks : task[t].pc \in {"ap_password", "ap_password_mirror"}
LoopRequest ==
  IF \E t \in Tasks : task[t].pc = "connect" THEN Len(sta_networks) - 1
  ELSE CONNECT_REQUEST

Interface == INSTANCE WifiManager WITH
  ApConfs <- (Text \cup {None}) \X (Text \cup {None}),
  config <- LoopConfig, AP_RECONFIG <- LoopReconfig, CONNECT_REQUEST <- LoopRequest

\* Seen from the connection loop the manager calls are single steps that change
\* one part of the configuration and raise the signal of that part, and while
\* the device is up only the loop lowers one: no change goes unannounced, other
\* than the adds and removals that announce nothing, and no request is lost or
\* named before its network is there (the environment of Connection).
ImplementsManager ==
  Interface!ManagerSpec /\ [][Interface!Take /\ Up' => TakeSignal]_vars

\* The pairs of a scalar key and a value that the calls ask for and accept.
Accepted ==
  LET sets == {c \in Calls : c.op = "set"}
      aps  == {c \in Calls : c.op = "configure_ap"}
  IN {<<c.key, c.val>> : c \in {s \in sets : /\ s.val # TooLong
                                             /\ s.key = COUNTRY_CODE => s.val \in CountryCodes}}
     \cup {<<AP_SSID, c.ssid>> : c \in {s \in aps : s.ssid \in Text}}
     \cup {<<AP_PASSWORD, c.password>> : c \in {s \in aps : s.password \in Text}}

\* What flash keeps of a scalar setting; a key without an item stands for the
\* default that init writes under it.
Promise == INSTANCE Settings WITH
  Fields <- ScalarKeys, Requests <- Accepted,
  value <- [k \in ScalarKeys |-> IF flash[k] = None THEN Default[k] ELSE flash[k]]

\* The scalar settings in flash start as the defaults and change by calls only,
\* one at a time and to a value that a call was given and accepts: no boot,
\* reset, power loss or failed store changes one (README.md:131), and half a
\* configure_ap leaves one of its two texts.
ImplementsSettings == Promise!Spec

\* Between calls, the pair of AP SSID and AP password is the default one or
\* the one some call of configure_ap asked for (system-api lib.rs:61).  Only
\* for Calls whose configure_ap calls all give both and that have no
\* set_ap_ssid and set_ap_password.
ApPairFromOneCall ==
  Quiescent =>
    <<data[AP_SSID], data[AP_PASSWORD]>> \in
       {<<Default[AP_SSID], Default[AP_PASSWORD]>>}
       \cup {<<c.ssid, c.password>> : c \in {c \in Calls : c.op = "configure_ap"}}
=============================================================================
