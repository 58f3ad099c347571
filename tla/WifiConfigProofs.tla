-------------------------- MODULE WifiConfigProofs --------------------------
(***************************************************************************)
(* Proofs about WifiConfig for every number of tasks, slots, texts and     *)
(* calls.                                                                  *)
(***************************************************************************)
EXTENDS WifiConfig, SequenceTheorems, TLAPS

\* The u8 arithmetic of the slot keys does not wrap, and no slot key is the
\* key of a scalar field.
LEMMA SlotKeys ==
  ASSUME NEW i \in Slots
  PROVE  /\ sta_ssid_key(i) = 10 + 2 * i /\ sta_pw_key(i) = 11 + 2 * i
         /\ sta_ssid_key(i) \in Keys \ ScalarKeys
         /\ sta_pw_key(i) \in Keys \ ScalarKeys
<1>1. i \in 0 .. 122
  BY SizeAssumption DEF Slots
<1>2. (i * 2) % 256 = 2 * i
  BY <1>1
<1>3. sta_ssid_key(i) = 10 + 2 * i /\ sta_pw_key(i) = 11 + 2 * i
  BY <1>1, <1>2 DEF sta_ssid_key, sta_pw_key
<1>4. sta_ssid_key(i) \in Keys /\ sta_pw_key(i) \in Keys
  BY DEF Keys
<1> QED
  BY <1>1, <1>3, <1>4 DEF ScalarKeys, AP_ENABLED, COUNTRY_CODE

\* No two items share a key: two slots have different keys, and the SSID and
\* the password of a slot do too.
THEOREM SlotKeysDistinct ==
  ASSUME NEW i \in Slots, NEW j \in Slots
  PROVE  /\ sta_ssid_key(i) # sta_pw_key(j)
         /\ sta_ssid_key(i) = sta_ssid_key(j) => i = j
         /\ sta_pw_key(i) = sta_pw_key(j) => i = j
<1>1. i \in Int /\ j \in Int
  BY SizeAssumption DEF Slots
<1> QED
  BY <1>1, SlotKeys

\* With at most 20 networks the Wi-Fi keys stay in the range 0-49 the README
\* reserves for them (README.md:84, 285).
THEOREM KeysReserved ==
  ASSUME N <= 20
  PROVE  Keys \subseteq 0 .. 49
<1>1. \A i \in Slots : i \in 0 .. 19
  BY SizeAssumption DEF Slots
<1>2. \A i \in Slots : sta_ssid_key(i) \in 0 .. 49 /\ sta_pw_key(i) \in 0 .. 49
  BY <1>1, SlotKeys
<1> QED
  BY <1>2 DEF Keys, ScalarKeys, AP_ENABLED, COUNTRY_CODE

\* The op of a call tells which arguments it has.
LEMMA CallKinds ==
  ASSUME NEW c \in Calls
  PROVE  /\ c.op = "set" => c \in SetCalls
         /\ c.op = "configure_ap" => c \in ConfigureCalls
         /\ c.op = "add" => c \in AddCalls
         /\ c.op = "remove" => c \in RemoveCalls
BY CallsAssumption DEF SetCalls, ConfigureCalls, AddCalls, RemoveCalls

-----------------------------------------------------------------------------
(* Type correctness.  TypeOK is not inductive: what a step writes depends   *)
(* on the arguments of the call the task is in and on how far init() is.    *)

\* An add call whose arguments fit.
FittingAdd(c) == c \in AddCalls /\ c.ssid # TooLong /\ c.password # TooLong

\* Where a frame is, its call is of the kind that can be there.
FrameOK(f) ==
  /\ f.pc = "publish" => f.call \in SetCalls /\ f.call.val # TooLong
  /\ f.pc \in {"ap_ssid_mirror", "ap_password", "ap_password_mirror"}
       => f.call \in ConfigureCalls
  /\ f.pc = "ap_ssid_mirror" => f.call.ssid \in Text
  /\ f.pc = "ap_password_mirror" => f.call.password \in Text
  /\ f.pc \in {"slot_ssid", "slot_password"}
       => f.i \in Slots /\ (FittingAdd(f.call) \/ f.call \in RemoveCalls)
  /\ f.pc \in {"push", "connect"} => FittingAdd(f.call)

\* While init() loads the slots, it has pushed at most one network per slot.
BootOK ==
  /\ boot.pc = "scalars" => sta_networks = <<>>
  /\ boot.pc = "slots" => boot.i \in Slots /\ Len(sta_networks) <= boot.i
  /\ boot.pc = "sta_password" => sta_networks = <<>>
  /\ boot.pc \in {"sta_password", "sta_enabled"} => Fitting(Env.STA_SSID) # None

TypeInv == TypeOK /\ BootOK /\ \A t \in Tasks : FrameOK(task[t])

LEMMA DefaultsTyped ==
  /\ NewData \in [ScalarKeys -> Values]
  /\ \A k \in ScalarKeys : NewData[k] \in FieldsAt(k)
  /\ \A k \in ScalarKeys : Default[k] # None => Default[k] \in ItemsAt(k) \ {None}
<1>1. \A name \in EnvNames : Env[name] \in EnvTexts
  BY EnvAssumption
<1>2. \A x \in EnvTexts : Fitting(x) \in Text \cup {None}
  BY DEF Fitting
<1>3. DefaultCountry \in Text
  BY TextAssumption
<1>4. \A k \in ScalarKeys : NewData[k] \in FieldsAt(k)
  BY DEF NewData, FieldsAt, FlagKeys
<1>5. NewData \in [ScalarKeys -> Values]
  BY DEF NewData, Values
<1>6. \A k \in ScalarKeys : Default[k] # None => Default[k] \in ItemsAt(k) \ {None}
  BY <1>1, <1>2, <1>3, <1>4, TextAssumption
     DEF Default, NewData, ItemsAt, FieldsAt, FlagKeys, EnvNames, ScalarKeys,
         AP_ENABLED, AP_SSID, AP_PASSWORD, AP_GATEWAY_IP, STA_ENABLED, HOSTNAME,
         COUNTRY_CODE
<1> QED
  BY <1>4, <1>5, <1>6

\* A frame that has no list of networks yet.
LEMMA FrameInFrames ==
  ASSUME NEW pc \in TaskPCs, NEW c \in Calls \cup {None}, NEW i \in 0 .. N,
         NEW ok \in BOOLEAN
  PROVE  Frame(pc, c, i, <<>>, ok) \in Frames
<1>1. <<>> \in Seq(Networks)
  BY EmptySeq
<1> QED
  BY <1>1 DEF Frame, Frames

LEMMA IdleOK == Idle \in Frames /\ FrameOK(Idle)
<1>1. Idle \in Frames
  <2>1. 0 \in 0 .. N /\ <<>> \in Seq(Networks)
    BY SizeAssumption, EmptySeq
  <2> QED
    BY <2>1 DEF Idle, Frame, Frames, TaskPCs
<1> QED
  BY <1>1 DEF Idle, Frame, FrameOK

LEMMA InitTypeInv == Init => TypeInv
<1> SUFFICES ASSUME Init PROVE TypeInv
  OBVIOUS
<1>1. TypeOK
  <2>1. FlashTyped
    BY DEF Init, FlashTyped, Values, ItemsAt
  <2>2. RamTyped
    BY DefaultsTyped, EmptySeq, SizeAssumption DEF Init, RamTyped
  <2>3. task \in [Tasks -> Frames]
    BY IdleOK DEF Init
  <2> QED
    BY <2>1, <2>2, <2>3 DEF Init, TypeOK, SignalsTyped, PoweredOn, BootPCs
<1>2. BootOK
  BY DEF Init, BootOK, PoweredOn
<1>3. \A t \in Tasks : FrameOK(task[t])
  BY IdleOK DEF Init
<1> QED
  BY <1>1, <1>2, <1>3 DEF TypeInv

\* A store writes an item of the type of its key, or nothing.
LEMMA StoreTyped ==
  ASSUME FlashTyped, NEW k \in Keys, NEW v \in ItemsAt(k), NEW ok, store(k, v, ok)
  PROVE  FlashTyped'
<1>1. v \in Values
  BY DEF ItemsAt, Values
<1>2. flash' \in [Keys -> Values]
  BY <1>1 DEF FlashTyped, store
<1>3. \A x \in Keys : flash'[x] \in ItemsAt(x)
  BY DEF FlashTyped, store
<1> QED
  BY <1>2, <1>3 DEF FlashTyped

\* One task moves to a frame that is right for where it is.
LEMMA FrameTyped ==
  ASSUME task \in [Tasks -> Frames], \A u \in Tasks : FrameOK(task[u]),
         NEW t \in Tasks, NEW f \in Frames, FrameOK(f),
         task' = [task EXCEPT ![t] = f]
  PROVE  task' \in [Tasks -> Frames] /\ \A u \in Tasks : FrameOK(task'[u])
OBVIOUS

\* The same, for a task that keeps its arguments.
LEMMA GotoTyped ==
  ASSUME task \in [Tasks -> Frames], \A u \in Tasks : FrameOK(task[u]),
         NEW t \in Tasks, NEW pc \in TaskPCs, Goto(t, pc),
         FrameOK(Frame(pc, task[t].call, task[t].i, task[t].networks, task[t].ok))
  PROVE  task' \in [Tasks -> Frames] /\ \A u \in Tasks : FrameOK(task'[u])
<1> DEFINE f == Frame(pc, task[t].call, task[t].i, task[t].networks, task[t].ok)
<1>1. f \in Frames
  BY DEF Frames, Frame
<1>2. task' = [task EXCEPT ![t] = f]
  BY DEF Goto
<1>3. FrameOK(f)
  OBVIOUS
<1> QED
  BY <1>1, <1>2, <1>3, FrameTyped

LEMMA ReturnTyped ==
  ASSUME task \in [Tasks -> Frames], \A u \in Tasks : FrameOK(task[u]),
         NEW t \in Tasks, Return(t)
  PROVE  task' \in [Tasks -> Frames] /\ \A u \in Tasks : FrameOK(task'[u])
BY IdleOK, FrameTyped DEF Return

\* A reset puts everything but flash back to the start.
LEMMA ResetTyped ==
  ASSUME TypeInv, ResetRam, UNCHANGED <<flash, era>>
  PROVE  TypeInv'
<1>1. RamTyped' /\ SignalsTyped'
  <2>1. sta_networks' \in Seq(Networks) /\ Len(sta_networks') <= N
    BY EmptySeq, SizeAssumption DEF ResetRam
  <2>2. data' = NewData
    BY DEF ResetRam
  <2> QED
    BY <2>1, <2>2, DefaultsTyped DEF ResetRam, RamTyped, SignalsTyped
<1>2. task' \in [Tasks -> Frames] /\ \A t \in Tasks : FrameOK(task'[t])
  BY IdleOK DEF ResetRam
<1>3. boot' = PoweredOn /\ BootOK'
  BY DEF ResetRam, BootOK, PoweredOn
<1> QED
  BY <1>1, <1>2, <1>3 DEF TypeInv, TypeOK, FlashTyped, PoweredOn, BootPCs

\* What the steps of init() leave to show once task, signals and era are
\* seen to be unchanged.
LEMMA BootFrameTyped ==
  ASSUME TypeInv, UNCHANGED <<task, signals, era>>, FlashTyped', RamTyped', BootOK',
         NEW pc \in BootPCs, NEW i \in Nat, BootAt(pc, i)
  PROVE  TypeInv'
<1>1. boot' \in [pc : BootPCs, i : Nat, missing : SUBSET ScalarKeys]
  BY DEF TypeInv, TypeOK, BootAt
<1>2. SignalsTyped'
  BY DEF TypeInv, TypeOK, signals, SignalsTyped
<1> QED
  BY <1>1, <1>2 DEF TypeInv, TypeOK

LEMMA LoadScalarsTypeInv == TypeInv /\ LoadScalars => TypeInv'
<1> SUFFICES ASSUME TypeInv, LoadScalars PROVE TypeInv'
  OBVIOUS
<1>1. PICK failed \in ReadErrors(ScalarKeys) :
        LET got == [k \in ScalarKeys |-> fetch(k, failed)] IN
        /\ data' = [k \in ScalarKeys |-> IF got[k] = None THEN data[k] ELSE got[k]]
        /\ boot' = [pc |-> "slots", i |-> 0,
                    missing |-> {k \in ScalarKeys : got[k] = None}]
  BY DEF LoadScalars
<1> DEFINE got == [k \in ScalarKeys |-> fetch(k, failed)]
<1>2. \A k \in ScalarKeys : got[k] # None => got[k] \in FieldsAt(k)
  BY DEF fetch, TypeInv, TypeOK, FlashTyped, ItemsAt, FieldsAt, Keys
<1>3. \A k \in ScalarKeys : data'[k] \in FieldsAt(k)
  BY <1>1, <1>2 DEF TypeInv, TypeOK, RamTyped
<1>4. data' \in [ScalarKeys -> Values]
  BY <1>1, <1>3 DEF FieldsAt, Values
<1>5. sta_networks = <<>> /\ sta_networks' = sta_networks
  BY DEF LoadScalars, TypeInv, BootOK
<1>6. RamTyped'
  BY <1>3, <1>4, <1>5 DEF TypeInv, TypeOK, RamTyped
<1>7. boot' \in [pc : BootPCs, i : Nat, missing : SUBSET ScalarKeys]
  BY <1>1 DEF BootPCs
<1>8. BootOK'
  BY <1>1, <1>5, SizeAssumption, EmptySeq DEF BootOK, Slots
<1>9. FlashTyped' /\ SignalsTyped' /\ era' = era /\ task' = task
  BY DEF LoadScalars, TypeInv, TypeOK, FlashTyped, SignalsTyped, signals
<1> QED
  BY <1>6, <1>7, <1>8, <1>9 DEF TypeInv, TypeOK

LEMMA LoadSlotTypeInv == TypeInv /\ LoadSlot => TypeInv'
<1> SUFFICES ASSUME TypeInv, LoadSlot PROVE TypeInv'
  OBVIOUS
<1> DEFINE s == sta_ssid_key(boot.i)
           p == sta_pw_key(boot.i)
<1>1. boot.i \in Slots /\ Len(sta_networks) <= boot.i /\ Len(sta_networks) \in Nat
  BY LenProperties DEF LoadSlot, TypeInv, TypeOK, RamTyped, BootOK
<1>2. s \in Keys \ FlagKeys /\ p \in Keys \ FlagKeys
  BY <1>1, SlotKeys DEF FlagKeys, ScalarKeys, AP_ENABLED, STA_ENABLED, COUNTRY_CODE
<1>3. PICK failed \in ReadErrors({s, p}) :
        sta_networks' = IF fetch(s, failed) \in {None, Empty} THEN sta_networks
          ELSE Append(sta_networks,
                      Network(fetch(s, failed), Filtered(fetch(p, failed))))
  BY DEF LoadSlot
<1>4. fetch(s, failed) \in Text \cup {None} /\ fetch(p, failed) \in Text \cup {None}
  BY <1>2 DEF fetch, TypeInv, TypeOK, FlashTyped, ItemsAt
<1>5. fetch(s, failed) # None
        => Network(fetch(s, failed), Filtered(fetch(p, failed))) \in Networks
  BY <1>4 DEF Network, Networks, Filtered
<1>6. /\ sta_networks' \in Seq(Networks)
      /\ Len(sta_networks') <= boot.i + 1
  BY <1>1, <1>3, <1>5, AppendProperties DEF TypeInv, TypeOK, RamTyped
<1>7. RamTyped'
  BY <1>1, <1>6, SizeAssumption DEF LoadSlot, TypeInv, TypeOK, RamTyped, Slots
<1>8. FlashTyped' /\ UNCHANGED <<task, signals, era>>
  BY DEF LoadSlot, TypeInv, TypeOK, FlashTyped
<1>9. CASE boot.i + 1 < N
  <2>1. BootAt("slots", boot.i + 1)
    BY <1>9 DEF LoadSlot
  <2>2. BootOK'
    BY <1>1, <1>6, <1>9, <2>1, SizeAssumption DEF BootOK, BootAt, Slots
  <2> QED
    BY <1>1, <1>7, <1>8, <2>1, <2>2, BootFrameTyped DEF BootPCs, Slots
<1>10. CASE ~(boot.i + 1 < N)
  <2>1. BootAt("defaults", 1)
    BY <1>10 DEF LoadSlot
  <2>2. BootOK'
    BY <2>1 DEF BootOK, BootAt
  <2> QED
    BY <1>7, <1>8, <2>1, <2>2, BootFrameTyped DEF BootPCs
<1> QED
  BY <1>9, <1>10

LEMMA WriteDefaultTypeInv == TypeInv /\ WriteDefault => TypeInv'
<1> SUFFICES ASSUME TypeInv, WriteDefault PROVE TypeInv'
  OBVIOUS
<1> DEFINE k == DefaultOrder[boot.i]
<1>1. k \in ScalarKeys /\ k \in Keys
  BY DEF WriteDefault, Keys
<1>2. FlashTyped' /\ RamTyped'
  <2>1. CASE k \in boot.missing /\ Default[k] # None
    <3>1. PICK ok \in WriteResults :
            /\ store(k, Default[k], ok)
            /\ data' = IF ok THEN [data EXCEPT ![k] = Default[k]] ELSE data
      BY <2>1 DEF WriteDefault
    <3>2. Default[k] \in ItemsAt(k) \ {None}
      BY <1>1, <2>1, DefaultsTyped
    <3>3. FlashTyped'
      BY <1>1, <3>1, <3>2, StoreTyped DEF TypeInv, TypeOK
    <3>4. Default[k] \in FieldsAt(k) /\ Default[k] \in Values
      BY <3>2 DEF ItemsAt, FieldsAt, Values
    <3>5. data' \in [ScalarKeys -> Values]
      BY <3>1, <3>4 DEF TypeInv, TypeOK, RamTyped
    <3>6. \A x \in ScalarKeys : data'[x] \in FieldsAt(x)
      BY <3>1, <3>4 DEF TypeInv, TypeOK, RamTyped
    <3> QED
      BY <3>3, <3>5, <3>6 DEF WriteDefault, TypeInv, TypeOK, RamTyped
  <2>2. CASE ~(k \in boot.missing /\ Default[k] # None)
    BY <2>2 DEF WriteDefault, TypeInv, TypeOK, FlashTyped, RamTyped
  <2> QED
    BY <2>1, <2>2
<1>3. BootAt("defaults", boot.i + 1) /\ boot.i + 1 \in Nat
  BY DEF WriteDefault, NextDefault, TypeInv, TypeOK
<1>4. BootOK'
  BY <1>3 DEF BootOK, BootAt
<1> QED
  BY <1>2, <1>3, <1>4, BootFrameTyped DEF WriteDefault, BootPCs

LEMMA FirstSlot ==
  /\ 0 \in Slots /\ sta_ssid_key(0) \in Keys \ ScalarKeys
  /\ sta_pw_key(0) \in Keys \ ScalarKeys
<1>1. 0 \in Slots
  BY SizeAssumption DEF Slots
<1> QED
  BY <1>1, SlotKeys

\* What a slot key may hold.
LEMMA TextItems ==
  ASSUME NEW k \in Keys \ ScalarKeys, NEW v \in Text
  PROVE  v \in ItemsAt(k)
BY DEF ItemsAt, FlagKeys, ScalarKeys, AP_ENABLED, STA_ENABLED, COUNTRY_CODE

\* The environment's station network, when its SSID fits.
LEMMA EnvNetwork ==
  /\ Fitting(Env.STA_SSID) # None => Env.STA_SSID \in Text
  /\ Fitting(Env.STA_PASSWORD) \in Text \cup {None}
  /\ OrEmpty(Fitting(Env.STA_PASSWORD)) \in Text
BY TextAssumption DEF Fitting, OrEmpty

LEMMA WriteDefaultNetworkTypeInv == TypeInv /\ WriteDefaultNetwork => TypeInv'
<1> SUFFICES ASSUME TypeInv, WriteDefaultNetwork PROVE TypeInv'
  OBVIOUS
<1>1. RamTyped' /\ UNCHANGED <<ram, task, signals, era>> /\ boot.i \in Nat
  BY DEF WriteDefaultNetwork, TypeInv, TypeOK, RamTyped, ram
<1>2. CASE sta_networks = <<>> /\ Fitting(Env.STA_SSID) # None
  <2>1. PICK ok \in WriteResults :
          /\ store(sta_ssid_key(0), Env.STA_SSID, ok)
          /\ IF ok THEN BootAt("sta_password", boot.i) ELSE NextDefault
    BY <1>2 DEF WriteDefaultNetwork
  <2>2. FlashTyped'
    BY <1>2, <2>1, FirstSlot, EnvNetwork, TextItems, StoreTyped DEF TypeInv, TypeOK
  <2>3. CASE ok
    <3>1. BootOK'
      BY <1>1, <1>2, <2>1, <2>3 DEF BootOK, BootAt, ram
    <3> QED
      BY <1>1, <2>1, <2>2, <2>3, <3>1, BootFrameTyped DEF BootPCs
  <2>4. CASE ~ok
    <3>1. BootOK'
      BY <2>1, <2>4 DEF BootOK, BootAt, NextDefault
    <3> QED
      BY <1>1, <2>1, <2>2, <2>4, <3>1, BootFrameTyped DEF BootPCs, NextDefault
  <2> QED
    BY <2>3, <2>4
<1>3. CASE ~(sta_networks = <<>> /\ Fitting(Env.STA_SSID) # None)
  <2>1. FlashTyped' /\ BootAt("defaults", boot.i + 1)
    BY <1>3 DEF WriteDefaultNetwork, NextDefault, TypeInv, TypeOK, FlashTyped
  <2>2. BootOK'
    BY <2>1 DEF BootOK, BootAt
  <2> QED
    BY <1>1, <2>1, <2>2, BootFrameTyped DEF BootPCs
<1> QED
  BY <1>2, <1>3

LEMMA WriteDefaultPasswordTypeInv == TypeInv /\ WriteDefaultPassword => TypeInv'
<1> SUFFICES ASSUME TypeInv, WriteDefaultPassword PROVE TypeInv'
  OBVIOUS
<1> DEFINE n == Network(Env.STA_SSID, Fitting(Env.STA_PASSWORD))
<1>1. /\ sta_networks = <<>> /\ Fitting(Env.STA_SSID) # None /\ boot.i \in Nat
      /\ UNCHANGED <<task, signals, era>>
  BY DEF WriteDefaultPassword, TypeInv, TypeOK, BootOK
<1>2. PICK ok \in WriteResults :
        /\ store(sta_pw_key(0), OrEmpty(Fitting(Env.STA_PASSWORD)), ok)
        /\ IF ok
           THEN /\ sta_networks' = Append(sta_networks, n)
                /\ data' = [data EXCEPT ![STA_ENABLED] = TRUE]
                /\ BootAt("sta_enabled", boot.i)
           ELSE NextDefault /\ UNCHANGED ram
  BY DEF WriteDefaultPassword
<1>3. FlashTyped'
  BY <1>2, FirstSlot, EnvNetwork, TextItems, StoreTyped DEF TypeInv, TypeOK
<1>4. CASE ok
  <2>1. n \in Networks
    BY <1>1, EnvNetwork DEF Network, Networks
  <2>2. sta_networks' \in Seq(Networks) /\ Len(sta_networks') = 1
    <3>1. sta_networks \in Seq(Networks) /\ Len(sta_networks) = 0
      BY <1>1, EmptySeq
    <3>2. sta_networks' = Append(sta_networks, n)
      BY <1>2, <1>4
    <3> HIDE DEF n
    <3> QED
      BY <2>1, <3>1, <3>2, AppendProperties
  <2>3. data' \in [ScalarKeys -> Values] /\ \A k \in ScalarKeys : data'[k] \in FieldsAt(k)
    BY <1>2, <1>4
       DEF TypeInv, TypeOK, RamTyped, Values, FieldsAt, FlagKeys
  <2>4. RamTyped'
    BY <2>2, <2>3, SizeAssumption DEF RamTyped
  <2>5. BootOK'
    BY <1>1, <1>2, <1>4 DEF BootOK, BootAt
  <2> QED
    BY <1>1, <1>2, <1>3, <1>4, <2>4, <2>5, BootFrameTyped DEF BootPCs
<1>5. CASE ~ok
  <2>1. RamTyped' /\ BootAt("defaults", boot.i + 1)
    BY <1>2, <1>5 DEF NextDefault, TypeInv, TypeOK, RamTyped, ram
  <2>2. BootOK'
    BY <2>1 DEF BootOK, BootAt
  <2> QED
    BY <1>1, <1>3, <2>1, <2>2, BootFrameTyped DEF BootPCs
<1> QED
  BY <1>4, <1>5

LEMMA WriteDefaultStaEnabledTypeInv == TypeInv /\ WriteDefaultStaEnabled => TypeInv'
<1> SUFFICES ASSUME TypeInv, WriteDefaultStaEnabled PROVE TypeInv'
  OBVIOUS
<1>1. STA_ENABLED \in Keys /\ TRUE \in ItemsAt(STA_ENABLED)
  BY DEF Keys, ScalarKeys, ItemsAt, FlagKeys, STA_ENABLED, AP_ENABLED, COUNTRY_CODE
<1>2. FlashTyped'
  BY <1>1, StoreTyped DEF WriteDefaultStaEnabled, TypeInv, TypeOK
<1>3. RamTyped' /\ BootAt("defaults", boot.i + 1) /\ boot.i + 1 \in Nat
  BY DEF WriteDefaultStaEnabled, NextDefault, TypeInv, TypeOK, RamTyped, ram
<1>4. BootOK'
  BY <1>3 DEF BootOK, BootAt
<1> QED
  BY <1>2, <1>3, <1>4, BootFrameTyped DEF WriteDefaultStaEnabled, BootPCs

LEMMA BootDoneTypeInv == TypeInv /\ BootDone => TypeInv'
<1> SUFFICES ASSUME TypeInv, BootDone PROVE TypeInv'
  OBVIOUS
<1>1. boot' \in [pc : BootPCs, i : Nat, missing : SUBSET ScalarKeys] /\ BootOK'
  BY DEF BootDone, BootOK, BootPCs
<1>2. FlashTyped' /\ RamTyped' /\ SignalsTyped' /\ task' = task
  BY DEF BootDone, TypeInv, TypeOK, FlashTyped, RamTyped, SignalsTyped, ram, signals
<1> QED
  BY <1>1, <1>2 DEF BootDone, TypeInv, TypeOK

\* No step of init() breaks the types.
LEMMA BootTypeInv == TypeInv /\ Boot => TypeInv'
BY LoadScalarsTypeInv, LoadSlotTypeInv, WriteDefaultTypeInv,
   WriteDefaultNetworkTypeInv, WriteDefaultPasswordTypeInv,
   WriteDefaultStaEnabledTypeInv, BootDoneTypeInv DEF Boot

-----------------------------------------------------------------------------
\* No call is in progress while the device boots.
IdleUntilUp == Up \/ \A t \in Tasks : task[t] = Idle

LEMMA IdleUntilUpStep ==
  ASSUME task \in [Tasks -> Frames], IdleUntilUp, Next
  PROVE  IdleUntilUp'
<1>1. CASE Boot
  <2>1. task' = task /\ ~Up
    BY <1>1 DEF Boot, LoadScalars, LoadSlot, WriteDefault, WriteDefaultNetwork,
       WriteDefaultPassword, WriteDefaultStaEnabled, BootDone, Up
  <2> QED
    BY <2>1 DEF IdleUntilUp
<1>2. CASE TakeSignal
  BY <1>2 DEF TakeSignal, IdleUntilUp, Up
<1>3. CASE PowerLoss
  BY <1>3 DEF PowerLoss, ResetRam, IdleUntilUp, Up
<1>4. ASSUME NEW t \in Tasks, Step(t) PROVE IdleUntilUp'
  <2>1. CASE PublishByReset(t)
    BY <2>1 DEF PublishByReset, ResetRam, IdleUntilUp, Up
  <2>2. CASE ~PublishByReset(t)
    <3>1. boot' = boot
      BY <1>4, <2>2 DEF Step, Set, Publish, ConfigureApSsid, ConfigureApSsidMirror,
         ConfigureApPassword, ConfigureApPasswordMirror, ConfigureApNoPassword,
         AddSta, RemoveSta, WriteSlotSsid, WriteSlotPassword, PushSta, Connect
    <3>2. Up
      <4>1. CASE task[t] = Idle
        <5>1. task[t].pc = "idle"
          BY <4>1 DEF Idle, Frame
        <5> QED
          BY <1>4, <2>2, <5>1 DEF Step, Set, Publish, ConfigureApSsid,
             ConfigureApSsidMirror, ConfigureApPassword, ConfigureApPasswordMirror,
             ConfigureApNoPassword, AddSta, RemoveSta, WriteSlotSsid,
             WriteSlotPassword, PushSta, Connect, CanBegin
      <4>2. CASE task[t] # Idle
        BY <4>2 DEF IdleUntilUp
      <4> QED
        BY <4>1, <4>2
    <3> QED
      BY <3>1, <3>2 DEF IdleUntilUp, Up
  <2> QED
    BY <2>1, <2>2
<1> QED
  BY <1>1, <1>2, <1>3, <1>4 DEF Next

\* What a step of a call has to show when it leaves boot alone.
LEMMA CallFrameTyped ==
  ASSUME TypeInv, Up, boot' = boot, FlashTyped', RamTyped', SignalsTyped',
         era' \in {"factory", "provisioned", "edited"},
         task' \in [Tasks -> Frames], \A u \in Tasks : FrameOK(task'[u])
  PROVE  TypeInv'
BY DEF TypeInv, TypeOK, BootOK, Up

LEMMA EditedTyped ==
  ASSUME TypeInv, NEW ok, Edited(ok)
  PROVE  era' \in {"factory", "provisioned", "edited"}
BY DEF TypeInv, TypeOK, Edited

\* Values that fit the key of a set call.
LEMMA SetCallTyped ==
  ASSUME NEW c \in SetCalls, c.val # TooLong
  PROVE  /\ c.key \in ScalarKeys /\ c.key \in Keys
         /\ c.val \in ItemsAt(c.key) /\ c.val \in FieldsAt(c.key)
         /\ c.val \in Values /\ c.val # None
<1>1. c.key \in ScalarKeys
  BY DEF SetCalls, FlagKeys, ScalarKeys, AP_ENABLED, STA_ENABLED, COUNTRY_CODE
<1>2. c.val \in IF c.key \in FlagKeys THEN BOOLEAN ELSE Text
  BY DEF SetCalls
<1> QED
  BY <1>1, <1>2, TextAssumption DEF ItemsAt, FieldsAt, Values, Keys

LEMMA ApKeys ==
  /\ AP_SSID \in ScalarKeys /\ AP_SSID \in Keys
  /\ AP_PASSWORD \in ScalarKeys /\ AP_PASSWORD \in Keys
  /\ \A v \in Text : /\ v \in ItemsAt(AP_SSID) /\ v \in FieldsAt(AP_SSID)
                     /\ v \in ItemsAt(AP_PASSWORD) /\ v \in FieldsAt(AP_PASSWORD)
BY DEF ScalarKeys, Keys, AP_SSID, AP_PASSWORD, AP_ENABLED, STA_ENABLED,
       COUNTRY_CODE, ItemsAt, FieldsAt, FlagKeys

\* A mirror write of a fitting value.
LEMMA MirrorTyped ==
  ASSUME RamTyped, NEW k \in ScalarKeys, NEW v \in FieldsAt(k),
         data' = [data EXCEPT ![k] = v], sta_networks' = sta_networks
  PROVE  RamTyped'
<1>1. v \in Values
  BY DEF FieldsAt, Values
<1>2. data' \in [ScalarKeys -> Values]
  BY <1>1 DEF RamTyped
<1>3. \A x \in ScalarKeys : data'[x] \in FieldsAt(x)
  BY DEF RamTyped
<1> QED
  BY <1>2, <1>3 DEF RamTyped

LEMMA SetTypeInv ==
  ASSUME TypeInv, NEW t \in Tasks, Set(t)
  PROVE  TypeInv'
<1>1. PICK c \in Calls, ok \in WriteResults :
        /\ c.op = "set" /\ c.val # TooLong
        /\ store(c.key, c.val, ok)
        /\ task' = IF ok THEN [task EXCEPT ![t] = Frame("publish", c, 0, <<>>, TRUE)]
                   ELSE task
        /\ Edited(ok)
  BY DEF Set
<1>2. c \in SetCalls
  BY <1>1, CallKinds
<1>3. FlashTyped'
  BY <1>1, <1>2, SetCallTyped, StoreTyped DEF TypeInv, TypeOK
<1>4. Frame("publish", c, 0, <<>>, TRUE) \in Frames
  <2>1. 0 \in 0 .. N /\ <<>> \in Seq(Networks)
    BY SizeAssumption, EmptySeq
  <2> QED
    BY <2>1 DEF Frame, Frames, TaskPCs
<1>5. FrameOK(Frame("publish", c, 0, <<>>, TRUE))
  BY <1>1, <1>2 DEF Frame, FrameOK
<1>6. task' \in [Tasks -> Frames] /\ \A u \in Tasks : FrameOK(task'[u])
  <2> DEFINE f == Frame("publish", c, 0, <<>>, TRUE)
  <2>1. CASE ok
    <3>1. task' = [task EXCEPT ![t] = f]
      BY <1>1, <2>1
    <3> QED
      BY <1>4, <1>5, <3>1, FrameTyped DEF TypeInv, TypeOK
  <2>2. CASE ~ok
    BY <1>1, <2>2 DEF TypeInv, TypeOK
  <2> QED
    BY <2>1, <2>2
<1>7. RamTyped' /\ SignalsTyped' /\ boot' = boot /\ Up
  BY DEF Set, CanBegin, TypeInv, TypeOK, RamTyped, SignalsTyped, ram, signals
<1> QED
  BY <1>1, <1>3, <1>6, <1>7, EditedTyped, CallFrameTyped

LEMMA PublishTypeInv ==
  ASSUME TypeInv, Up, NEW t \in Tasks, Publish(t)
  PROVE  TypeInv'
<1> DEFINE c == task[t].call
<1>1. c \in SetCalls /\ c.val # TooLong
  BY DEF Publish, TypeInv, FrameOK
<1>2. RamTyped'
  BY <1>1, SetCallTyped, MirrorTyped DEF Publish, TypeInv, TypeOK
<1>3. task' \in [Tasks -> Frames] /\ \A u \in Tasks : FrameOK(task'[u])
  BY ReturnTyped DEF Publish, TypeInv, TypeOK
<1>4. FlashTyped' /\ SignalsTyped' /\ boot' = boot /\ era' = era
  BY DEF Publish, TypeInv, TypeOK, FlashTyped, SignalsTyped
<1> QED
  BY <1>2, <1>3, <1>4, CallFrameTyped DEF TypeInv, TypeOK

\* The first frame of a call.
LEMMA BeginTyped ==
  ASSUME TypeInv, NEW t \in Tasks, NEW pc \in TaskPCs, NEW c \in Calls,
         NEW i \in 0 .. N, NEW ok \in BOOLEAN, FrameOK(Frame(pc, c, i, <<>>, ok)),
         task' = [task EXCEPT ![t] = Frame(pc, c, i, <<>>, ok)]
  PROVE  task' \in [Tasks -> Frames] /\ \A u \in Tasks : FrameOK(task'[u])
BY FrameInFrames, FrameTyped DEF TypeInv, TypeOK

LEMMA ConfigureApSsidTypeInv ==
  ASSUME TypeInv, NEW t \in Tasks, ConfigureApSsid(t)
  PROVE  TypeInv'
<1>1. PICK c \in Calls :
        /\ c.op = "configure_ap"
        /\ IF c.ssid \in Text
           THEN \E ok \in WriteResults :
                  /\ store(AP_SSID, c.ssid, ok)
                  /\ task' = [task EXCEPT ![t] =
                       Frame(IF ok THEN "ap_ssid_mirror" ELSE "ap_password",
                             c, 0, <<>>, ok)]
                  /\ Edited(ok)
           ELSE /\ task' = [task EXCEPT ![t] =
                     Frame("ap_password", c, 0, <<>>, c.ssid = None)]
                /\ UNCHANGED <<flash, era>>
  BY DEF ConfigureApSsid
<1>2. c \in ConfigureCalls /\ 0 \in 0 .. N
  BY <1>1, CallKinds, SizeAssumption
<1>3. RamTyped' /\ SignalsTyped' /\ boot' = boot /\ Up
  BY DEF ConfigureApSsid, CanBegin, TypeInv, TypeOK, RamTyped, SignalsTyped, ram, signals
<1>4. CASE c.ssid \in Text
  <2>1. PICK ok \in WriteResults :
          /\ store(AP_SSID, c.ssid, ok)
          /\ task' = [task EXCEPT ![t] =
               Frame(IF ok THEN "ap_ssid_mirror" ELSE "ap_password",
                     c, 0, <<>>, ok)]
          /\ Edited(ok)
    BY <1>1, <1>4
  <2> DEFINE pc == IF ok THEN "ap_ssid_mirror" ELSE "ap_password"
  <2>2. pc \in TaskPCs /\ ok \in BOOLEAN
    BY DEF TaskPCs, WriteResults
  <2>3. FrameOK(Frame(pc, c, 0, <<>>, ok))
    BY <1>2, <1>4 DEF FrameOK, Frame
  <2>4. task' \in [Tasks -> Frames] /\ \A u \in Tasks : FrameOK(task'[u])
    BY <1>2, <2>1, <2>2, <2>3, BeginTyped
  <2>5. FlashTyped'
    BY <1>4, <2>1, ApKeys, StoreTyped DEF TypeInv, TypeOK
  <2> QED
    BY <1>3, <2>1, <2>4, <2>5, EditedTyped, CallFrameTyped
<1>5. CASE c.ssid \notin Text
  <2>1. /\ task' = [task EXCEPT ![t] = Frame("ap_password", c, 0, <<>>, c.ssid = None)]
        /\ UNCHANGED <<flash, era>>
    BY <1>1, <1>5
  <2>2. FrameOK(Frame("ap_password", c, 0, <<>>, c.ssid = None))
    BY <1>2 DEF FrameOK, Frame
  <2>3. task' \in [Tasks -> Frames] /\ \A u \in Tasks : FrameOK(task'[u])
    BY <1>2, <2>1, <2>2, BeginTyped DEF TaskPCs
  <2>4. FlashTyped' /\ era' \in {"factory", "provisioned", "edited"}
    BY <2>1 DEF TypeInv, TypeOK, FlashTyped
  <2> QED
    BY <1>3, <2>3, <2>4, CallFrameTyped
<1> QED
  BY <1>4, <1>5

LEMMA ConfigureApSsidMirrorTypeInv ==
  ASSUME TypeInv, Up, NEW t \in Tasks, ConfigureApSsidMirror(t)
  PROVE  TypeInv'
<1>1. task[t].call \in ConfigureCalls /\ task[t].call.ssid \in Text
  BY DEF ConfigureApSsidMirror, TypeInv, FrameOK
<1>2. RamTyped'
  BY <1>1, ApKeys, MirrorTyped DEF ConfigureApSsidMirror, TypeInv, TypeOK
<1>3. FrameOK(Frame("ap_password", task[t].call, task[t].i, task[t].networks, task[t].ok))
  BY <1>1 DEF Frame, FrameOK
<1>4. task' \in [Tasks -> Frames] /\ \A u \in Tasks : FrameOK(task'[u])
  BY <1>3, GotoTyped DEF ConfigureApSsidMirror, TypeInv, TypeOK, TaskPCs
<1>5. FlashTyped' /\ SignalsTyped' /\ boot' = boot /\ era' = era
  BY DEF ConfigureApSsidMirror, TypeInv, TypeOK, FlashTyped, SignalsTyped, signals
<1> QED
  BY <1>2, <1>4, <1>5, CallFrameTyped DEF TypeInv, TypeOK

LEMMA ConfigureApPasswordTypeInv ==
  ASSUME TypeInv, Up, NEW t \in Tasks, ConfigureApPassword(t)
  PROVE  TypeInv'
<1>1. task[t].call \in ConfigureCalls /\ task[t].call.password \in Text
  BY DEF ConfigureApPassword, TypeInv, FrameOK
<1>2. PICK ok \in WriteResults :
        /\ store(AP_PASSWORD, task[t].call.password, ok)
        /\ IF ok THEN Goto(t, "ap_password_mirror") ELSE Return(t)
        /\ Edited(ok)
  BY DEF ConfigureApPassword
<1>3. FlashTyped'
  BY <1>1, <1>2, ApKeys, StoreTyped DEF TypeInv, TypeOK
<1>4. FrameOK(Frame("ap_password_mirror", task[t].call, task[t].i, task[t].networks,
                    task[t].ok))
  BY <1>1 DEF Frame, FrameOK
<1>5. task' \in [Tasks -> Frames] /\ \A u \in Tasks : FrameOK(task'[u])
  BY <1>2, <1>4, GotoTyped, ReturnTyped DEF TypeInv, TypeOK, TaskPCs
<1>6. RamTyped' /\ SignalsTyped' /\ boot' = boot
  BY DEF ConfigureApPassword, TypeInv, TypeOK, RamTyped, SignalsTyped, ram, signals
<1> QED
  BY <1>2, <1>3, <1>5, <1>6, EditedTyped, CallFrameTyped

LEMMA ConfigureApPasswordMirrorTypeInv ==
  ASSUME TypeInv, Up, NEW t \in Tasks, ConfigureApPasswordMirror(t)
  PROVE  TypeInv'
<1>1. task[t].call.password \in Text
  BY DEF ConfigureApPasswordMirror, TypeInv, FrameOK
<1>2. RamTyped'
  BY <1>1, ApKeys, MirrorTyped DEF ConfigureApPasswordMirror, TypeInv, TypeOK
<1>3. task' \in [Tasks -> Frames] /\ \A u \in Tasks : FrameOK(task'[u])
  BY ReturnTyped DEF ConfigureApPasswordMirror, TypeInv, TypeOK
<1>4. FlashTyped' /\ SignalsTyped' /\ boot' = boot /\ era' = era
  BY DEF ConfigureApPasswordMirror, TypeInv, TypeOK, FlashTyped, SignalsTyped
<1> QED
  BY <1>2, <1>3, <1>4, CallFrameTyped DEF TypeInv, TypeOK

LEMMA ConfigureApNoPasswordTypeInv ==
  ASSUME TypeInv, Up, NEW t \in Tasks, ConfigureApNoPassword(t)
  PROVE  TypeInv'
<1>1. task' \in [Tasks -> Frames] /\ \A u \in Tasks : FrameOK(task'[u])
  BY ReturnTyped DEF ConfigureApNoPassword, TypeInv, TypeOK
<1>2. FlashTyped' /\ RamTyped' /\ SignalsTyped' /\ boot' = boot /\ era' = era
  BY DEF ConfigureApNoPassword, TypeInv, TypeOK, FlashTyped, RamTyped, SignalsTyped, ram
<1> QED
  BY <1>1, <1>2, CallFrameTyped DEF TypeInv, TypeOK

\* Vec::remove leaves a list that is one shorter, with the later elements
\* moved up.
LEMMA RemoveAtProperties ==
  ASSUME NEW S, NEW s \in Seq(S), NEW i \in 1 .. Len(s)
  PROVE  /\ RemoveAt(s, i) \in Seq(S)
         /\ Len(RemoveAt(s, i)) = Len(s) - 1
         /\ \A j \in 1 .. Len(s) - 1 :
              RemoveAt(s, i)[j] = IF j < i THEN s[j] ELSE s[j + 1]
<1> DEFINE l == SubSeq(s, 1, i - 1)
           r == SubSeq(s, i + 1, Len(s))
<1>1. Len(s) \in Nat
  BY LenProperties
<1>2. l \in Seq(S) /\ Len(l) = i - 1 /\ \A j \in 1 .. i - 1 : l[j] = s[j]
  BY <1>1, SubSeqProperties
<1>3. r \in Seq(S) /\ Len(r) = Len(s) - i /\ \A j \in 1 .. Len(s) - i : r[j] = s[i + j]
  BY <1>1, SubSeqProperties
<1>4. RemoveAt(s, i) = l \o r
  BY DEF RemoveAt
<1> HIDE DEF l, r
<1>5. /\ l \o r \in Seq(S) /\ Len(l \o r) = Len(s) - 1
      /\ \A j \in 1 .. Len(s) - 1 :
           (l \o r)[j] = IF j <= i - 1 THEN l[j] ELSE r[j - (i - 1)]
  <2>1. /\ l \o r \in Seq(S) /\ Len(l \o r) = Len(l) + Len(r)
        /\ \A j \in 1 .. Len(l) + Len(r) :
             (l \o r)[j] = IF j <= Len(l) THEN l[j] ELSE r[j - Len(l)]
    BY <1>2, <1>3, ConcatProperties
  <2>2. Len(l) = i - 1 /\ Len(l) + Len(r) = Len(s) - 1
    BY <1>1, <1>2, <1>3
  <2> QED
    BY <2>1, <2>2
<1>6. ASSUME NEW j \in 1 .. Len(s) - 1
      PROVE  (l \o r)[j] = IF j < i THEN s[j] ELSE s[j + 1]
  <2>1. CASE j <= i - 1
    <3>1. j \in 1 .. i - 1 /\ j < i
      BY <1>1, <2>1
    <3>2. (l \o r)[j] = l[j] /\ l[j] = s[j]
      BY <1>2, <1>5, <2>1, <3>1
    <3> QED
      BY <3>1, <3>2
  <2>2. CASE ~(j <= i - 1)
    <3>1. j - (i - 1) \in 1 .. Len(s) - i /\ i + (j - (i - 1)) = j + 1 /\ ~(j < i)
      BY <1>1, <2>2
    <3>2. (l \o r)[j] = r[j - (i - 1)] /\ r[j - (i - 1)] = s[i + (j - (i - 1))]
      BY <1>3, <1>5, <2>2, <3>1
    <3> QED
      BY <3>1, <3>2
  <2> QED
    BY <2>1, <2>2
<1> QED
  BY <1>4, <1>5, <1>6

LEMMA AddStaTypeInv ==
  ASSUME TypeInv, NEW t \in Tasks, AddSta(t)
  PROVE  TypeInv'
<1>1. PICK c \in Calls :
        /\ c.op = "add" /\ c.ssid # TooLong /\ c.password # TooLong
        /\ Len(sta_networks) < N
        /\ task' = [task EXCEPT ![t] =
                      Frame("slot_ssid", c, Len(sta_networks), <<>>, TRUE)]
  BY DEF AddSta
<1>2. FittingAdd(c)
  BY <1>1, CallKinds DEF FittingAdd
<1>3. Len(sta_networks) \in Slots /\ Len(sta_networks) \in 0 .. N
  BY <1>1, LenProperties, SizeAssumption DEF TypeInv, TypeOK, RamTyped, Slots
<1>4. Frame("slot_ssid", c, Len(sta_networks), <<>>, TRUE) \in Frames
  <2>1. <<>> \in Seq(Networks)
    BY EmptySeq
  <2> QED
    BY <1>3, <2>1 DEF Frame, Frames, TaskPCs
<1>5. FrameOK(Frame("slot_ssid", c, Len(sta_networks), <<>>, TRUE))
  BY <1>2, <1>3 DEF Frame, FrameOK
<1>6. task' \in [Tasks -> Frames] /\ \A u \in Tasks : FrameOK(task'[u])
  <2> DEFINE f == Frame("slot_ssid", c, Len(sta_networks), <<>>, TRUE)
  <2>1. task' = [task EXCEPT ![t] = f]
    BY <1>1
  <2> HIDE DEF f
  <2> QED
    BY <1>4, <1>5, <2>1, FrameTyped DEF TypeInv, TypeOK, f
<1>7. FlashTyped' /\ RamTyped' /\ SignalsTyped' /\ boot' = boot /\ Up /\ era' = era
  BY DEF AddSta, CanBegin, TypeInv, TypeOK, FlashTyped, RamTyped, SignalsTyped, ram,
         signals
<1> QED
  BY <1>6, <1>7, CallFrameTyped DEF TypeInv, TypeOK

LEMMA RemoveStaTypeInv ==
  ASSUME TypeInv, NEW t \in Tasks, RemoveSta(t)
  PROVE  TypeInv'
<1>1. PICK c \in Calls :
        /\ c.op = "remove" /\ c.index < Len(sta_networks)
        /\ sta_networks' = RemoveAt(sta_networks, c.index + 1)
        /\ task' = [task EXCEPT ![t] = Frame("slot_ssid", c, 0, sta_networks', TRUE)]
  BY DEF RemoveSta
<1>2. c \in RemoveCalls /\ c.index \in Nat
  BY <1>1, CallKinds DEF RemoveCalls
<1>3. c.index + 1 \in 1 .. Len(sta_networks) /\ Len(sta_networks) \in 0 .. N
  BY <1>1, <1>2, LenProperties, SizeAssumption DEF TypeInv, TypeOK, RamTyped
<1>4. sta_networks' \in Seq(Networks) /\ Len(sta_networks') <= N
  BY <1>1, <1>3, RemoveAtProperties, SizeAssumption DEF TypeInv, TypeOK, RamTyped
<1> DEFINE f == Frame("slot_ssid", c, 0, sta_networks', TRUE)
<1>5. f \in Frames
  BY <1>4, SizeAssumption DEF Frame, Frames, TaskPCs
<1>6. FrameOK(f)
  BY <1>2, SizeAssumption DEF Frame, FrameOK, Slots
<1>7. task' = [task EXCEPT ![t] = f]
  BY <1>1
<1> HIDE DEF f
<1>8. task' \in [Tasks -> Frames] /\ \A u \in Tasks : FrameOK(task'[u])
  BY <1>5, <1>6, <1>7, FrameTyped DEF TypeInv, TypeOK
<1>9. /\ FlashTyped' /\ SignalsTyped' /\ boot' = boot /\ Up /\ era' = era
      /\ data' = data
  BY DEF RemoveSta, CanBegin, TypeInv, TypeOK, FlashTyped, SignalsTyped, signals
<1>10. RamTyped'
  BY <1>4, <1>9 DEF TypeInv, TypeOK, RamTyped
<1> QED
  BY <1>8, <1>9, <1>10, CallFrameTyped DEF TypeInv, TypeOK

\* What remove and add write to a slot is a network, which fits the slot.
LEMMA SlotNetworkInNetworks ==
  ASSUME NEW f \in Frames, FrameOK(f), f.pc \in {"slot_ssid", "slot_password"}
  PROVE  f.i \in Slots /\ SlotNetwork(f) \in Networks
<1>1. f.i \in Slots /\ (FittingAdd(f.call) \/ f.call \in RemoveCalls)
  BY DEF FrameOK
<1>2. SlotNetwork(f) \in Networks
  <2>1. CASE f.call.op = "add"
    BY <1>1, <2>1 DEF SlotNetwork, Network, Networks, FittingAdd, AddCalls, EnvTexts,
       RemoveCalls
  <2>2. CASE f.call.op # "add" /\ f.i < Len(f.networks)
    <3>1. f.networks \in Seq(Networks) /\ f.i + 1 \in 1 .. Len(f.networks)
      BY <1>1, <2>2, LenProperties, SizeAssumption DEF Frames, Slots
    <3> QED
      BY <2>2, <3>1, ElementOfSeq DEF SlotNetwork
  <2>3. CASE f.call.op # "add" /\ ~(f.i < Len(f.networks))
    BY <2>3, TextAssumption DEF SlotNetwork, Network, Networks
  <2> QED
    BY <2>1, <2>2, <2>3
<1> QED
  BY <1>1, <1>2

LEMMA SlotNetworkTyped ==
  ASSUME NEW f \in Frames, FrameOK(f), f.pc \in {"slot_ssid", "slot_password"}
  PROVE  /\ f.i \in Slots
         /\ SlotNetwork(f).ssid \in Text
         /\ OrEmpty(SlotNetwork(f).password) \in Text
<1>1. f.i \in Slots /\ SlotNetwork(f) \in Networks
  BY SlotNetworkInNetworks
<1> QED
  BY <1>1, TextAssumption DEF Networks, OrEmpty

LEMMA WriteSlotSsidTypeInv ==
  ASSUME TypeInv, Up, NEW t \in Tasks, WriteSlotSsid(t)
  PROVE  TypeInv'
<1> DEFINE f == task[t]
<1>1. f \in Frames /\ FrameOK(f) /\ f.pc = "slot_ssid"
  BY DEF WriteSlotSsid, TypeInv, TypeOK
<1>2. f.i \in Slots /\ SlotNetwork(f).ssid \in Text
  BY <1>1, SlotNetworkTyped
<1>3. PICK ok \in WriteResults :
        /\ store(sta_ssid_key(f.i), SlotNetwork(f).ssid, ok)
        /\ IF ok THEN Goto(t, "slot_password") ELSE Return(t)
        /\ Edited(ok)
  BY DEF WriteSlotSsid
<1>4. FlashTyped'
  BY <1>2, <1>3, SlotKeys, TextItems, StoreTyped DEF TypeInv, TypeOK
<1>5. FrameOK(Frame("slot_password", f.call, f.i, f.networks, f.ok))
  BY <1>1 DEF Frame, FrameOK
<1>6. task' \in [Tasks -> Frames] /\ \A u \in Tasks : FrameOK(task'[u])
  BY <1>3, <1>5, GotoTyped, ReturnTyped DEF TypeInv, TypeOK, TaskPCs
<1>7. RamTyped' /\ SignalsTyped' /\ boot' = boot
  BY DEF WriteSlotSsid, TypeInv, TypeOK, RamTyped, SignalsTyped, ram, signals
<1> QED
  BY <1>3, <1>4, <1>6, <1>7, EditedTyped, CallFrameTyped

LEMMA WriteSlotPasswordTypeInv ==
  ASSUME TypeInv, Up, NEW t \in Tasks, WriteSlotPassword(t)
  PROVE  TypeInv'
<1> DEFINE f == task[t]
           next == Frame("slot_ssid", f.call, f.i + 1, f.networks, TRUE)
<1>1. f \in Frames /\ FrameOK(f) /\ f.pc = "slot_password"
  BY DEF WriteSlotPassword, TypeInv, TypeOK
<1>2. f.i \in Slots /\ OrEmpty(SlotNetwork(f).password) \in Text
  BY <1>1, SlotNetworkTyped
<1>3. PICK ok \in WriteResults :
        /\ store(sta_pw_key(f.i), OrEmpty(SlotNetwork(f).password), ok)
        /\ IF ok /\ f.call.op = "add" THEN Goto(t, "push")
           ELSE IF ok /\ f.i + 1 < N THEN task' = [task EXCEPT ![t] = next]
           ELSE Return(t)
        /\ Edited(ok)
  BY DEF WriteSlotPassword
<1>4. FlashTyped'
  BY <1>2, <1>3, SlotKeys, TextItems, StoreTyped DEF TypeInv, TypeOK
<1>5. task' \in [Tasks -> Frames] /\ \A u \in Tasks : FrameOK(task'[u])
  <2>1. CASE ok /\ f.call.op = "add"
    <3>1. FrameOK(Frame("push", f.call, f.i, f.networks, f.ok))
      BY <1>1, <2>1 DEF Frame, FrameOK, RemoveCalls
    <3> QED
      BY <1>3, <2>1, <3>1, GotoTyped DEF TypeInv, TypeOK, TaskPCs
  <2>2. CASE ~(ok /\ f.call.op = "add") /\ ok /\ f.i + 1 < N
    <3>1. f.i + 1 \in Slots /\ f.i + 1 \in 0 .. N
      BY <1>2, <2>2, SizeAssumption DEF Slots
    <3>2. next \in Frames
      BY <1>1, <3>1 DEF Frame, Frames, TaskPCs
    <3>3. FrameOK(next)
      BY <1>1, <3>1 DEF Frame, FrameOK
    <3>4. task' = [task EXCEPT ![t] = next]
      BY <1>3, <2>2
    <3> HIDE DEF next
    <3> QED
      BY <3>2, <3>3, <3>4, FrameTyped DEF TypeInv, TypeOK
  <2>3. CASE ~(ok /\ f.call.op = "add") /\ ~(ok /\ f.i + 1 < N)
    BY <1>3, <2>3, ReturnTyped DEF TypeInv, TypeOK
  <2> QED
    BY <2>1, <2>2, <2>3
<1>6. RamTyped' /\ SignalsTyped' /\ boot' = boot
  BY DEF WriteSlotPassword, TypeInv, TypeOK, RamTyped, SignalsTyped, ram, signals
<1> QED
  BY <1>3, <1>4, <1>5, <1>6, EditedTyped, CallFrameTyped

LEMMA PushStaTypeInv ==
  ASSUME TypeInv, Up, NEW t \in Tasks, PushSta(t)
  PROVE  TypeInv'
<1> DEFINE n == Network(task[t].call.ssid, task[t].call.password)
<1>1. FittingAdd(task[t].call)
  BY DEF PushSta, TypeInv, FrameOK
<1>2. n \in Networks
  BY <1>1 DEF FittingAdd, AddCalls, EnvTexts, Network, Networks
<1>3. sta_networks' = IF Len(sta_networks) < N THEN Append(sta_networks, n)
                      ELSE sta_networks
  BY DEF PushSta
<1> HIDE DEF n
<1>4. sta_networks' \in Seq(Networks) /\ Len(sta_networks') <= N
  BY <1>2, <1>3, AppendProperties, LenProperties, SizeAssumption
     DEF TypeInv, TypeOK, RamTyped
<1>5. RamTyped'
  BY <1>4 DEF PushSta, TypeInv, TypeOK, RamTyped
<1>6. FrameOK(Frame("connect", task[t].call, task[t].i, task[t].networks, task[t].ok))
  BY <1>1 DEF Frame, FrameOK
<1>7. task' \in [Tasks -> Frames] /\ \A u \in Tasks : FrameOK(task'[u])
  BY <1>6, GotoTyped, ReturnTyped DEF PushSta, TypeInv, TypeOK, TaskPCs
<1>8. FlashTyped' /\ SignalsTyped' /\ boot' = boot /\ era' = era
  BY DEF PushSta, TypeInv, TypeOK, FlashTyped, SignalsTyped, signals
<1> QED
  BY <1>5, <1>7, <1>8, CallFrameTyped DEF TypeInv, TypeOK

LEMMA ConnectTypeInv ==
  ASSUME TypeInv, Up, NEW t \in Tasks, Connect(t)
  PROVE  TypeInv'
<1>1. Len(sta_networks) \in 0 .. N /\ (sta_networks # <<>> => Len(sta_networks) # 0)
  BY LenProperties, EmptySeq, SizeAssumption DEF TypeInv, TypeOK, RamTyped
<1>2. CONNECT_REQUEST' \in Slots
  <2>1. CASE sta_networks = <<>>
    BY <2>1, FirstSlot DEF Connect
  <2>2. CASE sta_networks # <<>>
    <3>1. CONNECT_REQUEST' = Len(sta_networks) - 1
      BY <2>2 DEF Connect
    <3> QED
      BY <1>1, <2>2, <3>1, SizeAssumption DEF Slots
  <2> QED
    BY <2>1, <2>2
<1>3. task' \in [Tasks -> Frames] /\ \A u \in Tasks : FrameOK(task'[u])
  BY ReturnTyped DEF Connect, TypeInv, TypeOK
<1>4. FlashTyped' /\ RamTyped' /\ SignalsTyped' /\ boot' = boot /\ era' = era
  BY <1>2 DEF Connect, TypeInv, TypeOK, FlashTyped, RamTyped, SignalsTyped, ram
<1> QED
  BY <1>3, <1>4, CallFrameTyped DEF TypeInv, TypeOK

LEMMA TakeSignalTypeInv == TypeInv /\ TakeSignal => TypeInv'
<1> SUFFICES ASSUME TypeInv, TakeSignal PROVE TypeInv'
  OBVIOUS
<1>1. SignalsTyped'
  BY DEF TakeSignal, TypeInv, TypeOK, SignalsTyped
<1> QED
  BY <1>1 DEF TakeSignal, TypeInv, TypeOK, FlashTyped, RamTyped, BootOK, ram

LEMMA NextTypeInv == TypeInv /\ IdleUntilUp /\ [Next]_vars => TypeInv'
<1> SUFFICES ASSUME TypeInv, IdleUntilUp, [Next]_vars PROVE TypeInv'
  OBVIOUS
<1>1. CASE Boot
  BY <1>1, BootTypeInv
<1>2. CASE TakeSignal
  BY <1>2, TakeSignalTypeInv
<1>3. CASE PowerLoss
  BY <1>3, ResetTyped DEF PowerLoss
<1>4. ASSUME NEW t \in Tasks, Step(t) PROVE TypeInv'
  <2>1. CASE Set(t) \/ ConfigureApSsid(t) \/ AddSta(t) \/ RemoveSta(t)
    BY <2>1, SetTypeInv, ConfigureApSsidTypeInv, AddStaTypeInv, RemoveStaTypeInv
  <2>2. CASE PublishByReset(t)
    BY <2>2, ResetTyped DEF PublishByReset
  <2>3. CASE \/ Publish(t) \/ ConfigureApSsidMirror(t) \/ ConfigureApPassword(t)
             \/ ConfigureApPasswordMirror(t) \/ ConfigureApNoPassword(t)
             \/ WriteSlotSsid(t) \/ WriteSlotPassword(t) \/ PushSta(t) \/ Connect(t)
    <3>1. task[t].pc # "idle"
      BY <2>3 DEF Publish, ConfigureApSsidMirror, ConfigureApPassword,
         ConfigureApPasswordMirror, ConfigureApNoPassword, WriteSlotSsid,
         WriteSlotPassword, PushSta, Connect
    <3>2. Up
      BY <3>1 DEF IdleUntilUp, Idle, Frame
    <3> QED
      BY <2>3, <3>2, PublishTypeInv, ConfigureApSsidMirrorTypeInv,
         ConfigureApPasswordTypeInv, ConfigureApPasswordMirrorTypeInv,
         ConfigureApNoPasswordTypeInv, WriteSlotSsidTypeInv,
         WriteSlotPasswordTypeInv, PushStaTypeInv, ConnectTypeInv
  <2> QED
    BY <1>4, <2>1, <2>2, <2>3 DEF Step
<1>5. CASE UNCHANGED vars
  BY <1>5 DEF vars, TypeInv, TypeOK, FlashTyped, RamTyped, SignalsTyped, BootOK
<1> QED
  BY <1>1, <1>2, <1>3, <1>4, <1>5 DEF Next

\* The strengthened invariant holds in every behaviour.
LEMMA Typing == Spec => [](TypeInv /\ IdleUntilUp)
<1>1. Init => TypeInv /\ IdleUntilUp
  BY InitTypeInv DEF Init, IdleUntilUp
<1>2. TypeInv /\ IdleUntilUp /\ [Next]_vars => (TypeInv /\ IdleUntilUp)'
  <2> SUFFICES ASSUME TypeInv, IdleUntilUp, [Next]_vars
               PROVE  TypeInv' /\ IdleUntilUp'
    OBVIOUS
  <2>1. CASE Next
    BY <2>1, NextTypeInv, IdleUntilUpStep DEF TypeInv, TypeOK
  <2>2. CASE UNCHANGED vars
    BY <2>2, NextTypeInv DEF vars, IdleUntilUp, Up
  <2> QED
    BY <2>1, <2>2
<1> QED
  BY <1>1, <1>2, PTL DEF Spec

\* Type correctness, for any interleaving of calls, resets and failed reads
\* and writes: in particular the Vec never holds more than N networks, every
\* store goes to a key of its type, and no connect request is out of range.
THEOREM TypeCorrect == Spec => []TypeOK
<1>1. TypeInv => TypeOK
  BY DEF TypeInv
<1> QED
  BY <1>1, Typing, PTL

-----------------------------------------------------------------------------
(* The mirror agrees with flash.  What makes ScalarsSynced inductive is     *)
(* that one call runs at a time, that a call about to mirror a value has    *)
(* it in flash, and that init() has the fields in step before it is done.   *)

\* All callers are on one executor, reads work, and either writes work or
\* there is no default network to write (see README).
Cooperative ==
  ~Preemptive /\ ~ReadsMayFail /\ (~WritesMayFail \/ Fitting(Env.STA_SSID) = None)

AtMostOne == \A t, u \in Tasks : task[t] # Idle /\ task[u] # Idle => t = u

Synced(k) == data[k] = Loaded(k)

\* What a frame is about to mirror is in flash.
HeldInFlash(f) ==
  /\ f.pc = "publish" => flash[f.call.key] = f.call.val
  /\ f.pc = "ap_ssid_mirror" => flash[AP_SSID] = f.call.ssid
  /\ f.pc = "ap_password_mirror" => flash[AP_PASSWORD] = f.call.password

BootSynced ==
  /\ boot.pc = "scalars" => data = NewData
  /\ boot.pc \in {"slots", "defaults", "sta_password"}
       => \A k \in ScalarKeys : Synced(k)
  /\ boot.pc = "sta_enabled"
       => data[STA_ENABLED] = TRUE /\ \A k \in ScalarKeys \ {STA_ENABLED} : Synced(k)

SyncInv ==
  AtMostOne /\ BootSynced /\ ScalarsSynced /\ \A t \in Tasks : HeldInFlash(task[t])

LEMMA IdlePc == Idle.pc = "idle"
BY DEF Idle, Frame

\* In a step of task t all other tasks are idle, and stay so.
LEMMA OthersIdle ==
  ASSUME ~Preemptive, AtMostOne, task \in [Tasks -> Frames], NEW t \in Tasks, Step(t)
  PROVE  \A u \in Tasks \ {t} : task[u] = Idle /\ task'[u] = Idle
<1>1. \A u \in Tasks \ {t} : task[u] = Idle
  <2>1. CASE task[t] # Idle
    BY <2>1 DEF AtMostOne
  <2>2. CASE task[t] = Idle
    <3>1. task[t].pc = "idle"
      BY <2>2, IdlePc
    <3>2. CanBegin(t)
      BY <3>1 DEF Step, Set, Publish, PublishByReset, ConfigureApSsid,
         ConfigureApSsidMirror, ConfigureApPassword, ConfigureApPasswordMirror,
         ConfigureApNoPassword, AddSta, RemoveSta, WriteSlotSsid,
         WriteSlotPassword, PushSta, Connect
    <3> QED
      BY <3>2 DEF CanBegin
  <2> QED
    BY <2>1, <2>2
<1>2. CASE PublishByReset(t)
  BY <1>1, <1>2 DEF PublishByReset, ResetRam
<1>3. CASE ~PublishByReset(t)
  <2>1. \E f : task' = [task EXCEPT ![t] = f]
    <3>1. task = [task EXCEPT ![t] = task[t]]
      OBVIOUS
    <3> QED
      BY <1>3, <3>1 DEF Step, Set, Publish, ConfigureApSsid, ConfigureApSsidMirror,
         ConfigureApPassword, ConfigureApPasswordMirror, ConfigureApNoPassword,
         AddSta, RemoveSta, WriteSlotSsid, WriteSlotPassword, PushSta, Connect,
         Goto, Return
  <2> QED
    BY <1>1, <2>1
<1> QED
  BY <1>2, <1>3

\* When no frame is about to mirror, every field is in step.
LEMMA AllSynced ==
  ASSUME ScalarsSynced, Up,
         \A u \in Tasks : task[u].pc \notin
           {"publish", "ap_ssid_mirror", "ap_password_mirror"}
  PROVE  \A k \in ScalarKeys : Synced(k)
BY DEF ScalarsSynced, AboutToMirror, Synced

\* A store under key k disturbs no other field.
LEMMA StoreKeepsSynced ==
  ASSUME FlashTyped, NEW k \in Keys, NEW v, NEW ok, store(k, v, ok), data' = data
  PROVE  /\ \A x \in ScalarKeys \ {k} : Synced(x) => Synced(x)'
         /\ ~ok => \A x \in ScalarKeys : Synced(x) => Synced(x)'
         /\ ok => flash'[k] = v
BY DEF FlashTyped, store, Synced, Loaded, Keys

\* A mirror write of what flash holds brings its field in step.
LEMMA MirrorSyncs ==
  ASSUME RamTyped, NEW k \in ScalarKeys, flash[k] # None, flash' = flash,
         data' = [data EXCEPT ![k] = flash[k]]
  PROVE  /\ Synced(k)'
         /\ \A x \in ScalarKeys \ {k} : Synced(x) => Synced(x)'
BY DEF RamTyped, Synced, Loaded

\* What a step of a call has to show.
LEMMA CallSyncInv ==
  ASSUME TypeInv, SyncInv, ~Preemptive, NEW t \in Tasks, Step(t), Up, boot' = boot,
         HeldInFlash(task[t])',
         \A k \in ScalarKeys : Synced(k)' \/ AboutToMirror(t, k)'
  PROVE  SyncInv'
<1>1. \A u \in Tasks \ {t} : task'[u] = Idle
  BY OthersIdle DEF SyncInv, TypeInv, TypeOK
<1>2. AtMostOne'
  BY <1>1 DEF AtMostOne
<1>3. \A u \in Tasks : HeldInFlash(task[u])'
  BY <1>1, IdlePc DEF HeldInFlash
<1>4. ScalarsSynced'
  BY DEF ScalarsSynced, Synced
<1>5. BootSynced'
  BY DEF BootSynced, Up
<1> QED
  BY <1>2, <1>3, <1>4, <1>5 DEF SyncInv

\* Before a step of a task that is not about to mirror, all is in step.
LEMMA SyncedBefore ==
  ASSUME TypeInv, SyncInv, ~Preemptive, NEW t \in Tasks, Step(t), Up,
         task[t].pc \notin {"publish", "ap_ssid_mirror", "ap_password_mirror"}
  PROVE  \A k \in ScalarKeys : Synced(k)
<1>1. \A u \in Tasks \ {t} : task[u] = Idle
  BY OthersIdle DEF SyncInv, TypeInv, TypeOK
<1>2. \A u \in Tasks : task[u].pc \notin
        {"publish", "ap_ssid_mirror", "ap_password_mirror"}
  BY <1>1, IdlePc
<1> QED
  BY <1>2, AllSynced DEF SyncInv

\* Before a mirror step every other field is in step.
LEMMA OthersSyncedBefore ==
  ASSUME TypeInv, SyncInv, ~Preemptive, NEW t \in Tasks, Step(t), Up,
         NEW k \in ScalarKeys, \A x \in ScalarKeys \ {k} : ~AboutToMirror(t, x)
  PROVE  \A x \in ScalarKeys \ {k} : Synced(x)
<1>1. \A u \in Tasks \ {t} : task[u] = Idle
  BY OthersIdle DEF SyncInv, TypeInv, TypeOK
<1>2. \A u \in Tasks, x \in ScalarKeys \ {k} : ~AboutToMirror(u, x)
  BY <1>1, IdlePc DEF AboutToMirror
<1> QED
  BY <1>2 DEF SyncInv, ScalarsSynced, Synced

LEMMA SetSyncInv ==
  ASSUME TypeInv, SyncInv, ~Preemptive, NEW t \in Tasks, Step(t), Set(t)
  PROVE  SyncInv'
<1>1. PICK c \in Calls, ok \in WriteResults :
        /\ c.op = "set" /\ c.val # TooLong
        /\ store(c.key, c.val, ok)
        /\ task' = IF ok THEN [task EXCEPT ![t] = Frame("publish", c, 0, <<>>, TRUE)]
                   ELSE task
  BY DEF Set
<1>2. c.key \in ScalarKeys /\ c.key \in Keys
  BY <1>1, CallKinds, SetCallTyped
<1>3. data' = data /\ boot' = boot /\ Up /\ task[t] = Idle /\ task[t].pc = "idle"
  BY IdlePc DEF Set, CanBegin, ram
<1>4. \A k \in ScalarKeys : Synced(k)
  BY <1>3, SyncedBefore
<1>5. /\ \A x \in ScalarKeys \ {c.key} : Synced(x)'
      /\ ~ok => \A x \in ScalarKeys : Synced(x)'
      /\ ok => flash'[c.key] = c.val
  BY <1>1, <1>2, <1>3, <1>4, StoreKeepsSynced DEF TypeInv, TypeOK
<1>6. CASE ok
  <2>1. task'[t] = Frame("publish", c, 0, <<>>, TRUE)
    BY <1>1, <1>6 DEF TypeInv, TypeOK
  <2>2. HeldInFlash(task[t])' /\ AboutToMirror(t, c.key)'
    BY <1>5, <1>6, <2>1 DEF HeldInFlash, AboutToMirror, Frame
  <2> QED
    BY <1>3, <1>5, <2>2, CallSyncInv
<1>7. CASE ~ok
  <2>1. HeldInFlash(task[t])'
    BY <1>1, <1>3, <1>7, IdlePc DEF HeldInFlash
  <2> QED
    BY <1>3, <1>5, <1>7, <2>1, CallSyncInv
<1> QED
  BY <1>6, <1>7

LEMMA PublishSyncInv ==
  ASSUME TypeInv, SyncInv, ~Preemptive, Up, NEW t \in Tasks, Step(t), Publish(t)
  PROVE  SyncInv'
<1> DEFINE c == task[t].call
<1>1. c \in SetCalls /\ c.val # TooLong /\ task[t].pc = "publish"
  BY DEF Publish, TypeInv, FrameOK
<1>2. c.key \in ScalarKeys /\ flash[c.key] = c.val /\ flash[c.key] # None
  BY <1>1, SetCallTyped DEF SyncInv, HeldInFlash
<1>3. \A x \in ScalarKeys \ {c.key} : Synced(x)
  BY <1>1, <1>2, OthersSyncedBefore DEF AboutToMirror
<1>4. data' = [data EXCEPT ![c.key] = flash[c.key]] /\ flash' = flash /\ boot' = boot
  BY <1>2 DEF Publish
<1>5. \A x \in ScalarKeys : Synced(x)'
  BY <1>2, <1>3, <1>4, MirrorSyncs DEF TypeInv, TypeOK
<1>6. HeldInFlash(task[t])'
  BY IdlePc DEF Publish, Return, HeldInFlash, TypeInv, TypeOK
<1> QED
  BY <1>4, <1>5, <1>6, CallSyncInv

LEMMA ConfigureApSsidSyncInv ==
  ASSUME TypeInv, SyncInv, ~Preemptive, NEW t \in Tasks, Step(t), ConfigureApSsid(t)
  PROVE  SyncInv'
<1>1. data' = data /\ boot' = boot /\ Up /\ task[t].pc = "idle"
  BY IdlePc DEF ConfigureApSsid, CanBegin, ram
<1>2. \A k \in ScalarKeys : Synced(k)
  BY <1>1, SyncedBefore
<1>3. PICK c \in Calls :
        IF c.ssid \in Text
        THEN \E ok \in WriteResults :
               /\ store(AP_SSID, c.ssid, ok)
               /\ task' = [task EXCEPT ![t] =
                    Frame(IF ok THEN "ap_ssid_mirror" ELSE "ap_password",
                          c, 0, <<>>, ok)]
        ELSE /\ task' = [task EXCEPT ![t] =
                  Frame("ap_password", c, 0, <<>>, c.ssid = None)]
             /\ UNCHANGED flash
  BY DEF ConfigureApSsid
<1>4. CASE c.ssid \in Text
  <2>1. PICK ok \in WriteResults :
          /\ store(AP_SSID, c.ssid, ok)
          /\ task' = [task EXCEPT ![t] =
               Frame(IF ok THEN "ap_ssid_mirror" ELSE "ap_password",
                     c, 0, <<>>, ok)]
    BY <1>3, <1>4
  <2>2. /\ \A x \in ScalarKeys \ {AP_SSID} : Synced(x)'
        /\ ~ok => \A x \in ScalarKeys : Synced(x)'
        /\ ok => flash'[AP_SSID] = c.ssid
    BY <1>1, <1>2, <2>1, ApKeys, StoreKeepsSynced DEF TypeInv, TypeOK
  <2>3. task'[t] = Frame(IF ok THEN "ap_ssid_mirror" ELSE "ap_password",
                         c, 0, <<>>, ok)
    BY <2>1 DEF TypeInv, TypeOK
  <2>4. HeldInFlash(task[t])' /\ (ok => AboutToMirror(t, AP_SSID)')
    BY <2>2, <2>3 DEF HeldInFlash, AboutToMirror, Frame
  <2> QED
    BY <1>1, <2>2, <2>4, CallSyncInv
<1>5. CASE c.ssid \notin Text
  <2>1. flash' = flash /\ task'[t] = Frame("ap_password", c, 0, <<>>, c.ssid = None)
    BY <1>3, <1>5 DEF TypeInv, TypeOK
  <2>2. HeldInFlash(task[t])'
    BY <2>1 DEF HeldInFlash, Frame
  <2>3. \A k \in ScalarKeys : Synced(k)'
    BY <1>1, <1>2, <2>1 DEF Synced, Loaded
  <2> QED
    BY <1>1, <2>2, <2>3, CallSyncInv
<1> QED
  BY <1>4, <1>5

LEMMA ConfigureApSsidMirrorSyncInv ==
  ASSUME TypeInv, SyncInv, ~Preemptive, Up, NEW t \in Tasks, Step(t),
         ConfigureApSsidMirror(t)
  PROVE  SyncInv'
<1>1. task[t].pc = "ap_ssid_mirror" /\ task[t].call.ssid \in Text
  BY DEF ConfigureApSsidMirror, TypeInv, FrameOK
<1>2. flash[AP_SSID] = task[t].call.ssid /\ flash[AP_SSID] # None
  BY <1>1, TextAssumption DEF SyncInv, HeldInFlash
<1>3. \A x \in ScalarKeys \ {AP_SSID} : Synced(x)
  BY <1>1, ApKeys, OthersSyncedBefore DEF AboutToMirror
<1>4. data' = [data EXCEPT ![AP_SSID] = flash[AP_SSID]] /\ flash' = flash /\ boot' = boot
  BY <1>2 DEF ConfigureApSsidMirror
<1>5. \A x \in ScalarKeys : Synced(x)'
  BY <1>2, <1>3, <1>4, ApKeys, MirrorSyncs DEF TypeInv, TypeOK
<1>6. task'[t].pc = "ap_password"
  BY DEF ConfigureApSsidMirror, Goto, Frame, TypeInv, TypeOK
<1>7. HeldInFlash(task[t])'
  BY <1>6 DEF HeldInFlash
<1> QED
  BY <1>4, <1>5, <1>7, CallSyncInv

LEMMA ConfigureApPasswordSyncInv ==
  ASSUME TypeInv, SyncInv, ~Preemptive, Up, NEW t \in Tasks, Step(t),
         ConfigureApPassword(t)
  PROVE  SyncInv'
<1> DEFINE f == task[t]
<1>1. /\ task[t].pc = "ap_password" /\ task[t].call.password \in Text
      /\ data' = data /\ boot' = boot
  BY DEF ConfigureApPassword, ram
<1>2. \A k \in ScalarKeys : Synced(k)
  BY <1>1, SyncedBefore
<1>3. PICK ok \in WriteResults :
        /\ store(AP_PASSWORD, f.call.password, ok)
        /\ IF ok THEN Goto(t, "ap_password_mirror") ELSE Return(t)
  BY DEF ConfigureApPassword
<1>4. /\ \A x \in ScalarKeys \ {AP_PASSWORD} : Synced(x)'
      /\ ~ok => \A x \in ScalarKeys : Synced(x)'
      /\ ok => flash'[AP_PASSWORD] = f.call.password
  BY <1>1, <1>2, <1>3, ApKeys, StoreKeepsSynced DEF TypeInv, TypeOK
<1>5. CASE ok
  <2>1. task'[t] = Frame("ap_password_mirror", f.call, f.i, f.networks, f.ok)
    BY <1>3, <1>5 DEF Goto, TypeInv, TypeOK
  <2>2. HeldInFlash(task[t])' /\ AboutToMirror(t, AP_PASSWORD)'
    BY <1>4, <1>5, <2>1 DEF HeldInFlash, AboutToMirror, Frame
  <2> QED
    BY <1>1, <1>4, <2>2, CallSyncInv
<1>6. CASE ~ok
  <2>1. HeldInFlash(task[t])'
    BY <1>3, <1>6, IdlePc DEF Return, HeldInFlash, TypeInv, TypeOK
  <2> QED
    BY <1>1, <1>4, <1>6, <2>1, CallSyncInv
<1> QED
  BY <1>5, <1>6

LEMMA ConfigureApPasswordMirrorSyncInv ==
  ASSUME TypeInv, SyncInv, ~Preemptive, Up, NEW t \in Tasks, Step(t),
         ConfigureApPasswordMirror(t)
  PROVE  SyncInv'
<1>1. task[t].pc = "ap_password_mirror" /\ task[t].call.password \in Text
  BY DEF ConfigureApPasswordMirror, TypeInv, FrameOK
<1>2. flash[AP_PASSWORD] = task[t].call.password /\ flash[AP_PASSWORD] # None
  BY <1>1, TextAssumption DEF SyncInv, HeldInFlash
<1>3. \A x \in ScalarKeys \ {AP_PASSWORD} : Synced(x)
  BY <1>1, ApKeys, OthersSyncedBefore DEF AboutToMirror
<1>4. /\ data' = [data EXCEPT ![AP_PASSWORD] = flash[AP_PASSWORD]]
      /\ flash' = flash /\ boot' = boot
  BY <1>2 DEF ConfigureApPasswordMirror
<1>5. \A x \in ScalarKeys : Synced(x)'
  BY <1>2, <1>3, <1>4, ApKeys, MirrorSyncs DEF TypeInv, TypeOK
<1>6. HeldInFlash(task[t])'
  BY IdlePc DEF ConfigureApPasswordMirror, Return, HeldInFlash, TypeInv, TypeOK
<1> QED
  BY <1>4, <1>5, <1>6, CallSyncInv

\* A store under a slot key leaves the scalar fields of flash alone.
LEMMA SlotStoreKeepsScalars ==
  ASSUME FlashTyped, NEW i \in Slots, NEW k \in {sta_ssid_key(i), sta_pw_key(i)},
         NEW v, NEW ok, store(k, v, ok)
  PROVE  \A x \in ScalarKeys : flash'[x] = flash[x]
<1>1. k \in Keys \ ScalarKeys
  BY SlotKeys
<1> QED
  BY <1>1 DEF FlashTyped, store, Keys

\* The calls on the networks, and configure_ap without a password, touch no
\* scalar field.
LEMMA OtherCallsSyncInv ==
  ASSUME TypeInv, SyncInv, ~Preemptive, Up, NEW t \in Tasks, Step(t),
         \/ ConfigureApNoPassword(t) \/ AddSta(t) \/ RemoveSta(t)
         \/ WriteSlotSsid(t) \/ WriteSlotPassword(t) \/ PushSta(t) \/ Connect(t)
  PROVE  SyncInv'
<1> DEFINE Mirroring == {"publish", "ap_ssid_mirror", "ap_password_mirror"}
<1>1. task[t].pc \notin Mirroring
  BY IdlePc DEF ConfigureApNoPassword, AddSta, RemoveSta, WriteSlotSsid,
     WriteSlotPassword, PushSta, Connect, CanBegin
<1>2. \A k \in ScalarKeys : Synced(k)
  BY <1>1, SyncedBefore
<1>3. data' = data /\ boot' = boot
  BY DEF ConfigureApNoPassword, AddSta, RemoveSta, WriteSlotSsid, WriteSlotPassword,
     PushSta, Connect, ram
<1>4. \A x \in ScalarKeys : flash'[x] = flash[x]
  <2>1. CASE WriteSlotSsid(t) \/ WriteSlotPassword(t)
    <3>1. task[t].i \in Slots
      BY <2>1 DEF WriteSlotSsid, WriteSlotPassword, TypeInv, FrameOK
    <3> QED
      BY <2>1, <3>1, SlotStoreKeepsScalars
         DEF WriteSlotSsid, WriteSlotPassword, TypeInv, TypeOK
  <2>2. CASE ~(WriteSlotSsid(t) \/ WriteSlotPassword(t))
    <3>1. flash' = flash
      BY <2>2 DEF ConfigureApNoPassword, AddSta, RemoveSta, PushSta, Connect
    <3> QED
      BY <3>1
  <2> QED
    BY <2>1, <2>2
<1>5. \A k \in ScalarKeys : Synced(k)'
  BY <1>2, <1>3, <1>4 DEF Synced, Loaded
<1>6. task'[t].pc \notin Mirroring
  <2>1. CASE ConfigureApNoPassword(t) \/ Connect(t)
    BY <2>1, IdlePc DEF ConfigureApNoPassword, Connect, Return, TypeInv, TypeOK
  <2>2. CASE AddSta(t)
    BY <2>2 DEF AddSta, Frame, TypeInv, TypeOK
  <2>3. CASE RemoveSta(t)
    BY <2>3 DEF RemoveSta, Frame, TypeInv, TypeOK
  <2>4. CASE WriteSlotSsid(t)
    BY <2>4, IdlePc DEF WriteSlotSsid, Goto, Return, Frame, TypeInv, TypeOK
  <2>5. CASE WriteSlotPassword(t)
    BY <2>5, IdlePc DEF WriteSlotPassword, Goto, Return, Frame, TypeInv, TypeOK
  <2>6. CASE PushSta(t)
    BY <2>6, IdlePc DEF PushSta, Goto, Return, Frame, TypeInv, TypeOK
  <2> QED
    BY <2>1, <2>2, <2>3, <2>4, <2>5, <2>6
<1>7. HeldInFlash(task[t])'
  BY <1>6 DEF HeldInFlash
<1> QED
  BY <1>3, <1>5, <1>7, CallSyncInv

\* A reset starts again from NewData.
LEMMA ResetSyncInv == ResetRam => SyncInv'
<1> SUFFICES ASSUME ResetRam PROVE SyncInv'
  OBVIOUS
<1>1. AtMostOne' /\ \A t \in Tasks : HeldInFlash(task[t])'
  BY IdlePc DEF ResetRam, AtMostOne, HeldInFlash
<1>2. BootSynced' /\ ScalarsSynced'
  BY DEF ResetRam, PoweredOn, BootSynced, ScalarsSynced, Up
<1> QED
  BY <1>1, <1>2 DEF SyncInv

\* What a step of init() has to show.
LEMMA BootStepSyncInv ==
  ASSUME SyncInv, IdleUntilUp, ~Up, task' = task, BootSynced',
         Up' => \A k \in ScalarKeys : Synced(k)'
  PROVE  SyncInv'
<1>1. AtMostOne' /\ \A t \in Tasks : HeldInFlash(task[t])'
  BY IdlePc DEF IdleUntilUp, SyncInv, AtMostOne, HeldInFlash
<1>2. ScalarsSynced'
  BY DEF ScalarsSynced, Synced
<1> QED
  BY <1>1, <1>2 DEF SyncInv

LEMMA LoadScalarsSyncInv ==
  ASSUME TypeInv, IdleUntilUp, SyncInv, Cooperative, LoadScalars
  PROVE  SyncInv'
<1>1. /\ data' = [k \in ScalarKeys |-> IF flash[k] = None THEN data[k] ELSE flash[k]]
      /\ boot'.pc = "slots" /\ data = NewData /\ flash' = flash /\ task' = task /\ ~Up
  BY DEF LoadScalars, Cooperative, ReadErrors, fetch, SyncInv, BootSynced, Up
<1>2. \A k \in ScalarKeys : Synced(k)'
  BY <1>1 DEF Synced, Loaded
<1> QED
  BY <1>1, <1>2, BootStepSyncInv DEF BootSynced, Up

LEMMA WriteDefaultSyncInv ==
  ASSUME TypeInv, IdleUntilUp, SyncInv, WriteDefault
  PROVE  SyncInv'
<1> DEFINE k == DefaultOrder[boot.i]
<1>1. /\ k \in ScalarKeys /\ k \in Keys /\ ~Up /\ task' = task
      /\ boot'.pc = "defaults" /\ \A x \in ScalarKeys : Synced(x)
  BY DEF WriteDefault, NextDefault, BootAt, Keys, SyncInv, BootSynced, Up
<1>2. \A x \in ScalarKeys : Synced(x)'
  <2>1. CASE k \in boot.missing /\ Default[k] # None
    <3>1. PICK ok \in WriteResults :
            /\ store(k, Default[k], ok)
            /\ data' = IF ok THEN [data EXCEPT ![k] = Default[k]] ELSE data
      BY <2>1 DEF WriteDefault
    <3>2. CASE ok
      <4>1. flash' = [flash EXCEPT ![k] = Default[k]]
        BY <3>1, <3>2 DEF store
      <4>2. data' = [data EXCEPT ![k] = Default[k]]
        BY <3>1, <3>2
      <4> QED
        BY <1>1, <2>1, <4>1, <4>2
           DEF Synced, Loaded, TypeInv, TypeOK, FlashTyped, RamTyped, Keys
    <3>3. CASE ~ok
      BY <1>1, <3>1, <3>3 DEF store, Synced, Loaded
    <3> QED
      BY <3>2, <3>3
  <2>2. CASE ~(k \in boot.missing /\ Default[k] # None)
    BY <1>1, <2>2 DEF WriteDefault, Synced, Loaded
  <2> QED
    BY <2>1, <2>2
<1> QED
  BY <1>1, <1>2, BootStepSyncInv DEF BootSynced, Up

LEMMA WriteDefaultNetworkSyncInv ==
  ASSUME TypeInv, IdleUntilUp, SyncInv, WriteDefaultNetwork
  PROVE  SyncInv'
<1>1. /\ ~Up /\ task' = task /\ data' = data /\ \A x \in ScalarKeys : Synced(x)
      /\ boot'.pc \in {"defaults", "sta_password"}
  BY DEF WriteDefaultNetwork, NextDefault, BootAt, SyncInv, BootSynced, Up, ram
<1>2. \A x \in ScalarKeys : flash'[x] = flash[x]
  BY FirstSlot, SlotStoreKeepsScalars DEF WriteDefaultNetwork, TypeInv, TypeOK
<1>3. \A x \in ScalarKeys : Synced(x)'
  BY <1>1, <1>2 DEF Synced, Loaded
<1> QED
  BY <1>1, <1>3, BootStepSyncInv DEF BootSynced, Up

LEMMA WriteDefaultPasswordSyncInv ==
  ASSUME TypeInv, IdleUntilUp, SyncInv, WriteDefaultPassword
  PROVE  SyncInv'
<1>1. ~Up /\ task' = task /\ \A x \in ScalarKeys : Synced(x)
  BY DEF WriteDefaultPassword, SyncInv, BootSynced, Up
<1>2. \A x \in ScalarKeys : flash'[x] = flash[x]
  BY FirstSlot, SlotStoreKeepsScalars DEF WriteDefaultPassword, TypeInv, TypeOK
<1>3. \/ data' = [data EXCEPT ![STA_ENABLED] = TRUE] /\ boot'.pc = "sta_enabled"
      \/ data' = data /\ boot'.pc = "defaults"
  BY DEF WriteDefaultPassword, NextDefault, BootAt, ram
<1>4. STA_ENABLED \in ScalarKeys
  BY DEF ScalarKeys, STA_ENABLED, AP_ENABLED, COUNTRY_CODE
<1>5. BootSynced'
  BY <1>1, <1>2, <1>3, <1>4
     DEF BootSynced, Synced, Loaded, TypeInv, TypeOK, RamTyped
<1> QED
  BY <1>1, <1>3, <1>5, BootStepSyncInv DEF Up

LEMMA WriteDefaultStaEnabledSyncInv ==
  ASSUME TypeInv, IdleUntilUp, SyncInv, Cooperative, WriteDefaultStaEnabled
  PROVE  SyncInv'
<1>1. /\ ~Up /\ task' = task /\ data' = data /\ boot'.pc = "defaults"
      /\ data[STA_ENABLED] = TRUE /\ \A x \in ScalarKeys \ {STA_ENABLED} : Synced(x)
  BY DEF WriteDefaultStaEnabled, NextDefault, BootAt, SyncInv, BootSynced, Up, ram
<1>2. ~WritesMayFail
  BY DEF WriteDefaultStaEnabled, TypeInv, BootOK, Cooperative
<1>3. flash' = [flash EXCEPT ![STA_ENABLED] = TRUE]
  BY <1>2 DEF WriteDefaultStaEnabled, WriteResults, store
<1>4. STA_ENABLED \in ScalarKeys /\ STA_ENABLED \in Keys
  BY DEF Keys, ScalarKeys, STA_ENABLED, AP_ENABLED, COUNTRY_CODE
<1>5. flash'[STA_ENABLED] = TRUE /\ \A x \in ScalarKeys \ {STA_ENABLED} : flash'[x] = flash[x]
  BY <1>3, <1>4 DEF TypeInv, TypeOK, FlashTyped, Keys
<1>6. None \notin BOOLEAN
  BY TextAssumption
<1>7. flash'[STA_ENABLED] # None
  BY <1>5, <1>6
<1>8. \A x \in ScalarKeys : Synced(x)'
  BY <1>1, <1>4, <1>5, <1>7 DEF Synced, Loaded
<1> QED
  BY <1>1, <1>8, BootStepSyncInv DEF BootSynced, Up

LEMMA LoadedBootSyncInv ==
  ASSUME TypeInv, IdleUntilUp, SyncInv, LoadSlot \/ BootDone
  PROVE  SyncInv'
<1>1. /\ ~Up /\ task' = task /\ data' = data /\ flash' = flash
      /\ \A x \in ScalarKeys : Synced(x)
      /\ boot'.pc \in {"slots", "defaults", "up"}
  BY DEF LoadSlot, BootDone, BootAt, SyncInv, BootSynced, Up, ram
<1>2. \A x \in ScalarKeys : Synced(x)'
  BY <1>1 DEF Synced, Loaded
<1> QED
  BY <1>1, <1>2, BootStepSyncInv DEF BootSynced, Up

LEMMA NextSyncInv ==
  ASSUME Cooperative, TypeInv, IdleUntilUp, SyncInv, [Next]_vars
  PROVE  SyncInv'
<1>1. CASE Boot
  BY <1>1, LoadScalarsSyncInv, LoadedBootSyncInv, WriteDefaultSyncInv,
     WriteDefaultNetworkSyncInv, WriteDefaultPasswordSyncInv,
     WriteDefaultStaEnabledSyncInv DEF Boot
<1>2. CASE TakeSignal \/ UNCHANGED vars
  <2>1. UNCHANGED <<flash, data, boot, task>>
    BY <1>2 DEF TakeSignal, vars, ram
  <2>2. UNCHANGED flash /\ UNCHANGED data /\ UNCHANGED boot /\ UNCHANGED task
    BY <2>1
  <2> QED
    BY <2>2 DEF SyncInv, AtMostOne, BootSynced, ScalarsSynced, HeldInFlash, Synced,
       Loaded, AboutToMirror, Up
<1>3. CASE PowerLoss
  BY <1>3, ResetSyncInv DEF PowerLoss
<1>4. ASSUME NEW t \in Tasks, Step(t) PROVE SyncInv'
  <2>1. CASE PublishByReset(t)
    BY <2>1, ResetSyncInv DEF PublishByReset
  <2>2. CASE ~PublishByReset(t)
    <3>1. Up
      <4>1. task[t].pc # "idle" \/ CanBegin(t)
        BY <1>4, <2>2 DEF Step, Set, Publish, ConfigureApSsid,
           ConfigureApSsidMirror, ConfigureApPassword, ConfigureApPasswordMirror,
           ConfigureApNoPassword, AddSta, RemoveSta, WriteSlotSsid,
           WriteSlotPassword, PushSta, Connect
      <4> QED
        BY <4>1, IdlePc DEF IdleUntilUp, CanBegin
    <3> QED
      BY <1>4, <2>2, <3>1, SetSyncInv, PublishSyncInv, ConfigureApSsidSyncInv,
         ConfigureApSsidMirrorSyncInv, ConfigureApPasswordSyncInv,
         ConfigureApPasswordMirrorSyncInv, OtherCallsSyncInv DEF Step, Cooperative
  <2> QED
    BY <2>1, <2>2
<1> QED
  BY <1>1, <1>2, <1>3, <1>4 DEF Next

\* When all callers are on one executor, the mirror of every scalar field is
\* what a reboot would load, or the call that changed it is about to mirror
\* it, whenever the power fails, and whichever writes fail if no default
\* network is compiled in.
THEOREM MirrorCorrect == Cooperative => (Spec => []ScalarsSynced)
<1> SUFFICES ASSUME Cooperative PROVE Spec => []ScalarsSynced
  OBVIOUS
<1>1. Init => SyncInv
  BY IdlePc DEF Init, PoweredOn, SyncInv, AtMostOne, BootSynced, ScalarsSynced,
     HeldInFlash, Up
<1>2. TypeInv /\ IdleUntilUp /\ SyncInv /\ [Next]_vars => SyncInv'
  BY NextSyncInv
<1>3. SyncInv => ScalarsSynced
  BY DEF SyncInv
<1> QED
  BY <1>1, <1>2, <1>3, Typing, PTL DEF Spec

-----------------------------------------------------------------------------
(* The saved networks.  The slots are seen as two functions: what is under  *)
(* the SSID key of each, and its password as init() reads it.               *)

\* All callers are on one executor, reads and writes work, and no network
\* without an SSID is saved (see README).
Saving ==
  /\ ~Preemptive /\ ~WritesMayFail /\ ~ReadsMayFail
  /\ Env.STA_SSID # Empty
  /\ \A c \in Calls : c.op = "add" => c.ssid # Empty

Ssids == [i \in Slots |-> flash[sta_ssid_key(i)]]
Passwords == [i \in Slots |-> Filtered(flash[sta_pw_key(i)])]

Has(S, P, i, n) == S[i] = n.ssid /\ P[i] = Filtered(n.password)
Vacant(S, i) == S[i] \in {None, Empty}

\* No vacant slot comes before one that is taken.
NoHole(S) == \A i, j \in Slots : i < j /\ Vacant(S, i) => Vacant(S, j)

\* The slots hold exactly the networks of l.
Lists(S, P, l) ==
  \A i \in Slots : /\ i < Len(l) => Has(S, P, i, l[i + 1])
                   /\ ~(i < Len(l)) => Vacant(S, i)

\* The networks of the slots below m are those of l.
Loading(S, P, l, m) ==
  /\ \A i \in Slots : i < Len(l) => Has(S, P, i, l[i + 1])
  /\ Len(l) < m => Vacant(S, Len(l))

SlotPCs == {"slot_ssid", "slot_password", "push"}

\* An add: the slots hold l, and the new network as far as it is written.
Adding(S, P, l, f) ==
  /\ f.i = Len(l) /\ f.i \in Slots /\ f.call.ssid \notin {None, Empty}
  /\ \A i \in Slots : /\ i < f.i => Has(S, P, i, l[i + 1])
                      /\ i > f.i => Vacant(S, i)
  /\ f.pc = "slot_ssid" => Vacant(S, f.i)
  /\ f.pc # "slot_ssid" => S[f.i] = f.call.ssid
  /\ f.pc = "push" => P[f.i] = Filtered(f.call.password)

\* A removal: the slots below f.i hold l, which is the list without the
\* network that was at f.call.index, the slots above it still the old list.
Removing(S, P, l, f) ==
  /\ f.networks = l /\ Len(l) < N /\ f.call.index <= Len(l) /\ f.i \in Slots
  /\ f.pc # "push"
  /\ \A i \in Slots :
       /\ i < Len(l) /\ (i < f.i \/ i < f.call.index) => Has(S, P, i, l[i + 1])
       /\ i <= Len(l) /\ i > f.i /\ i > f.call.index => Has(S, P, i, l[i])
       /\ i > Len(l) => Vacant(S, i)
       /\ i = Len(l) /\ i < f.i => Vacant(S, i)
  /\ f.pc = "slot_password" => S[f.i] = SlotNetwork(f).ssid

Writing(S, P, l, f) ==
  IF f.call.op = "add" THEN Adding(S, P, l, f) ELSE Removing(S, P, l, f)

\* Every network of l has an SSID.
Named(l) == \A n \in 1 .. Len(l) : l[n].ssid \notin {None, Empty}

BootNetworks ==
  /\ boot.pc = "slots" => Loading(Ssids, Passwords, sta_networks, boot.i)
  /\ boot.pc \in {"defaults", "sta_enabled"} => Lists(Ssids, Passwords, sta_networks)
  /\ boot.pc = "sta_password" =>
       /\ Ssids[0] = Env.STA_SSID
       /\ \A i \in Slots : i > 0 => Vacant(Ssids, i)

CallNetworks ==
  /\ Up /\ (\A t \in Tasks : task[t].pc \notin SlotPCs)
       => Lists(Ssids, Passwords, sta_networks)
  /\ \A t \in Tasks : task[t].pc \in SlotPCs
       => Writing(Ssids, Passwords, sta_networks, task[t])

NetInv == NoHole(Ssids) /\ Named(sta_networks) /\ BootNetworks /\ CallNetworks

\* An add that has come to the request has pushed its network last.
NewestLast ==
  \A t \in Tasks : task[t].pc = "connect" =>
    /\ sta_networks # <<>>
    /\ sta_networks[Len(sta_networks)]
         = Network(task[t].call.ssid, task[t].call.password)

LEMMA SlotNumbers == \A i \in Slots : i \in Nat /\ i < N
BY SizeAssumption DEF Slots

\* Stores, as the two functions see them.
LEMMA SsidStored ==
  ASSUME FlashTyped, NEW i \in Slots, NEW v, store(sta_ssid_key(i), v, TRUE)
  PROVE  Ssids' = [Ssids EXCEPT ![i] = v] /\ Passwords' = Passwords
<1>1. \A j \in Slots : /\ sta_ssid_key(j) \in Keys /\ sta_pw_key(j) \in Keys
                       /\ sta_ssid_key(i) # sta_pw_key(j)
                       /\ sta_ssid_key(i) = sta_ssid_key(j) => i = j
  BY SlotKeys, SlotKeysDistinct
<1>2. flash' = [flash EXCEPT ![sta_ssid_key(i)] = v]
  BY DEF store
<1>3. \A j \in Slots : /\ flash'[sta_ssid_key(j)] = IF j = i THEN v ELSE flash[sta_ssid_key(j)]
                       /\ flash'[sta_pw_key(j)] = flash[sta_pw_key(j)]
  BY <1>1, <1>2 DEF FlashTyped
<1> QED
  BY <1>3 DEF Ssids, Passwords

LEMMA PasswordStored ==
  ASSUME FlashTyped, NEW i \in Slots, NEW v, store(sta_pw_key(i), v, TRUE)
  PROVE  Ssids' = Ssids /\ Passwords' = [Passwords EXCEPT ![i] = Filtered(v)]
<1>1. \A j \in Slots : /\ sta_ssid_key(j) \in Keys /\ sta_pw_key(j) \in Keys
                       /\ sta_pw_key(i) # sta_ssid_key(j)
                       /\ sta_pw_key(i) = sta_pw_key(j) => i = j
  BY SlotKeys, SlotKeysDistinct
<1>2. flash' = [flash EXCEPT ![sta_pw_key(i)] = v]
  BY DEF store
<1>3. \A j \in Slots : /\ flash'[sta_pw_key(j)] = IF j = i THEN v ELSE flash[sta_pw_key(j)]
                       /\ flash'[sta_ssid_key(j)] = flash[sta_ssid_key(j)]
  BY <1>1, <1>2 DEF FlashTyped
<1> QED
  BY <1>3 DEF Ssids, Passwords

LEMMA ScalarStored ==
  ASSUME FlashTyped, NEW k \in ScalarKeys, NEW v, NEW ok, store(k, v, ok)
  PROVE  Ssids' = Ssids /\ Passwords' = Passwords
<1>1. \A j \in Slots : sta_ssid_key(j) # k /\ sta_pw_key(j) # k
  BY SlotKeys
<1>2. \A j \in Slots : /\ flash'[sta_pw_key(j)] = flash[sta_pw_key(j)]
                       /\ flash'[sta_ssid_key(j)] = flash[sta_ssid_key(j)]
  BY <1>1 DEF FlashTyped, store
<1> QED
  BY <1>2 DEF Ssids, Passwords

LEMMA FlashKept ==
  ASSUME flash' = flash
  PROVE  Ssids' = Ssids /\ Passwords' = Passwords
BY DEF Ssids, Passwords

LEMMA SlotFunctions == DOMAIN Ssids = Slots /\ DOMAIN Passwords = Slots
BY DEF Ssids, Passwords

\* Init's or the mirror's None and flash's empty text are the same password.
LEMMA FilteredOrEmpty ==
  ASSUME NEW p \in Text \cup {None}
  PROVE  Filtered(OrEmpty(p)) = Filtered(p)
BY TextAssumption DEF Filtered, OrEmpty

-----------------------------------------------------------------------------
\* The steps on the slots, for any contents S and P and any list l.

LEMMA ListsNoHole ==
  ASSUME NEW S, NEW P, NEW l \in Seq(Networks), Named(l), Lists(S, P, l)
  PROVE  NoHole(S)
<1>1. \A i \in Slots : i \in Nat
  BY SlotNumbers
<1>2. Len(l) \in Nat
  BY LenProperties
<1>3. ASSUME NEW i \in Slots, Vacant(S, i) PROVE ~(i < Len(l))
  <2> SUFFICES ASSUME i < Len(l) PROVE FALSE
    OBVIOUS
  <2>1. i + 1 \in 1 .. Len(l) /\ S[i] = l[i + 1].ssid
    BY <1>1, <1>2 DEF Lists, Has
  <2> QED
    BY <1>3, <2>1 DEF Named, Vacant
<1> QED
  BY <1>1, <1>2, <1>3 DEF Lists, NoHole

LEMMA BeginAdding ==
  ASSUME NEW S, NEW P, NEW l \in Seq(Networks), Lists(S, P, l), Len(l) < N,
         NEW c, c.ssid \notin {None, Empty},
         NEW f, f = Frame("slot_ssid", c, Len(l), <<>>, TRUE)
  PROVE  Adding(S, P, l, f)
<1>1. f.pc = "slot_ssid" /\ f.i = Len(l) /\ f.call = c
  BY DEF Frame
<1>2. Len(l) \in Nat /\ Len(l) \in Slots
  BY LenProperties, SizeAssumption DEF Slots
<1>3. ASSUME NEW i \in Slots
      PROVE  /\ i < Len(l) => Has(S, P, i, l[i + 1])
             /\ i > Len(l) => Vacant(S, i)
  <2>1. i > Len(l) => ~(i < Len(l))
    BY <1>2, SlotNumbers
  <2> QED
    BY <2>1 DEF Lists
<1>4. ~(Len(l) < Len(l))
  BY <1>2
<1>5. Vacant(S, Len(l))
  BY <1>2, <1>4 DEF Lists
<1> QED
  BY <1>1, <1>2, <1>3, <1>5 DEF Adding

LEMMA BeginRemoving ==
  ASSUME NEW S, NEW P, NEW l \in Seq(Networks), Lists(S, P, l), Len(l) <= N, Named(l),
         NEW c, c.index \in Nat, c.index < Len(l),
         NEW m, m = RemoveAt(l, c.index + 1),
         NEW f, f = Frame("slot_ssid", c, 0, m, TRUE)
  PROVE  Removing(S, P, m, f) /\ Named(m)
<1> DEFINE k == c.index
<1>1. f.pc = "slot_ssid" /\ f.i = 0 /\ f.call = c /\ f.networks = m
  BY DEF Frame
<1>2. Len(l) \in Nat /\ k + 1 \in 1 .. Len(l)
  BY LenProperties
<1>3. /\ Len(m) = Len(l) - 1
      /\ \A j \in 1 .. Len(l) - 1 : m[j] = IF j < k + 1 THEN l[j] ELSE l[j + 1]
  BY <1>2, RemoveAtProperties
<1>4. ASSUME NEW i \in Slots
      PROVE  /\ i < Len(m) /\ i < k => Has(S, P, i, m[i + 1])
             /\ i <= Len(m) /\ i > 0 /\ i > k => Has(S, P, i, m[i])
             /\ i > Len(m) => Vacant(S, i)
  <2>1. i \in Nat
    BY SlotNumbers
  <2>2. ASSUME i < Len(m), i < k PROVE m[i + 1] = l[i + 1]
    BY <1>2, <1>3, <2>1, <2>2
  <2>3. ASSUME i <= Len(m), i > 0, i > k PROVE m[i] = l[i + 1]
    BY <1>2, <1>3, <2>1, <2>3
  <2> QED
    BY <1>2, <1>3, <2>1, <2>2, <2>3 DEF Lists
<1>5. Named(m)
  <2> SUFFICES ASSUME NEW j \in 1 .. Len(m) PROVE m[j].ssid \notin {None, Empty}
    BY DEF Named
  <2>1. \E n \in 1 .. Len(l) : m[j] = l[n]
    BY <1>2, <1>3
  <2> QED
    BY <2>1 DEF Named
<1> QED
  <2>1. Len(m) < N /\ k <= Len(m)
    BY <1>2, <1>3, SizeAssumption
  <2>3. 0 \in Slots
    BY FirstSlot
  <2>2. \A i \in Slots : ~(i < 0)
    BY SlotNumbers
  <2> QED
    BY <1>1, <1>4, <1>5, <2>1, <2>2, <2>3 DEF Removing

LEMMA AddSsid ==
  ASSUME NEW S, NEW P, NEW l \in Seq(Networks), NEW f, Adding(S, P, l, f), Named(l),
         f.pc = "slot_ssid", DOMAIN S = Slots,
         NEW T, T = [S EXCEPT ![f.i] = f.call.ssid],
         NEW g, g = Frame("slot_password", f.call, f.i, f.networks, f.ok)
  PROVE  Adding(T, P, l, g) /\ NoHole(T)
<1>1. g.pc = "slot_password" /\ g.i = f.i /\ g.call = f.call
  BY DEF Frame
<1>2. f.i \in Slots /\ f.i = Len(l) /\ Len(l) \in Nat
  BY LenProperties DEF Adding
<1>3. \A i \in Slots : T[i] = IF i = f.i THEN f.call.ssid ELSE S[i]
  BY <1>2
<1>4. Adding(T, P, l, g)
  BY <1>1, <1>2, <1>3, SlotNumbers DEF Adding, Has, Vacant
<1>5. ASSUME NEW i \in Slots, i <= f.i PROVE ~Vacant(T, i)
  <2>1. CASE i = f.i
    BY <1>3, <2>1 DEF Adding, Vacant
  <2>2. CASE i < f.i
    <3>1. T[i] = l[i + 1].ssid /\ i + 1 \in 1 .. Len(l)
      BY <1>2, <1>3, <2>2, SlotNumbers DEF Adding, Has
    <3> QED
      BY <3>1 DEF Vacant, Named
  <2> QED
    BY <1>2, <1>5, <2>1, <2>2, SlotNumbers
<1>6. \A i \in Slots : i > f.i => Vacant(T, i)
  BY <1>1, <1>4 DEF Adding
<1>7. ASSUME NEW i \in Slots, NEW j \in Slots, i < j, Vacant(T, i)
      PROVE  Vacant(T, j)
  <2>1. ~(i <= f.i)
    BY <1>5, <1>7
  <2>2. j > f.i
    BY <1>2, <1>7, <2>1, SlotNumbers
  <2> QED
    BY <1>6, <2>2
<1> QED
  BY <1>4, <1>7 DEF NoHole

LEMMA AddPassword ==
  ASSUME NEW S, NEW P, NEW l \in Seq(Networks), NEW f, Adding(S, P, l, f),
         f.pc = "slot_password", DOMAIN P = Slots,
         NEW Q, Q = [P EXCEPT ![f.i] = Filtered(f.call.password)],
         NEW g, g = Frame("push", f.call, f.i, f.networks, f.ok)
  PROVE  Adding(S, Q, l, g)
<1>1. g.pc = "push" /\ g.i = f.i /\ g.call = f.call
  BY DEF Frame
<1>2. f.i \in Slots /\ f.i = Len(l) /\ Len(l) \in Nat
  BY LenProperties DEF Adding
<1>3. \A i \in Slots : Q[i] = IF i = f.i THEN Filtered(f.call.password) ELSE P[i]
  BY <1>2
<1> QED
  BY <1>1, <1>2, <1>3, SlotNumbers DEF Adding, Has, Vacant

LEMMA AddPushed ==
  ASSUME NEW S, NEW P, NEW l \in Seq(Networks), NEW f, Adding(S, P, l, f),
         f.pc = "push", NEW n \in Networks, n = Network(f.call.ssid, f.call.password)
  PROVE  Lists(S, P, Append(l, n))
<1>1. Len(l) \in Nat /\ f.i = Len(l)
  BY LenProperties DEF Adding
<1>2. /\ Len(Append(l, n)) = Len(l) + 1
      /\ \A j \in 1 .. Len(l) : Append(l, n)[j] = l[j]
      /\ Append(l, n)[Len(l) + 1] = n
  BY AppendProperties
<1>3. n.ssid = f.call.ssid /\ n.password = f.call.password
  BY DEF Network
<1> SUFFICES ASSUME NEW i \in Slots
             PROVE  /\ i < Len(l) + 1 => Has(S, P, i, Append(l, n)[i + 1])
                    /\ ~(i < Len(l) + 1) => Vacant(S, i)
  BY <1>2 DEF Lists
<1>4. i \in Nat
  BY SlotNumbers
<1>5. CASE i < Len(l)
  <2>1. Append(l, n)[i + 1] = l[i + 1]
    BY <1>1, <1>2, <1>4, <1>5
  <2> QED
    BY <1>1, <1>4, <1>5, <2>1 DEF Adding
<1>6. CASE i = Len(l)
  BY <1>1, <1>2, <1>3, <1>6 DEF Adding, Has
<1>7. CASE i > Len(l)
  BY <1>1, <1>4, <1>7 DEF Adding
<1> QED
  BY <1>1, <1>4, <1>5, <1>6, <1>7

LEMMA RemoveSsid ==
  ASSUME NEW S, NEW P, NEW l \in Seq(Networks), NEW f, Removing(S, P, l, f), Named(l),
         NoHole(S), f.pc = "slot_ssid", f.call.op # "add", f.call.index \in Nat, DOMAIN S = Slots,
         NEW T, T = [S EXCEPT ![f.i] = SlotNetwork(f).ssid],
         NEW g, g = Frame("slot_password", f.call, f.i, f.networks, f.ok)
  PROVE  Removing(T, P, l, g) /\ NoHole(T)
<1>1. /\ g.pc = "slot_password" /\ g.i = f.i /\ g.call = f.call
      /\ g.networks = f.networks
  BY DEF Frame
<1>2. f.i \in Slots /\ f.networks = l /\ Len(l) \in Nat
  BY LenProperties DEF Removing
<1>3. T[f.i] = SlotNetwork(f).ssid /\ \A i \in Slots \ {f.i} : T[i] = S[i]
  BY <1>2
<1>4. SlotNetwork(f) = IF f.i < Len(l) THEN l[f.i + 1] ELSE Network(Empty, None)
  BY <1>2 DEF SlotNetwork
<1>5. SlotNetwork(g) = SlotNetwork(f)
  BY <1>1 DEF SlotNetwork
<1>6. f.i < Len(l) \/ T[f.i] = Empty
  BY <1>3, <1>4 DEF Network
<1>7. ASSUME NEW i \in Slots
      PROVE  /\ i < Len(l) /\ (i < f.i \/ i < f.call.index) => Has(T, P, i, l[i + 1])
             /\ i <= Len(l) /\ i > f.i /\ i > f.call.index => Has(T, P, i, l[i])
             /\ i > Len(l) => Vacant(T, i)
             /\ i = Len(l) /\ i < f.i => Vacant(T, i)
  <2>1. i \in Nat /\ f.i \in Nat
    BY <1>2, SlotNumbers
  <2>2. CASE i = f.i
    <3>1. i < Len(l) => T[i] = l[i + 1].ssid
      BY <1>3, <1>4, <2>2
    <3>2. ~(i < Len(l)) => Vacant(T, i)
      BY <1>6, <2>2 DEF Vacant
    <3> QED
      BY <1>2, <2>1, <2>2, <3>1, <3>2 DEF Removing, Has
  <2>3. CASE i # f.i
    <3>1. T[i] = S[i]
      BY <1>3, <2>3
    <3> QED
      BY <3>1 DEF Removing, Has, Vacant
  <2> QED
    BY <2>2, <2>3
<1>8. Removing(T, P, l, g)
  BY <1>1, <1>2, <1>3, <1>5, <1>7 DEF Removing
<1>9. ASSUME NEW i \in Slots, NEW j \in Slots, i < j, Vacant(T, i)
      PROVE  Vacant(T, j)
  <2>1. i \in Nat /\ j \in Nat /\ f.i \in Nat
    BY <1>2, SlotNumbers
  <2>2. ASSUME i <= f.i, i < Len(l) PROVE FALSE
    <3>1. T[i] = l[i + 1].ssid
      <4>1. CASE i = f.i
        BY <1>3, <1>4, <2>2, <4>1
      <4>2. CASE i < f.i
        BY <1>7, <2>2, <4>2 DEF Has
      <4> QED
        BY <2>1, <2>2, <4>1, <4>2
    <3>2. i + 1 \in 1 .. Len(l)
      BY <1>2, <2>1, <2>2
    <3> QED
      BY <1>9, <3>1, <3>2 DEF Named, Vacant
  <2>3. CASE i <= f.i
    <3>1. j > Len(l)
      BY <1>2, <1>9, <2>1, <2>2, <2>3
    <3> QED
      BY <1>7, <3>1
  <2>4. CASE i > f.i
    <3>1. T[i] = S[i] /\ T[j] = S[j]
      BY <1>3, <1>9, <2>1, <2>4
    <3> QED
      BY <1>9, <3>1 DEF NoHole, Vacant
  <2> QED
    BY <2>1, <2>3, <2>4
<1> QED
  BY <1>8, <1>9 DEF NoHole


LEMMA RemovePassword ==
  ASSUME NEW S, NEW P, NEW l \in Seq(Networks), NEW f, Removing(S, P, l, f),
         f.pc = "slot_password", f.call.op # "add", f.call.index \in Nat,
         DOMAIN P = Slots,
         NEW Q, Q = [P EXCEPT ![f.i] = Filtered(SlotNetwork(f).password)]
  PROVE  /\ f.i + 1 < N => Removing(S, Q, l, Frame("slot_ssid", f.call, f.i + 1,
                                                   f.networks, TRUE))
         /\ ~(f.i + 1 < N) => Lists(S, Q, l)
<1> DEFINE g == Frame("slot_ssid", f.call, f.i + 1, f.networks, TRUE)
<1>1. /\ g.pc = "slot_ssid" /\ g.i = f.i + 1 /\ g.call = f.call
      /\ g.networks = f.networks
  BY DEF Frame
<1> HIDE DEF g
<1>2. f.i \in Slots /\ f.networks = l /\ Len(l) \in Nat /\ f.i \in Nat
  BY LenProperties, SlotNumbers DEF Removing
<1>3. SlotNetwork(f) = IF f.i < Len(l) THEN l[f.i + 1] ELSE Network(Empty, None)
  BY <1>2 DEF SlotNetwork
<1>4. f.i < Len(l) => Has(S, Q, f.i, l[f.i + 1])
  BY <1>2, <1>3 DEF Removing, Has
<1>5. ~(f.i < Len(l)) => Vacant(S, f.i)
  BY <1>3 DEF Removing, Vacant, Network
<1>6. \A i \in Slots \ {f.i} : Q[i] = P[i]
  BY <1>2
<1>7. ASSUME NEW i \in Slots
      PROVE  /\ i < Len(l) /\ (i < f.i + 1 \/ i < f.call.index) => Has(S, Q, i, l[i + 1])
             /\ i <= Len(l) /\ i > f.i + 1 /\ i > f.call.index => Has(S, Q, i, l[i])
             /\ i > Len(l) => Vacant(S, i)
             /\ i = Len(l) /\ i < f.i + 1 => Vacant(S, i)
  <2>1. i \in Nat
    BY SlotNumbers
  <2>2. CASE i = f.i
    BY <1>2, <1>4, <1>5, <2>1, <2>2
  <2>3. CASE i # f.i
    <3>1. Q[i] = P[i]
      BY <1>6, <2>3
    <3>2. i < f.i + 1 <=> i < f.i
      BY <1>2, <2>1, <2>3
    <3>3. i > f.i + 1 => i > f.i
      BY <1>2, <2>1
    <3> QED
      BY <3>1, <3>2, <3>3 DEF Removing, Has
  <2> QED
    BY <2>2, <2>3
<1>8. ASSUME f.i + 1 < N PROVE Removing(S, Q, l, g)
  <2>1. f.i + 1 \in Slots
    BY <1>2, <1>8, SizeAssumption DEF Slots
  <2> QED
    BY <1>1, <1>2, <1>7, <2>1 DEF Removing
<1>9. ASSUME ~(f.i + 1 < N) PROVE Lists(S, Q, l)
  <2> SUFFICES ASSUME NEW i \in Slots
               PROVE  /\ i < Len(l) => Has(S, Q, i, l[i + 1])
                      /\ ~(i < Len(l)) => Vacant(S, i)
    BY DEF Lists
  <2>1. i \in Nat /\ i < f.i + 1
    BY <1>2, <1>9, SizeAssumption, SlotNumbers
  <2> QED
    BY <1>2, <1>7, <2>1 DEF Has, Vacant
<1> QED
  BY <1>8, <1>9 DEF g

\* init() reads one slot more.
LEMMA LoadOne ==
  ASSUME NEW S, NEW P, NoHole(S), NEW l \in Seq(Networks), NEW m \in Slots,
         Len(l) <= m, Loading(S, P, l, m), NEW h \in Seq(Networks),
         NEW n \in Networks, Has(S, P, m, n) \/ Vacant(S, m),
         h = IF Vacant(S, m) THEN l ELSE Append(l, n)
  PROVE  /\ Loading(S, P, h, m + 1)
         /\ ~(m + 1 < N) => Lists(S, P, h)
<1>1. Len(l) \in Nat /\ m \in Nat
  BY LenProperties, SlotNumbers
<1>2. CASE Vacant(S, m)
  <2>1. h = l
    BY <1>2
  <2>2. Vacant(S, Len(l))
    <3>1. CASE Len(l) < m
      BY <3>1 DEF Loading
    <3>2. CASE Len(l) = m
      BY <1>2, <3>2
    <3> QED
      BY <1>1, <3>1, <3>2
  <2>3. Loading(S, P, h, m + 1)
    BY <2>1, <2>2 DEF Loading
  <2>4. ASSUME NEW i \in Slots, ~(i < Len(l)) PROVE Vacant(S, i)
    <3>1. i \in Nat /\ Len(l) \in Slots
      BY <1>1, SizeAssumption, SlotNumbers DEF Slots
    <3> QED
      BY <1>1, <2>2, <2>4, <3>1 DEF NoHole
  <2> QED
    BY <2>1, <2>3, <2>4 DEF Lists, Loading
<1>3. CASE ~Vacant(S, m)
  <2>1. h = Append(l, n) /\ Has(S, P, m, n)
    BY <1>3
  <2>2. Len(l) = m
    <3>1. ASSUME Len(l) < m PROVE FALSE
      <4>1. Vacant(S, Len(l))
        BY <3>1 DEF Loading
      <4>2. Len(l) \in Slots
        BY <1>1, <3>1, SizeAssumption, SlotNumbers DEF Slots
      <4> QED
        BY <1>3, <3>1, <4>1, <4>2 DEF NoHole
    <3> QED
      BY <1>1, <3>1
  <2>3. /\ Len(h) = m + 1 /\ h[m + 1] = n
        /\ \A j \in 1 .. m : h[j] = l[j]
    BY <2>1, <2>2, AppendProperties
  <2>4. ASSUME NEW i \in Slots, i < m + 1 PROVE Has(S, P, i, h[i + 1])
    <3>1. i \in Nat
      BY SlotNumbers
    <3>2. CASE i = m
      BY <2>1, <2>3, <3>2
    <3>3. CASE i < m
      <4>1. h[i + 1] = l[i + 1]
        BY <1>1, <2>3, <3>1, <3>3
      <4> QED
        BY <2>2, <3>3, <4>1 DEF Loading
    <3>4. i = m \/ i < m
      BY <1>1, <2>4, <3>1
    <3> QED
      BY <3>2, <3>3, <3>4
  <2>5. ~(m + 1 < m + 1)
    BY <1>1
  <2>6. ASSUME ~(m + 1 < N), NEW i \in Slots PROVE i < m + 1
    BY <1>1, <2>6, SizeAssumption, SlotNumbers
  <2> QED
    BY <2>3, <2>4, <2>5, <2>6 DEF Loading, Lists
<1> QED
  BY <1>2, <1>3

-----------------------------------------------------------------------------
\* The steps of the module.

\* One call runs at a time, whatever fails.
LEMMA OneCall ==
  ASSUME ~Preemptive, AtMostOne, task \in [Tasks -> Frames], [Next]_vars
  PROVE  AtMostOne'
<1>1. CASE Boot \/ TakeSignal \/ UNCHANGED vars
  <2>1. task' = task
    BY <1>1 DEF Boot, LoadScalars, LoadSlot, WriteDefault, WriteDefaultNetwork,
       WriteDefaultPassword, WriteDefaultStaEnabled, BootDone, TakeSignal, vars
  <2> QED
    BY <2>1 DEF AtMostOne
<1>2. CASE PowerLoss
  BY <1>2 DEF PowerLoss, ResetRam, AtMostOne
<1>3. ASSUME NEW t \in Tasks, Step(t) PROVE AtMostOne'
  BY <1>3, OthersIdle DEF AtMostOne
<1> QED
  BY <1>1, <1>2, <1>3 DEF Next

LEMMA IdleNotWriting == Idle.pc \notin SlotPCs
BY IdlePc DEF SlotPCs

\* What a step of a call has to show.
LEMMA CallNetInv ==
  ASSUME ~Preemptive, AtMostOne, task \in [Tasks -> Frames], NEW t \in Tasks, Step(t),
         Up, boot' = boot, NoHole(Ssids'), Named(sta_networks'),
         task'[t].pc \in SlotPCs
           => Writing(Ssids', Passwords', sta_networks', task'[t]),
         task'[t].pc \notin SlotPCs => Lists(Ssids', Passwords', sta_networks')
  PROVE  NetInv'
<1>1. \A u \in Tasks \ {t} : task'[u].pc \notin SlotPCs
  BY OthersIdle, IdleNotWriting
<1>2. CallNetworks'
  BY <1>1 DEF CallNetworks
<1>3. BootNetworks'
  BY DEF BootNetworks, Up
<1> QED
  BY <1>2, <1>3 DEF NetInv

\* Before a step of a task that is not writing to a slot the slots are the list.
LEMMA ListsBefore ==
  ASSUME ~Preemptive, AtMostOne, task \in [Tasks -> Frames], NEW t \in Tasks, Step(t),
         Up, NetInv, task[t].pc \notin SlotPCs
  PROVE  Lists(Ssids, Passwords, sta_networks)
BY OthersIdle, IdleNotWriting DEF NetInv, CallNetworks

\* The calls on the scalar fields, and the request to connect.
LEMMA ScalarCallsNetInv ==
  ASSUME TypeInv, ~Preemptive, AtMostOne, NetInv, Up, NEW t \in Tasks, Step(t),
         \/ Set(t) \/ Publish(t) \/ ConfigureApSsid(t) \/ ConfigureApSsidMirror(t)
         \/ ConfigureApPassword(t) \/ ConfigureApPasswordMirror(t)
         \/ ConfigureApNoPassword(t) \/ Connect(t)
  PROVE  NetInv'
<1>1. task \in [Tasks -> Frames] /\ FlashTyped
  BY DEF TypeInv, TypeOK
<1>2. sta_networks' = sta_networks /\ boot' = boot
  BY DEF Set, Publish, ConfigureApSsid, ConfigureApSsidMirror, ConfigureApPassword,
     ConfigureApPasswordMirror, ConfigureApNoPassword, Connect, ram
<1>3. Ssids' = Ssids /\ Passwords' = Passwords
  <2>1. CASE Set(t)
    <3>1. PICK c \in Calls, ok \in WriteResults :
            c.op = "set" /\ c.val # TooLong /\ store(c.key, c.val, ok)
      BY <2>1 DEF Set
    <3>2. c.key \in ScalarKeys
      BY <3>1, CallKinds, SetCallTyped
    <3> QED
      BY <1>1, <3>1, <3>2, ScalarStored
  <2>2. CASE ConfigureApSsid(t)
    <3>1. flash' = flash \/ \E v, ok : store(AP_SSID, v, ok)
      BY <2>2 DEF ConfigureApSsid
    <3> QED
      BY <1>1, <3>1, ApKeys, ScalarStored, FlashKept
  <2>3. CASE ConfigureApPassword(t)
    <3>1. \E v, ok : store(AP_PASSWORD, v, ok)
      BY <2>3 DEF ConfigureApPassword
    <3> QED
      BY <1>1, <3>1, ApKeys, ScalarStored
  <2>4. CASE \/ Publish(t) \/ ConfigureApSsidMirror(t) \/ ConfigureApPasswordMirror(t)
             \/ ConfigureApNoPassword(t) \/ Connect(t)
    <3>1. flash' = flash
      BY <2>4 DEF Publish, ConfigureApSsidMirror, ConfigureApPasswordMirror,
         ConfigureApNoPassword, Connect
    <3> QED
      BY <3>1, FlashKept
  <2> QED
    BY <2>1, <2>2, <2>3, <2>4
<1>4. task[t].pc \notin SlotPCs
  BY IdleNotWriting DEF Set, Publish, ConfigureApSsid, ConfigureApSsidMirror,
     ConfigureApPassword, ConfigureApPasswordMirror, ConfigureApNoPassword, Connect,
     CanBegin, SlotPCs
<1>5. task'[t].pc \notin SlotPCs
  <2>1. CASE Set(t)
    BY <1>1, <1>4, <2>1 DEF Set, Frame, SlotPCs
  <2>2. CASE ConfigureApSsid(t)
    BY <1>1, <2>2 DEF ConfigureApSsid, Frame, SlotPCs
  <2>3. CASE ConfigureApSsidMirror(t)
    BY <1>1, <2>3 DEF ConfigureApSsidMirror, Goto, Frame, SlotPCs
  <2>4. CASE ConfigureApPassword(t)
    BY <1>1, <2>4, IdleNotWriting DEF ConfigureApPassword, Goto, Return, Frame, SlotPCs
  <2>5. CASE \/ Publish(t) \/ ConfigureApPasswordMirror(t)
             \/ ConfigureApNoPassword(t) \/ Connect(t)
    BY <1>1, <2>5, IdleNotWriting DEF Publish, ConfigureApPasswordMirror,
       ConfigureApNoPassword, Connect, Return
  <2> QED
    BY <2>1, <2>2, <2>3, <2>4, <2>5
<1>6. Lists(Ssids, Passwords, sta_networks) /\ NoHole(Ssids) /\ Named(sta_networks)
  BY <1>1, <1>4, ListsBefore DEF NetInv
<1>7. Lists(Ssids', Passwords', sta_networks') /\ NoHole(Ssids') /\ Named(sta_networks')
  BY <1>2, <1>3, <1>6
<1> QED
  BY <1>1, <1>2, <1>5, <1>7, CallNetInv

LEMMA AddStaNetInv ==
  ASSUME Saving, TypeInv, AtMostOne, NetInv, NEW t \in Tasks, Step(t), AddSta(t)
  PROVE  NetInv'
<1>1. PICK c \in Calls :
        /\ c.op = "add" /\ c.ssid # TooLong /\ Len(sta_networks) < N
        /\ task' = [task EXCEPT ![t] =
                      Frame("slot_ssid", c, Len(sta_networks), <<>>, TRUE)]
  BY DEF AddSta
<1>2. /\ task \in [Tasks -> Frames] /\ sta_networks \in Seq(Networks)
      /\ task[t] = Idle /\ Up /\ boot' = boot /\ flash' = flash
      /\ sta_networks' = sta_networks
  BY DEF TypeInv, TypeOK, RamTyped, AddSta, CanBegin, ram
<1>3. c.ssid \notin {None, Empty}
  <2>1. c.ssid \in Text
    BY <1>1, CallKinds DEF AddCalls
  <2> QED
    BY <1>1, <2>1, TextAssumption DEF Saving
<1>4. Lists(Ssids, Passwords, sta_networks) /\ NoHole(Ssids) /\ Named(sta_networks)
  BY <1>2, IdleNotWriting, ListsBefore DEF NetInv, Saving
<1> DEFINE f == Frame("slot_ssid", c, Len(sta_networks), <<>>, TRUE)
<1>5. f.call.op = "add" /\ f.pc \in SlotPCs
  BY <1>1 DEF Frame, SlotPCs
<1>6. task'[t] = f
  BY <1>1, <1>2
<1> HIDE DEF f
<1>7. Adding(Ssids, Passwords, sta_networks, f)
  BY <1>1, <1>2, <1>3, <1>4, BeginAdding DEF f
<1>8. Ssids' = Ssids /\ Passwords' = Passwords
  BY <1>2, FlashKept
<1>9. Writing(Ssids', Passwords', sta_networks', task'[t])
  BY <1>2, <1>5, <1>6, <1>7, <1>8 DEF Writing
<1> QED
  BY <1>2, <1>4, <1>5, <1>6, <1>8, <1>9, CallNetInv DEF Saving

LEMMA RemoveStaNetInv ==
  ASSUME Saving, TypeInv, AtMostOne, NetInv, NEW t \in Tasks, Step(t), RemoveSta(t)
  PROVE  NetInv'
<1>1. PICK c \in Calls :
        /\ c.op = "remove" /\ c.index < Len(sta_networks)
        /\ sta_networks' = RemoveAt(sta_networks, c.index + 1)
        /\ task' = [task EXCEPT ![t] = Frame("slot_ssid", c, 0, sta_networks', TRUE)]
  BY DEF RemoveSta
<1>2. /\ task \in [Tasks -> Frames] /\ sta_networks \in Seq(Networks)
      /\ Len(sta_networks) <= N
      /\ task[t] = Idle /\ Up /\ boot' = boot /\ flash' = flash
  BY DEF TypeInv, TypeOK, RamTyped, RemoveSta, CanBegin
<1>3. c.index \in Nat
  BY <1>1, CallKinds DEF RemoveCalls
<1>4. Lists(Ssids, Passwords, sta_networks) /\ NoHole(Ssids) /\ Named(sta_networks)
  BY <1>2, IdleNotWriting, ListsBefore DEF NetInv, Saving
<1> DEFINE f == Frame("slot_ssid", c, 0, sta_networks', TRUE)
<1>5. f.call.op # "add" /\ f.pc \in SlotPCs
  BY <1>1 DEF Frame, SlotPCs
<1>6. task'[t] = f
  BY <1>1, <1>2
<1> HIDE DEF f
<1>7. Removing(Ssids, Passwords, sta_networks', f) /\ Named(sta_networks')
  BY <1>1, <1>2, <1>3, <1>4, BeginRemoving DEF f
<1>8. Ssids' = Ssids /\ Passwords' = Passwords
  BY <1>2, FlashKept
<1>9. Writing(Ssids', Passwords', sta_networks', task'[t])
  BY <1>5, <1>6, <1>7, <1>8 DEF Writing
<1> QED
  BY <1>2, <1>4, <1>5, <1>6, <1>7, <1>8, <1>9, CallNetInv DEF Saving

\* The frame of a task at a slot, and what is in the slots then.
LEMMA SlotFrame ==
  ASSUME TypeInv, NetInv, IdleUntilUp, NEW t \in Tasks, task[t].pc \in SlotPCs
  PROVE  /\ Up /\ task[t] \in Frames
         /\ Writing(Ssids, Passwords, sta_networks, task[t])
         /\ NoHole(Ssids) /\ Named(sta_networks)
         /\ sta_networks \in Seq(Networks) /\ Len(sta_networks) <= N
         /\ task[t].call.op = "add" => FittingAdd(task[t].call)
         /\ task[t].call.op # "add" => task[t].call.index \in Nat
<1>1. task[t] \in Frames /\ FrameOK(task[t])
  BY DEF TypeInv, TypeOK
<1>2. Up
  BY IdleNotWriting DEF IdleUntilUp
<1>3. FittingAdd(task[t].call) \/ task[t].call \in RemoveCalls
  <2>1. task[t].pc \in {"slot_ssid", "slot_password"} \/ task[t].pc = "push"
    BY DEF SlotPCs
  <2> QED
    BY <1>1, <2>1 DEF FrameOK
<1>4. /\ task[t].call.op = "add" => FittingAdd(task[t].call)
      /\ task[t].call.op # "add" => task[t].call.index \in Nat
  BY <1>3 DEF FittingAdd, AddCalls, RemoveCalls
<1> QED
  BY <1>1, <1>2, <1>4 DEF NetInv, CallNetworks, TypeInv, TypeOK, RamTyped, FrameOK,
     SlotPCs

LEMMA WriteSlotSsidNetInv ==
  ASSUME Saving, TypeInv, IdleUntilUp, AtMostOne, NetInv, NEW t \in Tasks, Step(t),
         WriteSlotSsid(t)
  PROVE  NetInv'
<1> DEFINE f == task[t]
           g == Frame("slot_password", f.call, f.i, f.networks, f.ok)
<1>1. f.pc = "slot_ssid" /\ f.pc \in SlotPCs /\ f.i \in Slots
  BY DEF WriteSlotSsid, SlotPCs, TypeInv, FrameOK
<1>2. store(sta_ssid_key(f.i), SlotNetwork(f).ssid, TRUE) /\ Goto(t, "slot_password")
  BY DEF WriteSlotSsid, Saving, WriteResults
<1>3. /\ task \in [Tasks -> Frames] /\ FlashTyped /\ boot' = boot
      /\ sta_networks' = sta_networks
  BY DEF WriteSlotSsid, TypeInv, TypeOK, ram
<1>4. task'[t] = g
  BY <1>2, <1>3 DEF Goto
<1>5. Ssids' = [Ssids EXCEPT ![f.i] = SlotNetwork(f).ssid] /\ Passwords' = Passwords
  BY <1>1, <1>2, <1>3, SsidStored
<1>6. g.pc \in SlotPCs /\ g.call = f.call
  BY DEF Frame, SlotPCs
<1> HIDE DEF g
<1>7. Writing(Ssids', Passwords', sta_networks', g) /\ NoHole(Ssids')
  <2>1. CASE f.call.op = "add"
    <3>1. SlotNetwork(f).ssid = f.call.ssid
      BY <2>1 DEF SlotNetwork, Network
    <3>2. Adding(Ssids, Passwords, sta_networks, f) /\ Named(sta_networks)
      BY <1>1, <2>1, SlotFrame DEF Writing
    <3>3. Adding(Ssids', Passwords, sta_networks, g) /\ NoHole(Ssids')
      BY <1>1, <1>5, <3>1, <3>2, AddSsid, SlotFrame, SlotFunctions DEF g
    <3> QED
      BY <1>3, <1>5, <1>6, <2>1, <3>3 DEF Writing
  <2>2. CASE f.call.op # "add"
    <3>1. Removing(Ssids, Passwords, sta_networks, f) /\ Named(sta_networks)
      BY <1>1, <2>2, SlotFrame DEF Writing
    <3>2. Removing(Ssids', Passwords, sta_networks, g) /\ NoHole(Ssids')
      BY <1>1, <1>5, <2>2, <3>1, RemoveSsid, SlotFrame, SlotFunctions DEF g
    <3> QED
      BY <1>3, <1>5, <1>6, <2>2, <3>2 DEF Writing
  <2> QED
    BY <2>1, <2>2
<1>8. Named(sta_networks') /\ Up
  BY <1>1, <1>3, SlotFrame
<1> QED
  BY <1>3, <1>4, <1>6, <1>7, <1>8, CallNetInv DEF Saving

LEMMA WriteSlotPasswordNetInv ==
  ASSUME Saving, TypeInv, IdleUntilUp, AtMostOne, NetInv, NEW t \in Tasks, Step(t),
         WriteSlotPassword(t)
  PROVE  NetInv'
<1> DEFINE f == task[t]
<1>1. f.pc = "slot_password" /\ f.pc \in SlotPCs /\ f.i \in Slots
  BY DEF WriteSlotPassword, SlotPCs, TypeInv, FrameOK
<1>2. /\ store(sta_pw_key(f.i), OrEmpty(SlotNetwork(f).password), TRUE)
      /\ f.call.op = "add" => Goto(t, "push")
      /\ f.call.op # "add" /\ f.i + 1 < N =>
           task' = [task EXCEPT ![t] =
                      Frame("slot_ssid", f.call, f.i + 1, f.networks, TRUE)]
      /\ f.call.op # "add" /\ ~(f.i + 1 < N) => Return(t)
  BY DEF WriteSlotPassword, Saving, WriteResults
<1>3. /\ task \in [Tasks -> Frames] /\ FlashTyped /\ boot' = boot
      /\ sta_networks' = sta_networks
  BY DEF WriteSlotPassword, TypeInv, TypeOK, ram
<1>4. SlotNetwork(f).password \in Text \cup {None}
  <2>1. f \in Frames /\ FrameOK(f)
    BY DEF TypeInv, TypeOK
  <2> QED
    BY <1>1, <2>1, SlotNetworkInNetworks DEF Networks
<1>5. /\ Ssids' = Ssids
      /\ Passwords' = [Passwords EXCEPT ![f.i] = Filtered(SlotNetwork(f).password)]
  <2> DEFINE v == OrEmpty(SlotNetwork(f).password)
  <2>1. Filtered(v) = Filtered(SlotNetwork(f).password)
    BY <1>4, FilteredOrEmpty
  <2>2. store(sta_pw_key(f.i), v, TRUE)
    BY <1>2
  <2> HIDE DEF v
  <2> QED
    BY <1>1, <1>3, <2>1, <2>2, PasswordStored
<1>6. /\ Up /\ NoHole(Ssids') /\ Named(sta_networks')
      /\ sta_networks \in Seq(Networks)
  BY <1>1, <1>3, <1>5, SlotFrame
<1>7. CASE f.call.op = "add"
  <2> DEFINE g == Frame("push", f.call, f.i, f.networks, f.ok)
  <2>1. task'[t] = g
    BY <1>2, <1>3, <1>7 DEF Goto
  <2>2. g.pc \in SlotPCs /\ g.call = f.call
    BY DEF Frame, SlotPCs
  <2> HIDE DEF g
  <2>3. SlotNetwork(f).password = f.call.password
    BY <1>7 DEF SlotNetwork, Network
  <2>4. Adding(Ssids, Passwords, sta_networks, f)
    BY <1>1, <1>7, SlotFrame DEF Writing
  <2>5. Adding(Ssids, Passwords', sta_networks, g)
    BY <1>1, <1>5, <1>6, <2>3, <2>4, AddPassword, SlotFunctions DEF g
  <2>6. Writing(Ssids', Passwords', sta_networks', g)
    BY <1>3, <1>5, <1>7, <2>2, <2>5 DEF Writing
  <2> QED
    BY <1>3, <1>6, <2>1, <2>2, <2>6, CallNetInv DEF Saving
<1>8. CASE f.call.op # "add"
  <2> DEFINE g == Frame("slot_ssid", f.call, f.i + 1, f.networks, TRUE)
  <2>1. g.pc \in SlotPCs /\ g.call = f.call
    BY DEF Frame, SlotPCs
  <2>2. f.i + 1 < N => task'[t] = g
    BY <1>2, <1>3, <1>8
  <2>3. ~(f.i + 1 < N) => task'[t] = Idle
    BY <1>2, <1>3, <1>8 DEF Return
  <2> HIDE DEF g
  <2>4. Removing(Ssids, Passwords, sta_networks, f) /\ f.call.index \in Nat
    BY <1>1, <1>8, SlotFrame DEF Writing
  <2>5. /\ f.i + 1 < N => Removing(Ssids, Passwords', sta_networks, g)
        /\ ~(f.i + 1 < N) => Lists(Ssids, Passwords', sta_networks)
    BY <1>1, <1>5, <1>6, <1>8, <2>4, RemovePassword, SlotFunctions DEF g
  <2>6. CASE f.i + 1 < N
    <3>1. Writing(Ssids', Passwords', sta_networks', g)
      BY <1>3, <1>5, <1>8, <2>1, <2>5, <2>6 DEF Writing
    <3> QED
      BY <1>3, <1>6, <2>1, <2>2, <2>6, <3>1, CallNetInv DEF Saving
  <2>7. CASE ~(f.i + 1 < N)
    <3>1. Lists(Ssids', Passwords', sta_networks')
      BY <1>3, <1>5, <2>5, <2>7
    <3> QED
      BY <1>3, <1>6, <2>3, <2>7, <3>1, IdleNotWriting, CallNetInv DEF Saving
  <2> QED
    BY <2>6, <2>7
<1> QED
  BY <1>7, <1>8

LEMMA PushStaNetInv ==
  ASSUME Saving, TypeInv, IdleUntilUp, AtMostOne, NetInv, NEW t \in Tasks, Step(t),
         PushSta(t)
  PROVE  NetInv'
<1> DEFINE f == task[t]
           n == Network(f.call.ssid, f.call.password)
<1>1. f.pc = "push" /\ f.pc \in SlotPCs
  BY DEF PushSta, SlotPCs
<1>2. FittingAdd(f.call) /\ f.call.op = "add"
  BY <1>1 DEF TypeInv, FrameOK, FittingAdd, AddCalls
<1>3. n \in Networks /\ n.ssid = f.call.ssid
  BY <1>2 DEF FittingAdd, AddCalls, EnvTexts, Network, Networks
<1>4. /\ task \in [Tasks -> Frames] /\ boot' = boot /\ flash' = flash
      /\ sta_networks' = IF Len(sta_networks) < N THEN Append(sta_networks, n)
                         ELSE sta_networks
      /\ Goto(t, "connect") \/ Return(t)
  BY DEF PushSta, TypeInv, TypeOK
<1> HIDE DEF n
<1>5. Adding(Ssids, Passwords, sta_networks, f)
  BY <1>1, <1>2, SlotFrame DEF Writing
<1>6. Up /\ NoHole(Ssids) /\ Named(sta_networks) /\ sta_networks \in Seq(Networks)
  BY <1>1, SlotFrame
<1>7. Len(sta_networks) < N /\ Len(sta_networks) \in Nat
  BY <1>5, <1>6, LenProperties, SlotNumbers DEF Adding
<1>8. sta_networks' = Append(sta_networks, n)
  BY <1>4, <1>7
<1>9. Lists(Ssids, Passwords, sta_networks')
  BY <1>1, <1>3, <1>5, <1>6, <1>8, AddPushed DEF n
<1>10. Named(sta_networks')
  <2>1. n.ssid \notin {None, Empty}
    BY <1>3, <1>5 DEF Adding
  <2>2. \A j \in 1 .. Len(sta_networks') :
          sta_networks'[j] = IF j = Len(sta_networks) + 1 THEN n ELSE sta_networks[j]
    BY <1>3, <1>6, <1>7, <1>8, AppendProperties
  <2>3. Len(sta_networks') = Len(sta_networks) + 1
    BY <1>3, <1>6, <1>8, AppendProperties
  <2> QED
    BY <1>6, <1>7, <2>1, <2>2, <2>3 DEF Named
<1>11. Ssids' = Ssids /\ Passwords' = Passwords
  BY <1>4, FlashKept
<1>12. task'[t].pc \notin SlotPCs
  BY <1>4, IdleNotWriting DEF Goto, Return, Frame, SlotPCs
<1>13. NoHole(Ssids') /\ Lists(Ssids', Passwords', sta_networks')
  BY <1>6, <1>9, <1>11
<1> QED
  BY <1>4, <1>6, <1>10, <1>12, <1>13, CallNetInv DEF Saving

-----------------------------------------------------------------------------
\* What a step of init() has to show.
LEMMA BootNetInv ==
  ASSUME IdleUntilUp, ~Up, task' = task, NoHole(Ssids'), Named(sta_networks'),
         BootNetworks', Up' => Lists(Ssids', Passwords', sta_networks')
  PROVE  NetInv'
<1>1. \A t \in Tasks : task'[t].pc \notin SlotPCs
  BY IdleNotWriting DEF IdleUntilUp
<1> QED
  BY <1>1 DEF NetInv, CallNetworks

LEMMA LoadScalarsNetInv ==
  ASSUME TypeInv, IdleUntilUp, NetInv, LoadScalars
  PROVE  NetInv'
<1>1. /\ ~Up /\ task' = task /\ flash' = flash /\ sta_networks' = sta_networks
      /\ sta_networks = <<>> /\ boot'.pc = "slots" /\ boot'.i = 0
  BY DEF LoadScalars, TypeInv, BootOK, Up
<1>2. Ssids' = Ssids /\ Passwords' = Passwords
  BY <1>1, FlashKept
<1>3. NoHole(Ssids') /\ Named(sta_networks')
  BY <1>1, <1>2 DEF NetInv
<1>4. Loading(Ssids', Passwords', sta_networks', 0)
  <2>1. Len(sta_networks') = 0
    BY <1>1, EmptySeq
  <2> QED
    BY <2>1, SlotNumbers DEF Loading
<1>5. BootNetworks'
  BY <1>1, <1>4 DEF BootNetworks
<1> QED
  BY <1>1, <1>3, <1>5, BootNetInv DEF Up

LEMMA LoadSlotNetInv ==
  ASSUME Saving, TypeInv, IdleUntilUp, NetInv, LoadSlot
  PROVE  NetInv'
<1> DEFINE m == boot.i
           ssid == Ssids[m]
           n == Network(ssid, Passwords[m])
<1>1. /\ ~Up /\ task' = task /\ flash' = flash /\ m \in Slots
      /\ sta_networks \in Seq(Networks) /\ Len(sta_networks) <= m
  BY DEF LoadSlot, TypeInv, TypeOK, RamTyped, BootOK, Up
<1>2. /\ Loading(Ssids, Passwords, sta_networks, m) /\ NoHole(Ssids)
      /\ Named(sta_networks)
  BY DEF LoadSlot, NetInv, BootNetworks
<1>3. sta_networks' = IF Vacant(Ssids, m) THEN sta_networks ELSE Append(sta_networks, n)
  BY <1>1 DEF LoadSlot, Saving, ReadErrors, fetch, Vacant, Ssids, Passwords
<1>4. /\ m + 1 < N => boot'.pc = "slots" /\ boot'.i = m + 1
      /\ ~(m + 1 < N) => boot'.pc = "defaults"
  BY DEF LoadSlot, BootAt
<1>5. Ssids' = Ssids /\ Passwords' = Passwords
  BY <1>1, FlashKept
<1>6. ssid \in Text \cup {None} /\ Passwords[m] \in Text \cup {None}
      /\ Filtered(Passwords[m]) = Passwords[m]
  <2>1. /\ sta_ssid_key(m) \in Keys \ FlagKeys /\ sta_pw_key(m) \in Keys \ FlagKeys
    BY <1>1, SlotKeys DEF FlagKeys, ScalarKeys, AP_ENABLED, STA_ENABLED, COUNTRY_CODE
  <2>2. /\ flash[sta_ssid_key(m)] \in Text \cup {None}
        /\ flash[sta_pw_key(m)] \in Text \cup {None}
    BY <2>1 DEF TypeInv, TypeOK, FlashTyped, ItemsAt
  <2>3. ssid = flash[sta_ssid_key(m)] /\ Passwords[m] = Filtered(flash[sta_pw_key(m)])
    BY <1>1 DEF Ssids, Passwords
  <2> QED
    BY <2>2, <2>3 DEF Filtered
<1> HIDE DEF n
<1>7. \E h \in Networks : (Vacant(Ssids, m) \/ h = n) /\ (Has(Ssids, Passwords, m, h) \/ Vacant(Ssids, m))
  <2>1. CASE Vacant(Ssids, m)
    <3>1. Network(Empty, None) \in Networks
      BY TextAssumption DEF Network, Networks
    <3> QED
      BY <2>1, <3>1
  <2>2. CASE ~Vacant(Ssids, m)
    <3>1. n \in Networks
      BY <1>6, <2>2 DEF n, Network, Networks, Vacant
    <3>2. Has(Ssids, Passwords, m, n)
      BY <1>6 DEF n, Network, Has
    <3> QED
      BY <3>1, <3>2
  <2> QED
    BY <2>1, <2>2
<1>8. PICK h \in Networks : /\ Vacant(Ssids, m) \/ h = n
                            /\ Has(Ssids, Passwords, m, h) \/ Vacant(Ssids, m)
  BY <1>7
<1>9. sta_networks' = IF Vacant(Ssids, m) THEN sta_networks ELSE Append(sta_networks, h)
  BY <1>3, <1>8
<1>10. sta_networks' \in Seq(Networks)
  BY <1>1, <1>9, AppendProperties
<1>11. /\ Loading(Ssids, Passwords, sta_networks', m + 1)
       /\ ~(m + 1 < N) => Lists(Ssids, Passwords, sta_networks')
  BY <1>1, <1>2, <1>8, <1>9, <1>10, LoadOne
<1>12. Named(sta_networks')
  <2>1. CASE Vacant(Ssids, m)
    BY <1>2, <1>9, <2>1
  <2>2. CASE ~Vacant(Ssids, m)
    <3>1. sta_networks' = Append(sta_networks, h) /\ h.ssid \notin {None, Empty}
      BY <1>8, <1>9, <2>2 DEF Has, Vacant
    <3>2. /\ Len(sta_networks') = Len(sta_networks) + 1 /\ Len(sta_networks) \in Nat
          /\ sta_networks'[Len(sta_networks) + 1] = h
          /\ \A j \in 1 .. Len(sta_networks) : sta_networks'[j] = sta_networks[j]
      BY <1>1, <3>1, AppendProperties, LenProperties
    <3>3. \A j \in 1 .. Len(sta_networks') :
            j \in 1 .. Len(sta_networks) \/ j = Len(sta_networks) + 1
      BY <3>2
    <3> QED
      BY <1>2, <3>1, <3>2, <3>3 DEF Named
  <2> QED
    BY <2>1, <2>2
<1>13. NoHole(Ssids') /\ ~Up'
  BY <1>2, <1>4, <1>5 DEF Up
<1>14. /\ m + 1 < N => Loading(Ssids', Passwords', sta_networks', boot'.i)
       /\ ~(m + 1 < N) => Lists(Ssids', Passwords', sta_networks')
  BY <1>4, <1>5, <1>11
<1>15. BootNetworks'
  BY <1>4, <1>14 DEF BootNetworks
<1> QED
  BY <1>1, <1>12, <1>13, <1>15, BootNetInv

\* The defaults of the scalar fields, and the end of init().
LEMMA DefaultsNetInv ==
  ASSUME TypeInv, IdleUntilUp, NetInv,
         WriteDefault \/ WriteDefaultStaEnabled \/ BootDone
  PROVE  NetInv'
<1>1. /\ ~Up /\ task' = task /\ sta_networks' = sta_networks
      /\ boot.pc \in {"defaults", "sta_enabled"} /\ boot'.pc \in {"defaults", "up"}
  <2>1. CASE WriteDefault
    BY <2>1 DEF WriteDefault, NextDefault, BootAt, Up
  <2>2. CASE WriteDefaultStaEnabled
    BY <2>2 DEF WriteDefaultStaEnabled, NextDefault, BootAt, Up, ram
  <2>3. CASE BootDone
    BY <2>3 DEF BootDone, Up, ram
  <2> QED
    BY <2>1, <2>2, <2>3
<1>2. Ssids' = Ssids /\ Passwords' = Passwords
  <2>1. flash' = flash \/ \E k \in ScalarKeys : \E v, ok : store(k, v, ok)
    <3>1. STA_ENABLED \in ScalarKeys
      BY DEF ScalarKeys, STA_ENABLED, AP_ENABLED, COUNTRY_CODE
    <3>2. CASE WriteDefault
      BY <3>2 DEF WriteDefault
    <3>3. CASE WriteDefaultStaEnabled
      BY <3>1, <3>3 DEF WriteDefaultStaEnabled
    <3>4. CASE BootDone
      BY <3>4 DEF BootDone
    <3> QED
      BY <3>2, <3>3, <3>4
  <2> QED
    BY <2>1, ScalarStored, FlashKept DEF TypeInv, TypeOK
<1>3. Lists(Ssids, Passwords, sta_networks) /\ NoHole(Ssids) /\ Named(sta_networks)
  BY <1>1 DEF NetInv, BootNetworks
<1>4. /\ Lists(Ssids', Passwords', sta_networks') /\ NoHole(Ssids')
      /\ Named(sta_networks')
  BY <1>1, <1>2, <1>3
<1>5. BootNetworks'
  BY <1>1, <1>4 DEF BootNetworks
<1> QED
  BY <1>1, <1>4, <1>5, BootNetInv

LEMMA WriteDefaultNetworkNetInv ==
  ASSUME Saving, TypeInv, IdleUntilUp, NetInv, WriteDefaultNetwork
  PROVE  NetInv'
<1>1. /\ ~Up /\ task' = task /\ sta_networks' = sta_networks /\ FlashTyped
      /\ Lists(Ssids, Passwords, sta_networks) /\ NoHole(Ssids) /\ Named(sta_networks)
  BY DEF WriteDefaultNetwork, Up, ram, NetInv, BootNetworks, TypeInv, TypeOK
<1>2. CASE sta_networks = <<>> /\ Fitting(Env.STA_SSID) # None
  <2>1. store(sta_ssid_key(0), Env.STA_SSID, TRUE) /\ boot'.pc = "sta_password"
    <3>1. PICK ok \in WriteResults :
            /\ store(sta_ssid_key(0), Env.STA_SSID, ok)
            /\ IF ok THEN BootAt("sta_password", boot.i) ELSE NextDefault
      BY <1>2 DEF WriteDefaultNetwork
    <3>2. ok = TRUE
      BY <3>1 DEF Saving, WriteResults
    <3>3. boot'.pc = "sta_password"
      BY <3>1, <3>2 DEF BootAt
    <3> QED
      BY <3>1, <3>2, <3>3
  <2>2. Ssids' = [Ssids EXCEPT ![0] = Env.STA_SSID] /\ Passwords' = Passwords
    BY <1>1, <2>1, FirstSlot, SsidStored
  <2>3. Env.STA_SSID \notin {None, Empty}
    BY <1>2, EnvNetwork, TextAssumption DEF Saving
  <2>4. Ssids'[0] = Env.STA_SSID /\ \A i \in Slots \ {0} : Ssids'[i] = Ssids[i]
    BY <2>2, FirstSlot, SlotFunctions
  <2>5. \A i \in Slots : i > 0 => Vacant(Ssids', i)
    <3>1. Len(sta_networks) = 0
      BY <1>2, EmptySeq
    <3>2. ASSUME NEW i \in Slots, i > 0 PROVE ~(i < 0) /\ i # 0
      BY <3>2, SlotNumbers
    <3> QED
      BY <1>1, <2>4, <3>1, <3>2 DEF Lists, Vacant
  <2>6. NoHole(Ssids')
    <3>1. ~Vacant(Ssids', 0)
      BY <2>3, <2>4 DEF Vacant
    <3>2. \A i \in Slots : i = 0 \/ i > 0
      BY SlotNumbers
    <3>3. \A i, j \in Slots : i > 0 /\ i < j => j > 0
      BY SlotNumbers
    <3> QED
      BY <2>5, <3>1, <3>2, <3>3 DEF NoHole
  <2>7. BootNetworks' /\ ~Up' /\ Named(sta_networks')
    BY <1>1, <2>1, <2>4, <2>5 DEF BootNetworks, Up
  <2> QED
    BY <1>1, <2>6, <2>7, BootNetInv
<1>3. CASE ~(sta_networks = <<>> /\ Fitting(Env.STA_SSID) # None)
  <2>1. flash' = flash /\ boot'.pc = "defaults"
    BY <1>3 DEF WriteDefaultNetwork, NextDefault, BootAt
  <2>2. Ssids' = Ssids /\ Passwords' = Passwords
    BY <2>1, FlashKept
  <2>3. /\ Lists(Ssids', Passwords', sta_networks') /\ NoHole(Ssids')
        /\ Named(sta_networks')
    BY <1>1, <2>2
  <2>4. BootNetworks' /\ ~Up'
    BY <2>1, <2>3 DEF BootNetworks, Up
  <2> QED
    BY <1>1, <2>3, <2>4, BootNetInv
<1> QED
  BY <1>2, <1>3

LEMMA WriteDefaultPasswordNetInv ==
  ASSUME Saving, TypeInv, IdleUntilUp, NetInv, WriteDefaultPassword
  PROVE  NetInv'
<1> DEFINE n == Network(Env.STA_SSID, Fitting(Env.STA_PASSWORD))
<1>1. /\ ~Up /\ task' = task /\ FlashTyped /\ sta_networks = <<>>
      /\ Fitting(Env.STA_SSID) # None /\ boot'.pc = "sta_enabled"
      /\ NoHole(Ssids) /\ Ssids[0] = Env.STA_SSID
      /\ \A i \in Slots : i > 0 => Vacant(Ssids, i)
  BY DEF WriteDefaultPassword, Up, NetInv, BootNetworks, TypeInv, TypeOK, BootOK,
     Saving, WriteResults, BootAt
<1>2. /\ store(sta_pw_key(0), OrEmpty(Fitting(Env.STA_PASSWORD)), TRUE)
      /\ sta_networks' = Append(sta_networks, n)
  BY DEF WriteDefaultPassword, Saving, WriteResults
<1>3. n \in Networks /\ n.ssid = Env.STA_SSID /\ n.ssid \notin {None, Empty}
  BY <1>1, EnvNetwork, TextAssumption DEF Network, Networks, Saving
<1>4. n.password = Fitting(Env.STA_PASSWORD)
  BY DEF Network
<1> HIDE DEF n
<1>5. Ssids' = Ssids /\ Passwords' = [Passwords EXCEPT ![0] = Filtered(n.password)]
  <2> DEFINE v == OrEmpty(Fitting(Env.STA_PASSWORD))
  <2>1. Filtered(v) = Filtered(n.password)
    BY <1>4, EnvNetwork, FilteredOrEmpty
  <2>2. store(sta_pw_key(0), v, TRUE)
    BY <1>2
  <2> HIDE DEF v
  <2> QED
    BY <1>1, <2>1, <2>2, FirstSlot, PasswordStored
<1>6. Len(sta_networks') = 1 /\ sta_networks'[1] = n
  <2>1. sta_networks \in Seq(Networks) /\ Len(sta_networks) = 0
    BY <1>1, EmptySeq
  <2> QED
    BY <1>2, <1>3, <2>1, AppendProperties
<1>7. Named(sta_networks')
  <2>1. \A j \in 1 .. 1 : j = 1
    OBVIOUS
  <2> QED
    BY <1>3, <1>6, <2>1 DEF Named
<1>8. Has(Ssids', Passwords', 0, n)
  BY <1>1, <1>3, <1>5, FirstSlot, SlotFunctions DEF Has
<1>9. Lists(Ssids', Passwords', sta_networks')
  <2> SUFFICES ASSUME NEW i \in Slots
               PROVE  /\ i < 1 => Has(Ssids', Passwords', i, sta_networks'[i + 1])
                      /\ ~(i < 1) => Vacant(Ssids', i)
    BY <1>6 DEF Lists
  <2>1. (i < 1 => i = 0) /\ (~(i < 1) => i > 0)
    BY SlotNumbers
  <2>2. 0 + 1 = 1
    OBVIOUS
  <2> QED
    BY <1>1, <1>5, <1>6, <1>8, <2>1, <2>2
<1>10. BootNetworks' /\ ~Up' /\ NoHole(Ssids')
  BY <1>1, <1>5, <1>9 DEF BootNetworks, Up
<1> QED
  BY <1>1, <1>7, <1>10, BootNetInv

LEMMA ResetNetInv ==
  ASSUME NetInv, ResetRam, flash' = flash
  PROVE  NetInv'
<1>1. Ssids' = Ssids
  BY FlashKept
<1>2. NoHole(Ssids') /\ ~Up' /\ boot'.pc = "scalars" /\ sta_networks' = <<>>
  BY <1>1 DEF NetInv, ResetRam, PoweredOn, Up
<1>3. Named(sta_networks')
  <2>1. Len(sta_networks') = 0
    BY <1>2, EmptySeq
  <2>2. \A j \in 1 .. 0 : FALSE
    OBVIOUS
  <2> QED
    BY <2>1, <2>2 DEF Named
<1>4. \A t \in Tasks : task'[t].pc \notin SlotPCs
  BY IdleNotWriting DEF ResetRam
<1> QED
  BY <1>2, <1>3, <1>4 DEF NetInv, BootNetworks, CallNetworks

LEMMA InitNetInv == Init => NetInv
<1> SUFFICES ASSUME Init PROVE NetInv
  OBVIOUS
<1>1. \A i \in Slots : Vacant(Ssids, i)
  BY SlotKeys DEF Init, Ssids, Vacant
<1>2. NoHole(Ssids)
  BY <1>1 DEF NoHole
<1>3. Named(sta_networks)
  <2>1. Len(sta_networks) = 0
    BY EmptySeq DEF Init
  <2>2. \A j \in 1 .. 0 : FALSE
    OBVIOUS
  <2> QED
    BY <2>1, <2>2 DEF Named
<1>4. \A t \in Tasks : task[t].pc \notin SlotPCs
  BY IdleNotWriting DEF Init
<1> QED
  BY <1>2, <1>3, <1>4 DEF Init, PoweredOn, Up, NetInv, BootNetworks, CallNetworks

LEMMA NextNetInv ==
  ASSUME Saving, TypeInv, IdleUntilUp, AtMostOne, NetInv, [Next]_vars
  PROVE  NetInv'
<1>1. CASE Boot
  BY <1>1, LoadScalarsNetInv, LoadSlotNetInv, DefaultsNetInv,
     WriteDefaultNetworkNetInv, WriteDefaultPasswordNetInv DEF Boot
<1>2. CASE TakeSignal \/ UNCHANGED vars
  <2>1. /\ flash' = flash /\ sta_networks' = sta_networks /\ boot' = boot
        /\ task' = task
    BY <1>2 DEF TakeSignal, vars, ram
  <2>2. Ssids' = Ssids /\ Passwords' = Passwords
    BY <2>1, FlashKept
  <2> QED
    BY <2>1, <2>2 DEF NetInv, BootNetworks, CallNetworks, Up
<1>3. CASE PowerLoss
  BY <1>3, ResetNetInv DEF PowerLoss
<1>4. ASSUME NEW t \in Tasks, Step(t) PROVE NetInv'
  <2>1. CASE PublishByReset(t)
    BY <2>1, ResetNetInv DEF PublishByReset
  <2>2. CASE ~PublishByReset(t)
    <3>1. Up
      <4>1. task[t].pc # "idle" \/ CanBegin(t)
        BY <1>4, <2>2 DEF Step, Set, Publish, ConfigureApSsid,
           ConfigureApSsidMirror, ConfigureApPassword, ConfigureApPasswordMirror,
           ConfigureApNoPassword, AddSta, RemoveSta, WriteSlotSsid,
           WriteSlotPassword, PushSta, Connect
      <4> QED
        BY <4>1, IdlePc DEF IdleUntilUp, CanBegin
    <3> QED
      BY <1>4, <2>2, <3>1, ScalarCallsNetInv, AddStaNetInv, RemoveStaNetInv,
         WriteSlotSsidNetInv, WriteSlotPasswordNetInv, PushStaNetInv
         DEF Step, Saving
  <2> QED
    BY <2>1, <2>2
<1> QED
  BY <1>1, <1>2, <1>3, <1>4 DEF Next

LEMMA SavingInv ==
  ASSUME Saving
  PROVE  Spec => [](TypeInv /\ IdleUntilUp /\ AtMostOne /\ NetInv)
<1>1. Init => AtMostOne /\ NetInv
  BY InitNetInv DEF Init, AtMostOne
<1>2. TypeInv /\ IdleUntilUp /\ AtMostOne /\ NetInv /\ [Next]_vars
        => AtMostOne' /\ NetInv'
  BY NextNetInv, OneCall DEF Saving, TypeInv, TypeOK
<1> QED
  BY <1>1, <1>2, Typing, PTL DEF Spec

-----------------------------------------------------------------------------
\* The networks a list shows are in the slots, call or no call.
LEMMA NetInvDurable ==
  ASSUME TypeInv, IdleUntilUp, NetInv
  PROVE  NetworksDurable
<1> SUFFICES ASSUME Up, NEW n \in 1 .. Len(sta_networks)
             PROVE  \E i \in Slots : Has(Ssids, Passwords, i, sta_networks[n])
  <2>1. \A i \in Slots : \A h : Has(Ssids, Passwords, i, h) => Holds(i, h)
    BY DEF Has, Holds, Ssids, Passwords
  <2> QED
    BY <2>1 DEF NetworksDurable
<1>1. /\ sta_networks \in Seq(Networks) /\ Len(sta_networks) \in Nat
      /\ Len(sta_networks) <= N
  BY LenProperties DEF TypeInv, TypeOK, RamTyped
<1>2. /\ n - 1 \in Slots /\ n \in Nat /\ (n - 1) + 1 = n
      /\ n - 1 < Len(sta_networks) /\ n <= Len(sta_networks)
  BY <1>1, SizeAssumption DEF Slots
<1>3. CASE \A t \in Tasks : task[t].pc \notin SlotPCs
  <2>1. Lists(Ssids, Passwords, sta_networks)
    BY <1>3 DEF NetInv, CallNetworks
  <2> QED
    BY <1>2, <2>1 DEF Lists
<1>4. ASSUME NEW t \in Tasks, task[t].pc \in SlotPCs
      PROVE  \E i \in Slots : Has(Ssids, Passwords, i, sta_networks[n])
  <2>1. CASE task[t].call.op = "add"
    <3>1. Adding(Ssids, Passwords, sta_networks, task[t])
      BY <1>4, <2>1, SlotFrame DEF Writing
    <3> QED
      BY <1>2, <3>1 DEF Adding
  <2>2. CASE task[t].call.op # "add"
    <3>1. /\ Removing(Ssids, Passwords, sta_networks, task[t])
          /\ task[t].call.index \in Nat
      BY <1>4, <2>2, SlotFrame DEF Writing
    <3>2. CASE n - 1 < task[t].i \/ n - 1 < task[t].call.index
      BY <1>2, <3>1, <3>2 DEF Removing
    <3>3. CASE ~(n - 1 < task[t].i \/ n - 1 < task[t].call.index)
      <4>1. n \in Slots /\ n > task[t].i /\ n > task[t].call.index
        BY <1>1, <1>2, <3>1, <3>3, SizeAssumption DEF Removing, Slots
      <4> QED
        BY <1>2, <3>1, <4>1 DEF Removing
    <3> QED
      BY <3>2, <3>3
  <2> QED
    BY <2>1, <2>2
<1> QED
  BY <1>3, <1>4

LEMMA NetInvSynced ==
  ASSUME NetInv
  PROVE  NetworksSynced
<1> SUFFICES ASSUME Quiescent, NEW i \in Slots
             PROVE  /\ i < Len(sta_networks) => Holds(i, sta_networks[i + 1])
                    /\ ~(i < Len(sta_networks)) => flash[sta_ssid_key(i)] \in {None, Empty}
  BY DEF NetworksSynced
<1>1. Lists(Ssids, Passwords, sta_networks)
  BY IdleNotWriting DEF Quiescent, NetInv, CallNetworks
<1> QED
  BY <1>1 DEF Lists, Has, Vacant, Holds, Ssids, Passwords

\* NetworksSynced: between calls the slots are the networks of the list in
\* its order.  When no read or write of the flash fails, with any number of
\* slots and after any power losses, an add or a removal that was cut leaves
\* slots that the next init() makes the list of (config.rs:59).
THEOREM SlotsFollowList == Saving => (Spec => []NetworksSynced)
<1> SUFFICES ASSUME Saving PROVE Spec => []NetworksSynced
  OBVIOUS
<1>1. NetInv => NetworksSynced
  BY NetInvSynced
<1> QED
  BY <1>1, SavingInv, PTL

\* NetworksDurable: at every instant, in the middle of any rewriting of the
\* slots too, each network of the list is in some slot (system-api lib.rs:68).
THEOREM SavedStaysSaved == Saving => (Spec => []NetworksDurable)
<1> SUFFICES ASSUME Saving PROVE Spec => []NetworksDurable
  OBVIOUS
<1>1. TypeInv /\ IdleUntilUp /\ NetInv => NetworksDurable
  BY NetInvDurable
<1> QED
  BY <1>1, SavingInv, PTL

-----------------------------------------------------------------------------
LEMMA NextNewestLast ==
  ASSUME Saving, TypeInv, IdleUntilUp, AtMostOne, NetInv, NewestLast, [Next]_vars
  PROVE  NewestLast'
<1> SUFFICES ASSUME NEW t \in Tasks, task'[t].pc = "connect"
             PROVE  /\ sta_networks' # <<>>
                    /\ sta_networks'[Len(sta_networks')]
                         = Network(task'[t].call.ssid, task'[t].call.password)
  BY DEF NewestLast
<1>1. CASE Boot
  <2>1. ~Up /\ task' = task
    BY <1>1 DEF Boot, LoadScalars, LoadSlot, WriteDefault, WriteDefaultNetwork,
       WriteDefaultPassword, WriteDefaultStaEnabled, BootDone, Up
  <2> QED
    BY <2>1, IdlePc DEF IdleUntilUp
<1>2. CASE TakeSignal \/ UNCHANGED vars
  <2>1. sta_networks' = sta_networks /\ task' = task
    BY <1>2 DEF TakeSignal, vars, ram
  <2> QED
    BY <2>1 DEF NewestLast
<1>3. CASE ResetRam
  BY <1>3, IdlePc DEF ResetRam
<1>4. ASSUME NEW u \in Tasks, Step(u), ~PublishByReset(u) PROVE u = t /\ PushSta(t)
  <2>1. u = t
    BY <1>4, OthersIdle, IdlePc DEF Saving, TypeInv, TypeOK
  <2>2. ~PublishByReset(t) /\ Step(t) /\ task \in [Tasks -> Frames]
    BY <1>4, <2>1 DEF TypeInv, TypeOK
  <2>3. ~(Set(t) \/ Publish(t) \/ Connect(t))
    <3>1. ASSUME Set(t) PROVE FALSE
      <4>1. PICK c \in Calls, ok \in WriteResults :
              /\ task[t] = Idle
              /\ task' = IF ok THEN [task EXCEPT ![t] = Frame("publish", c, 0, <<>>, TRUE)]
                         ELSE task
        BY <3>1 DEF Set, CanBegin
      <4>2. task'[t] = Idle \/ task'[t].pc = "publish"
        BY <2>2, <4>1 DEF Frame
      <4> QED
        BY <4>2, IdlePc
    <3>2. ASSUME Return(t) PROVE FALSE
      BY <2>2, <3>2, IdlePc DEF Return
    <3> QED
      BY <3>1, <3>2 DEF Publish, Connect
  <2>4. ~(ConfigureApSsid(t) \/ ConfigureApNoPassword(t))
    BY <2>2, IdlePc DEF ConfigureApSsid, ConfigureApNoPassword, Return, Frame
  <2>5. ~(ConfigureApSsidMirror(t) \/ ConfigureApPassword(t)
            \/ ConfigureApPasswordMirror(t))
    BY <2>2, IdlePc DEF ConfigureApSsidMirror, ConfigureApPassword,
       ConfigureApPasswordMirror, Goto, Return, Frame
  <2>6. ~(AddSta(t) \/ RemoveSta(t))
    BY <2>2, IdlePc DEF AddSta, RemoveSta, Frame
  <2>7. ~(WriteSlotSsid(t) \/ WriteSlotPassword(t))
    BY <2>2, IdlePc DEF WriteSlotSsid, WriteSlotPassword, Goto, Return, Frame
  <2> QED
    BY <2>1, <2>2, <2>3, <2>4, <2>5, <2>6, <2>7 DEF Step
<1>5. CASE PushSta(t)
  <2> DEFINE f == task[t]
             n == Network(f.call.ssid, f.call.password)
  <2>1. f.pc = "push" /\ f.pc \in SlotPCs
    BY <1>5 DEF PushSta, SlotPCs
  <2>2. FittingAdd(f.call) /\ f.call.op = "add"
    BY <2>1 DEF TypeInv, FrameOK, FittingAdd, AddCalls
  <2>3. n \in Networks /\ f.call.ssid = n.ssid
    BY <2>2 DEF FittingAdd, AddCalls, EnvTexts, Network, Networks
  <2>4. Adding(Ssids, Passwords, sta_networks, f) /\ sta_networks \in Seq(Networks)
    BY <2>1, <2>2, SlotFrame DEF Writing
  <2>5. Len(sta_networks) < N /\ Len(sta_networks) \in Nat
    BY <2>4, LenProperties, SlotNumbers DEF Adding
  <2>6. sta_networks' = Append(sta_networks, n)
    BY <1>5, <2>5 DEF PushSta
  <2>7. task'[t].call = f.call
    <3>1. task \in [Tasks -> Frames]
      BY DEF TypeInv, TypeOK
    <3>2. Goto(t, "connect") \/ Return(t)
      BY <1>5 DEF PushSta
    <3>3. CASE Goto(t, "connect")
      BY <3>1, <3>3 DEF Goto, Frame
    <3>4. CASE Return(t)
      BY <3>1, <3>4, IdlePc DEF Return
    <3> QED
      BY <3>2, <3>3, <3>4
  <2> HIDE DEF n
  <2>8. /\ sta_networks' # <<>> /\ sta_networks'[Len(sta_networks')] = n
    BY <2>3, <2>4, <2>5, <2>6, AppendProperties
  <2> QED
    BY <2>7, <2>8 DEF n
<1> QED
  BY <1>1, <1>2, <1>3, <1>4, <1>5 DEF Next, PowerLoss, PublishByReset

\* ConnectNamesNewest: the request of add_and_connect_sta_network holds the
\* index of the network this call has saved, whatever calls of other tasks
\* come before and after it (system-api lib.rs:70).
THEOREM RequestNamesNewest == Saving => (Spec => ConnectNamesNewest)
<1> SUFFICES ASSUME Saving PROVE Spec => ConnectNamesNewest
  OBVIOUS
<1> DEFINE Named1 == \A t \in Tasks : LET c == task[t].call IN
             Connect(t) => /\ CONNECT_REQUEST' < Len(sta_networks)
                           /\ sta_networks[CONNECT_REQUEST' + 1]
                                = Network(c.ssid, c.password)
<1>1. Init => NewestLast
  BY IdlePc DEF Init, NewestLast
<1>2. TypeInv /\ IdleUntilUp /\ AtMostOne /\ NetInv /\ NewestLast /\ [Next]_vars
        => NewestLast'
  BY NextNewestLast
<1>3. TypeInv /\ NewestLast => Named1
  <2> SUFFICES ASSUME TypeInv, NewestLast, NEW t \in Tasks, Connect(t)
               PROVE  /\ CONNECT_REQUEST' < Len(sta_networks)
                      /\ sta_networks[CONNECT_REQUEST' + 1]
                           = Network(task[t].call.ssid, task[t].call.password)
    OBVIOUS
  <2>1. /\ sta_networks # <<>> /\ CONNECT_REQUEST' = Len(sta_networks) - 1
        /\ sta_networks[Len(sta_networks)]
             = Network(task[t].call.ssid, task[t].call.password)
    BY DEF Connect, NewestLast
  <2>2. Len(sta_networks) \in Nat
    BY LenProperties DEF TypeInv, TypeOK, RamTyped
  <2>3. (Len(sta_networks) - 1) + 1 = Len(sta_networks)
    BY <2>2
  <2> QED
    BY <2>1, <2>2, <2>3
<1>4. Named1 => [Named1]_vars
  OBVIOUS
<1> HIDE DEF Named1
<1>5. Spec => [][Named1]_vars
  BY <1>1, <1>2, <1>3, <1>4, SavingInv, PTL DEF Spec
<1> QED
  BY <1>5 DEF ConnectNamesNewest, Named1

-----------------------------------------------------------------------------
(* The defaults.  No item is ever removed, so a default that the first boot *)
(* has written is never missing again.                                      *)

\* Reads and writes of the flash work; the callers may be on any executors.
Reliable == ~WritesMayFail /\ ~ReadsMayFail

LEMMA Defaults ==
  /\ DefaultOrder = <<0, 4, 1, 2, 3, 10, 5, 6>> /\ Len(DefaultOrder) = 8
  /\ ScalarKeys = 0 .. 6 /\ sta_ssid_key(0) = 10
<1>1. sta_ssid_key(0) = 10 + 2 * 0
  BY FirstSlot, SlotKeys
<1>2. sta_ssid_key(0) = 10
  BY <1>1
<1> QED
  BY <1>2 DEF DefaultOrder, ScalarKeys, AP_ENABLED, AP_SSID, AP_PASSWORD,
     AP_GATEWAY_IP, STA_ENABLED, HOSTNAME, COUNTRY_CODE

\* init() comes to every scalar key.
LEMMA EveryDefault ==
  /\ \A k \in ScalarKeys : \E j \in 1 .. 8 : DefaultOrder[j] = k
  /\ \A j \in 1 .. 8 : DefaultOrder[j] = sta_ssid_key(0) <=> j = 6
  /\ \A j \in 1 .. 8 : j # 6 => DefaultOrder[j] \in ScalarKeys
  /\ sta_ssid_key(0) \notin ScalarKeys
<1>1. /\ DefaultOrder[1] = 0 /\ DefaultOrder[2] = 4 /\ DefaultOrder[3] = 1
      /\ DefaultOrder[4] = 2 /\ DefaultOrder[5] = 3 /\ DefaultOrder[6] = 10
      /\ DefaultOrder[7] = 5 /\ DefaultOrder[8] = 6
  BY Defaults
<1>2. \A k \in ScalarKeys : k = 0 \/ k = 1 \/ k = 2 \/ k = 3 \/ k = 4 \/ k = 5 \/ k = 6
  BY Defaults
<1>3. \A j \in 1 .. 8 : \/ j = 1 \/ j = 2 \/ j = 3 \/ j = 4
                        \/ j = 5 \/ j = 6 \/ j = 7 \/ j = 8
  OBVIOUS
<1>4. /\ 1 \in 1 .. 8 /\ 2 \in 1 .. 8 /\ 3 \in 1 .. 8 /\ 4 \in 1 .. 8
      /\ 5 \in 1 .. 8 /\ 6 \in 1 .. 8 /\ 7 \in 1 .. 8 /\ 8 \in 1 .. 8
  OBVIOUS
<1>5. \A k \in ScalarKeys : \E j \in 1 .. 8 : DefaultOrder[j] = k
  <2> SUFFICES ASSUME NEW k \in ScalarKeys PROVE \E j \in 1 .. 8 : DefaultOrder[j] = k
    OBVIOUS
  <2> QED
    BY <1>1, <1>2, <1>4, Zenon
<1>6. /\ \A j \in 1 .. 8 : DefaultOrder[j] = sta_ssid_key(0) <=> j = 6
      /\ \A j \in 1 .. 8 : j # 6 => DefaultOrder[j] \in ScalarKeys
  BY <1>1, <1>3, Defaults
<1> QED
  BY <1>5, <1>6, Defaults

\* Every key that has an item has one after the step.
Kept == \A x \in Keys : flash[x] # None => flash'[x] # None

\* A store leaves an item under its key and touches no other.
LEMMA StoreLeavesItem ==
  ASSUME TypeInv, NEW k \in Keys, NEW v, v # None, NEW ok, store(k, v, ok)
  PROVE  Kept
BY DEF TypeInv, TypeOK, FlashTyped, store, Kept

LEMMA SlotItems ==
  ASSUME NEW i \in Slots
  PROVE  sta_ssid_key(i) \in Keys /\ sta_pw_key(i) \in Keys
BY SlotKeys

LEMMA NothingRemoved ==
  ASSUME TypeInv, [Next]_vars
  PROVE  Kept
<1>1. flash' = flash => Kept
  BY DEF Kept
<1>3. ScalarKeys \subseteq Keys /\ STA_ENABLED \in ScalarKeys
  BY DEF Keys, ScalarKeys, STA_ENABLED, AP_ENABLED, COUNTRY_CODE
<1>4. \A v \in Text : v # None
  BY TextAssumption
<1>5. CASE Boot
  <2>1. CASE LoadScalars \/ LoadSlot \/ BootDone
    BY <1>1, <2>1 DEF LoadScalars, LoadSlot, BootDone
  <2>2. CASE WriteDefault
    BY <1>1, StoreLeavesItem, <1>3, <2>2 DEF WriteDefault
  <2>3. CASE WriteDefaultNetwork
    <3>1. CASE sta_networks = <<>> /\ Fitting(Env.STA_SSID) # None
      <4>1. \E ok \in WriteResults : store(sta_ssid_key(0), Env.STA_SSID, ok)
        BY <2>3, <3>1 DEF WriteDefaultNetwork
      <4>2. Env.STA_SSID # None
        BY <1>4, <3>1, EnvNetwork
      <4> QED
        BY StoreLeavesItem, <4>1, <4>2, FirstSlot
    <3>2. CASE ~(sta_networks = <<>> /\ Fitting(Env.STA_SSID) # None)
      BY <1>1, <2>3, <3>2 DEF WriteDefaultNetwork
    <3> QED
      BY <3>1, <3>2
  <2>4. CASE WriteDefaultPassword
    <3>1. OrEmpty(Fitting(Env.STA_PASSWORD)) # None
      BY <1>4, EnvNetwork
    <3>2. \E ok \in WriteResults :
            store(sta_pw_key(0), OrEmpty(Fitting(Env.STA_PASSWORD)), ok)
      BY <2>4 DEF WriteDefaultPassword
    <3> QED
      BY StoreLeavesItem, <3>1, <3>2, FirstSlot
  <2>5. CASE WriteDefaultStaEnabled
    <3>1. TRUE # None
      BY TextAssumption
    <3>2. \E ok \in WriteResults : store(STA_ENABLED, TRUE, ok)
      BY <2>5 DEF WriteDefaultStaEnabled
    <3> QED
      BY StoreLeavesItem, <1>3, <3>1, <3>2
  <2> QED
    BY <1>5, <2>1, <2>2, <2>3, <2>4, <2>5 DEF Boot
<1>6. CASE TakeSignal \/ PowerLoss \/ UNCHANGED vars
  BY <1>1, <1>6 DEF TakeSignal, PowerLoss, vars
<1>7. ASSUME NEW t \in Tasks, Step(t) PROVE Kept
  <2>1. CASE Set(t)
    <3>1. PICK c \in Calls, ok \in WriteResults :
            c.op = "set" /\ c.val # TooLong /\ store(c.key, c.val, ok)
      BY <2>1 DEF Set
    <3>2. c \in SetCalls
      BY <3>1, CallKinds
    <3> QED
      BY StoreLeavesItem, <3>1, <3>2, SetCallTyped
  <2>2. CASE ConfigureApSsid(t)
    <3>1. PICK c \in Calls :
            IF c.ssid \in Text THEN \E ok \in WriteResults : store(AP_SSID, c.ssid, ok)
            ELSE flash' = flash
      BY <2>2 DEF ConfigureApSsid
    <3> QED
      BY <1>1, StoreLeavesItem, <1>4, <3>1, ApKeys
  <2>3. CASE ConfigureApPassword(t)
    BY StoreLeavesItem, <1>4, <2>3, ApKeys DEF ConfigureApPassword
  <2>4. CASE WriteSlotSsid(t) \/ WriteSlotPassword(t)
    <3>1. task[t] \in Frames /\ FrameOK(task[t])
          /\ task[t].pc \in {"slot_ssid", "slot_password"}
      BY <2>4 DEF WriteSlotSsid, WriteSlotPassword, TypeInv, TypeOK
    <3>2. /\ task[t].i \in Slots
          /\ SlotNetwork(task[t]).ssid \in Text
          /\ OrEmpty(SlotNetwork(task[t]).password) \in Text
      BY <3>1, SlotNetworkTyped
    <3>3. \E k \in {sta_ssid_key(task[t].i), sta_pw_key(task[t].i)}, v \in Text,
             ok \in WriteResults : store(k, v, ok)
      BY <2>4, <3>2 DEF WriteSlotSsid, WriteSlotPassword
    <3> QED
      BY StoreLeavesItem, <1>4, <3>2, <3>3, SlotItems
  <2>5. CASE \/ Publish(t) \/ PublishByReset(t) \/ ConfigureApSsidMirror(t)
             \/ ConfigureApPasswordMirror(t) \/ ConfigureApNoPassword(t)
             \/ AddSta(t) \/ RemoveSta(t) \/ PushSta(t) \/ Connect(t)
    BY <1>1, <2>5 DEF Publish, PublishByReset, ConfigureApSsidMirror,
       ConfigureApPasswordMirror, ConfigureApNoPassword, AddSta, RemoveSta,
       PushSta, Connect
  <2> QED
    BY <1>7, <2>1, <2>2, <2>3, <2>4, <2>5 DEF Step
<1> QED
  BY <1>5, <1>6, <1>7 DEF Next

\* The default of a key, if it has one, is no longer missing.
Written(k) == Default[k] # None => flash[k] # None

DefaultsInv ==
  /\ Up => era # "factory"
  /\ era # "factory" => \A k \in ScalarKeys : Written(k)
  /\ boot.pc \in {"slots", "defaults"} =>
       /\ \A k \in ScalarKeys \ boot.missing : flash[k] # None
       /\ era # "factory" => \A k \in boot.missing : Default[k] = None
  /\ boot.pc = "defaults" =>
       \A j \in 1 .. 8 : j < boot.i /\ j # 6 => Written(DefaultOrder[j])

\* No step of a call is taken while the device boots.
LEMMA UpInCalls ==
  ASSUME IdleUntilUp, NEW t \in Tasks, Step(t)
  PROVE  Up
<1>1. task[t] = Idle => task[t].pc = "idle"
  BY IdlePc
<1>2. task[t].pc = "idle" => CanBegin(t)
  BY DEF Step, Set, Publish, PublishByReset, ConfigureApSsid,
     ConfigureApSsidMirror, ConfigureApPassword, ConfigureApPasswordMirror,
     ConfigureApNoPassword, AddSta, RemoveSta, WriteSlotSsid,
     WriteSlotPassword, PushSta, Connect
<1> QED
  BY <1>1, <1>2 DEF IdleUntilUp, CanBegin

\* What the calls do to the boot and the era.
LEMMA CallsKeepBoot ==
  ASSUME NEW t \in Tasks, Step(t), ~PublishByReset(t)
  PROVE  boot' = boot /\ era' \in {era, "edited"}
BY DEF Step, Set, Publish, ConfigureApSsid, ConfigureApSsidMirror,
   ConfigureApPassword, ConfigureApPasswordMirror, ConfigureApNoPassword,
   AddSta, RemoveSta, WriteSlotSsid, WriteSlotPassword, PushSta, Connect, Edited

LEMMA NextDefaultsInv ==
  ASSUME Reliable, Fitting(Env.STA_SSID) = None, TypeInv, IdleUntilUp, DefaultsInv,
         [Next]_vars
  PROVE  DefaultsInv'
<1>1. \A x \in ScalarKeys : flash[x] # None => flash'[x] # None
  BY NothingRemoved DEF Kept, Keys
<1>2. \A k \in ScalarKeys : Written(k) => Written(k)'
  BY <1>1 DEF Written
<1>3. /\ boot.pc \in BootPCs /\ boot.i \in Nat /\ boot.missing \subseteq ScalarKeys
      /\ boot.pc \notin {"sta_password", "sta_enabled"}
  BY DEF TypeInv, TypeOK, BootOK
<1>4. \A j \in 1 .. 8 : j # 6 => DefaultOrder[j] \in ScalarKeys
  BY EveryDefault
<1>5. CASE LoadScalars
  <2>1. /\ boot'.pc = "slots" /\ era' = era /\ flash' = flash
        /\ boot'.missing = {k \in ScalarKeys : flash[k] = None}
    <3>1. PICK failed \in ReadErrors(ScalarKeys) :
            boot' = [pc |-> "slots", i |-> 0,
              missing |-> {k \in ScalarKeys :
                [x \in ScalarKeys |-> fetch(x, failed)][k] = None}]
      BY <1>5 DEF LoadScalars
    <3>2. \A k \in ScalarKeys : [x \in ScalarKeys |-> fetch(x, failed)][k] = flash[k]
      BY <3>1 DEF Reliable, ReadErrors, fetch
    <3> QED
      BY <1>5, <3>1, <3>2 DEF LoadScalars
  <2> QED
    BY <1>2, <2>1 DEF DefaultsInv, Up, Written
<1>6. CASE LoadSlot
  <2>1. /\ boot.pc = "slots" /\ era' = era /\ flash' = flash
        /\ boot'.missing = boot.missing
        /\ boot'.pc = "slots" \/ (boot'.pc = "defaults" /\ boot'.i = 1)
    BY <1>6 DEF LoadSlot, BootAt
  <2>2. \A j \in 1 .. 8 : ~(j < 1)
    OBVIOUS
  <2> QED
    BY <1>2, <2>1, <2>2 DEF DefaultsInv, Up
<1>7. CASE WriteDefault \/ WriteDefaultNetwork
  <2>1. /\ boot.pc = "defaults" /\ boot.i <= 8 /\ era' = era
    BY <1>7, Defaults DEF WriteDefault, WriteDefaultNetwork
  <2>2. NextDefault
    BY <1>7 DEF WriteDefault, WriteDefaultNetwork
  <2>3. /\ boot'.pc = "defaults" /\ boot'.i = boot.i + 1
        /\ boot'.missing = boot.missing
    BY <2>2 DEF NextDefault, BootAt
  <2>4. ASSUME NEW j \in 1 .. 8, j = boot.i, j # 6 PROVE Written(DefaultOrder[j])'
    <3> DEFINE k == DefaultOrder[j]
    <3>1. k \in ScalarKeys /\ WriteDefault
      BY <1>4, <1>7, <2>4, EveryDefault DEF WriteDefaultNetwork
    <3>2. CASE k \in boot.missing /\ Default[k] # None
      <4>1. store(k, Default[k], TRUE)
        BY <2>4, <3>1, <3>2 DEF WriteDefault, Reliable, WriteResults
      <4>2. flash'[k] = Default[k]
        BY <3>1, <4>1 DEF store, TypeInv, TypeOK, FlashTyped, Keys
      <4> QED
        BY <2>3, <3>2, <4>2 DEF Written
    <3>3. CASE ~(k \in boot.missing /\ Default[k] # None)
      <4>1. Written(k)
        BY <2>1, <3>1, <3>3 DEF DefaultsInv, Written
      <4>2. flash' = flash
        BY <2>4, <3>1, <3>3 DEF WriteDefault
      <4> QED
        BY <2>3, <4>1, <4>2 DEF Written
    <3> QED
      BY <3>2, <3>3
  <2>5. \A j \in 1 .. 8 : j < boot.i + 1 /\ j # 6 => Written(DefaultOrder[j])'
    <3> SUFFICES ASSUME NEW j \in 1 .. 8, j < boot.i + 1, j # 6
                 PROVE  Written(DefaultOrder[j])'
      OBVIOUS
    <3>1. CASE j = boot.i
      BY <2>4, <3>1
    <3>2. CASE j # boot.i
      <4>1. j < boot.i
        BY <1>3, <3>2
      <4>2. Written(DefaultOrder[j]) /\ DefaultOrder[j] \in ScalarKeys
        BY <1>4, <2>1, <4>1 DEF DefaultsInv
      <4> QED
        BY <1>2, <4>2
    <3> QED
      BY <3>1, <3>2
  <2>6. \A k \in ScalarKeys \ boot'.missing : flash'[k] # None
    BY <1>1, <2>1, <2>3 DEF DefaultsInv
  <2> QED
    BY <1>2, <2>1, <2>3, <2>5, <2>6 DEF DefaultsInv, Up
<1>8. CASE BootDone
  <2>1. /\ boot.pc = "defaults" /\ boot.i > 8 /\ boot'.pc = "up" /\ flash' = flash
        /\ era' # "factory"
    BY <1>8, Defaults DEF BootDone
  <2>2. \A k \in ScalarKeys : Written(k)
    <3> SUFFICES ASSUME NEW k \in ScalarKeys PROVE Written(k)
      OBVIOUS
    <3>1. PICK j \in 1 .. 8 : DefaultOrder[j] = k
      BY EveryDefault
    <3>2. j # 6 /\ j < boot.i
      BY <1>3, <2>1, <3>1, EveryDefault
    <3> QED
      BY <2>1, <3>1, <3>2 DEF DefaultsInv
  <2> QED
    BY <1>2, <2>1, <2>2 DEF DefaultsInv
<1>9. CASE ResetRam /\ era' = era
  BY <1>2, <1>9 DEF ResetRam, PoweredOn, DefaultsInv, Up
<1>10. CASE TakeSignal \/ UNCHANGED vars
  <2>1. boot' = boot /\ era' = era /\ flash' = flash
    BY <1>10 DEF TakeSignal, vars
  <2> QED
    BY <2>1 DEF DefaultsInv, Up, Written
<1>11. ASSUME NEW t \in Tasks, Step(t), ~PublishByReset(t) PROVE DefaultsInv'
  <2>1. /\ Up /\ boot' = boot /\ era' # "factory"
    BY <1>11, UpInCalls, CallsKeepBoot DEF DefaultsInv
  <2> QED
    BY <1>2, <2>1 DEF DefaultsInv, Up
<1>12. CASE Boot
  BY <1>3, <1>5, <1>6, <1>7, <1>8, <1>12
     DEF Boot, WriteDefaultPassword, WriteDefaultStaEnabled
<1> QED
  BY <1>9, <1>10, <1>11, <1>12 DEF Next, PowerLoss, PublishByReset

\* DefaultsOnce: once a boot has come to its end, no later init() writes to
\* flash, with or without power losses and callers that interleave, when no
\* default network is compiled in and no access to flash fails (README.md:131).
THEOREM DefaultsNotAgain ==
  Reliable /\ Fitting(Env.STA_SSID) = None => (Spec => DefaultsOnce)
<1> SUFFICES ASSUME Reliable, Fitting(Env.STA_SSID) = None PROVE Spec => DefaultsOnce
  OBVIOUS
<1> DEFINE Quiet == era # "factory" /\ ~Up => UNCHANGED flash
<1>1. Init => DefaultsInv
  BY DEF Init, PoweredOn, DefaultsInv, Up
<1>2. TypeInv /\ IdleUntilUp /\ DefaultsInv /\ [Next]_vars => DefaultsInv'
  BY NextDefaultsInv
<1>3. TypeInv /\ IdleUntilUp /\ DefaultsInv /\ [Next]_vars => Quiet
  <2> SUFFICES ASSUME TypeInv, IdleUntilUp, DefaultsInv, [Next]_vars,
                      era # "factory", ~Up
               PROVE  flash' = flash
    OBVIOUS
  <2>1. boot.pc \notin {"sta_password", "sta_enabled"}
    BY DEF TypeInv, BootOK
  <2>2. CASE WriteDefault
    BY <2>2 DEF WriteDefault, DefaultsInv
  <2>3. CASE WriteDefaultNetwork
    BY <2>3 DEF WriteDefaultNetwork
  <2>4. CASE LoadScalars \/ LoadSlot \/ BootDone
    BY <2>4 DEF LoadScalars, LoadSlot, BootDone
  <2>5. CASE TakeSignal \/ PowerLoss \/ UNCHANGED vars
    BY <2>5 DEF TakeSignal, PowerLoss, vars
  <2> QED
    BY <2>1, <2>2, <2>3, <2>4, <2>5, UpInCalls
       DEF Next, Boot, WriteDefaultPassword, WriteDefaultStaEnabled
<1>4. Quiet => [Quiet]_vars
  OBVIOUS
<1> HIDE DEF Quiet
<1>5. Spec => [][Quiet]_vars
  BY <1>1, <1>2, <1>3, <1>4, Typing, PTL DEF Spec
<1> QED
  BY <1>5 DEF DefaultsOnce, Quiet

-----------------------------------------------------------------------------
(* The first boot.  It finds flash empty and comes to every default, so all *)
(* of them are there at its end, until the first call that stores.          *)

DefaultNetwork == Network(Env.STA_SSID, Fitting(Env.STA_PASSWORD))

AtDefault(k) == Default[k] # None => flash[k] = Default[k]

\* What flash has once the first boot has come past entry j of DefaultOrder.
EntryWritten(j) ==
  /\ j # 6 => AtDefault(DefaultOrder[j])
  /\ j = 6 /\ Fitting(Env.STA_SSID) # None => Holds(0, DefaultNetwork)

FirstBootInv ==
  /\ boot.pc \in {"scalars", "slots"} =>
       (\A k \in Keys : flash[k] = None) /\ sta_networks = <<>>
  /\ boot.pc # "scalars" => boot.missing = ScalarKeys
  /\ boot.pc \in {"defaults", "sta_password", "sta_enabled"} =>
       \A j \in 1 .. 8 : j < boot.i => EntryWritten(j)
  /\ boot.pc = "defaults" => boot.i >= 1 /\ (boot.i <= 6 => sta_networks = <<>>)
  /\ boot.pc = "sta_password" =>
       boot.i = 6 /\ flash[sta_ssid_key(0)] = Env.STA_SSID
  /\ boot.pc = "sta_enabled" => boot.i = 6 /\ Holds(0, DefaultNetwork)

FactoryInv ==
  /\ era = "factory" => ~Up /\ FirstBootInv
  /\ era = "provisioned" =>
       /\ Up /\ \A j \in 1 .. 8 : EntryWritten(j)
       /\ \A t \in Tasks : task[t].pc # "publish"

\* A store under the key of another entry, or an unchanged flash, leaves an
\* entry as it is.
LEMMA EntryKept ==
  ASSUME FlashTyped, NEW j \in 1 .. 8, EntryWritten(j),
         \/ flash' = flash
         \/ \E k \in ScalarKeys : \E v : k # DefaultOrder[j] /\ store(k, v, TRUE)
         \/ j # 6 /\ \E k \in {sta_ssid_key(0), sta_pw_key(0)} : \E v : store(k, v, TRUE)
  PROVE  EntryWritten(j)'
<1>1. j # 6 => DefaultOrder[j] \in ScalarKeys
  BY EveryDefault
<1>2. /\ sta_ssid_key(0) \in Keys \ ScalarKeys /\ sta_pw_key(0) \in Keys \ ScalarKeys
      /\ ScalarKeys \subseteq Keys
  BY FirstSlot DEF Keys
<1>3. CASE flash' = flash
  BY <1>3 DEF EntryWritten, AtDefault, Holds
<1>4. CASE \E k \in ScalarKeys : \E v : k # DefaultOrder[j] /\ store(k, v, TRUE)
  <2>1. PICK k, v : k \in ScalarKeys /\ k # DefaultOrder[j] /\ store(k, v, TRUE)
    BY <1>4
  <2>2. /\ j # 6 => flash'[DefaultOrder[j]] = flash[DefaultOrder[j]]
        /\ flash'[sta_ssid_key(0)] = flash[sta_ssid_key(0)]
        /\ flash'[sta_pw_key(0)] = flash[sta_pw_key(0)]
    BY <1>1, <1>2, <2>1 DEF FlashTyped, store
  <2> QED
    BY <2>2 DEF EntryWritten, AtDefault, Holds
<1>5. CASE j # 6 /\ \E k \in {sta_ssid_key(0), sta_pw_key(0)} : \E v : store(k, v, TRUE)
  <2>1. flash'[DefaultOrder[j]] = flash[DefaultOrder[j]]
    BY <1>1, <1>2, <1>5 DEF FlashTyped, store
  <2> QED
    BY <1>5, <2>1 DEF EntryWritten, AtDefault
<1> QED
  BY <1>3, <1>4, <1>5

\* The steps of the first boot.
LEMMA FirstLoads ==
  ASSUME Reliable, TypeInv, era = "factory", ~Up, FirstBootInv, LoadScalars \/ LoadSlot
  PROVE  era' = "factory" /\ ~Up' /\ FirstBootInv'
<1>1. CASE LoadScalars
  <2>1. PICK failed \in ReadErrors(ScalarKeys) :
          boot' = [pc |-> "slots", i |-> 0,
            missing |-> {k \in ScalarKeys :
              [x \in ScalarKeys |-> fetch(x, failed)][k] = None}]
    BY <1>1 DEF LoadScalars
  <2>2. \A k \in ScalarKeys : [x \in ScalarKeys |-> fetch(x, failed)][k] = flash[k]
    BY <2>1 DEF Reliable, ReadErrors, fetch
  <2>3. boot.pc = "scalars" /\ era' = era /\ flash' = flash
        /\ sta_networks' = sta_networks
    BY <1>1 DEF LoadScalars
  <2>4. \A k \in ScalarKeys : flash[k] = None
    BY <2>3 DEF FirstBootInv, Keys
  <2>5. boot'.pc = "slots" /\ boot'.missing = ScalarKeys
    BY <2>1, <2>2, <2>4
  <2> QED
    BY <2>3, <2>5 DEF FirstBootInv, Up
<1>2. CASE LoadSlot
  <2>1. /\ boot.pc = "slots" /\ era' = era /\ flash' = flash
        /\ boot'.missing = boot.missing
        /\ boot'.pc = "slots" \/ (boot'.pc = "defaults" /\ boot'.i = 1)
    BY <1>2 DEF LoadSlot, BootAt
  <2>2. boot.i \in Slots
    BY <2>1 DEF TypeInv, BootOK
  <2>3. /\ sta_ssid_key(boot.i) \in Keys
        /\ \A k \in Keys : flash[k] = None
    BY <2>1, <2>2, SlotItems DEF FirstBootInv
  <2>4. sta_networks' = sta_networks
    BY <1>2, <2>3 DEF LoadSlot, Reliable, ReadErrors, fetch
  <2>5. \A j \in 1 .. 8 : ~(j < 1)
    OBVIOUS
  <2> QED
    BY <2>1, <2>4, <2>5 DEF FirstBootInv, Up
<1> QED
  BY <1>1, <1>2

LEMMA FirstDefault ==
  ASSUME Reliable, TypeInv, era = "factory", ~Up, FirstBootInv, WriteDefault
  PROVE  era' = "factory" /\ ~Up' /\ FirstBootInv'
<1>1. /\ boot.pc = "defaults" /\ boot.i \in 1 .. 8
      /\ boot'.pc = "defaults" /\ boot'.i = boot.i + 1 /\ boot'.missing = boot.missing
      /\ era' = era /\ sta_networks' = sta_networks
      /\ DefaultOrder[boot.i] \in ScalarKeys /\ boot.missing = ScalarKeys
  BY Defaults DEF WriteDefault, NextDefault, BootAt, FirstBootInv, TypeInv, TypeOK
<1>2. /\ Default[DefaultOrder[boot.i]] # None
           => store(DefaultOrder[boot.i], Default[DefaultOrder[boot.i]], TRUE)
      /\ Default[DefaultOrder[boot.i]] = None => flash' = flash
  BY <1>1 DEF WriteDefault, Reliable, WriteResults
<1>3. \A j, l \in 1 .. 8 : DefaultOrder[j] = DefaultOrder[l] => j = l
  <2>1. /\ DefaultOrder[1] = 0 /\ DefaultOrder[2] = 4 /\ DefaultOrder[3] = 1
        /\ DefaultOrder[4] = 2 /\ DefaultOrder[5] = 3 /\ DefaultOrder[6] = 10
        /\ DefaultOrder[7] = 5 /\ DefaultOrder[8] = 6
    BY Defaults
  <2>2. \A j \in 1 .. 8 : \/ j = 1 \/ j = 2 \/ j = 3 \/ j = 4
                          \/ j = 5 \/ j = 6 \/ j = 7 \/ j = 8
    OBVIOUS
  <2> QED
    BY <2>1, <2>2
<1>4. ASSUME NEW j \in 1 .. 8, j < boot.i + 1 PROVE EntryWritten(j)'
  <2>1. CASE j = boot.i
    <3>1. j # 6 /\ DefaultOrder[j] \in Keys
      BY <1>1, <2>1, EveryDefault DEF Keys
    <3>2. Default[DefaultOrder[j]] # None => flash'[DefaultOrder[j]] = Default[DefaultOrder[j]]
      BY <1>2, <2>1, <3>1 DEF store, TypeInv, TypeOK, FlashTyped
    <3> QED
      BY <3>1, <3>2 DEF EntryWritten, AtDefault
  <2>2. CASE j # boot.i
    <3>1. j < boot.i /\ boot.i \in 1 .. 8
      BY <1>1, <1>4, <2>2
    <3>2. EntryWritten(j)
      BY <1>1, <3>1 DEF FirstBootInv
    <3>3. DefaultOrder[boot.i] # DefaultOrder[j]
      BY <1>3, <2>2, <3>1
    <3>4. \/ flash' = flash
          \/ \E k \in ScalarKeys : \E v : k # DefaultOrder[j] /\ store(k, v, TRUE)
      BY <1>1, <1>2, <3>3
    <3> QED
      BY <3>2, <3>4, EntryKept DEF TypeInv, TypeOK
  <2> QED
    BY <2>1, <2>2
<1>5. boot.i + 1 >= 1 /\ (boot.i + 1 <= 6 => boot.i <= 6)
  BY <1>1
<1> QED
  BY <1>1, <1>4, <1>5 DEF FirstBootInv, Up

\* The entry of the default network, in three steps.
LEMMA FirstNetwork ==
  ASSUME Reliable, TypeInv, era = "factory", ~Up, FirstBootInv, WriteDefaultNetwork
  PROVE  era' = "factory" /\ ~Up' /\ FirstBootInv'
<1>1. /\ boot.pc = "defaults" /\ boot.i \in 1 .. 8 /\ era' = era
      /\ DefaultOrder[boot.i] = sta_ssid_key(0) /\ boot.missing = ScalarKeys
  BY Defaults DEF WriteDefaultNetwork, FirstBootInv, TypeInv, TypeOK
<1>2. boot.i = 6 /\ sta_networks = <<>> /\ sta_networks' = sta_networks
  BY <1>1, EveryDefault DEF FirstBootInv, WriteDefaultNetwork, ram
<1>3. /\ Fitting(Env.STA_SSID) # None =>
           store(sta_ssid_key(0), Env.STA_SSID, TRUE) /\ boot'.pc = "sta_password"
      /\ Fitting(Env.STA_SSID) = None => flash' = flash /\ boot'.pc = "defaults"
      /\ boot'.i = (IF Fitting(Env.STA_SSID) # None THEN 6 ELSE 7)
      /\ boot'.missing = boot.missing
  <2>1. CASE Fitting(Env.STA_SSID) # None
    <3>1. PICK ok \in WriteResults :
            /\ store(sta_ssid_key(0), Env.STA_SSID, ok)
            /\ IF ok THEN BootAt("sta_password", boot.i) ELSE NextDefault
      BY <1>2, <2>1 DEF WriteDefaultNetwork
    <3>2. ok = TRUE
      BY <3>1 DEF Reliable, WriteResults
    <3>3. /\ boot'.pc = "sta_password" /\ boot'.i = 6 /\ boot'.missing = boot.missing
      BY <1>2, <3>1, <3>2 DEF BootAt
    <3> QED
      BY <2>1, <3>1, <3>2, <3>3
  <2>2. CASE Fitting(Env.STA_SSID) = None
    <3>1. flash' = flash /\ NextDefault
      BY <2>2 DEF WriteDefaultNetwork
    <3> QED
      BY <1>2, <2>2, <3>1 DEF NextDefault, BootAt
  <2> QED
    BY <2>1, <2>2
<1>4. ASSUME NEW j \in 1 .. 8, j < 6 PROVE EntryWritten(j)'
  <2>1. EntryWritten(j)
    BY <1>1, <1>2, <1>4 DEF FirstBootInv
  <2>2. flash' = flash \/ \E k \in {sta_ssid_key(0), sta_pw_key(0)} : \E v : store(k, v, TRUE)
    BY <1>3
  <2>3. j # 6
    BY <1>4
  <2> QED
    BY <2>1, <2>2, <2>3, EntryKept DEF TypeInv, TypeOK
<1>5. CASE Fitting(Env.STA_SSID) # None
  <2>1. flash'[sta_ssid_key(0)] = Env.STA_SSID
    BY <1>3, <1>5, FirstSlot DEF store, TypeInv, TypeOK, FlashTyped
  <2> QED
    BY <1>1, <1>3, <1>4, <1>5, <2>1 DEF FirstBootInv, BootAt, Up
<1>6. CASE Fitting(Env.STA_SSID) = None
  <2>1. \A j \in 1 .. 8 : j < 7 => EntryWritten(j)'
    <3>1. EntryWritten(6)'
      BY <1>6 DEF EntryWritten
    <3>2. \A j \in 1 .. 8 : j < 7 => j < 6 \/ j = 6
      OBVIOUS
    <3> QED
      BY <1>4, <3>1, <3>2
  <2> QED
    BY <1>1, <1>3, <1>6, <2>1 DEF FirstBootInv, BootAt, Up
<1> QED
  BY <1>5, <1>6

LEMMA FirstPassword ==
  ASSUME Reliable, TypeInv, era = "factory", ~Up, FirstBootInv, WriteDefaultPassword
  PROVE  era' = "factory" /\ ~Up' /\ FirstBootInv'
<1>1. /\ boot.pc = "sta_password" /\ boot.i = 6 /\ era' = era
      /\ flash[sta_ssid_key(0)] = Env.STA_SSID /\ boot.missing = ScalarKeys
      /\ store(sta_pw_key(0), OrEmpty(Fitting(Env.STA_PASSWORD)), TRUE)
      /\ BootAt("sta_enabled", 6)
  BY DEF WriteDefaultPassword, FirstBootInv, Reliable, WriteResults
<1>2. ASSUME NEW j \in 1 .. 8, j < 6 PROVE EntryWritten(j)'
  <2>1. EntryWritten(j)
    BY <1>1, <1>2 DEF FirstBootInv
  <2>2. j # 6
    BY <1>2
  <2> DEFINE v == OrEmpty(Fitting(Env.STA_PASSWORD))
  <2>3. store(sta_pw_key(0), v, TRUE)
    BY <1>1
  <2> HIDE DEF v
  <2> QED
    BY <2>1, <2>2, <2>3, EntryKept DEF TypeInv, TypeOK
<1>3. Holds(0, DefaultNetwork)'
  <2> DEFINE v == OrEmpty(Fitting(Env.STA_PASSWORD))
  <2>1. /\ sta_ssid_key(0) \in Keys /\ sta_pw_key(0) \in Keys
        /\ sta_ssid_key(0) # sta_pw_key(0)
    BY FirstSlot, SlotKeysDistinct
  <2>2. Filtered(v) = Filtered(Fitting(Env.STA_PASSWORD))
    BY EnvNetwork, FilteredOrEmpty
  <2>3. store(sta_pw_key(0), v, TRUE)
    BY <1>1
  <2> HIDE DEF v
  <2>4. flash'[sta_ssid_key(0)] = Env.STA_SSID /\ flash'[sta_pw_key(0)] = v
    BY <1>1, <2>1, <2>3 DEF store, TypeInv, TypeOK, FlashTyped
  <2> QED
    BY <2>2, <2>4 DEF Holds, DefaultNetwork, Network
<1> QED
  BY <1>1, <1>2, <1>3 DEF FirstBootInv, BootAt, Up

LEMMA FirstStaEnabled ==
  ASSUME Reliable, TypeInv, era = "factory", ~Up, FirstBootInv, WriteDefaultStaEnabled
  PROVE  era' = "factory" /\ ~Up' /\ FirstBootInv'
<1>1. /\ boot.pc = "sta_enabled" /\ boot.i = 6 /\ era' = era
      /\ Holds(0, DefaultNetwork) /\ boot.missing = ScalarKeys
      /\ store(STA_ENABLED, TRUE, TRUE) /\ BootAt("defaults", 7)
      /\ sta_networks' = sta_networks /\ STA_ENABLED \in ScalarKeys
  <2>1. /\ boot.pc = "sta_enabled" /\ boot.i = 6 /\ era' = era
        /\ Holds(0, DefaultNetwork) /\ boot.missing = ScalarKeys
        /\ sta_networks' = sta_networks
    BY DEF WriteDefaultStaEnabled, FirstBootInv, ram
  <2>2. BootAt("defaults", 7)
    BY <2>1 DEF WriteDefaultStaEnabled, NextDefault
  <2>3. store(STA_ENABLED, TRUE, TRUE)
    BY DEF WriteDefaultStaEnabled, Reliable, WriteResults
  <2>4. STA_ENABLED \in ScalarKeys
    BY DEF ScalarKeys, STA_ENABLED, AP_ENABLED, COUNTRY_CODE
  <2> QED
    BY <2>1, <2>2, <2>3, <2>4
<1>2. Default[STA_ENABLED] = TRUE
  <2>1. Env.STA_SSID # None
    BY <1>1, EnvNetwork, TextAssumption DEF TypeInv, BootOK
  <2>2. Default[STA_ENABLED] = NewData[STA_ENABLED]
    BY <1>1 DEF Default, FlagKeys, AP_ENABLED, AP_SSID, AP_PASSWORD, AP_GATEWAY_IP,
       STA_ENABLED, HOSTNAME, COUNTRY_CODE
  <2>3. NewData[STA_ENABLED] = (Env.STA_SSID # None)
    BY <1>1 DEF NewData, STA_ENABLED, AP_ENABLED
  <2> QED
    BY <2>1, <2>2, <2>3
<1>3. ASSUME NEW j \in 1 .. 8, j < 7 PROVE EntryWritten(j)'
  <2>1. EntryWritten(j)
    <3>1. j < 6 \/ j = 6
      BY <1>3
    <3>2. j < 6 => EntryWritten(j)
      BY <1>1 DEF FirstBootInv
    <3>3. j = 6 => EntryWritten(j)
      BY <1>1 DEF EntryWritten
    <3> QED
      BY <3>1, <3>2, <3>3
  <2>2. CASE DefaultOrder[j] = STA_ENABLED
    <3>1. flash'[STA_ENABLED] = TRUE /\ j # 6
      BY <1>1, <2>2, EveryDefault DEF store, TypeInv, TypeOK, FlashTyped, Keys
    <3> QED
      BY <1>2, <2>2, <3>1 DEF EntryWritten, AtDefault
  <2>3. CASE DefaultOrder[j] # STA_ENABLED
    BY <1>1, <2>1, <2>3, EntryKept DEF TypeInv, TypeOK
  <2> QED
    BY <2>2, <2>3
<1> QED
  BY <1>1, <1>3 DEF FirstBootInv, BootAt, Up

\* After the first boot only a store changes flash, and it ends the era.
LEMMA ProvisionedStep ==
  ASSUME Reliable, NEW t \in Tasks, Step(t), task \in [Tasks -> Frames],
         \A u \in Tasks : task[u].pc # "publish", era = "provisioned"
  PROVE  /\ boot' = boot
         /\ \/ era' = "edited"
            \/ /\ era' = era /\ flash' = flash
               /\ \A u \in Tasks : task'[u].pc # "publish"
<1>1. ~PublishByReset(t) /\ ~Publish(t)
  BY DEF PublishByReset, Publish
<1>2. boot' = boot
  BY <1>1, CallsKeepBoot
<1>3. CASE Set(t) \/ ConfigureApPassword(t) \/ WriteSlotSsid(t) \/ WriteSlotPassword(t)
  BY <1>2, <1>3 DEF Set, ConfigureApPassword, WriteSlotSsid, WriteSlotPassword,
     Reliable, WriteResults, Edited
<1>4. CASE ConfigureApSsid(t)
  <2>1. PICK c \in Calls :
          IF c.ssid \in Text
          THEN \E ok \in WriteResults : Edited(ok)
          ELSE /\ task' = [task EXCEPT ![t] =
                    Frame("ap_password", c, 0, <<>>, c.ssid = None)]
               /\ UNCHANGED <<flash, era>>
    BY <1>4 DEF ConfigureApSsid
  <2>2. CASE c.ssid \in Text
    BY <1>2, <2>1, <2>2 DEF Reliable, WriteResults, Edited
  <2>3. CASE c.ssid \notin Text
    BY <1>2, <2>1, <2>3 DEF Frame
  <2> QED
    BY <2>2, <2>3
<1>5. CASE \/ ConfigureApSsidMirror(t) \/ ConfigureApPasswordMirror(t)
           \/ ConfigureApNoPassword(t)
  BY <1>2, <1>5, IdlePc DEF ConfigureApSsidMirror, ConfigureApPasswordMirror,
     ConfigureApNoPassword, Goto, Return, Frame
<1>6. CASE AddSta(t) \/ RemoveSta(t)
  BY <1>2, <1>6 DEF AddSta, RemoveSta, Frame
<1>7. CASE PushSta(t) \/ Connect(t)
  BY <1>2, <1>7, IdlePc DEF PushSta, Connect, Goto, Return, Frame
<1> QED
  BY <1>1, <1>3, <1>4, <1>5, <1>6, <1>7 DEF Step

LEMMA NextFactoryInv ==
  ASSUME Reliable, ~PowerMayFail, TypeInv, IdleUntilUp, FactoryInv, [Next]_vars
  PROVE  FactoryInv'
<1>1. CASE Boot
  <2>1. ~Up /\ era # "provisioned"
    BY <1>1 DEF Boot, LoadScalars, LoadSlot, WriteDefault, WriteDefaultNetwork,
       WriteDefaultPassword, WriteDefaultStaEnabled, BootDone, Up, FactoryInv
  <2>2. CASE era = "factory" /\ ~BootDone
    BY <1>1, <2>1, <2>2, FirstLoads, FirstDefault, FirstNetwork, FirstPassword,
       FirstStaEnabled DEF FactoryInv, Boot
  <2>3. CASE era = "factory" /\ BootDone
    <3>1. /\ boot.pc = "defaults" /\ boot.i > 8 /\ boot.i \in Nat
          /\ flash' = flash /\ task' = task /\ Up' /\ era' = "provisioned"
      BY <2>3, Defaults DEF BootDone, TypeInv, TypeOK, Up
    <3>2. ASSUME NEW j \in 1 .. 8 PROVE EntryWritten(j)'
      <4>1. EntryWritten(j)
        <5>1. j < boot.i
          BY <3>1
        <5> QED
          BY <2>3, <3>1, <5>1 DEF FactoryInv, FirstBootInv
      <4> QED
        BY <3>1, <4>1, EntryKept DEF TypeInv, TypeOK
    <3>3. \A t \in Tasks : task'[t].pc # "publish"
      BY <2>1, <3>1, IdlePc DEF IdleUntilUp
    <3> QED
      BY <3>1, <3>2, <3>3 DEF FactoryInv
  <2>4. CASE era = "edited"
    <3>1. era' = era
      BY <1>1, <2>4 DEF Boot, LoadScalars, LoadSlot, WriteDefault, WriteDefaultNetwork,
         WriteDefaultPassword, WriteDefaultStaEnabled, BootDone
    <3> QED
      BY <2>4, <3>1 DEF FactoryInv
  <2> QED
    BY <2>1, <2>2, <2>3, <2>4 DEF TypeInv, TypeOK
<1>2. CASE TakeSignal \/ UNCHANGED vars
  <2>1. /\ boot' = boot /\ era' = era /\ flash' = flash /\ task' = task
        /\ sta_networks' = sta_networks
    BY <1>2 DEF TakeSignal, vars, ram
  <2> QED
    BY <2>1 DEF FactoryInv, FirstBootInv, Up, EntryWritten, AtDefault, Holds
<1>3. ASSUME NEW t \in Tasks, Step(t) PROVE FactoryInv'
  <2>1. Up /\ era # "factory"
    BY <1>3, UpInCalls DEF FactoryInv
  <2>2. CASE era = "provisioned"
    <3>1. \A u \in Tasks : task[u].pc # "publish"
      BY <2>2 DEF FactoryInv
    <3>2. /\ boot' = boot
          /\ \/ era' = "edited"
             \/ /\ era' = era /\ flash' = flash
                /\ \A u \in Tasks : task'[u].pc # "publish"
      BY <1>3, <2>2, <3>1, ProvisionedStep DEF TypeInv, TypeOK
    <3> QED
      BY <2>2, <3>2 DEF FactoryInv, Up, EntryWritten, AtDefault, Holds
  <2>3. CASE era = "edited"
    <3>1. era' = "edited"
      BY <1>3, <2>3, CallsKeepBoot DEF PublishByReset
    <3> QED
      BY <3>1 DEF FactoryInv
  <2> QED
    BY <2>1, <2>2, <2>3 DEF TypeInv, TypeOK
<1> QED
  BY <1>1, <1>2, <1>3 DEF Next, PowerLoss

\* FirstBootComplete: at the end of the first boot, and until the first call
\* that stores, flash has every default that is set, the network included,
\* whatever the environment; the power does not fail and no access to flash
\* does (config.rs:60, 67).
THEOREM FirstBootWritesAll ==
  Reliable /\ ~PowerMayFail => (Spec => []FirstBootComplete)
<1> SUFFICES ASSUME Reliable, ~PowerMayFail PROVE Spec => []FirstBootComplete
  OBVIOUS
<1>1. Init => FactoryInv
  BY DEF Init, PoweredOn, FactoryInv, FirstBootInv, Up
<1>2. TypeInv /\ IdleUntilUp /\ FactoryInv /\ [Next]_vars => FactoryInv'
  BY NextFactoryInv
<1>3. FactoryInv => FirstBootComplete
  <2> SUFFICES ASSUME era = "provisioned", \A j \in 1 .. 8 : EntryWritten(j)
               PROVE  /\ \A k \in ScalarKeys : AtDefault(k)
                      /\ Fitting(Env.STA_SSID) # None => Holds(0, DefaultNetwork)
    BY DEF FactoryInv, FirstBootComplete, AtDefault, DefaultNetwork
  <2>1. ASSUME NEW k \in ScalarKeys PROVE AtDefault(k)
    <3>1. PICK j \in 1 .. 8 : DefaultOrder[j] = k
      BY EveryDefault
    <3> QED
      BY <3>1, EveryDefault DEF EntryWritten
  <2>2. EntryWritten(6)
    OBVIOUS
  <2> QED
    BY <2>1, <2>2 DEF EntryWritten
<1> QED
  BY <1>1, <1>2, <1>3, Typing, PTL DEF Spec

-----------------------------------------------------------------------------
(* Networks as given.  A slot pairs an SSID with another password only in   *)
(* the middle of a write, and no reset comes there while the power holds.   *)

GivenPair(ssid, password) ==
  \/ \E c \in Calls : c.op = "add" /\ ssid = c.ssid /\ password = Filtered(c.password)
  \/ ssid = Env.STA_SSID /\ password = Filtered(Fitting(Env.STA_PASSWORD))

Given(n) == GivenPair(n.ssid, Filtered(n.password))

GivenInv ==
  /\ \A j \in 1 .. Len(sta_networks) : Given(sta_networks[j])
  /\ boot.pc \in {"scalars", "slots"} =>
       \A i \in Slots : Vacant(Ssids, i) \/ GivenPair(Ssids[i], Passwords[i])
  /\ \A t \in Tasks : task[t].pc \in SlotPCs => task[t].call \in Calls

LEMMA FilteredTwice == \A p : Filtered(Filtered(p)) = Filtered(p)
BY TextAssumption DEF Filtered

\* A list that grows by a given network.
LEMMA GivenAppended ==
  ASSUME NEW l \in Seq(Networks), NEW n \in Networks, Given(n),
         \A j \in 1 .. Len(l) : Given(l[j]), NEW h, h = Append(l, n)
  PROVE  \A j \in 1 .. Len(h) : Given(h[j])
<1>1. /\ Len(h) = Len(l) + 1 /\ Len(l) \in Nat
      /\ \A j \in 1 .. Len(h) : h[j] = IF j = Len(l) + 1 THEN n ELSE l[j]
  BY AppendProperties, LenProperties
<1> SUFFICES ASSUME NEW j \in 1 .. Len(h) PROVE Given(h[j])
  OBVIOUS
<1>2. CASE j = Len(l) + 1
  BY <1>1, <1>2
<1>3. CASE j # Len(l) + 1
  BY <1>1, <1>3
<1> QED
  BY <1>2, <1>3

\* The steps of init() on the list.
LEMMA BootGivenInv ==
  ASSUME Saving, TypeInv, IdleUntilUp, GivenInv, Boot
  PROVE  GivenInv'
<1>1. ~Up /\ task' = task
  BY DEF Boot, LoadScalars, LoadSlot, WriteDefault, WriteDefaultNetwork,
     WriteDefaultPassword, WriteDefaultStaEnabled, BootDone, Up
<1>2. \A t \in Tasks : task'[t].pc \notin SlotPCs
  BY <1>1, IdleNotWriting DEF IdleUntilUp
<1>3. CASE LoadScalars
  <2>1. /\ flash' = flash /\ sta_networks' = sta_networks /\ boot.pc = "scalars"
    BY <1>3 DEF LoadScalars
  <2>2. Ssids' = Ssids /\ Passwords' = Passwords
    BY <2>1, FlashKept
  <2> QED
    BY <1>2, <2>1, <2>2 DEF GivenInv
<1>4. CASE LoadSlot
  <2> DEFINE m == boot.i
             n == Network(Ssids[m], Passwords[m])
  <2>1. /\ flash' = flash /\ boot.pc = "slots" /\ m \in Slots
        /\ sta_networks \in Seq(Networks)
        /\ boot'.pc \in {"slots", "defaults"}
    BY <1>4 DEF LoadSlot, TypeInv, TypeOK, RamTyped, BootOK, BootAt
  <2>2. Ssids' = Ssids /\ Passwords' = Passwords
    BY <2>1, FlashKept
  <2>3. sta_networks' = IF Vacant(Ssids, m) THEN sta_networks ELSE Append(sta_networks, n)
    BY <1>4, <2>1 DEF LoadSlot, Saving, ReadErrors, fetch, Vacant, Ssids, Passwords
  <2>4. \A j \in 1 .. Len(sta_networks') : Given(sta_networks'[j])
    <3>1. CASE Vacant(Ssids, m)
      <4>1. sta_networks' = sta_networks
        BY <2>3, <3>1
      <4> QED
        BY <4>1 DEF GivenInv
    <3>2. CASE ~Vacant(Ssids, m)
      <4>1. /\ sta_ssid_key(m) \in Keys \ FlagKeys /\ sta_pw_key(m) \in Keys \ FlagKeys
        BY <2>1, SlotKeys DEF FlagKeys, ScalarKeys, AP_ENABLED, STA_ENABLED, COUNTRY_CODE
      <4>2. /\ flash[sta_ssid_key(m)] \in Text \cup {None}
            /\ flash[sta_pw_key(m)] \in Text \cup {None}
        BY <4>1 DEF TypeInv, TypeOK, FlashTyped, ItemsAt
      <4>3. n \in Networks
        BY <2>1, <3>2, <4>2 DEF Ssids, Passwords, Filtered, Vacant, Network, Networks
      <4>4. Passwords[m] = Filtered(flash[sta_pw_key(m)])
        BY <2>1 DEF Passwords
      <4>5. GivenPair(Ssids[m], Passwords[m]) /\ Filtered(Passwords[m]) = Passwords[m]
        BY <2>1, <3>2, <4>4, FilteredTwice DEF GivenInv
      <4>6. Given(n)
        BY <4>5 DEF Given, Network
      <4>7. sta_networks' = Append(sta_networks, n)
        BY <2>3, <3>2
      <4>8. \A j \in 1 .. Len(sta_networks) : Given(sta_networks[j])
        BY DEF GivenInv
      <4> HIDE DEF n
      <4> QED
        BY <2>1, <4>3, <4>6, <4>7, <4>8, GivenAppended
    <3> QED
      BY <3>1, <3>2
  <2> QED
    BY <1>2, <2>1, <2>2, <2>4 DEF GivenInv
<1>5. CASE \/ WriteDefault \/ WriteDefaultNetwork \/ WriteDefaultStaEnabled \/ BootDone
  <2>1. sta_networks' = sta_networks /\ boot'.pc \notin {"scalars", "slots"}
    <3>1. CASE WriteDefault
      BY <3>1 DEF WriteDefault, NextDefault, BootAt
    <3>2. CASE WriteDefaultNetwork
      BY <3>2 DEF WriteDefaultNetwork, NextDefault, BootAt, ram
    <3>3. CASE WriteDefaultStaEnabled
      BY <3>3 DEF WriteDefaultStaEnabled, NextDefault, BootAt, ram
    <3>4. CASE BootDone
      BY <3>4 DEF BootDone, ram
    <3> QED
      BY <1>5, <3>1, <3>2, <3>3, <3>4
  <2> QED
    BY <1>2, <2>1 DEF GivenInv
<1>6. CASE WriteDefaultPassword
  <2>1. sta_networks' = Append(sta_networks, DefaultNetwork) /\ boot'.pc = "sta_enabled"
    BY <1>6 DEF WriteDefaultPassword, Saving, WriteResults, BootAt, DefaultNetwork
  <2>2. DefaultNetwork \in Networks /\ sta_networks \in Seq(Networks)
    BY <1>6, EnvNetwork DEF WriteDefaultPassword, TypeInv, TypeOK, RamTyped, BootOK,
       DefaultNetwork, Network, Networks
  <2>3. Given(DefaultNetwork)
    BY DEF Given, GivenPair, DefaultNetwork, Network
  <2>4. \A j \in 1 .. Len(sta_networks') : Given(sta_networks'[j])
    BY <2>1, <2>2, <2>3, GivenAppended DEF GivenInv
  <2> QED
    BY <1>2, <2>1, <2>4 DEF GivenInv
<1> QED
  BY <1>3, <1>4, <1>5, <1>6 DEF Boot

LEMMA ResetGivenInv ==
  ASSUME Saving, TypeInv, IdleUntilUp, AtMostOne, NetInv, GivenInv, NEW t \in Tasks,
         Step(t), PublishByReset(t)
  PROVE  GivenInv'
<1>1. Up /\ task[t].pc \notin SlotPCs
  BY UpInCalls DEF PublishByReset, SlotPCs
<1>2. Lists(Ssids, Passwords, sta_networks)
  BY <1>1, ListsBefore DEF Saving, TypeInv, TypeOK
<1>3. /\ flash' = flash /\ sta_networks' = <<>>
      /\ \A u \in Tasks : task'[u].pc \notin SlotPCs
  BY IdleNotWriting DEF PublishByReset, ResetRam
<1>4. Ssids' = Ssids /\ Passwords' = Passwords
  BY <1>3, FlashKept
<1>5. ASSUME NEW i \in Slots, ~Vacant(Ssids, i) PROVE GivenPair(Ssids[i], Passwords[i])
  <2>1. i < Len(sta_networks) /\ Has(Ssids, Passwords, i, sta_networks[i + 1])
    BY <1>2, <1>5 DEF Lists
  <2>2. i + 1 \in 1 .. Len(sta_networks)
    BY <2>1, SlotNumbers, LenProperties DEF TypeInv, TypeOK, RamTyped
  <2>3. Given(sta_networks[i + 1])
    BY <2>2 DEF GivenInv
  <2> QED
    BY <2>1, <2>3 DEF Given, Has
<1>6. \A j \in 1 .. Len(sta_networks') : Given(sta_networks'[j])
  <2>1. Len(sta_networks') = 0
    BY <1>3, EmptySeq
  <2>2. \A j \in 1 .. 0 : FALSE
    OBVIOUS
  <2> QED
    BY <2>1, <2>2
<1> QED
  BY <1>3, <1>4, <1>5, <1>6 DEF GivenInv

LEMMA CallGivenInv ==
  ASSUME TypeInv, IdleUntilUp, GivenInv, NEW t \in Tasks, Step(t), ~PublishByReset(t)
  PROVE  GivenInv'
<1>1. Up /\ boot' = boot
  BY UpInCalls, CallsKeepBoot
<1>2. /\ task \in [Tasks -> Frames] /\ sta_networks \in Seq(Networks)
      /\ FrameOK(task[t])
  BY DEF TypeInv, TypeOK, RamTyped
<1>3. \A u \in Tasks : task'[u].pc \in SlotPCs => task'[u].call \in Calls
  <2>1. CASE AddSta(t) \/ RemoveSta(t)
    BY <1>2, <2>1 DEF GivenInv, AddSta, RemoveSta, Frame
  <2>2. CASE WriteSlotSsid(t) \/ WriteSlotPassword(t) \/ PushSta(t)
    <3>1. task[t].call \in Calls
      BY <2>2 DEF GivenInv, WriteSlotSsid, WriteSlotPassword, PushSta, SlotPCs
    <3>2. \E pc \in TaskPCs, i \in 0 .. N : \E ok :
             \/ task' = [task EXCEPT ![t] = Idle]
             \/ task' = [task EXCEPT ![t] = Frame(pc, task[t].call, i, task[t].networks, ok)]
      <4>1. task[t] \in Frames
        BY <1>2
      <4>2. task[t].pc = "slot_password" => task[t].i + 1 \in 0 .. N
        BY <1>2, SlotNumbers, SizeAssumption DEF FrameOK
      <4> QED
        BY <2>2, <4>1, <4>2 DEF WriteSlotSsid, WriteSlotPassword, PushSta, Goto, Return,
           Frames, TaskPCs
    <3> QED
      BY <1>2, <3>1, <3>2, IdleNotWriting DEF GivenInv, Frame
  <2>3. CASE \/ Set(t) \/ Publish(t) \/ ConfigureApSsid(t) \/ ConfigureApSsidMirror(t)
             \/ ConfigureApPassword(t) \/ ConfigureApPasswordMirror(t)
             \/ ConfigureApNoPassword(t) \/ Connect(t)
    <3>1. \E f : /\ task' = [task EXCEPT ![t] = f] \/ task' = task
                 /\ f.pc \notin SlotPCs
      BY <2>3, IdleNotWriting DEF Set, Publish, ConfigureApSsid, ConfigureApSsidMirror,
         ConfigureApPassword, ConfigureApPasswordMirror, ConfigureApNoPassword,
         Connect, Goto, Return, Frame, SlotPCs
    <3> QED
      BY <1>2, <3>1 DEF GivenInv
  <2> QED
    BY <2>1, <2>2, <2>3 DEF Step
<1>4. \A j \in 1 .. Len(sta_networks') : Given(sta_networks'[j])
  <2>1. CASE PushSta(t)
    <3> DEFINE n == Network(task[t].call.ssid, task[t].call.password)
    <3>1. task[t].call \in Calls /\ FittingAdd(task[t].call)
      BY <1>2, <2>1 DEF PushSta, GivenInv, SlotPCs, FrameOK
    <3>2. n \in Networks
      BY <3>1 DEF FittingAdd, AddCalls, EnvTexts, Network, Networks
    <3>3. Given(n)
      BY <3>1 DEF Given, GivenPair, Network, FittingAdd, AddCalls
    <3>4. sta_networks' = sta_networks \/ sta_networks' = Append(sta_networks, n)
      BY <2>1 DEF PushSta
    <3> HIDE DEF n
    <3> QED
      BY <1>2, <3>2, <3>3, <3>4, GivenAppended DEF GivenInv
  <2>2. CASE RemoveSta(t)
    <3>1. PICK c \in Calls : /\ c.op = "remove" /\ c.index < Len(sta_networks)
                             /\ sta_networks' = RemoveAt(sta_networks, c.index + 1)
      BY <2>2 DEF RemoveSta
    <3>2. c.index \in Nat
      BY <3>1, CallKinds DEF RemoveCalls
    <3>3. \A j \in 1 .. Len(sta_networks') :
            \E l \in 1 .. Len(sta_networks) : sta_networks'[j] = sta_networks[l]
      <4> DEFINE i == c.index + 1
      <4>1. i \in 1 .. Len(sta_networks) /\ Len(sta_networks) \in Nat
        BY <1>2, <3>1, <3>2, LenProperties
      <4> HIDE DEF i
      <4>2. /\ Len(sta_networks') = Len(sta_networks) - 1
            /\ \A j \in 1 .. Len(sta_networks) - 1 :
                 sta_networks'[j] = IF j < i THEN sta_networks[j] ELSE sta_networks[j + 1]
        <5>1. sta_networks' = RemoveAt(sta_networks, i)
          BY <3>1 DEF i
        <5> QED
          BY <1>2, <4>1, <5>1, RemoveAtProperties
      <4>3. ASSUME NEW j \in 1 .. Len(sta_networks')
            PROVE  \E l \in 1 .. Len(sta_networks) : sta_networks'[j] = sta_networks[l]
        <5>1. /\ j \in 1 .. Len(sta_networks) /\ j + 1 \in 1 .. Len(sta_networks)
              /\ j \in 1 .. Len(sta_networks) - 1
          BY <4>1, <4>2, <4>3
        <5> QED
          BY <4>2, <5>1
      <4> QED
        BY <4>3
    <3> QED
      BY <3>3 DEF GivenInv
  <2>3. CASE ~PushSta(t) /\ ~RemoveSta(t)
    <3>1. sta_networks' = sta_networks
      BY <2>3 DEF Step, Set, Publish, ConfigureApSsid, ConfigureApSsidMirror,
         ConfigureApPassword, ConfigureApPasswordMirror, ConfigureApNoPassword,
         AddSta, WriteSlotSsid, WriteSlotPassword, Connect, ram
    <3> QED
      BY <3>1 DEF GivenInv
  <2> QED
    BY <2>1, <2>2, <2>3
<1> QED
  BY <1>1, <1>3, <1>4 DEF GivenInv, Up

\* NetworksAsGiven: no SSID is ever shown with the password of another
\* network, through resets by the manager too, while the power holds and no
\* access to flash fails (system-api lib.rs:42).
THEOREM NoMixedNetwork ==
  Saving /\ ~PowerMayFail => (Spec => []NetworksAsGiven)
<1> SUFFICES ASSUME Saving, ~PowerMayFail PROVE Spec => []NetworksAsGiven
  OBVIOUS
<1>1. Init => GivenInv
  <2> SUFFICES ASSUME Init PROVE GivenInv
    OBVIOUS
  <2>1. \A i \in Slots : Vacant(Ssids, i)
    BY SlotKeys DEF Init, Ssids, Vacant
  <2>2. Len(sta_networks) = 0 /\ \A j \in 1 .. 0 : FALSE
    BY EmptySeq DEF Init
  <2>3. \A t \in Tasks : task[t].pc \notin SlotPCs
    BY IdleNotWriting DEF Init
  <2> QED
    BY <2>1, <2>2, <2>3 DEF GivenInv
<1>2. TypeInv /\ IdleUntilUp /\ AtMostOne /\ NetInv /\ GivenInv /\ [Next]_vars
        => GivenInv'
  <2> SUFFICES ASSUME TypeInv, IdleUntilUp, AtMostOne, NetInv, GivenInv, [Next]_vars
               PROVE  GivenInv'
    OBVIOUS
  <2>1. CASE Boot
    BY <2>1, BootGivenInv
  <2>2. CASE TakeSignal \/ UNCHANGED vars
    <3>1. /\ flash' = flash /\ sta_networks' = sta_networks /\ boot' = boot
          /\ task' = task
      BY <2>2 DEF TakeSignal, vars, ram
    <3>2. Ssids' = Ssids /\ Passwords' = Passwords
      BY <3>1, FlashKept
    <3> QED
      BY <3>1, <3>2 DEF GivenInv
  <2>3. ASSUME NEW t \in Tasks, Step(t) PROVE GivenInv'
    BY <2>3, ResetGivenInv, CallGivenInv
  <2> QED
    BY <2>1, <2>2, <2>3 DEF Next, PowerLoss
<1>3. GivenInv => NetworksAsGiven
  BY DEF GivenInv, Given, GivenPair, NetworksAsGiven
<1> QED
  BY <1>1, <1>2, <1>3, SavingInv, PTL DEF Spec

-----------------------------------------------------------------------------
(* One pair.  When every configure_ap call gives an SSID and a password and *)
(* no call sets one of them alone, flash has the pair of one call, except   *)
(* between the two stores of a call.                                        *)

Paired ==
  \A c \in Calls :
    /\ c.op = "configure_ap" => c.ssid \in Text /\ c.password \in Text
    /\ c.op = "set" => c.key \notin {AP_SSID, AP_PASSWORD}

OnePair(ssid, password) ==
  \/ ssid = Default[AP_SSID] /\ password = Default[AP_PASSWORD]
  \/ \E c \in Calls : c.op = "configure_ap" /\ ssid = c.ssid /\ password = c.password

BetweenStores == {"ap_ssid_mirror", "ap_password"}

PairInv ==
  /\ Up /\ (\A t \in Tasks : task[t].pc \notin BetweenStores)
       => OnePair(flash[AP_SSID], flash[AP_PASSWORD])
  /\ \A t \in Tasks : task[t].pc \in BetweenStores =>
       /\ task[t].call \in Calls /\ task[t].call.op = "configure_ap"
       /\ flash[AP_SSID] = task[t].call.ssid
  /\ ~Up /\ era = "factory" =>
       \A k \in {AP_SSID, AP_PASSWORD} : flash[k] \in {None, Default[k]}
  /\ ~Up /\ era # "factory" =>
       /\ OnePair(flash[AP_SSID], flash[AP_PASSWORD])
       /\ boot.pc # "scalars" =>
            \A k \in {AP_SSID, AP_PASSWORD} \cap boot.missing : Default[k] = None

LEMMA IdleNotBetween == Idle.pc \notin BetweenStores
BY IdlePc DEF BetweenStores

\* A step of init() leaves a key alone or writes its default there.
LEMMA BootStores ==
  ASSUME Reliable, TypeInv, Boot, NEW k \in {AP_SSID, AP_PASSWORD}
  PROVE  /\ task' = task /\ ~Up
         /\ flash'[k] = flash[k] \/ (/\ boot.pc = "defaults" /\ k \in boot.missing
                                     /\ Default[k] # None /\ flash'[k] = Default[k])
<1>1. /\ k \in ScalarKeys /\ k \in Keys /\ k # STA_ENABLED
  BY DEF Keys, ScalarKeys, AP_SSID, AP_PASSWORD, AP_ENABLED, COUNTRY_CODE, STA_ENABLED
<1>2. task' = task /\ ~Up
  BY DEF Boot, LoadScalars, LoadSlot, WriteDefault, WriteDefaultNetwork,
     WriteDefaultPassword, WriteDefaultStaEnabled, BootDone, Up
<1>3. CASE LoadScalars \/ LoadSlot \/ BootDone
  BY <1>2, <1>3 DEF LoadScalars, LoadSlot, BootDone
<1>4. CASE WriteDefault
  <2> DEFINE d == DefaultOrder[boot.i]
  <2>1. /\ boot.pc = "defaults" /\ d \in ScalarKeys
        /\ d \in boot.missing /\ Default[d] # None => store(d, Default[d], TRUE)
        /\ ~(d \in boot.missing /\ Default[d] # None) => flash' = flash
    BY <1>4 DEF WriteDefault, Reliable, WriteResults
  <2> HIDE DEF d
  <2>2. CASE d = k
    BY <1>1, <1>2, <2>1, <2>2 DEF store, TypeInv, TypeOK, FlashTyped
  <2>3. CASE d # k
    BY <1>1, <1>2, <2>1, <2>3 DEF store, TypeInv, TypeOK, FlashTyped
  <2> QED
    BY <2>2, <2>3
<1>5. CASE WriteDefaultNetwork \/ WriteDefaultPassword
  <2>1. flash' = flash \/ \E x \in {sta_ssid_key(0), sta_pw_key(0)} : \E v, ok : store(x, v, ok)
    BY <1>5 DEF WriteDefaultNetwork, WriteDefaultPassword
  <2>2. flash'[k] = flash[k]
    BY <1>1, <2>1, FirstSlot, SlotStoreKeepsScalars DEF TypeInv, TypeOK
  <2> QED
    BY <1>2, <2>2
<1>6. CASE WriteDefaultStaEnabled
  BY <1>1, <1>2, <1>6 DEF WriteDefaultStaEnabled, store, TypeInv, TypeOK, FlashTyped
<1> QED
  BY <1>3, <1>4, <1>5, <1>6 DEF Boot

\* Only the end of init() leaves it, and changes the era.
LEMMA BootProgress ==
  ASSUME Boot, ~BootDone
  PROVE  /\ ~Up' /\ era' = era
         /\ LoadScalars \/ (boot.pc # "scalars" /\ boot'.missing = boot.missing)
<1>1. CASE LoadScalars
  <2>1. boot'.pc = "slots"
    <3>1. \E m : boot' = [pc |-> "slots", i |-> 0, missing |-> m]
      BY <1>1 DEF LoadScalars
    <3> QED
      BY <3>1
  <2> QED
    BY <1>1, <2>1 DEF LoadScalars, Up
<1>2. CASE LoadSlot
  BY <1>2 DEF LoadSlot, BootAt, Up
<1>3. CASE WriteDefault
  BY <1>3 DEF WriteDefault, NextDefault, BootAt, Up
<1>4. CASE WriteDefaultNetwork
  BY <1>4 DEF WriteDefaultNetwork, NextDefault, BootAt, Up
<1>5. CASE WriteDefaultPassword
  BY <1>5 DEF WriteDefaultPassword, NextDefault, BootAt, Up
<1>6. CASE WriteDefaultStaEnabled
  BY <1>6 DEF WriteDefaultStaEnabled, NextDefault, BootAt, Up
<1> QED
  BY <1>1, <1>2, <1>3, <1>4, <1>5, <1>6 DEF Boot

LEMMA BootPairInv ==
  ASSUME Reliable, ~PowerMayFail, Paired, TypeInv, IdleUntilUp, FactoryInv, FactoryInv',
         PairInv, Boot
  PROVE  PairInv'
<1>1. \A k \in {AP_SSID, AP_PASSWORD} :
        \/ flash'[k] = flash[k]
        \/ /\ boot.pc = "defaults" /\ k \in boot.missing
           /\ Default[k] # None /\ flash'[k] = Default[k]
  BY BootStores
<1>2. task' = task /\ ~Up
  BY BootStores
<1>3. \A t \in Tasks : task'[t].pc \notin BetweenStores
  BY <1>2, IdleNotBetween DEF IdleUntilUp
<1>4. CASE era = "factory"
  <2>1. \A k \in {AP_SSID, AP_PASSWORD} : flash'[k] \in {None, Default[k]}
    BY <1>1, <1>2, <1>4 DEF PairInv
  <2>2. CASE ~Up'
    <3>1. era' = "factory"
      BY <1>4, <2>2, BootProgress DEF BootDone, Up
    <3> QED
      BY <1>3, <2>1, <2>2, <3>1 DEF PairInv
  <2>3. CASE Up'
    <3>1. \A k \in ScalarKeys : AtDefault(k)'
      <4>1. BootDone
        BY <2>3, BootProgress
      <4>2. era' = "provisioned"
        BY <1>4, <4>1 DEF BootDone
      <4>3. \A j \in 1 .. 8 : EntryWritten(j)'
        BY <4>2 DEF FactoryInv
      <4>4. ASSUME NEW k \in ScalarKeys PROVE AtDefault(k)'
        <5>1. PICK j \in 1 .. 8 : DefaultOrder[j] = k
          BY EveryDefault
        <5> QED
          BY <4>3, <5>1, EveryDefault DEF EntryWritten
      <4> QED
        BY <4>4
    <3>2. /\ flash'[AP_SSID] = Default[AP_SSID]
          /\ flash'[AP_PASSWORD] = Default[AP_PASSWORD]
      BY <2>1, <3>1, ApKeys DEF AtDefault
    <3> QED
      BY <1>3, <2>3, <3>2 DEF PairInv, OnePair
  <2> QED
    BY <2>2, <2>3
<1>5. CASE era # "factory"
  <2>1. boot.pc = "defaults" =>
          \A k \in {AP_SSID, AP_PASSWORD} : k \in boot.missing => Default[k] = None
    BY <1>2, <1>5 DEF PairInv
  <2>2. flash'[AP_SSID] = flash[AP_SSID] /\ flash'[AP_PASSWORD] = flash[AP_PASSWORD]
    BY <1>1, <2>1
  <2>3. OnePair(flash'[AP_SSID], flash'[AP_PASSWORD])
    BY <1>2, <1>5, <2>2 DEF PairInv
  <2>4. era' # "factory"
    BY <1>5 DEF Boot, LoadScalars, LoadSlot, WriteDefault, WriteDefaultNetwork,
       WriteDefaultPassword, WriteDefaultStaEnabled, BootDone
  <2>5. ~Up' => \A k \in {AP_SSID, AP_PASSWORD} \cap boot'.missing : Default[k] = None
    <3>1. CASE LoadScalars
      <4>1. \A k \in ScalarKeys : k \in boot'.missing => flash[k] = None
        BY <3>1 DEF LoadScalars, Reliable, ReadErrors, fetch
      <4>2. OnePair(flash[AP_SSID], flash[AP_PASSWORD])
        BY <1>2, <1>5 DEF PairInv
      <4>3. \A k \in {AP_SSID, AP_PASSWORD} : flash[k] = None => Default[k] = None
        <5>1. \A c \in Calls : c.op = "configure_ap" => c.ssid # None /\ c.password # None
          BY TextAssumption DEF Paired
        <5> QED
          BY <4>2, <5>1 DEF OnePair
      <4> QED
        BY <4>1, <4>3, ApKeys
    <3>2. CASE ~LoadScalars
      <4>1. Up' \/ (boot.pc # "scalars" /\ boot'.missing = boot.missing)
        BY <3>2, BootProgress DEF BootDone, Up
      <4> QED
        BY <1>2, <1>5, <4>1 DEF PairInv
    <3> QED
      BY <3>1, <3>2
  <2> QED
    BY <1>3, <2>3, <2>4, <2>5 DEF PairInv
<1> QED
  BY <1>4, <1>5

LEMMA CallPairInv ==
  ASSUME Reliable, ~Preemptive, Paired, TypeInv, IdleUntilUp, AtMostOne, PairInv,
         NEW t \in Tasks, Step(t), ~PublishByReset(t)
  PROVE  PairInv'
<1>1. Up /\ boot' = boot /\ Up'
  BY UpInCalls, CallsKeepBoot DEF Up
<1>2. task \in [Tasks -> Frames] /\ FlashTyped
  BY DEF TypeInv, TypeOK
<1>3. \A u \in Tasks \ {t} : task[u].pc \notin BetweenStores /\ task'[u].pc \notin BetweenStores
  BY <1>2, OthersIdle, IdleNotBetween
<1>4. ASSUME flash'[AP_SSID] = flash[AP_SSID], flash'[AP_PASSWORD] = flash[AP_PASSWORD],
             task'[t].pc \in BetweenStores =>
               task[t].pc \in BetweenStores /\ task'[t].call = task[t].call,
             task'[t].pc \notin BetweenStores => task[t].pc \notin BetweenStores
      PROVE  PairInv'
  BY <1>1, <1>3, <1>4 DEF PairInv
<1>5. CASE Set(t)
  <2>1. PICK c \in Calls, ok \in WriteResults :
          /\ c.op = "set" /\ c.val # TooLong /\ task[t] = Idle
          /\ store(c.key, c.val, ok)
          /\ task' = IF ok THEN [task EXCEPT ![t] = Frame("publish", c, 0, <<>>, TRUE)]
                     ELSE task
    BY <1>5 DEF Set, CanBegin
  <2>2. c.key \in Keys /\ c.key \notin {AP_SSID, AP_PASSWORD}
    BY <2>1, CallKinds, SetCallTyped DEF Paired
  <2>3. flash'[AP_SSID] = flash[AP_SSID] /\ flash'[AP_PASSWORD] = flash[AP_PASSWORD]
    BY <1>2, <2>1, <2>2, ApKeys DEF store, FlashTyped
  <2>4. task[t].pc \notin BetweenStores /\ task'[t].pc \notin BetweenStores
    <3>1. task'[t].pc = "publish" \/ task'[t] = Idle
      BY <1>2, <2>1 DEF Frame
    <3> QED
      BY <2>1, <3>1, IdleNotBetween DEF BetweenStores
  <2> QED
    BY <1>4, <2>3, <2>4
<1>6. CASE ConfigureApSsid(t)
  <2>1. PICK c \in Calls :
          /\ c.op = "configure_ap"
          /\ c.ssid \in Text => store(AP_SSID, c.ssid, TRUE)
          /\ c.ssid \in Text =>
               task' = [task EXCEPT ![t] = Frame("ap_ssid_mirror", c, 0, <<>>, TRUE)]
    BY <1>6 DEF ConfigureApSsid, Reliable, WriteResults
  <2>2. c.ssid \in Text
    BY <2>1 DEF Paired
  <2>3. /\ flash'[AP_SSID] = c.ssid
        /\ task'[t].call = c /\ task'[t].pc = "ap_ssid_mirror"
    BY <1>2, <2>1, <2>2, ApKeys DEF store, FlashTyped, Frame
  <2> QED
    BY <1>1, <1>3, <2>1, <2>3 DEF PairInv, BetweenStores
<1>7. CASE ConfigureApPassword(t)
  <2>1. /\ task[t].pc = "ap_password" /\ task[t].pc \in BetweenStores
        /\ store(AP_PASSWORD, task[t].call.password, TRUE)
        /\ Goto(t, "ap_password_mirror")
    BY <1>7 DEF ConfigureApPassword, Reliable, WriteResults, BetweenStores
  <2>2. /\ task[t].call \in Calls /\ task[t].call.op = "configure_ap"
        /\ flash[AP_SSID] = task[t].call.ssid
    BY <2>1 DEF PairInv
  <2>3. AP_SSID # AP_PASSWORD
    BY DEF AP_SSID, AP_PASSWORD
  <2>4. /\ flash'[AP_PASSWORD] = task[t].call.password
        /\ flash'[AP_SSID] = task[t].call.ssid
    BY <1>2, <2>1, <2>2, <2>3, ApKeys DEF store, FlashTyped
  <2>5. task'[t].pc \notin BetweenStores
    BY <1>2, <2>1 DEF Goto, Frame, BetweenStores
  <2>6. OnePair(flash'[AP_SSID], flash'[AP_PASSWORD])
    BY <2>2, <2>4 DEF OnePair
  <2> QED
    BY <1>1, <1>3, <2>5, <2>6 DEF PairInv
<1>8. CASE ConfigureApNoPassword(t)
  <2>1. task[t].pc \in BetweenStores /\ task[t].call.password \notin Text
    BY <1>8 DEF ConfigureApNoPassword, BetweenStores
  <2> QED
    BY <2>1 DEF PairInv, Paired
<1>9. CASE ConfigureApSsidMirror(t)
  <2>1. /\ flash' = flash /\ task[t].pc \in BetweenStores
        /\ task'[t].pc \in BetweenStores /\ task'[t].call = task[t].call
    BY <1>2, <1>9 DEF ConfigureApSsidMirror, Goto, Frame, BetweenStores
  <2> QED
    BY <1>4, <2>1
<1>10. CASE Publish(t) \/ ConfigureApPasswordMirror(t) \/ Connect(t) \/ PushSta(t)
  <2>1. flash' = flash /\ task[t].pc \notin BetweenStores
    BY <1>10 DEF Publish, ConfigureApPasswordMirror, Connect, PushSta, BetweenStores
  <2>2. Goto(t, "connect") \/ Return(t)
    BY <1>10 DEF Publish, ConfigureApPasswordMirror, Connect, PushSta
  <2>3. task'[t].pc \notin BetweenStores
    BY <1>2, <2>2, IdleNotBetween DEF Goto, Return, Frame, BetweenStores
  <2> QED
    BY <1>4, <2>1, <2>3
<1>11. CASE AddSta(t) \/ RemoveSta(t)
  <2>1. flash' = flash /\ task[t] = Idle
    BY <1>11 DEF AddSta, RemoveSta, CanBegin
  <2>2. task'[t].pc = "slot_ssid"
    BY <1>2, <1>11 DEF AddSta, RemoveSta, Frame
  <2> QED
    BY <1>4, <2>1, <2>2, IdleNotBetween DEF BetweenStores
<1>12. CASE WriteSlotSsid(t) \/ WriteSlotPassword(t)
  <2>1. /\ task[t].pc \in {"slot_ssid", "slot_password"} /\ task[t].i \in Slots
    BY <1>12 DEF WriteSlotSsid, WriteSlotPassword, TypeInv, FrameOK
  <2>2. \E k \in {sta_ssid_key(task[t].i), sta_pw_key(task[t].i)} : \E v, ok : store(k, v, ok)
    BY <1>12 DEF WriteSlotSsid, WriteSlotPassword
  <2>3. \A x \in ScalarKeys : flash'[x] = flash[x]
    BY <1>2, <2>1, <2>2, SlotStoreKeepsScalars
  <2>4. \/ Goto(t, "slot_password") \/ Goto(t, "push") \/ Return(t)
        \/ task' = [task EXCEPT ![t] = Frame("slot_ssid", task[t].call, task[t].i + 1,
                                             task[t].networks, TRUE)]
    BY <1>12 DEF WriteSlotSsid, WriteSlotPassword
  <2>5. task'[t].pc \notin BetweenStores
    BY <1>2, <2>4, IdleNotBetween DEF Goto, Return, Frame, BetweenStores
  <2> QED
    BY <1>4, <2>1, <2>3, <2>5, ApKeys DEF BetweenStores
<1> QED
  BY <1>5, <1>6, <1>7, <1>8, <1>9, <1>10, <1>11, <1>12 DEF Step

LEMMA ResetPairInv ==
  ASSUME ~Preemptive, TypeInv, IdleUntilUp, AtMostOne, FactoryInv, PairInv,
         NEW t \in Tasks, Step(t), PublishByReset(t)
  PROVE  PairInv'
<1>1. Up /\ task[t].pc \notin BetweenStores /\ era # "factory"
  BY UpInCalls DEF PublishByReset, BetweenStores, FactoryInv
<1>2. \A u \in Tasks : task[u].pc \notin BetweenStores
  BY <1>1, OthersIdle, IdleNotBetween DEF TypeInv, TypeOK
<1>3. OnePair(flash[AP_SSID], flash[AP_PASSWORD])
  BY <1>1, <1>2 DEF PairInv
<1>4. /\ flash' = flash /\ era' = era /\ ~Up' /\ boot'.pc = "scalars"
      /\ \A u \in Tasks : task'[u].pc \notin BetweenStores
  BY IdleNotBetween DEF PublishByReset, ResetRam, PoweredOn, Up
<1> QED
  BY <1>1, <1>3, <1>4 DEF PairInv

\* ApPairFromOneCall: between calls the access point's SSID and password are
\* the defaults or the two of one configure_ap call, through resets by the
\* manager too, when every such call gives both and they fit, no call sets
\* one alone, all callers are on one executor, the power holds and no access
\* to flash fails (system-api lib.rs:61).
THEOREM ApPairWhole ==
  Reliable /\ ~Preemptive /\ ~PowerMayFail /\ Paired => (Spec => []ApPairFromOneCall)
<1> SUFFICES ASSUME Reliable, ~Preemptive, ~PowerMayFail, Paired
             PROVE  Spec => []ApPairFromOneCall
  OBVIOUS
<1>1. Init => AtMostOne /\ FactoryInv /\ PairInv
  <2> SUFFICES ASSUME Init PROVE AtMostOne /\ FactoryInv /\ PairInv
    OBVIOUS
  <2>1. AtMostOne
    BY DEF Init, AtMostOne
  <2>2. FactoryInv
    BY DEF Init, PoweredOn, FactoryInv, FirstBootInv, Up
  <2>3. flash[AP_SSID] = None /\ flash[AP_PASSWORD] = None /\ ~Up /\ era = "factory"
    BY ApKeys DEF Init, PoweredOn, Up
  <2> QED
    BY <2>1, <2>2, <2>3, IdleNotBetween DEF Init, PairInv
<1>2. TypeInv /\ IdleUntilUp /\ AtMostOne /\ FactoryInv /\ PairInv /\ [Next]_vars
        => AtMostOne' /\ FactoryInv' /\ PairInv'
  <2> SUFFICES ASSUME TypeInv, IdleUntilUp, AtMostOne, FactoryInv, PairInv, [Next]_vars
               PROVE  AtMostOne' /\ FactoryInv' /\ PairInv'
    OBVIOUS
  <2>1. AtMostOne' /\ FactoryInv'
    BY OneCall, NextFactoryInv DEF TypeInv, TypeOK
  <2>2. CASE Boot
    BY <2>1, <2>2, BootPairInv
  <2>3. CASE TakeSignal \/ UNCHANGED vars
    <3>1. flash' = flash /\ boot' = boot /\ task' = task /\ era' = era
      BY <2>3 DEF TakeSignal, vars
    <3> QED
      BY <2>1, <3>1 DEF PairInv, Up
  <2>4. ASSUME NEW t \in Tasks, Step(t) PROVE PairInv'
    BY <2>4, ResetPairInv, CallPairInv
  <2> QED
    BY <2>1, <2>2, <2>3, <2>4 DEF Next, PowerLoss
<1>3. Spec => []ScalarsSynced
  BY MirrorCorrect DEF Cooperative, Reliable
<1>4. PairInv /\ ScalarsSynced => ApPairFromOneCall
  <2> SUFFICES ASSUME PairInv, ScalarsSynced, Quiescent
               PROVE  <<data[AP_SSID], data[AP_PASSWORD]>> \in
                        {<<Default[AP_SSID], Default[AP_PASSWORD]>>}
                        \cup {<<c.ssid, c.password>> : c \in {c \in Calls : c.op = "configure_ap"}}
    BY DEF ApPairFromOneCall
  <2>1. Up /\ \A t \in Tasks : task[t] = Idle
    BY DEF Quiescent
  <2>2. OnePair(flash[AP_SSID], flash[AP_PASSWORD])
    BY <2>1, IdleNotBetween DEF PairInv
  <2>3. data[AP_SSID] = Loaded(AP_SSID) /\ data[AP_PASSWORD] = Loaded(AP_PASSWORD)
    BY <2>1, IdlePc, ApKeys DEF ScalarsSynced, AboutToMirror
  <2>4. NewData[AP_SSID] = None /\ NewData[AP_PASSWORD] = None
    BY DEF NewData, ScalarKeys, AP_SSID, AP_PASSWORD, AP_ENABLED, STA_ENABLED, COUNTRY_CODE
  <2>5. data[AP_SSID] = flash[AP_SSID] /\ data[AP_PASSWORD] = flash[AP_PASSWORD]
    BY <2>3, <2>4 DEF Loaded
  <2> QED
    BY <2>2, <2>5 DEF OnePair
<1> QED
  BY <1>1, <1>2, <1>3, <1>4, Typing, PTL DEF Spec

-----------------------------------------------------------------------------
(* What the connection loop sees.  A call that changes what the loop reads  *)
(* has its signal raised in the mapping from the change on; the invariant   *)
(* says that it cannot fail between the two, and that the request it will   *)
(* raise names the network it has added.                                    *)

\* All callers are on one executor, and no configure_ap call fails half-way.
Announced ==
  /\ ~Preemptive
  /\ \A c \in Calls : c.op = "configure_ap" =>
       ~WritesMayFail /\ c.ssid # TooLong /\ c.password # TooLong

ApPCs == {"ap_ssid_mirror", "ap_password", "ap_password_mirror"}

FrameInv(f) ==
  /\ f.pc \in ApPCs =>
       f.ok = TRUE /\ ~WritesMayFail /\ f.call.password \in Text \cup {None}
  /\ f.pc \in SlotPCs /\ f.call.op = "add" => f.i = Len(sta_networks) /\ f.i < N
  /\ f.pc = "connect" => sta_networks # <<>>

SignalInv ==
  /\ AtMostOne
  /\ \A t \in Tasks : FrameInv(task[t])
  /\ ~Up => AP_RECONFIG = FALSE /\ STA_TOGGLED = FALSE /\ CONNECT_REQUEST = None

LEMMA IdleFrameInv == FrameInv(Idle)
BY IdlePc DEF FrameInv, ApPCs, SlotPCs

\* A configure_ap call under way, or one that begins.
LEMMA ApCall ==
  ASSUME Announced, NEW c \in Calls, c.op = "configure_ap"
  PROVE  /\ ~WritesMayFail
         /\ c.ssid \in Text \cup {None} /\ c.password \in Text \cup {None}
BY CallKinds DEF Announced, ConfigureCalls, EnvTexts

\* The frame a step of t leaves is in order, if the one it found is.
LEMMA StepFrameInv ==
  ASSUME Announced, TypeInv, AtMostOne, NEW t \in Tasks, Step(t),
         ~PublishByReset(t), FrameInv(task[t])
  PROVE  FrameInv(task[t])'
<1>1. task \in [Tasks -> Frames]
  BY DEF TypeInv, TypeOK
<1>2. CASE Return(t)
  <2>1. task'[t].pc = "idle"
    BY <1>1, <1>2, IdlePc DEF Return
  <2> QED
    BY <2>1 DEF FrameInv, ApPCs, SlotPCs
<1>3. CASE Set(t)
  <2>1. task'[t].pc \in {"idle", "publish"}
    <3>1. PICK c \in Calls, ok \in WriteResults :
            /\ task[t] = Idle
            /\ task' = IF ok THEN [task EXCEPT ![t] = Frame("publish", c, 0, <<>>, TRUE)]
                       ELSE task
      BY <1>3 DEF Set, CanBegin
    <3>2. task'[t] = Idle \/ task'[t].pc = "publish"
      BY <1>1, <3>1 DEF Frame
    <3> QED
      BY <3>2, IdlePc
  <2> QED
    BY <2>1 DEF FrameInv, ApPCs, SlotPCs
<1>4. CASE ConfigureApSsid(t)
  <2>1. PICK c \in Calls :
          /\ c.op = "configure_ap"
          /\ IF c.ssid \in Text
             THEN \E ok \in WriteResults :
                    task' = [task EXCEPT ![t] =
                      Frame(IF ok THEN "ap_ssid_mirror" ELSE "ap_password",
                            c, 0, <<>>, ok)]
             ELSE task' = [task EXCEPT ![t] =
                    Frame("ap_password", c, 0, <<>>, c.ssid = None)]
    BY <1>4 DEF ConfigureApSsid
  <2>2. ~WritesMayFail /\ c.ssid \in Text \cup {None} /\ c.password \in Text \cup {None}
    BY <2>1, ApCall
  <2>3. task'[t].ok = TRUE /\ task'[t].call = c /\ task'[t].pc \in ApPCs
    <3>1. CASE c.ssid \in Text
      <4>1. task' = [task EXCEPT ![t] = Frame("ap_ssid_mirror", c, 0, <<>>, TRUE)]
        BY <2>1, <2>2, <3>1 DEF WriteResults
      <4> QED
        BY <1>1, <4>1 DEF Frame, ApPCs
    <3>2. CASE c.ssid \notin Text
      <4>1. (c.ssid = None) = TRUE
        BY <2>2, <3>2
      <4>2. task' = [task EXCEPT ![t] = Frame("ap_password", c, 0, <<>>, TRUE)]
        BY <2>1, <3>2, <4>1
      <4> QED
        BY <1>1, <4>2 DEF Frame, ApPCs
    <3> QED
      BY <3>1, <3>2
  <2> QED
    BY <2>2, <2>3 DEF FrameInv, ApPCs, SlotPCs
<1>5. CASE ConfigureApSsidMirror(t) \/ (ConfigureApPassword(t) /\ ~Return(t))
  <2>1. task[t].pc \in ApPCs /\ (Goto(t, "ap_password") \/ Goto(t, "ap_password_mirror"))
    BY <1>5 DEF ConfigureApSsidMirror, ConfigureApPassword, ApPCs
  <2>2. task'[t].ok = task[t].ok /\ task'[t].call = task[t].call /\ task'[t].pc \in ApPCs
    BY <1>1, <2>1 DEF Goto, Frame, ApPCs
  <2> QED
    BY <2>1, <2>2 DEF FrameInv, ApPCs, SlotPCs
<1>6. CASE AddSta(t)
  <2>1. PICK c \in Calls :
          /\ Len(sta_networks) < N
          /\ task' = [task EXCEPT ![t] =
                        Frame("slot_ssid", c, Len(sta_networks), <<>>, TRUE)]
          /\ sta_networks' = sta_networks
    BY <1>6 DEF AddSta, ram
  <2>2. task'[t].i = Len(sta_networks) /\ task'[t].pc = "slot_ssid"
    BY <1>1, <2>1 DEF Frame
  <2> QED
    BY <2>1, <2>2 DEF FrameInv, ApPCs, SlotPCs
<1>7. CASE RemoveSta(t)
  <2>1. task'[t].pc = "slot_ssid" /\ task'[t].call.op # "add"
    BY <1>1, <1>7 DEF RemoveSta, Frame
  <2> QED
    BY <2>1 DEF FrameInv, ApPCs, SlotPCs
<1>8. CASE (WriteSlotSsid(t) \/ WriteSlotPassword(t)) /\ ~Return(t)
  <2>1. /\ task[t].pc \in {"slot_ssid", "slot_password"} /\ sta_networks' = sta_networks
        /\ \/ Goto(t, "slot_password") \/ Goto(t, "push")
           \/ /\ task[t].call.op # "add"
              /\ task' = [task EXCEPT ![t] = Frame("slot_ssid", task[t].call,
                                        task[t].i + 1, task[t].networks, TRUE)]
    BY <1>8 DEF WriteSlotSsid, WriteSlotPassword, ram
  <2>2. /\ task'[t].pc \in SlotPCs /\ task'[t].call = task[t].call
        /\ task[t].call.op = "add" => task'[t].i = task[t].i
    BY <1>1, <2>1 DEF Goto, Frame, SlotPCs
  <2> QED
    BY <2>1, <2>2 DEF FrameInv, ApPCs, SlotPCs
<1>9. CASE PushSta(t) /\ ~Return(t)
  <2>1. /\ task[t].pc = "push" /\ Goto(t, "connect") /\ FittingAdd(task[t].call)
        /\ sta_networks' = IF Len(sta_networks) < N
                           THEN Append(sta_networks, Network(task[t].call.ssid,
                                                             task[t].call.password))
                           ELSE sta_networks
    BY <1>9 DEF PushSta, TypeInv, FrameOK
  <2>2. task'[t].pc = "connect"
    BY <1>1, <2>1 DEF Goto, Frame
  <2>3. Len(sta_networks) < N
    BY <2>1 DEF FrameInv, SlotPCs, FittingAdd, AddCalls
  <2>4. sta_networks \in Seq(Networks) /\ Network(task[t].call.ssid, task[t].call.password) \in Networks
    BY <2>1 DEF TypeInv, TypeOK, RamTyped, FittingAdd, AddCalls, EnvTexts, Network, Networks
  <2> DEFINE n == Network(task[t].call.ssid, task[t].call.password)
  <2>5. sta_networks' = Append(sta_networks, n) /\ n \in Networks
    BY <2>1, <2>3, <2>4
  <2> HIDE DEF n
  <2>6. sta_networks' # <<>>
    BY <2>4, <2>5, AppendProperties, EmptySeq
  <2> QED
    BY <2>2, <2>6 DEF FrameInv, ApPCs, SlotPCs
<1> QED
  BY <1>2, <1>3, <1>4, <1>5, <1>6, <1>7, <1>8, <1>9
     DEF Step, Publish, ConfigureApPasswordMirror, ConfigureApNoPassword, Connect

LEMMA SignalInit == Init => SignalInv
BY IdleFrameInv DEF Init, SignalInv, AtMostOne

LEMMA SignalStep ==
  ASSUME Announced, TypeInv, IdleUntilUp, SignalInv, [Next]_vars
  PROVE  SignalInv'
<1>1. AtMostOne'
  BY OneCall DEF SignalInv, TypeInv, TypeOK, Announced
<1>2. CASE Boot
  <2>1. ~Up /\ task' = task /\ signals' = signals
    BY <1>2 DEF Boot, LoadScalars, LoadSlot, WriteDefault, WriteDefaultNetwork,
       WriteDefaultPassword, WriteDefaultStaEnabled, BootDone, Up
  <2>2. \A t \in Tasks : task'[t] = Idle
    BY <2>1 DEF IdleUntilUp
  <2> QED
    BY <1>1, <2>1, <2>2, IdlePc DEF SignalInv, signals, FrameInv, ApPCs, SlotPCs
<1>3. CASE TakeSignal \/ UNCHANGED vars
  <2>1. /\ UNCHANGED <<task, sta_networks, boot>>
        /\ ~Up => TakeSignal \/ UNCHANGED signals
    BY <1>3 DEF TakeSignal, vars, ram, signals
  <2>2. ~Up => UNCHANGED signals
    BY <2>1, Zenon DEF TakeSignal, SignalInv, signals
  <2> QED
    BY <1>1, <2>1, <2>2 DEF SignalInv, FrameInv, Up, signals
<1>4. CASE ResetRam
  <2>1. \A t \in Tasks : task'[t].pc = "idle"
    BY <1>4, IdlePc DEF ResetRam
  <2> QED
    BY <1>1, <1>4, <2>1 DEF ResetRam, SignalInv, FrameInv, ApPCs, SlotPCs
<1>5. ASSUME NEW t \in Tasks, Step(t), ~PublishByReset(t) PROVE SignalInv'
  <2>1. Up /\ boot' = boot
    BY <1>5, UpInCalls, CallsKeepBoot
  <2>2. FrameInv(task[t])'
    BY <1>5, StepFrameInv DEF SignalInv
  <2>3. \A u \in Tasks \ {t} : task'[u].pc = "idle"
    BY <1>5, OthersIdle, IdlePc DEF SignalInv, Announced, TypeInv, TypeOK
  <2>4. \A u \in Tasks : FrameInv(task[u])'
    BY <2>2, <2>3 DEF FrameInv, ApPCs, SlotPCs
  <2> QED
    BY <1>1, <2>1, <2>4 DEF SignalInv, Up
<1> QED
  BY <1>2, <1>3, <1>4, <1>5 DEF Next, PowerLoss, PublishByReset

\* The lists of networks of the interface are those of the mirror.
LEMMA ListTyped ==
  ASSUME NEW l \in Seq(Networks), Len(l) <= N
  PROVE  l \in Interface!NetworkLists
<1>1. Len(l) \in 0 .. N /\ l \in [1 .. Len(l) -> Networks]
  BY LenProperties, SizeAssumption
<1> QED
  BY <1>1 DEF Interface!NetworkLists

LEMMA LoopConfigTyped ==
  ASSUME TypeInv, Up
  PROVE  LoopConfig \in Interface!Configs
<1>1. sta_networks \in Interface!NetworkLists
  BY ListTyped DEF TypeInv, TypeOK, RamTyped
<1>2. data[AP_ENABLED] \in BOOLEAN /\ data[STA_ENABLED] \in BOOLEAN
  BY DEF TypeInv, TypeOK, RamTyped, FieldsAt, FlagKeys, ScalarKeys, AP_ENABLED,
         STA_ENABLED, COUNTRY_CODE
<1>3. data[AP_SSID] \in Text \cup {None} /\ data[AP_PASSWORD] \in Text \cup {None}
  BY DEF TypeInv, TypeOK, RamTyped, FieldsAt, FlagKeys, ScalarKeys, AP_ENABLED,
         AP_SSID, AP_PASSWORD, STA_ENABLED, COUNTRY_CODE
<1> QED
  BY <1>1, <1>2, <1>3 DEF LoopConfig, Interface!Configs

LEMMA NextConfigTyped == (TypeInv /\ Up)' => (LoopConfig \in Interface!Configs)'
<1>1. TypeInv /\ Up => LoopConfig \in Interface!Configs
  BY LoopConfigTyped
<1> QED
  BY <1>1, PTL

\* The signals of the mapping depend on the task whose step it is alone.
Raising == {"ap_password", "ap_password_mirror"}

LEMMA LoopSignals ==
  ASSUME ~Preemptive, AtMostOne, task \in [Tasks -> Frames], NEW t \in Tasks, Step(t)
  PROVE  /\ LoopReconfig <=> AP_RECONFIG \/ task[t].pc \in Raising
         /\ LoopReconfig' <=> AP_RECONFIG' \/ task'[t].pc \in Raising
         /\ LoopRequest = IF task[t].pc = "connect" THEN Len(sta_networks) - 1
                          ELSE CONNECT_REQUEST
         /\ LoopRequest' = IF task'[t].pc = "connect" THEN Len(sta_networks') - 1
                           ELSE CONNECT_REQUEST'
<1>1. \A u \in Tasks \ {t} : task[u].pc = "idle" /\ task'[u].pc = "idle"
  BY OthersIdle, IdlePc
<1>2. (\E u \in Tasks : task[u].pc \in Raising) <=> task[t].pc \in Raising
  BY <1>1 DEF Raising
<1>3. (\E u \in Tasks : task'[u].pc \in Raising) <=> task'[t].pc \in Raising
  BY <1>1 DEF Raising
<1>4. (\E u \in Tasks : task[u].pc = "connect") <=> task[t].pc = "connect"
  BY <1>1
<1>5. (\E u \in Tasks : task'[u].pc = "connect") <=> task'[t].pc = "connect"
  BY <1>1
<1>6. LoopReconfig <=> AP_RECONFIG \/ task[t].pc \in Raising
  BY <1>2, Zenon DEF LoopReconfig, Raising
<1>7. LoopReconfig' <=> AP_RECONFIG' \/ task'[t].pc \in Raising
  BY <1>3, Zenon DEF LoopReconfig, Raising
<1> QED
  BY <1>4, <1>5, <1>6, <1>7 DEF LoopRequest

\* A step of a call, seen from the loop: a call of the interface or nothing.
Seen == (Interface!Call \/ UNCHANGED Interface!managerVars) /\ ~Interface!Take

LEMMA SeenCall ==
  ASSUME Interface!Call, LoopReconfig => LoopReconfig', STA_TOGGLED => STA_TOGGLED',
         LoopRequest # None => LoopRequest' # None
  PROVE  Seen
<1>1. ~Interface!Take
  BY Zenon DEF Interface!Take
<1> QED
  BY <1>1, Zenon DEF Seen

LEMMA SeenQuiet ==
  ASSUME TypeInv, LoopConfig' = LoopConfig, LoopReconfig <=> LoopReconfig',
         STA_TOGGLED' = STA_TOGGLED, LoopRequest' = LoopRequest
  PROVE  Seen
<1>1. LoopReconfig \in BOOLEAN /\ LoopReconfig' \in BOOLEAN
  BY Zenon DEF LoopReconfig
<1>2. LoopReconfig' = LoopReconfig
  BY <1>1, Zenon
<1>3. UNCHANGED Interface!managerVars
  BY <1>2, Zenon DEF Interface!managerVars
<1>4. STA_TOGGLED \in BOOLEAN
  BY DEF TypeInv, TypeOK, SignalsTyped
<1>5. ~Interface!Take
  BY <1>2, <1>4, Zenon DEF Interface!Take
<1> QED
  BY <1>3, <1>5, Zenon DEF Seen

\* A step that leaves the mirror and the signals alone, between places where
\* no call has announced anything.
QuietPCs == TaskPCs \ (Raising \cup {"connect"})

LEMMA SeenSilent ==
  ASSUME Announced, TypeInv, AtMostOne, NEW t \in Tasks, Step(t),
         UNCHANGED <<ram, boot, signals>>, task[t].pc \in QuietPCs, task'[t].pc \in QuietPCs
  PROVE  Seen
<1>1. UNCHANGED <<data, sta_networks, boot, AP_RECONFIG, STA_TOGGLED, CONNECT_REQUEST>>
  BY DEF ram, signals
<1>2. LoopConfig' = LoopConfig
  BY <1>1 DEF LoopConfig, Up
<1>3. LoopReconfig <=> LoopReconfig'
  <2>1. task[t].pc \notin Raising /\ task'[t].pc \notin Raising
    BY DEF QuietPCs
  <2>2. (LoopReconfig <=> AP_RECONFIG) /\ (LoopReconfig' <=> AP_RECONFIG')
    BY <2>1, LoopSignals, Zenon DEF Announced, TypeInv, TypeOK
  <2> QED
    BY <1>1, <2>2, Zenon
<1>4. LoopRequest' = LoopRequest
  BY <1>1, LoopSignals DEF Announced, TypeInv, TypeOK, QuietPCs
<1> QED
  BY <1>1, <1>2, <1>3, <1>4, SeenQuiet

LEMMA SilentSeen ==
  ASSUME Announced, TypeInv, AtMostOne, NEW t \in Tasks, Step(t),
         Set(t) \/ AddSta(t) \/ WriteSlotSsid(t) \/ WriteSlotPassword(t)
  PROVE  Seen
<1>1. task \in [Tasks -> Frames]
  BY DEF TypeInv, TypeOK
<1>2. UNCHANGED <<ram, boot, signals>>
  BY DEF Set, AddSta, WriteSlotSsid, WriteSlotPassword
<1>3. task[t].pc \in QuietPCs
  BY IdlePc DEF Set, AddSta, WriteSlotSsid, WriteSlotPassword, CanBegin, QuietPCs,
     TaskPCs, Raising
<1>4. task'[t].pc \in {"idle", "publish", "slot_ssid", "slot_password", "push"}
  <2>1. CASE Set(t)
    <3>1. PICK c \in Calls, ok \in WriteResults :
            /\ task[t] = Idle
            /\ task' = IF ok THEN [task EXCEPT ![t] = Frame("publish", c, 0, <<>>, TRUE)]
                       ELSE task
      BY <2>1 DEF Set, CanBegin
    <3>2. task'[t] = Idle \/ task'[t].pc = "publish"
      BY <1>1, <3>1 DEF Frame
    <3> QED
      BY <3>2, IdlePc
  <2>2. CASE AddSta(t)
    BY <1>1, <2>2 DEF AddSta, Frame
  <2>3. CASE WriteSlotSsid(t) \/ WriteSlotPassword(t)
    <3>1. \/ Goto(t, "slot_password") \/ Goto(t, "push") \/ Return(t)
          \/ task' = [task EXCEPT ![t] = Frame("slot_ssid", task[t].call, task[t].i + 1,
                                               task[t].networks, TRUE)]
      BY <2>3 DEF WriteSlotSsid, WriteSlotPassword
    <3> QED
      BY <1>1, <3>1, IdlePc DEF Goto, Return, Frame
  <2> QED
    BY <2>1, <2>2, <2>3
<1>5. task'[t].pc \in QuietPCs
  BY <1>4 DEF QuietPCs, TaskPCs, Raising
<1> QED
  BY <1>2, <1>3, <1>5, SeenSilent

\* What a mirror write of one scalar field makes of the configuration.
LEMMA FieldSeen ==
  ASSUME TypeInv, Up, Up', NEW k \in ScalarKeys, NEW v, data' = [data EXCEPT ![k] = v],
         sta_networks' = sta_networks
  PROVE  /\ k = AP_ENABLED => LoopConfig' = [LoopConfig EXCEPT !.ap = v]
         /\ k = STA_ENABLED => LoopConfig' = [LoopConfig EXCEPT !.sta = v]
         /\ k = AP_SSID =>
              LoopConfig' = [LoopConfig EXCEPT !.ap_conf = <<v, data[AP_PASSWORD]>>]
         /\ k = AP_PASSWORD =>
              LoopConfig' = [LoopConfig EXCEPT !.ap_conf = <<data[AP_SSID], v>>]
<1>1. /\ LoopConfig = [ap |-> data[AP_ENABLED], sta |-> data[STA_ENABLED],
                       ap_conf |-> <<data[AP_SSID], data[AP_PASSWORD]>>,
                       networks |-> sta_networks]
      /\ LoopConfig' = [ap |-> data'[AP_ENABLED], sta |-> data'[STA_ENABLED],
                        ap_conf |-> <<data'[AP_SSID], data'[AP_PASSWORD]>>,
                        networks |-> sta_networks]
  BY DEF LoopConfig
<1>2. \A x \in ScalarKeys : data'[x] = IF x = k THEN v ELSE data[x]
  BY DEF TypeInv, TypeOK, RamTyped
<1>3. /\ AP_ENABLED \in ScalarKeys /\ STA_ENABLED \in ScalarKeys
      /\ AP_SSID \in ScalarKeys /\ AP_PASSWORD \in ScalarKeys
      /\ AP_ENABLED # STA_ENABLED /\ AP_ENABLED # AP_SSID /\ AP_ENABLED # AP_PASSWORD
      /\ STA_ENABLED # AP_SSID /\ STA_ENABLED # AP_PASSWORD /\ AP_SSID # AP_PASSWORD
  BY DEF ScalarKeys, AP_ENABLED, STA_ENABLED, AP_SSID, AP_PASSWORD, COUNTRY_CODE
<1>4. CASE k = AP_ENABLED
  <2>1. LoopConfig' = [ap |-> v, sta |-> data[STA_ENABLED], ap_conf |-> <<data[AP_SSID], data[AP_PASSWORD]>>,
                       networks |-> sta_networks]
    BY <1>1, <1>2, <1>3, <1>4
  <2>2. [LoopConfig EXCEPT !.ap = v]
          = [ap |-> v, sta |-> data[STA_ENABLED], ap_conf |-> <<data[AP_SSID], data[AP_PASSWORD]>>,
             networks |-> sta_networks]
    BY <1>1
  <2> QED
    BY <1>3, <1>4, <2>1, <2>2
<1>5. CASE k = STA_ENABLED
  <2>1. LoopConfig' = [ap |-> data[AP_ENABLED], sta |-> v, ap_conf |-> <<data[AP_SSID], data[AP_PASSWORD]>>,
                       networks |-> sta_networks]
    BY <1>1, <1>2, <1>3, <1>5
  <2>2. [LoopConfig EXCEPT !.sta = v]
          = [ap |-> data[AP_ENABLED], sta |-> v, ap_conf |-> <<data[AP_SSID], data[AP_PASSWORD]>>,
             networks |-> sta_networks]
    BY <1>1
  <2> QED
    BY <1>3, <1>5, <2>1, <2>2
<1>6. CASE k = AP_SSID
  <2>1. LoopConfig' = [ap |-> data[AP_ENABLED], sta |-> data[STA_ENABLED], ap_conf |-> <<v, data[AP_PASSWORD]>>,
                       networks |-> sta_networks]
    BY <1>1, <1>2, <1>3, <1>6
  <2>2. [LoopConfig EXCEPT !.ap_conf = <<v, data[AP_PASSWORD]>>]
          = [ap |-> data[AP_ENABLED], sta |-> data[STA_ENABLED], ap_conf |-> <<v, data[AP_PASSWORD]>>,
             networks |-> sta_networks]
    BY <1>1
  <2> QED
    BY <1>3, <1>6, <2>1, <2>2
<1>7. CASE k = AP_PASSWORD
  <2>1. LoopConfig' = [ap |-> data[AP_ENABLED], sta |-> data[STA_ENABLED], ap_conf |-> <<data[AP_SSID], v>>,
                       networks |-> sta_networks]
    BY <1>1, <1>2, <1>3, <1>7
  <2>2. [LoopConfig EXCEPT !.ap_conf = <<data[AP_SSID], v>>]
          = [ap |-> data[AP_ENABLED], sta |-> data[STA_ENABLED], ap_conf |-> <<data[AP_SSID], v>>,
             networks |-> sta_networks]
    BY <1>1
  <2> QED
    BY <1>3, <1>7, <2>1, <2>2
<1> QED
  BY <1>3, <1>4, <1>5, <1>6, <1>7

\* An access point call of the interface, and one that sets the station's flag.
LEMMA ApSeen ==
  ASSUME LoopConfig \in Interface!Configs, STA_TOGGLED' = STA_TOGGLED,
         LoopRequest' = LoopRequest, LoopReconfig',
         \/ \E b \in BOOLEAN : LoopConfig' = [LoopConfig EXCEPT !.ap = b]
         \/ \E s, p \in Text \cup {None} :
              LoopConfig' = [LoopConfig EXCEPT !.ap_conf = <<s, p>>]
  PROVE  Seen
<1>1. LoopReconfig' = TRUE
  BY Zenon DEF LoopReconfig
<1>2. ASSUME NEW b \in BOOLEAN, LoopConfig' = [LoopConfig EXCEPT !.ap = b]
      PROVE  Interface!Call
  <2>1. Interface!set_ap_enabled(b)
    BY <1>1, <1>2, Zenon DEF Interface!set_ap_enabled
  <2> QED
    BY <2>1, Zenon DEF Interface!Call
<1>3. ASSUME NEW s \in Text \cup {None}, NEW p \in Text \cup {None},
             LoopConfig' = [LoopConfig EXCEPT !.ap_conf = <<s, p>>]
      PROVE  Interface!Call
  <2>1. Interface!configure_ap(<<s, p>>)
    BY <1>1, <1>3, Zenon DEF Interface!configure_ap
  <2>2. <<s, p>> \in (Text \cup {None}) \X (Text \cup {None})
    OBVIOUS
  <2> QED
    BY <2>1, <2>2, Zenon DEF Interface!Call
<1>4. Interface!Call
  BY <1>2, <1>3
<1> QED
  BY <1>1, <1>4, SeenCall, Zenon

\* The texts of the access point in the mirror.
LEMMA ApTexts ==
  ASSUME TypeInv
  PROVE  data[AP_SSID] \in Text \cup {None} /\ data[AP_PASSWORD] \in Text \cup {None}
BY ApKeys DEF TypeInv, TypeOK, RamTyped, FieldsAt, FlagKeys, AP_ENABLED,
   AP_SSID, AP_PASSWORD, STA_ENABLED

LEMMA PublishSeen ==
  ASSUME Announced, TypeInv, AtMostOne, Up, NEW t \in Tasks, Step(t), Publish(t)
  PROVE  Seen
<1> DEFINE c == task[t].call
<1>1. c \in SetCalls /\ c.val # TooLong /\ task[t].pc = "publish"
  BY DEF Publish, TypeInv, FrameOK
<1>2. c.key \in ScalarKeys /\ c.val \in FieldsAt(c.key) /\ c.key \notin ResetKeys
  BY <1>1, SetCallTyped DEF Publish
<1>3. /\ data' = [data EXCEPT ![c.key] = c.val] /\ sta_networks' = sta_networks /\ Up'
      /\ CONNECT_REQUEST' = CONNECT_REQUEST /\ task'[t].pc = "idle"
  BY IdlePc DEF Publish, Return, Up, TypeInv, TypeOK
<1>4. LoopRequest' = LoopRequest /\ (LoopReconfig' <=> AP_RECONFIG')
      /\ (LoopReconfig <=> AP_RECONFIG)
  BY <1>1, <1>3, LoopSignals DEF Announced, TypeInv, TypeOK, Raising
<1>5. LoopConfig \in Interface!Configs
  BY LoopConfigTyped
<1>6. CASE c.key = STA_ENABLED
  <2>1. c.val \in BOOLEAN /\ LoopConfig' = [LoopConfig EXCEPT !.sta = c.val]
    BY <1>2, <1>3, <1>6, FieldSeen DEF FieldsAt, FlagKeys
  <2>2. STA_TOGGLED' = TRUE /\ AP_RECONFIG' = AP_RECONFIG
    <3>1. STA_TOGGLED' = (STA_TOGGLED \/ c.key = STA_ENABLED)
          /\ AP_RECONFIG' = (AP_RECONFIG \/ c.key # STA_ENABLED)
      BY DEF Publish
    <3>2. AP_RECONFIG \in BOOLEAN
      BY DEF TypeInv, TypeOK, SignalsTyped
    <3> QED
      BY <1>6, <3>1, <3>2, Zenon
  <2>3. LoopReconfig' = LoopReconfig
    <3>1. LoopReconfig \in BOOLEAN /\ LoopReconfig' \in BOOLEAN
      BY Zenon DEF LoopReconfig
    <3> QED
      BY <1>4, <2>2, <3>1, Zenon
  <2>4. Interface!set_sta_enabled(c.val)
    BY <1>4, <2>1, <2>2, <2>3, Zenon DEF Interface!set_sta_enabled
  <2>5. Interface!Call
    BY <1>5, <2>1, <2>4, Zenon DEF Interface!Call
  <2> QED
    BY <1>4, <2>2, <2>3, <2>5, SeenCall, Zenon
<1>7. CASE c.key # STA_ENABLED
  <2>1. AP_RECONFIG' /\ STA_TOGGLED' = STA_TOGGLED
    <3>1. STA_TOGGLED' = (STA_TOGGLED \/ c.key = STA_ENABLED)
          /\ AP_RECONFIG' = (AP_RECONFIG \/ c.key # STA_ENABLED)
      BY DEF Publish
    <3>2. STA_TOGGLED \in BOOLEAN
      BY DEF TypeInv, TypeOK, SignalsTyped
    <3> QED
      BY <1>7, <3>1, <3>2, Zenon
  <2>2. c.key \in {AP_ENABLED, AP_SSID, AP_PASSWORD}
    BY <1>2, <1>7 DEF ScalarKeys, ResetKeys, AP_ENABLED, AP_SSID, AP_PASSWORD,
       AP_GATEWAY_IP, STA_ENABLED, HOSTNAME, COUNTRY_CODE
  <2>3. c.key = AP_ENABLED => c.val \in BOOLEAN
    BY <1>2 DEF FieldsAt, FlagKeys
  <2>4. c.key \in {AP_SSID, AP_PASSWORD} => c.val \in Text \cup {None}
    BY <1>2 DEF FieldsAt, FlagKeys, AP_ENABLED, AP_SSID, AP_PASSWORD, STA_ENABLED
  <2>5. \/ \E b \in BOOLEAN : LoopConfig' = [LoopConfig EXCEPT !.ap = b]
        \/ \E s, p \in Text \cup {None} :
             LoopConfig' = [LoopConfig EXCEPT !.ap_conf = <<s, p>>]
    <3>1. CASE c.key = AP_ENABLED
      <4>1. LoopConfig' = [LoopConfig EXCEPT !.ap = c.val]
        BY <1>2, <1>3, <3>1, FieldSeen
      <4> QED
        BY <2>3, <3>1, <4>1
    <3>2. CASE c.key = AP_SSID
      <4>1. LoopConfig' = [LoopConfig EXCEPT !.ap_conf = <<c.val, data[AP_PASSWORD]>>]
        BY <1>2, <1>3, <3>2, FieldSeen
      <4>2. c.val \in Text \cup {None} /\ data[AP_PASSWORD] \in Text \cup {None}
        BY <2>4, <3>2, ApTexts
      <4> QED
        BY <4>1, <4>2, Zenon
    <3>3. CASE c.key = AP_PASSWORD
      <4>1. LoopConfig' = [LoopConfig EXCEPT !.ap_conf = <<data[AP_SSID], c.val>>]
        BY <1>2, <1>3, <3>3, FieldSeen
      <4>2. c.val \in Text \cup {None} /\ data[AP_SSID] \in Text \cup {None}
        BY <2>4, <3>3, ApTexts
      <4> QED
        BY <4>1, <4>2, Zenon
    <3> QED
      BY <2>2, <3>1, <3>2, <3>3
  <2> QED
    BY <1>4, <1>5, <2>1, <2>5, ApSeen, Zenon
<1> QED
  BY <1>6, <1>7

LEMMA ConfigureApSsidSeen ==
  ASSUME Announced, TypeInv, AtMostOne, Up, NEW t \in Tasks, Step(t), ConfigureApSsid(t)
  PROVE  Seen
<1>1. PICK c \in Calls :
        /\ c.op = "configure_ap" /\ task[t] = Idle
        /\ IF c.ssid \in Text
           THEN \E ok \in WriteResults :
                  task' = [task EXCEPT ![t] =
                    Frame(IF ok THEN "ap_ssid_mirror" ELSE "ap_password",
                          c, 0, <<>>, ok)]
           ELSE task' = [task EXCEPT ![t] =
                  Frame("ap_password", c, 0, <<>>, c.ssid = None)]
  BY DEF ConfigureApSsid, CanBegin
<1>2. ~WritesMayFail
  BY <1>1, ApCall
<1>3. /\ UNCHANGED <<ram, boot, signals>> /\ task[t].pc = "idle"
      /\ task \in [Tasks -> Frames]
  BY <1>1, IdlePc DEF ConfigureApSsid, TypeInv, TypeOK
<1>4. CASE c.ssid \in Text
  <2>1. task' = [task EXCEPT ![t] = Frame("ap_ssid_mirror", c, 0, <<>>, TRUE)]
    BY <1>1, <1>2, <1>4 DEF WriteResults
  <2>2. task'[t].pc = "ap_ssid_mirror"
    BY <1>3, <2>1 DEF Frame
  <2> QED
    BY <1>3, <2>2, SeenSilent DEF QuietPCs, TaskPCs, Raising
<1>5. CASE c.ssid \notin Text
  <2>1. task'[t].pc = "ap_password"
    BY <1>1, <1>3, <1>5 DEF Frame
  <2>2. LoopReconfig' /\ LoopRequest' = LoopRequest
    BY <1>3, <2>1, LoopSignals DEF Announced, Raising, signals
  <2>3. LoopConfig' = LoopConfig /\ STA_TOGGLED' = STA_TOGGLED
    BY <1>3 DEF LoopConfig, Up, ram, signals
  <2>4. LoopConfig = [LoopConfig EXCEPT !.ap_conf = <<data[AP_SSID], data[AP_PASSWORD]>>]
    BY DEF LoopConfig
  <2>5. LoopConfig \in Interface!Configs
    BY LoopConfigTyped
  <2> QED
    BY <2>2, <2>3, <2>4, <2>5, ApTexts, ApSeen
<1> QED
  BY <1>4, <1>5

LEMMA ConfigureApMirrorSeen ==
  ASSUME Announced, TypeInv, SignalInv, Up, NEW t \in Tasks, Step(t),
         ConfigureApSsidMirror(t) \/ ConfigureApPasswordMirror(t)
  PROVE  Seen
<1>1. task \in [Tasks -> Frames] /\ AtMostOne
  BY DEF TypeInv, TypeOK, SignalInv
<1>2. /\ UNCHANGED <<sta_networks, boot, STA_TOGGLED, CONNECT_REQUEST>> /\ Up'
      /\ task[t].pc \in ApPCs
  BY DEF ConfigureApSsidMirror, ConfigureApPasswordMirror, signals, ApPCs, Up
<1>3. task'[t].pc \in {"ap_password", "idle"}
      /\ (task'[t].pc = "idle" => AP_RECONFIG' = TRUE)
  <2>1. CASE ConfigureApSsidMirror(t)
    BY <1>1, <2>1 DEF ConfigureApSsidMirror, Goto, Frame
  <2>2. CASE ConfigureApPasswordMirror(t)
    <3>1. task[t].ok = TRUE /\ AP_RECONFIG' = (AP_RECONFIG \/ task[t].ok)
      BY <1>2, <2>2 DEF ConfigureApPasswordMirror, SignalInv, FrameInv
    <3>2. AP_RECONFIG' = TRUE
      BY <3>1, Zenon
    <3> QED
      BY <1>1, <2>2, <3>2, IdlePc DEF ConfigureApPasswordMirror, Return
  <2> QED
    BY <2>1, <2>2
<1>4. LoopReconfig' /\ LoopRequest' = LoopRequest
  BY <1>1, <1>2, <1>3, LoopSignals DEF Announced, Raising, ApPCs
<1>5. \E s, p \in Text \cup {None} : LoopConfig' = [LoopConfig EXCEPT !.ap_conf = <<s, p>>]
  <2>1. CASE ConfigureApSsidMirror(t)
    <3>1. /\ data' = [data EXCEPT ![AP_SSID] = task[t].call.ssid]
          /\ task[t].call.ssid \in Text
      BY <2>1 DEF ConfigureApSsidMirror, TypeInv, FrameOK
    <3>2. LoopConfig' = [LoopConfig EXCEPT !.ap_conf = <<task[t].call.ssid, data[AP_PASSWORD]>>]
      BY <1>2, <3>1, ApKeys, FieldSeen
    <3> QED
      BY <3>1, <3>2, ApTexts
  <2>2. CASE ConfigureApPasswordMirror(t)
    <3>1. /\ data' = [data EXCEPT ![AP_PASSWORD] = task[t].call.password]
          /\ task[t].call.password \in Text
      BY <2>2 DEF ConfigureApPasswordMirror, TypeInv, FrameOK
    <3>2. LoopConfig' = [LoopConfig EXCEPT !.ap_conf = <<data[AP_SSID], task[t].call.password>>]
      BY <1>2, <3>1, ApKeys, FieldSeen
    <3> QED
      BY <3>1, <3>2, ApTexts
  <2> QED
    BY <2>1, <2>2
<1>6. LoopConfig \in Interface!Configs
  BY LoopConfigTyped
<1> QED
  BY <1>2, <1>4, <1>5, <1>6, ApSeen

\* The steps of configure_ap that store the password, or find that there is none.
LEMMA ConfigureApPasswordSeen ==
  ASSUME Announced, TypeInv, SignalInv, NEW t \in Tasks, Step(t),
         ConfigureApPassword(t) \/ ConfigureApNoPassword(t)
  PROVE  Seen
<1>1. task \in [Tasks -> Frames] /\ AtMostOne /\ task[t].pc = "ap_password"
  BY DEF TypeInv, TypeOK, SignalInv, ConfigureApPassword, ConfigureApNoPassword
<1>2. task[t].ok = TRUE /\ ~WritesMayFail /\ task[t].call.password \in Text \cup {None}
  BY <1>1 DEF SignalInv, FrameInv, ApPCs
<1>3. UNCHANGED <<ram, boot, STA_TOGGLED, CONNECT_REQUEST>>
  BY DEF ConfigureApPassword, ConfigureApNoPassword, signals
<1>4. \/ task'[t].pc = "ap_password_mirror"
      \/ task'[t].pc = "idle" /\ AP_RECONFIG' = TRUE
  <2>1. CASE ConfigureApPassword(t)
    <3>1. Goto(t, "ap_password_mirror")
      BY <1>2, <2>1 DEF ConfigureApPassword, WriteResults
    <3> QED
      BY <1>1, <3>1 DEF Goto, Frame
  <2>2. CASE ConfigureApNoPassword(t)
    <3>1. AP_RECONFIG' = (AP_RECONFIG \/ (task[t].ok /\ task[t].call.password = None))
          /\ task[t].call.password = None
      BY <1>2, <2>2 DEF ConfigureApNoPassword
    <3>2. AP_RECONFIG' = TRUE
      BY <1>2, <3>1, Zenon
    <3> QED
      BY <1>1, <2>2, <3>2, IdlePc DEF ConfigureApNoPassword, Return
  <2> QED
    BY <2>1, <2>2
<1>5. LoopReconfig /\ LoopReconfig' /\ LoopRequest' = LoopRequest
  BY <1>1, <1>3, <1>4, LoopSignals DEF Announced, Raising
<1>6. LoopConfig' = LoopConfig
  BY <1>3 DEF LoopConfig, Up, ram
<1> QED
  BY <1>3, <1>5, <1>6, SeenQuiet

\* The calls that change the saved list.
LEMMA RemoveStaSeen ==
  ASSUME Announced, TypeInv, AtMostOne, Up, NEW t \in Tasks, Step(t), RemoveSta(t)
  PROVE  Seen
<1>1. PICK c \in Calls :
        /\ c.op = "remove" /\ c.index < Len(sta_networks) /\ task[t] = Idle
        /\ sta_networks' = RemoveAt(sta_networks, c.index + 1)
        /\ task' = [task EXCEPT ![t] = Frame("slot_ssid", c, 0, sta_networks', TRUE)]
  BY DEF RemoveSta, CanBegin
<1>2. c.index \in 0 .. N - 1
  BY <1>1, CallKinds, LenProperties, SizeAssumption
     DEF RemoveCalls, TypeInv, TypeOK, RamTyped
<1>3. /\ UNCHANGED <<data, boot, AP_RECONFIG, STA_TOGGLED, CONNECT_REQUEST>>
      /\ task[t].pc = "idle" /\ task'[t].pc = "slot_ssid"
  BY <1>1, IdlePc DEF RemoveSta, signals, TypeInv, TypeOK, Frame
<1>4. /\ LoopConfig = [ap |-> data[AP_ENABLED], sta |-> data[STA_ENABLED],
                       ap_conf |-> <<data[AP_SSID], data[AP_PASSWORD]>>,
                       networks |-> sta_networks]
      /\ LoopConfig' = [ap |-> data[AP_ENABLED], sta |-> data[STA_ENABLED],
                        ap_conf |-> <<data[AP_SSID], data[AP_PASSWORD]>>,
                        networks |-> sta_networks']
  BY <1>3 DEF LoopConfig, Up
<1>5. /\ LoopConfig.networks = sta_networks
      /\ LoopConfig' = [LoopConfig EXCEPT !.networks = sta_networks']
  BY <1>4
<1>6. /\ LoopReconfig' <=> LoopReconfig
      /\ LoopRequest' = LoopRequest
  <2>1. (LoopReconfig <=> AP_RECONFIG) /\ (LoopReconfig' <=> AP_RECONFIG')
    BY <1>3, LoopSignals DEF Announced, TypeInv, TypeOK, Raising
  <2>2. LoopRequest' = LoopRequest
    BY <1>3, LoopSignals DEF Announced, TypeInv, TypeOK
  <2> QED
    BY <1>3, <2>1, <2>2, Zenon
<1>7. LoopReconfig' = LoopReconfig
  BY <1>6, Zenon DEF LoopReconfig
<1>8. Interface!remove_sta_network(c.index)
  <2>1. Interface!RemoveAt(sta_networks, c.index + 1) = sta_networks'
    BY <1>1 DEF RemoveAt, Interface!RemoveAt
  <2> QED
    BY <1>1, <1>3, <1>5, <1>6, <1>7, <2>1, Zenon
       DEF Interface!remove_sta_network, Interface!signals
<1>9. LoopConfig \in Interface!Configs
  BY LoopConfigTyped
<1>10. Interface!Call
  BY <1>2, <1>8, <1>9, Zenon DEF Interface!Call
<1> QED
  BY <1>3, <1>6, <1>10, SeenCall, Zenon

LEMMA PushStaSeen ==
  ASSUME Announced, TypeInv, SignalInv, Up, NEW t \in Tasks, Step(t), PushSta(t)
  PROVE  Seen
<1> DEFINE c == task[t].call
           n == Network(c.ssid, c.password)
<1>1. task \in [Tasks -> Frames] /\ AtMostOne /\ sta_networks \in Seq(Networks)
  BY DEF TypeInv, TypeOK, RamTyped, SignalInv
<1>2. FittingAdd(c) /\ task[t].pc = "push"
  BY DEF PushSta, TypeInv, FrameOK
<1>3. n \in Networks /\ c.connect \in BOOLEAN /\ c.op = "add"
  BY <1>2 DEF FittingAdd, AddCalls, EnvTexts, Network, Networks
<1>4. Len(sta_networks) < N
  BY <1>2, <1>3 DEF SignalInv, FrameInv, SlotPCs
<1>5. /\ sta_networks' = Append(sta_networks, n)
      /\ UNCHANGED <<data, boot, AP_RECONFIG, STA_TOGGLED, CONNECT_REQUEST>>
      /\ IF c.connect THEN Goto(t, "connect") ELSE Return(t)
  BY <1>4 DEF PushSta, signals
<1> HIDE DEF n
<1>6. /\ LoopConfig = [ap |-> data[AP_ENABLED], sta |-> data[STA_ENABLED],
                       ap_conf |-> <<data[AP_SSID], data[AP_PASSWORD]>>,
                       networks |-> sta_networks]
      /\ LoopConfig' = [ap |-> data[AP_ENABLED], sta |-> data[STA_ENABLED],
                        ap_conf |-> <<data[AP_SSID], data[AP_PASSWORD]>>,
                        networks |-> Append(sta_networks, n)]
  BY <1>5 DEF LoopConfig, Up
<1>7. /\ LoopConfig.networks = sta_networks
      /\ LoopConfig' = [LoopConfig EXCEPT !.networks = Append(sta_networks, n)]
  <2> DEFINE l == Append(sta_networks, n)
  <2>1. LoopConfig' = [ap |-> data[AP_ENABLED], sta |-> data[STA_ENABLED],
                       ap_conf |-> <<data[AP_SSID], data[AP_PASSWORD]>>, networks |-> l]
    BY <1>6
  <2>2. LoopConfig = [ap |-> data[AP_ENABLED], sta |-> data[STA_ENABLED],
                      ap_conf |-> <<data[AP_SSID], data[AP_PASSWORD]>>,
                      networks |-> sta_networks]
    BY <1>6
  <2> HIDE DEF l
  <2>3. LoopConfig.networks = sta_networks /\ LoopConfig' = [LoopConfig EXCEPT !.networks = l]
    BY <2>1, <2>2
  <2> QED
    BY <2>3 DEF l
<1>8. task'[t].pc = IF c.connect THEN "connect" ELSE "idle"
  BY <1>1, <1>5, IdlePc DEF Goto, Return, Frame
<1>9. /\ LoopReconfig <=> AP_RECONFIG
      /\ LoopReconfig' <=> AP_RECONFIG'
      /\ LoopRequest = CONNECT_REQUEST
      /\ LoopRequest' = IF c.connect THEN Len(sta_networks') - 1 ELSE CONNECT_REQUEST
  BY <1>1, <1>2, <1>5, <1>8, LoopSignals DEF Announced, Raising
<1>10. Len(sta_networks') - 1 = Len(sta_networks) /\ Len(sta_networks) \in Nat
  BY <1>1, <1>3, <1>5, AppendProperties, LenProperties
<1>11. LoopRequest' = IF c.connect THEN Len(sta_networks) ELSE LoopRequest
  BY <1>9, <1>10
<1>12. LoopReconfig' = LoopReconfig
  BY <1>5, <1>9, Zenon DEF LoopReconfig
<1>13. Interface!add_sta_network(n, c.connect)
  BY <1>4, <1>5, <1>7, <1>11, <1>12, Zenon DEF Interface!add_sta_network
<1>14. LoopConfig \in Interface!Configs
  BY LoopConfigTyped
<1>15. Interface!Call
  BY <1>3, <1>13, <1>14, Zenon DEF Interface!Call
<1>16. LoopRequest # None => LoopRequest' # None
  BY <1>10, <1>11, TextAssumption
<1> QED
  BY <1>5, <1>12, <1>15, <1>16, SeenCall, Zenon

LEMMA ConnectSeen ==
  ASSUME Announced, TypeInv, SignalInv, Up, NEW t \in Tasks, Step(t), Connect(t)
  PROVE  Seen
<1>1. task \in [Tasks -> Frames] /\ AtMostOne
  BY DEF TypeInv, TypeOK, SignalInv
<1>2. /\ sta_networks # <<>> /\ task[t].pc = "connect"
      /\ UNCHANGED <<data, sta_networks, boot, AP_RECONFIG, STA_TOGGLED>>
      /\ CONNECT_REQUEST' = Len(sta_networks) - 1 /\ task'[t].pc = "idle"
  BY <1>1, IdlePc DEF Connect, Return, SignalInv, FrameInv, ram
<1>3. /\ LoopReconfig <=> AP_RECONFIG
      /\ LoopReconfig' <=> AP_RECONFIG'
      /\ LoopRequest = Len(sta_networks) - 1
      /\ LoopRequest' = CONNECT_REQUEST'
  BY <1>1, <1>2, LoopSignals DEF Announced, Raising
<1>4. LoopConfig' = LoopConfig
  BY <1>2 DEF LoopConfig, Up
<1>5. LoopReconfig <=> LoopReconfig'
  BY <1>2, <1>3, Zenon
<1> QED
  BY <1>2, <1>3, <1>4, <1>5, SeenQuiet

LEMMA StepSeen ==
  ASSUME Announced, TypeInv, IdleUntilUp, SignalInv, NEW t \in Tasks, Step(t),
         ~PublishByReset(t)
  PROVE  Seen
<1>1. Up /\ AtMostOne
  BY UpInCalls DEF SignalInv
<1> QED
  BY <1>1, SilentSeen, PublishSeen, ConfigureApSsidSeen, ConfigureApMirrorSeen,
     ConfigureApPasswordSeen, RemoveStaSeen, PushStaSeen, ConnectSeen DEF Step

LEMMA ResetSeen ==
  ASSUME ResetRam
  PROVE  Interface!Reset /\ ~Up'
<1>1. ~Up'
  BY DEF ResetRam, PoweredOn, Up
<1>2. LoopConfig' = None
  BY <1>1 DEF LoopConfig
<1>3. /\ \A t \in Tasks : task'[t].pc = "idle"
      /\ AP_RECONFIG' = FALSE /\ STA_TOGGLED' = FALSE /\ CONNECT_REQUEST' = None
  BY IdlePc DEF ResetRam
<1>4. LoopReconfig' = FALSE
  <2>1. ~\E t \in Tasks : task'[t].pc \in {"ap_password", "ap_password_mirror"}
    BY <1>3
  <2> QED
    BY <1>3, <2>1, Zenon DEF LoopReconfig
<1>5. LoopRequest' = None
  BY <1>3 DEF LoopRequest
<1> QED
  BY <1>1, <1>2, <1>3, <1>4, <1>5, Zenon DEF Interface!Reset, Interface!Lowered

LEMMA BootSeen ==
  ASSUME TypeInv, TypeInv', IdleUntilUp, SignalInv, Boot
  PROVE  (Interface!Loaded \/ UNCHANGED Interface!managerVars) /\ ~Interface!Take
<1>1. ~Up /\ task' = task /\ signals' = signals
  BY DEF Boot, LoadScalars, LoadSlot, WriteDefault, WriteDefaultNetwork,
     WriteDefaultPassword, WriteDefaultStaEnabled, BootDone, Up
<1>2. \A t \in Tasks : task[t].pc = "idle"
  BY <1>1, IdlePc DEF IdleUntilUp
<1>3. AP_RECONFIG = FALSE /\ STA_TOGGLED = FALSE /\ CONNECT_REQUEST = None
  BY <1>1 DEF SignalInv
<1>4. UNCHANGED <<AP_RECONFIG, STA_TOGGLED, CONNECT_REQUEST>>
  BY <1>1 DEF signals
<1>5. LoopReconfig = FALSE /\ LoopReconfig' = FALSE
  <2>1. ~\E t \in Tasks : task[t].pc \in {"ap_password", "ap_password_mirror"}
    BY <1>2
  <2>2. ~\E t \in Tasks : task'[t].pc \in {"ap_password", "ap_password_mirror"}
    BY <1>1, <1>2
  <2> QED
    BY <1>3, <1>4, <2>1, <2>2, Zenon DEF LoopReconfig
<1>6. LoopRequest = None /\ LoopRequest' = None
  BY <1>1, <1>2, <1>3, <1>4 DEF LoopRequest
<1>7. ~Interface!Take
  BY <1>3, <1>5, <1>6, Zenon DEF Interface!Take
<1>8. LoopConfig = None
  BY <1>1 DEF LoopConfig
<1>9. CASE Up'
  <2>1. LoopConfig' \in Interface!Configs
    BY <1>9, NextConfigTyped
  <2>2. Interface!Loaded
    BY <1>4, <1>5, <1>6, <1>8, <2>1, Zenon DEF Interface!Loaded, Interface!signals
  <2> QED
    BY <1>7, <2>2, Zenon
<1>10. CASE ~Up'
  <2>1. LoopConfig' = None
    BY <1>10 DEF LoopConfig
  <2>2. UNCHANGED Interface!managerVars
    BY <1>4, <1>5, <1>6, <1>8, <2>1, Zenon DEF Interface!managerVars
  <2> QED
    BY <1>7, <2>2, Zenon
<1> QED
  BY <1>9, <1>10

\* Boot finds no signal raised, a manager call raises its own and lowers none,
\* and so the loop alone takes them while the device is up.
LEMMA NextSeen ==
  ASSUME Announced, TypeInv, TypeInv', IdleUntilUp, SignalInv, [Next]_vars
  PROVE  /\ Interface!ManagerNext \/ UNCHANGED Interface!managerVars
         /\ Interface!Take /\ Up' => TakeSignal
<1>1. CASE Boot
  BY <1>1, BootSeen, Zenon DEF Interface!ManagerNext
<1>2. CASE TakeSignal
  <2>1. UNCHANGED <<data, sta_networks, boot, task>>
    BY <1>2 DEF TakeSignal, ram
  <2>2. LoopConfig' = LoopConfig
    BY <2>1 DEF LoopConfig, Up
  <2> DEFINE Raises == \E t \in Tasks : task[t].pc \in {"ap_password", "ap_password_mirror"}
             Connects == \E t \in Tasks : task[t].pc = "connect"
  <2>3. Raises' = Raises /\ Connects' = Connects
    BY <2>1
  <2>4. /\ LoopReconfig = (AP_RECONFIG \/ Raises) /\ LoopReconfig' = (AP_RECONFIG' \/ Raises)
        /\ LoopRequest = IF Connects THEN Len(sta_networks) - 1 ELSE CONNECT_REQUEST
        /\ LoopRequest' = IF Connects THEN Len(sta_networks) - 1 ELSE CONNECT_REQUEST'
    BY <2>1, <2>3, Zenon DEF LoopReconfig, LoopRequest
  <2> HIDE DEF Raises, Connects
  <2>5. CASE AP_RECONFIG /\ AP_RECONFIG' = FALSE /\ UNCHANGED <<STA_TOGGLED, CONNECT_REQUEST>>
    <3>1. LoopRequest' = LoopRequest
      BY <2>4, <2>5, Zenon
    <3>2. CASE Raises
      <4>1. LoopReconfig' = LoopReconfig
        BY <2>4, <3>2, Zenon
      <4> QED
        BY <2>2, <2>5, <3>1, <4>1, <1>2, Zenon DEF Interface!managerVars
    <3>3. CASE ~Raises
      <4>1. LoopReconfig /\ LoopReconfig' = FALSE
        BY <2>4, <2>5, <3>3, Zenon
      <4>2. Interface!Take
        BY <2>2, <2>5, <3>1, <4>1, Zenon DEF Interface!Take
      <4> QED
        BY <1>2, <4>2, Zenon DEF Interface!ManagerNext
    <3> QED
      BY <3>2, <3>3
  <2>6. CASE STA_TOGGLED /\ STA_TOGGLED' = FALSE /\ UNCHANGED <<AP_RECONFIG, CONNECT_REQUEST>>
    <3>1. LoopReconfig' = LoopReconfig /\ LoopRequest' = LoopRequest
      BY <2>4, <2>6, Zenon
    <3>2. Interface!Take
      BY <2>2, <2>6, <3>1, Zenon DEF Interface!Take
    <3> QED
      BY <1>2, <3>2, Zenon DEF Interface!ManagerNext
  <2>7. CASE /\ CONNECT_REQUEST # None /\ CONNECT_REQUEST' = None
             /\ UNCHANGED <<AP_RECONFIG, STA_TOGGLED>>
    <3>1. LoopReconfig' = LoopReconfig
      BY <2>4, <2>7, Zenon
    <3>2. CASE Connects
      <4>1. LoopRequest' = LoopRequest
        BY <2>4, <3>2, Zenon
      <4> QED
        BY <2>2, <2>7, <3>1, <4>1, <1>2, Zenon DEF Interface!managerVars
    <3>3. CASE ~Connects
      <4>1. LoopRequest # None /\ LoopRequest' = None
        BY <2>4, <2>7, <3>3, Zenon
      <4>2. Interface!Take
        BY <2>2, <2>7, <3>1, <4>1, Zenon DEF Interface!Take
      <4> QED
        BY <1>2, <4>2, Zenon DEF Interface!ManagerNext
    <3> QED
      BY <3>2, <3>3
  <2> QED
    BY <1>2, <2>5, <2>6, <2>7, Zenon DEF TakeSignal
<1>3. CASE ResetRam
  BY <1>3, ResetSeen, Zenon DEF Interface!ManagerNext
<1>4. CASE UNCHANGED vars
  <2>1. UNCHANGED <<data, sta_networks, boot, task, AP_RECONFIG, STA_TOGGLED, CONNECT_REQUEST>>
    BY <1>4 DEF vars
  <2>2. LoopConfig' = LoopConfig /\ LoopRequest' = LoopRequest
    BY <2>1 DEF LoopConfig, Up, LoopRequest
  <2>3. (LoopReconfig <=> LoopReconfig') /\ STA_TOGGLED' = STA_TOGGLED
    BY <2>1 DEF LoopReconfig
  <2>4. Seen
    BY <2>2, <2>3, SeenQuiet
  <2> QED
    BY <2>2, <2>3, <2>4, Zenon DEF Seen, Interface!ManagerNext
<1>5. ASSUME NEW t \in Tasks, Step(t), ~PublishByReset(t)
      PROVE  /\ Interface!ManagerNext \/ UNCHANGED Interface!managerVars
             /\ ~Interface!Take
  BY <1>5, StepSeen, Zenon DEF Seen, Interface!ManagerNext
<1> QED
  BY <1>1, <1>2, <1>3, <1>4, <1>5 DEF Next, PowerLoss, PublishByReset

\* ImplementsManager: while calls, boots, resets and the loop's takes go on in
\* any order, the loop sees what WifiManager lets it see (system-api
\* lib.rs:31-73, config.rs:345-560): each change with its signal, none lost,
\* and requests only for saved networks.  All callers are on one executor, and
\* configure_ap calls cannot fail half-way: one whose second store fails has
\* changed the mirror and raises no signal.
THEOREM ManagerRefined == Announced => (Spec => ImplementsManager)
<1> SUFFICES ASSUME Announced PROVE Spec => ImplementsManager
  OBVIOUS
<1> DEFINE TakesAsLoop == Interface!Take /\ Up' => TakeSignal
<1>1. Init => SignalInv
  BY SignalInit
<1>2. TypeInv /\ IdleUntilUp /\ SignalInv /\ [Next]_vars => SignalInv'
  BY SignalStep
<1>3. Init => Interface!ManagerInit
  <2> SUFFICES ASSUME Init PROVE Interface!ManagerInit
    OBVIOUS
  <2>1. LoopConfig = None
    BY DEF Init, PoweredOn, Up, LoopConfig
  <2>2. \A t \in Tasks : task[t].pc = "idle"
    BY IdlePc DEF Init
  <2>3. LoopReconfig = FALSE /\ LoopRequest = None
    <3>1. ~\E t \in Tasks : task[t].pc \in {"ap_password", "ap_password_mirror"}
      BY <2>2
    <3> QED
      BY <2>2, <3>1, Zenon DEF Init, LoopReconfig, LoopRequest
  <2> QED
    BY <2>1, <2>3, Zenon DEF Init, Interface!ManagerInit, Interface!Lowered
<1>4. TypeInv /\ TypeInv' /\ IdleUntilUp /\ SignalInv /\ [Next]_vars
        => /\ [Interface!ManagerNext]_(Interface!managerVars)
           /\ [TakesAsLoop]_vars
  BY NextSeen, Zenon
<1> HIDE DEF TakesAsLoop
<1>5. Spec => Interface!ManagerSpec /\ [][TakesAsLoop]_vars
  BY <1>1, <1>2, <1>3, <1>4, Typing, PTL DEF Spec, Interface!ManagerSpec
<1> QED
  BY <1>5, PTL DEF ImplementsManager, TakesAsLoop

-----------------------------------------------------------------------------
(* The scalar settings in flash.  A default is written where there is no    *)
(* item, which is what a key without one stands for; that its key has none  *)
(* is what init() found when it loaded the scalars, and nothing but its own *)
(* default is written under it until then.                                  *)

Setting(k) == IF flash[k] = None THEN Default[k] ELSE flash[k]
KeptSettings == [k \in ScalarKeys |-> Setting(k)]

\* A default that init() has still to write has no item.
GapInv ==
  /\ boot.pc = "defaults" => boot.i # 0
  /\ \A j \in 1 .. 8 :
       /\ boot.pc = "slots" \/ (boot.pc = "defaults" /\ boot.i <= j)
       /\ DefaultOrder[j] \in boot.missing
       => flash[DefaultOrder[j]] = None

LEMMA OrderInjective ==
  \A i, j \in 1 .. 8 : DefaultOrder[i] = DefaultOrder[j] => i = j
<1>1. \A j \in 1 .. 8 : DefaultOrder[j] = IF j = 1 THEN 0 ELSE IF j = 2 THEN 4
        ELSE IF j = 3 THEN 1 ELSE IF j = 4 THEN 2 ELSE IF j = 5 THEN 3
        ELSE IF j = 6 THEN 10 ELSE IF j = 7 THEN 5 ELSE 6
  BY Defaults
<1> QED
  BY <1>1

LEMMA NextGapInv ==
  ASSUME ~ReadsMayFail, Fitting(Env.STA_SSID) = None, TypeInv, IdleUntilUp, GapInv, [Next]_vars
  PROVE  GapInv'
<1>1. /\ boot.pc \in BootPCs /\ boot.i \in Nat /\ boot.missing \subseteq ScalarKeys
      /\ boot.pc \notin {"sta_password", "sta_enabled"} /\ FlashTyped
  BY DEF TypeInv, TypeOK, BootOK
<1>2. CASE LoadScalars
  <2>1. /\ flash' = flash /\ boot'.pc = "slots"
        /\ boot'.missing = {k \in ScalarKeys : flash[k] = None}
    <3>1. PICK failed \in ReadErrors(ScalarKeys) :
            boot' = [pc |-> "slots", i |-> 0,
              missing |-> {k \in ScalarKeys :
                [x \in ScalarKeys |-> fetch(x, failed)][k] = None}]
      BY <1>2 DEF LoadScalars
    <3>2. \A k \in ScalarKeys : [x \in ScalarKeys |-> fetch(x, failed)][k] = flash[k]
      BY <3>1 DEF ReadErrors, fetch
    <3> QED
      BY <1>2, <3>1, <3>2 DEF LoadScalars
  <2> QED
    BY <2>1 DEF GapInv
<1>3. CASE LoadSlot
  <2>1. boot.pc = "slots" /\ flash' = flash /\ boot'.missing = boot.missing
        /\ (boot'.pc = "defaults" => boot'.i = 1)
    BY <1>3 DEF LoadSlot, BootAt
  <2> QED
    BY <2>1 DEF GapInv
<1>4. CASE WriteDefault \/ WriteDefaultNetwork
  <2>1. /\ boot.pc = "defaults" /\ boot.i <= 8
        /\ boot'.pc = "defaults" /\ boot'.i = boot.i + 1 /\ boot'.missing = boot.missing
    BY <1>4, Defaults DEF WriteDefault, WriteDefaultNetwork, NextDefault, BootAt
  <2> SUFFICES ASSUME NEW j \in 1 .. 8, boot.i + 1 <= j, DefaultOrder[j] \in boot.missing
               PROVE  flash'[DefaultOrder[j]] = None
    BY <1>1, <2>1 DEF GapInv
  <2>2. flash[DefaultOrder[j]] = None /\ DefaultOrder[j] \in ScalarKeys
    BY <1>1, <2>1 DEF GapInv
  <2>3. CASE flash' = flash
    BY <2>2, <2>3
  <2>4. CASE flash' # flash
    <3>1. boot.i \in 1 .. 8 /\ boot.i # j
      BY <1>1, <2>1 DEF GapInv
    <3>2. WriteDefault
      BY <1>4, <2>4 DEF WriteDefaultNetwork
    <3>3. PICK ok \in WriteResults : store(DefaultOrder[boot.i], Default[DefaultOrder[boot.i]], ok)
      BY <2>4, <3>2 DEF WriteDefault
    <3>4. DefaultOrder[boot.i] # DefaultOrder[j]
      BY <3>1, OrderInjective
    <3> QED
      BY <1>1, <2>2, <3>3, <3>4 DEF store, FlashTyped, Keys
  <2> QED
    BY <2>3, <2>4
<1>5. CASE BootDone \/ ResetRam
  BY <1>5 DEF BootDone, ResetRam, PoweredOn, GapInv
<1>6. CASE TakeSignal \/ UNCHANGED vars
  <2>1. boot' = boot /\ flash' = flash
    BY <1>6 DEF TakeSignal, vars
  <2> QED
    BY <2>1 DEF GapInv
<1>7. ASSUME NEW t \in Tasks, Step(t), ~PublishByReset(t) PROVE GapInv'
  <2>1. Up /\ boot' = boot
    BY <1>7, UpInCalls, CallsKeepBoot
  <2> QED
    BY <2>1 DEF GapInv, Up
<1> QED
  BY <1>1, <1>2, <1>3, <1>4, <1>5, <1>6, <1>7
     DEF Next, Boot, PowerLoss, PublishByReset, WriteDefaultPassword, WriteDefaultStaEnabled

\* The stores of the calls, seen from the settings.
LEMMA SettingStored ==
  ASSUME FlashTyped, NEW k \in ScalarKeys, NEW v, v # None, NEW ok, store(k, v, ok),
         <<k, v>> \in Accepted
  PROVE  [Promise!Next]_KeptSettings
<1>1. CASE ok
  <2>1. \A x \in ScalarKeys : flash'[x] = IF x = k THEN v ELSE flash[x]
    BY <1>1 DEF store, FlashTyped, Keys
  <2>2. \A x \in ScalarKeys : Setting(x)' = IF x = k THEN v ELSE Setting(x)
    BY <2>1 DEF Setting
  <2>3. KeptSettings' = [KeptSettings EXCEPT ![k] = v]
    BY <2>2 DEF KeptSettings
  <2>4. Promise!Set(k, v)
    BY <2>3 DEF Promise!Set, KeptSettings, Setting
  <2>5. Promise!Set(<<k, v>>[1], <<k, v>>[2])
    BY <2>4
  <2> QED
    BY <2>5 DEF Promise!Next
<1>2. CASE ~ok
  <2>1. KeptSettings' = KeptSettings
    BY <1>2 DEF store, KeptSettings, Setting
  <2> QED
    BY <2>1
<1> QED
  BY <1>1, <1>2

LEMMA SettingsUnchanged ==
  ASSUME \A k \in ScalarKeys : flash'[k] = flash[k]
  PROVE  KeptSettings' = KeptSettings
BY DEF KeptSettings, Setting

LEMMA NextKeepsSettings ==
  ASSUME ~ReadsMayFail, Fitting(Env.STA_SSID) = None, TypeInv, IdleUntilUp, GapInv, [Next]_vars
  PROVE  [Promise!Next]_KeptSettings
<1>1. FlashTyped /\ boot.pc \notin {"sta_password", "sta_enabled"} /\ task \in [Tasks -> Frames]
  BY DEF TypeInv, TypeOK, BootOK
<1>2. CASE flash' = flash
  BY <1>2, SettingsUnchanged
<1>3. CASE WriteDefault /\ flash' # flash
  <2> DEFINE k == DefaultOrder[boot.i]
  <2>1. boot.i \in 1 .. 8 /\ boot.pc = "defaults"
    BY <1>3, Defaults DEF WriteDefault, TypeInv, TypeOK, GapInv
  <2>2. k \in ScalarKeys /\ k \in boot.missing /\ Default[k] # None
        /\ \E ok \in WriteResults : store(k, Default[k], ok)
    BY <1>3 DEF WriteDefault
  <2>3. flash[k] = None
    BY <2>1, <2>2 DEF GapInv
  <2>4. flash' = [flash EXCEPT ![k] = Default[k]]
    BY <1>3, <2>2 DEF store
  <2>5. \A x \in ScalarKeys : flash'[x] = IF x = k THEN Default[k] ELSE flash[x]
    BY <1>1, <2>4 DEF FlashTyped, Keys
  <2> HIDE DEF k
  <2>6. \A x \in ScalarKeys : Setting(x)' = Setting(x)
    BY <2>2, <2>3, <2>5 DEF Setting
  <2>7. KeptSettings' = KeptSettings
    BY <2>6 DEF KeptSettings
  <2> QED
    BY <2>7
<1>4. ASSUME NEW t \in Tasks, Set(t) PROVE [Promise!Next]_KeptSettings
  <2>1. PICK c \in Calls, ok \in WriteResults :
          /\ c.op = "set" /\ c.val # TooLong
          /\ c.key = COUNTRY_CODE => c.val \in CountryCodes
          /\ store(c.key, c.val, ok)
    BY <1>4 DEF Set
  <2>2. c.key \in ScalarKeys /\ c.val # None
    BY <2>1, CallKinds, SetCallTyped
  <2>3. <<c.key, c.val>> \in Accepted
    BY <2>1 DEF Accepted
  <2> QED
    BY <1>1, <2>1, <2>2, <2>3, SettingStored
<1>5. ASSUME NEW t \in Tasks, ConfigureApSsid(t) PROVE [Promise!Next]_KeptSettings
  <2>1. PICK c \in Calls :
          /\ c.op = "configure_ap"
          /\ IF c.ssid \in Text THEN \E ok \in WriteResults : store(AP_SSID, c.ssid, ok)
             ELSE flash' = flash
    BY <1>5 DEF ConfigureApSsid
  <2>2. CASE c.ssid \in Text
    <3>1. <<AP_SSID, c.ssid>> \in Accepted /\ c.ssid # None
      BY <2>1, <2>2, TextAssumption DEF Accepted
    <3> QED
      BY <1>1, <2>1, <2>2, <3>1, ApKeys, SettingStored
  <2> QED
    BY <1>2, <2>1, <2>2
<1>6. ASSUME NEW t \in Tasks, ConfigureApPassword(t) PROVE [Promise!Next]_KeptSettings
  <2> DEFINE c == task[t].call
  <2>1. /\ task[t].pc = "ap_password" /\ c.password \in Text
        /\ \E ok \in WriteResults : store(AP_PASSWORD, c.password, ok)
    BY <1>6 DEF ConfigureApPassword
  <2>2. c \in ConfigureCalls /\ c \in Calls \cup {None}
    BY <1>1, <2>1 DEF TypeInv, FrameOK, Frames
  <2>3. c \in Calls /\ c.op = "configure_ap"
    BY <2>2, CallsAssumption DEF ConfigureCalls
  <2>4. <<AP_PASSWORD, c.password>> \in Accepted /\ c.password # None
    BY <2>1, <2>3, TextAssumption DEF Accepted
  <2> QED
    BY <1>1, <2>1, <2>4, ApKeys, SettingStored
<1>7. ASSUME NEW t \in Tasks, WriteSlotSsid(t) \/ WriteSlotPassword(t)
      PROVE  [Promise!Next]_KeptSettings
  <2>1. task[t].i \in Slots
    BY <1>7 DEF WriteSlotSsid, WriteSlotPassword, TypeInv, FrameOK
  <2>2. \E k \in {sta_ssid_key(task[t].i), sta_pw_key(task[t].i)} : \E v, ok : store(k, v, ok)
    BY <1>7 DEF WriteSlotSsid, WriteSlotPassword
  <2>3. \A x \in ScalarKeys : flash'[x] = flash[x]
    BY <1>1, <2>1, <2>2, SlotStoreKeepsScalars
  <2> QED
    BY <2>3, SettingsUnchanged
<1>8. CASE Boot
  BY <1>1, <1>2, <1>3, <1>8 DEF Boot, LoadScalars, LoadSlot, WriteDefaultNetwork,
     WriteDefaultPassword, WriteDefaultStaEnabled, BootDone
<1>9. CASE TakeSignal \/ PowerLoss \/ UNCHANGED vars
  BY <1>2, <1>9 DEF TakeSignal, PowerLoss, vars
<1>10. ASSUME NEW t \in Tasks, Step(t) PROVE [Promise!Next]_KeptSettings
  BY <1>2, <1>4, <1>5, <1>6, <1>7, <1>10 DEF Step, Publish, PublishByReset,
     ConfigureApSsidMirror, ConfigureApPasswordMirror, ConfigureApNoPassword,
     AddSta, RemoveSta, PushSta, Connect
<1> QED
  BY <1>8, <1>9, <1>10 DEF Next

\* ImplementsSettings: what flash keeps of the scalar settings starts as the
\* defaults and changes by accepted calls only, one key at a time, for any
\* interleaving of the callers, loss of power, resets and failed stores
\* (README.md:131, config.rs:60).  No read fails, for init() takes a failed
\* one for a missing item; no default network is compiled in, for init()
\* writes its sta_enabled with it.
THEOREM ScalarsImplementSettings ==
  ~ReadsMayFail /\ Fitting(Env.STA_SSID) = None => (Spec => ImplementsSettings)
<1> SUFFICES ASSUME ~ReadsMayFail, Fitting(Env.STA_SSID) = None
             PROVE  Spec => ImplementsSettings
  OBVIOUS
<1>1. Init => GapInv
  BY DEF Init, PoweredOn, GapInv
<1>2. TypeInv /\ IdleUntilUp /\ GapInv /\ [Next]_vars => GapInv'
  BY NextGapInv
<1>3. Init => Promise!Init
  <2> SUFFICES ASSUME Init PROVE KeptSettings = Default
    BY DEF Promise!Init, KeptSettings, Setting
  <2>1. \A k \in ScalarKeys : Setting(k) = Default[k]
    BY DEF Init, Setting, Keys
  <2> QED
    BY <2>1 DEF KeptSettings, Default
<1>4. TypeInv /\ IdleUntilUp /\ GapInv /\ [Next]_vars
        => [Promise!Next]_([k \in ScalarKeys |-> IF flash[k] = None THEN Default[k] ELSE flash[k]])
  BY NextKeepsSettings DEF KeptSettings, Setting
<1> QED
  BY <1>1, <1>2, <1>3, <1>4, Typing, PTL DEF Spec, ImplementsSettings, Promise!Spec
=============================================================================
