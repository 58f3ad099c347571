-------------------------- MODULE ConnectionProofs --------------------------
(***************************************************************************)
(* Proofs about Connection for every build, saved configuration, capacity, *)
(* sequence of manager calls, lost links and failing controller calls.     *)
(***************************************************************************)
EXTENDS Connection, SequenceTheorems, TLAPS

-----------------------------------------------------------------------------
(* What the calls make of the radio and of the configuration.              *)

\* r is a radio with these fields.
Is(r, on, mode, ap_conf, ssid, link, attempt, answer, dropped) ==
  /\ r \in Radios
  /\ r.on = on /\ r.mode = mode /\ r.ap_conf = ap_conf /\ r.ssid = ssid
  /\ r.link = link /\ r.attempt = attempt /\ r.answer = answer
  /\ r.dropped = dropped

LEMMA DisconnectedIs ==
  ASSUME NEW r \in Radios
  PROVE  Is(Disconnected(r), r.on, r.mode, r.ap_conf, r.ssid, None, None, "none",
            r.dropped)
BY Zenon DEF Is, Radios, Disconnected

LEMMA StoppedIs ==
  ASSUME NEW r \in Radios
  PROVE  Is([r EXCEPT !.on = FALSE], FALSE, r.mode, r.ap_conf, r.ssid, r.link,
            r.attempt, r.answer, r.dropped)
BY Zenon DEF Is, Radios

LEMMA StartedIs ==
  ASSUME NEW r \in Radios
  PROVE  Is([r EXCEPT !.on = TRUE], TRUE, r.mode, r.ap_conf, r.ssid, r.link,
            r.attempt, r.answer, r.dropped)
BY Zenon DEF Is, Radios

LEMMA AnsweredIs ==
  ASSUME NEW r \in Radios
  PROVE  Is([r EXCEPT !.answer = "none"], r.on, r.mode, r.ap_conf, r.ssid, r.link,
            r.attempt, "none", r.dropped)
BY Zenon DEF Is, Radios

LEMMA NoticedIs ==
  ASSUME NEW r \in Radios
  PROVE  Is([r EXCEPT !.dropped = FALSE], r.on, r.mode, r.ap_conf, r.ssid, r.link,
            r.attempt, r.answer, FALSE)
BY Zenon DEF Is, Radios

LEMMA DroppedIs ==
  ASSUME NEW r \in Radios
  PROVE  Is([r EXCEPT !.link = None, !.dropped = TRUE], r.on, r.mode, r.ap_conf,
            r.ssid, None, r.attempt, r.answer, TRUE)
BY Zenon DEF Is, Radios

LEMMA LinkedIs ==
  ASSUME NEW r \in Radios
  PROVE  Is([r EXCEPT !.link = r.attempt, !.attempt = None, !.answer = "ok"],
            r.on, r.mode, r.ap_conf, r.ssid, r.attempt, None, "ok", r.dropped)
BY Zenon DEF Is, Radios

LEMMA RefusedIs ==
  ASSUME NEW r \in Radios
  PROVE  Is([r EXCEPT !.attempt = None, !.answer = "err"],
            r.on, r.mode, r.ap_conf, r.ssid, r.link, None, "err", r.dropped)
BY Zenon DEF Is, Radios

LEMMA ConnectingIs ==
  ASSUME NEW r \in Radios
  PROVE  Is(Connecting(r), r.on, r.mode, r.ap_conf, r.ssid, None,
            IF r.on /\ r.mode \in StaModes /\ r.ssid # None THEN r.ssid ELSE None,
            IF r.on /\ r.mode \in StaModes /\ r.ssid # None THEN "none" ELSE "err",
            FALSE)
<1>1. CASE r.on /\ r.mode \in StaModes /\ r.ssid # None
  <2>1. Is([r EXCEPT !.link = None, !.attempt = r.ssid, !.answer = "none",
                     !.dropped = FALSE],
           r.on, r.mode, r.ap_conf, r.ssid, None, r.ssid, "none", FALSE)
    BY Zenon DEF Is, Radios
  <2> QED
    BY <1>1, <2>1, Zenon DEF Connecting
<1>2. CASE ~(r.on /\ r.mode \in StaModes /\ r.ssid # None)
  <2>1. Is([r EXCEPT !.link = None, !.attempt = None, !.answer = "err",
                     !.dropped = FALSE],
           r.on, r.mode, r.ap_conf, r.ssid, None, None, "err", FALSE)
    BY Zenon DEF Is, Radios
  <2> QED
    BY <1>2, <2>1, Zenon DEF Connecting
<1> QED
  BY <1>1, <1>2

LEMMA ConfiguredIs ==
  ASSUME NEW r \in Radios, config \in Configs, NEW mode \in Modes,
         NEW ssid \in Networks \cup {None}
  PROVE  Is(Configured(r, mode, ssid), r.on, mode, config.ap_conf, ssid, r.link,
            r.attempt, r.answer, r.dropped)
BY Zenon DEF Is, Radios, Configs, Configured

\* c is a configuration with these fields.
Has(c, ap, sta, ap_conf, networks) ==
  /\ c \in Configs
  /\ c.ap = ap /\ c.sta = sta /\ c.ap_conf = ap_conf /\ c.networks = networks

LEMMA ChangedConfig ==
  ASSUME config \in Configs
  PROVE  /\ \A b \in BOOLEAN : Has([config EXCEPT !.ap = b], b, config.sta,
                                   config.ap_conf, config.networks)
         /\ \A b \in BOOLEAN : Has([config EXCEPT !.sta = b], config.ap, b,
                                   config.ap_conf, config.networks)
         /\ \A conf \in ApConfs : Has([config EXCEPT !.ap_conf = conf], config.ap,
                                      config.sta, conf, config.networks)
<1>1. \A b \in BOOLEAN : Has([config EXCEPT !.ap = b], b, config.sta,
                             config.ap_conf, config.networks)
  BY Zenon DEF Has, Configs
<1>2. \A b \in BOOLEAN : Has([config EXCEPT !.sta = b], config.ap, b,
                             config.ap_conf, config.networks)
  BY Zenon DEF Has, Configs
<1>3. \A conf \in ApConfs : Has([config EXCEPT !.ap_conf = conf], config.ap,
                                config.sta, conf, config.networks)
  BY Zenon DEF Has, Configs
<1> QED
  BY <1>1, <1>2, <1>3

\* The lists of saved networks are the sequences of at most N networks.
LEMMA ListsAreSequences ==
  \A s : s \in NetworkLists <=> s \in Seq(Networks) /\ Len(s) <= N
<1> TAKE s
<1>1. ASSUME s \in NetworkLists PROVE s \in Seq(Networks) /\ Len(s) <= N
  <2>1. PICK n \in 0 .. N : s \in [1 .. n -> Networks]
    BY <1>1 DEF NetworkLists
  <2>2. n \in Nat
    BY <2>1, ConnectionAssumption
  <2>3. s \in Seq(Networks)
    BY <2>1, <2>2, IsASeq
  <2>4. Len(s) = n
    BY <2>1, <2>2, <2>3, LenProperties
  <2> QED
    BY <2>1, <2>3, <2>4, ConnectionAssumption
<1>2. ASSUME s \in Seq(Networks), Len(s) <= N PROVE s \in NetworkLists
  <2>1. Len(s) \in 0 .. N /\ s \in [1 .. Len(s) -> Networks]
    BY <1>2, LenProperties, ConnectionAssumption
  <2> QED
    BY <2>1 DEF NetworkLists
<1> QED
  BY <1>1, <1>2

LEMMA RelistedConfig ==
  ASSUME config \in Configs, NEW networks \in NetworkLists
  PROVE  Has([config EXCEPT !.networks = networks], config.ap, config.sta,
             config.ap_conf, networks)
BY Zenon DEF Has, Configs

\* Removing the element at i.
LEMMA RemoveAtProperties ==
  ASSUME NEW S, NEW s \in Seq(S), NEW i \in 1 .. Len(s)
  PROVE  RemoveAt(s, i) \in Seq(S) /\ Len(RemoveAt(s, i)) = Len(s) - 1
<1> DEFINE l == SubSeq(s, 1, i - 1)
           r == SubSeq(s, i + 1, Len(s))
<1>1. Len(s) \in Nat /\ i \in 1 .. Len(s)
  BY LenProperties
<1>2. l \in Seq(S) /\ Len(l) = i - 1
  BY <1>1, SubSeqProperties
<1>3. r \in Seq(S) /\ Len(r) = Len(s) - i
  BY <1>1, SubSeqProperties
<1>4. RemoveAt(s, i) = l \o r
  BY DEF RemoveAt
<1> HIDE DEF l, r
<1>5. l \o r \in Seq(S) /\ Len(l \o r) = Len(l) + Len(r)
  BY <1>2, <1>3, ConcatProperties
<1> QED
  BY <1>1, <1>2, <1>3, <1>4, <1>5

\* What an add and a removal make of the configuration.
LEMMA AddedConfig ==
  ASSUME config \in Configs, NEW n \in Networks, Len(config.networks) < N
  PROVE  /\ Has([config EXCEPT !.networks = Append(@, n)], config.ap, config.sta,
                config.ap_conf, Append(config.networks, n))
         /\ Len(config.networks) \in 0 .. N - 1
<1>1. config.networks \in NetworkLists
  BY DEF Configs
<1>2. config.networks \in Seq(Networks) /\ Len(config.networks) \in Nat
  BY <1>1, ListsAreSequences, LenProperties
<1>3. Len(config.networks) \in 0 .. N - 1
  BY <1>2, ConnectionAssumption
<1> DEFINE longer == Append(config.networks, n)
<1>4. longer \in Seq(Networks) /\ Len(longer) = Len(config.networks) + 1
  BY <1>2, AppendProperties
<1> HIDE DEF longer
<1>5. longer \in NetworkLists
  BY <1>3, <1>4, ListsAreSequences, ConnectionAssumption
<1>6. Has([config EXCEPT !.networks = longer], config.ap, config.sta,
          config.ap_conf, longer)
  BY <1>5, RelistedConfig
<1> QED
  BY <1>3, <1>6 DEF longer

LEMMA ShortenedConfig ==
  ASSUME config \in Configs, NEW i \in 0 .. N - 1, i < Len(config.networks)
  PROVE  Has([config EXCEPT !.networks = RemoveAt(@, i + 1)], config.ap, config.sta,
             config.ap_conf, RemoveAt(config.networks, i + 1))
<1>1. config.networks \in NetworkLists
  BY DEF Configs
<1>2. config.networks \in Seq(Networks) /\ Len(config.networks) \in Nat
  BY <1>1, ListsAreSequences, LenProperties
<1>3. RemoveAt(config.networks, i + 1) \in NetworkLists
  <2>1. i + 1 \in 1 .. Len(config.networks)
    BY <1>2, ConnectionAssumption
  <2> QED
    BY <1>1, <1>2, <2>1, RemoveAtProperties, ListsAreSequences, ConnectionAssumption
<1> QED
  BY <1>3, RelistedConfig

-----------------------------------------------------------------------------
(* Type correctness.  TypeOK is inductive as it stands.                    *)

LEMMA TypeInit == Init => TypeOK
<1> SUFFICES ASSUME Init PROVE TypeOK
  OBVIOUS
<1>1. build \in Builds /\ config \in Configs
  <2>1. PICK d \in Devices : build = d.build /\ config = d.config
    BY DEF Init
  <2>2. d \in [build : Builds, config : Configs]
    BY <2>1, ConnectionAssumption
  <2> QED
    BY <2>1, <2>2
<1>2. radio \in Radios
  <2>1. config.ap_conf \in ApConfs
    BY <1>1 DEF Configs
  <2> QED
    BY <2>1 DEF Init, Radios, Modes
<1>3. AP_RECONFIG \in BOOLEAN /\ STA_TOGGLED \in BOOLEAN
  BY Zenon DEF Init, Lowered
<1> QED
  BY <1>1, <1>2, <1>3, ConnectionAssumption DEF Init, Lowered, TypeOK

\* The modes the loop sets.
LEMMA ModesTyped ==
  ASSUME build \in Builds, config \in Configs
  PROVE  StaMode \in Modes /\ AppliedMode \in Modes
BY DEF StaMode, AppliedMode, Modes

\* compute_state and its index.
LEMMA ComputedTyped ==
  ASSUME TypeOK, ComputedState = "Connecting"
  PROVE  config.networks[ConnectingIdx + 1] \in Networks
<1>1. config.networks \in NetworkLists
  BY DEF TypeOK, Configs
<1>2. config.networks \in Seq(Networks) /\ Len(config.networks) \in Nat
  BY <1>1, ListsAreSequences, LenProperties
<1>3. config.networks # <<>>
  BY DEF ComputedState
<1>4. Len(config.networks) > 0
  BY <1>2, <1>3, EmptySeq
<1>5. ConnectingIdx + 1 \in 1 .. Len(config.networks)
  BY <1>2, <1>4, ConnectionAssumption DEF TypeOK, ConnectingIdx
<1> QED
  BY <1>2, <1>5, ElementOfSeq

\* What Compute makes of the radio.
LEMMA PrepareIs ==
  ASSUME TypeOK, Compute, ComputedState = "Connecting"
  PROVE  LET new == Configured(radio, StaMode, config.networks[ConnectingIdx + 1])
         IN \/ /\ radio' = Polled(new) /\ failures' = failures
               /\ Is(new, radio.on, StaMode, config.ap_conf,
                     config.networks[ConnectingIdx + 1], radio.link, radio.attempt,
                     radio.answer, radio.dropped)
            \/ radio' = Polled(radio) /\ Fails("connect_config")
<1>1. config.networks[ConnectingIdx + 1] \in Networks \cup {None}
  BY ComputedTyped
<1>2. StaMode \in Modes
  BY ModesTyped DEF TypeOK
<1>3. radio \in Radios /\ config \in Configs
  BY DEF TypeOK
<1>4. Is(Configured(radio, StaMode, config.networks[ConnectingIdx + 1]), radio.on,
         StaMode, config.ap_conf, config.networks[ConnectingIdx + 1], radio.link,
         radio.attempt, radio.answer, radio.dropped)
  BY <1>1, <1>2, <1>3, ConfiguredIs
<1>5. Prepare
  BY DEF Compute
<1> QED
  BY <1>4, <1>5 DEF Prepare

LEMMA FailsTyped ==
  ASSUME TypeOK, NEW call, Fails(call)
  PROVE  failures' \in 0 .. MaxFailures /\ failures' > 0
BY ConnectionAssumption DEF TypeOK, Fails

LEMMA ComputeTyped == TypeOK /\ Compute => TypeOK'
<1> SUFFICES ASSUME TypeOK, Compute PROVE TypeOK'
  OBVIOUS
<1>1. radio' \in Radios /\ failures' \in 0 .. MaxFailures
  <2>1. CASE ComputedState # "Connecting"
    BY <2>1 DEF Compute, TypeOK
  <2>2. CASE ComputedState = "Connecting"
    <3>1. PICK new \in Radios : radio' = Polled(new)
      BY <2>2, PrepareIs DEF Is, TypeOK
    <3>2. Connecting(new) \in Radios
      BY ConnectingIs DEF Is
    <3>3. radio' \in Radios
      BY <3>1, <3>2 DEF Polled
    <3>4. failures' \in 0 .. MaxFailures
      BY <2>2, PrepareIs, FailsTyped DEF TypeOK
    <3> QED
      BY <3>3, <3>4
  <2> QED
    BY <2>1, <2>2
<1>2. ComputedState \in {"StaDisabled", "NoNetworks", "Connecting", "Connected"}
  BY DEF ComputedState
<1>3. AP_RECONFIG' \in BOOLEAN /\ STA_TOGGLED' \in BOOLEAN
  BY Zenon DEF Compute, managed, TypeOK
<1> QED
  BY <1>1, <1>2, <1>3 DEF Compute, managed, TypeOK

\* Leaving a network, and what the other arms of the select do to the radio.
LEMMA LeaveIs ==
  ASSUME radio \in Radios, LeaveNetwork
  PROVE  \/ radio' = radio /\ state # "Connected"
         \/ /\ state = "Connected"
            /\ Is(radio', radio.on, radio.mode, radio.ap_conf, radio.ssid, None, None,
                  "none", radio.dropped)
BY DisconnectedIs DEF LeaveNetwork

LEMMA SelectTyped ==
  TypeOK /\ (TakeReconfig \/ TakeToggled \/ TakeRequest) => TypeOK'
<1> SUFFICES ASSUME TypeOK, TakeReconfig \/ TakeToggled \/ TakeRequest PROVE TypeOK'
  OBVIOUS
<1>1. radio' \in Radios
  BY LeaveIs DEF TypeOK, Is, TakeReconfig, TakeToggled, TakeRequest
<1>2. AP_RECONFIG' \in BOOLEAN /\ STA_TOGGLED' \in BOOLEAN
  BY Zenon DEF TypeOK, TakeReconfig, TakeToggled, TakeRequest
<1>3. net_idx' \in 0 .. N - 1
  BY ConnectionAssumption DEF TypeOK, TakeReconfig, TakeToggled, TakeRequest
<1> QED
  BY <1>1, <1>2, <1>3 DEF TypeOK, TakeReconfig, TakeToggled, TakeRequest, bounds

LEMMA Remainder ==
  ASSUME NEW a \in Nat, NEW b \in Nat, b > 0
  PROVE  a % b \in 0 .. b - 1
OBVIOUS

LEMMA NextIndexTyped ==
  ASSUME TypeOK
  PROVE  NextIndex \in 0 .. N - 1
<1>1. config.networks \in NetworkLists
  BY DEF TypeOK, Configs
<1>2. config.networks \in Seq(Networks) /\ Len(config.networks) \in Nat
      /\ Len(config.networks) <= N
  BY <1>1, ListsAreSequences, LenProperties
<1>3. CASE config.networks = <<>>
  BY <1>3 DEF NextIndex, TypeOK
<1>4. CASE config.networks # <<>>
  <2>1. Len(config.networks) \in 1 .. N
    BY <1>2, <1>4, EmptySeq, ConnectionAssumption
  <2>2. net_idx + 1 \in Nat
    BY ConnectionAssumption DEF TypeOK
  <2>3. (net_idx + 1) % Len(config.networks) \in 0 .. Len(config.networks) - 1
    BY <2>1, <2>2, Remainder, ConnectionAssumption
  <2> QED
    BY <1>4, <2>1, <2>3, ConnectionAssumption DEF NextIndex
<1> QED
  BY <1>3, <1>4

LEMMA EventsTyped ==
  TypeOK /\ (Boot \/ Timeout \/ ConnOk \/ ConnFail \/ ConnLost \/ Pause) => TypeOK'
<1> SUFFICES ASSUME TypeOK, Boot \/ Timeout \/ ConnOk \/ ConnFail \/ ConnLost \/ Pause
             PROVE  TypeOK'
  OBVIOUS
<1>1. radio' \in Radios
  BY AnsweredIs, NoticedIs
     DEF TypeOK, Is, Boot, Timeout, ConnOk, ConnFail, ConnLost, Pause
<1>2. AP_RECONFIG' \in BOOLEAN /\ STA_TOGGLED' \in BOOLEAN
  BY Zenon DEF TypeOK, managed, Boot, Timeout, ConnOk, ConnFail, ConnLost, Pause
<1>3. net_idx' \in 0 .. N - 1
  BY NextIndexTyped, ConnectionAssumption
     DEF TypeOK, Boot, Timeout, ConnOk, ConnFail, ConnLost, Pause
<1> QED
  BY <1>1, <1>2, <1>3
     DEF TypeOK, managed, bounds, Boot, Timeout, ConnOk, ConnFail, ConnLost, Pause

\* What the steps of apply_ap_reconfig make of the radio.
LEMMA StopIs ==
  ASSUME TypeOK, Stop
  PROVE  \/ /\ Is(radio', FALSE, radio.mode, radio.ap_conf, radio.ssid, None, None,
                  "none", radio.dropped)
            /\ pc' = "configure" /\ failures' = failures
         \/ radio' = radio /\ pc' = resume /\ Fails("stop")
<1>1. CASE Fails("stop") /\ pc' = resume /\ UNCHANGED radio
  BY <1>1
<1>2. CASE radio' = [Disconnected(radio) EXCEPT !.on = FALSE] /\ pc' = "configure"
           /\ UNCHANGED failures
  <2> DEFINE r == Disconnected(radio)
  <2>1. Is(r, radio.on, radio.mode, radio.ap_conf, radio.ssid, None, None, "none",
           radio.dropped)
    BY DisconnectedIs DEF TypeOK
  <2>2. radio' = [r EXCEPT !.on = FALSE]
    BY <1>2
  <2> HIDE DEF r
  <2>3. Is([r EXCEPT !.on = FALSE], FALSE, r.mode, r.ap_conf, r.ssid, r.link,
           r.attempt, r.answer, r.dropped)
    BY <2>1, StoppedIs DEF Is
  <2>4. Is(radio', FALSE, r.mode, r.ap_conf, r.ssid, r.link, r.attempt, r.answer,
           r.dropped)
    BY <2>2, <2>3, Zenon
  <2> QED
    BY <1>2, <2>1, <2>4 DEF Is
<1> QED
  BY <1>1, <1>2 DEF Stop

LEMMA ConfigureIs ==
  ASSUME TypeOK, Configure
  PROVE  \/ /\ AppliedMode = "None" /\ radio' = radio
            /\ pc' = resume /\ failures' = failures
         \/ /\ AppliedMode # "None"
            /\ Is(radio', radio.on, AppliedMode, config.ap_conf, None, radio.link,
                  radio.attempt, radio.answer, radio.dropped)
            /\ pc' = "start" /\ failures' = failures
         \/ radio' = radio /\ pc' = resume /\ Fails("set_config")
<1>1. Is(Configured(radio, AppliedMode, None), radio.on, AppliedMode, config.ap_conf,
         None, radio.link, radio.attempt, radio.answer, radio.dropped)
  BY ConfiguredIs, ModesTyped DEF TypeOK
<1> QED
  BY <1>1 DEF Configure

LEMMA StartIs ==
  ASSUME TypeOK, Start
  PROVE  /\ pc' = resume
         /\ \/ /\ Is(radio', TRUE, radio.mode, radio.ap_conf, radio.ssid, radio.link,
                     radio.attempt, radio.answer, radio.dropped)
               /\ failures' = failures
            \/ radio' = radio /\ Fails("start")
BY StartedIs DEF TypeOK, Start

LEMMA ApplyTyped == TypeOK /\ apply_ap_reconfig => TypeOK'
<1> SUFFICES ASSUME TypeOK, apply_ap_reconfig PROVE TypeOK'
  OBVIOUS
<1>1. radio' \in Radios /\ failures' \in 0 .. MaxFailures
  BY StopIs, ConfigureIs, StartIs, FailsTyped DEF apply_ap_reconfig, TypeOK, Is
<1>2. AP_RECONFIG' \in BOOLEAN /\ STA_TOGGLED' \in BOOLEAN
  BY Zenon DEF TypeOK, managed, apply_ap_reconfig, Stop, Configure, Start
<1> QED
  BY <1>1, <1>2 DEF TypeOK, managed, apply_ap_reconfig, Stop, Configure, Start

LEMMA RadioTyped == TypeOK /\ Radio => TypeOK'
<1> SUFFICES ASSUME TypeOK, Radio PROVE TypeOK'
  OBVIOUS
<1>1. radio' \in Radios
  <2>1. radio \in Radios
    BY DEF TypeOK
  <2>2. CASE Resolve
    BY <2>1, <2>2, LinkedIs, RefusedIs, Zenon DEF Is, Resolve
  <2>3. CASE LinkDrop
    BY <2>1, <2>3, DroppedIs, Zenon DEF Is, LinkDrop
  <2> QED
    BY <2>2, <2>3 DEF Radio
<1>2. drops' \in 0 .. MaxDrops
  BY ConnectionAssumption DEF TypeOK, Radio, Resolve, LinkDrop, bounds
<1>3. AP_RECONFIG' \in BOOLEAN /\ STA_TOGGLED' \in BOOLEAN
  BY Zenon DEF TypeOK, managed, Radio, Resolve, LinkDrop
<1> QED
  BY <1>1, <1>2, <1>3 DEF TypeOK, managed, bounds, Radio, Resolve, LinkDrop

\* A manager call changes one field and raises the signal that goes with it.
Managed ==
  /\ UNCHANGED <<build, pc, resume, state, net_idx, radio, drops, failures>>
  /\ changes' \in 0 .. MaxChanges
  /\ config' \in Configs
  /\ AP_RECONFIG' \in BOOLEAN /\ STA_TOGGLED' \in BOOLEAN
  /\ CONNECT_REQUEST' \in 0 .. N - 1 \cup {None}
  /\ AP_RECONFIG => AP_RECONFIG'
  /\ STA_TOGGLED => STA_TOGGLED'
  /\ CONNECT_REQUEST # None => CONNECT_REQUEST' # None
  /\ ~AP_RECONFIG' => config'.ap = config.ap /\ config'.ap_conf = config.ap_conf
  /\ ~STA_TOGGLED' => config'.sta = config.sta

LEMMA ManagerIs == TypeOK /\ Manager => Managed
<1> SUFFICES ASSUME TypeOK, Manager PROVE Managed
  OBVIOUS
<1>1. /\ UNCHANGED <<build, pc, resume, state, net_idx, radio, drops, failures>>
      /\ changes' \in 0 .. MaxChanges
  BY ConnectionAssumption DEF Manager, TypeOK
<1>2. ASSUME NEW b \in BOOLEAN, set_ap_enabled(b) PROVE Managed
  <2>1. Has(config', b, config.sta, config.ap_conf, config.networks)
    BY <1>2, ChangedConfig DEF set_ap_enabled, TypeOK
  <2>2. AP_RECONFIG' \in BOOLEAN /\ STA_TOGGLED' \in BOOLEAN
    BY <1>2, Zenon DEF set_ap_enabled, TypeOK
  <2> QED
    BY <1>1, <1>2, <2>1, <2>2 DEF Managed, set_ap_enabled, TypeOK, Has
<1>3. ASSUME NEW b \in BOOLEAN, set_sta_enabled(b) PROVE Managed
  <2>1. Has(config', config.ap, b, config.ap_conf, config.networks)
    BY <1>3, ChangedConfig DEF set_sta_enabled, TypeOK
  <2>2. AP_RECONFIG' \in BOOLEAN /\ STA_TOGGLED' \in BOOLEAN
    BY <1>3, Zenon DEF set_sta_enabled, TypeOK
  <2> QED
    BY <1>1, <1>3, <2>1, <2>2 DEF Managed, set_sta_enabled, TypeOK, Has
<1>4. ASSUME NEW conf \in ApConfs, configure_ap(conf) PROVE Managed
  <2>1. Has(config', config.ap, config.sta, conf, config.networks)
    BY <1>4, ChangedConfig DEF configure_ap, TypeOK
  <2>2. AP_RECONFIG' \in BOOLEAN /\ STA_TOGGLED' \in BOOLEAN
    BY <1>4, Zenon DEF configure_ap, TypeOK
  <2> QED
    BY <1>1, <1>4, <2>1, <2>2 DEF Managed, configure_ap, TypeOK, Has
<1>5. ASSUME NEW n \in Networks, NEW c \in BOOLEAN, add_sta_network(n, c) PROVE Managed
  <2>1. /\ Has(config', config.ap, config.sta, config.ap_conf, Append(config.networks, n))
        /\ Len(config.networks) \in 0 .. N - 1
    <3>1. /\ Len(config.networks) < N
          /\ config' = [config EXCEPT !.networks = Append(@, n)]
      BY <1>5 DEF add_sta_network
    <3> QED
      BY <3>1, AddedConfig, Zenon DEF TypeOK
  <2>2. AP_RECONFIG' \in BOOLEAN /\ STA_TOGGLED' \in BOOLEAN
    BY <1>5, Zenon DEF add_sta_network, TypeOK
  <2>3. /\ CONNECT_REQUEST' \in 0 .. N - 1 \cup {None}
        /\ CONNECT_REQUEST # None => CONNECT_REQUEST' # None
    BY <1>5, <2>1, ConnectionAssumption DEF add_sta_network, TypeOK
  <2> QED
    BY <1>1, <1>5, <2>1, <2>2, <2>3 DEF Managed, add_sta_network, TypeOK, Has
<1>6. ASSUME NEW i \in 0 .. N - 1, remove_sta_network(i) PROVE Managed
  <2>1. Has(config', config.ap, config.sta, config.ap_conf,
            RemoveAt(config.networks, i + 1))
    BY <1>6, ShortenedConfig DEF remove_sta_network, TypeOK
  <2>2. AP_RECONFIG' \in BOOLEAN /\ STA_TOGGLED' \in BOOLEAN
    BY <1>6, Zenon DEF remove_sta_network, TypeOK, signals
  <2> QED
    BY <1>1, <1>6, <2>1, <2>2 DEF Managed, remove_sta_network, TypeOK, Has, signals
<1> QED
  BY <1>2, <1>3, <1>4, <1>5, <1>6 DEF Manager, Call

LEMMA TypeStep == TypeOK /\ [Next]_vars => TypeOK'
<1> SUFFICES ASSUME TypeOK, [Next]_vars PROVE TypeOK'
  OBVIOUS
<1>1. CASE Manager
  BY <1>1, ManagerIs DEF Managed, TypeOK
<1>2. CASE UNCHANGED vars
  <2>1. AP_RECONFIG' \in BOOLEAN /\ STA_TOGGLED' \in BOOLEAN
    BY <1>2, Zenon DEF vars, TypeOK
  <2> QED
    BY <1>2, <2>1 DEF vars, TypeOK
<1> QED
  BY <1>1, <1>2, ComputeTyped, SelectTyped, EventsTyped, ApplyTyped, RadioTyped
     DEF Next, Loop

\* Every variable keeps its type, for every build, capacity and saved
\* configuration: in particular the index the loop works with is one of a slot,
\* however the list changed since it was computed.
THEOREM TypeCorrect == Spec => []TypeOK
BY TypeInit, TypeStep, PTL DEF Spec

-----------------------------------------------------------------------------
(* A link is not waited for unless it exists.  ConnOk believes an answer of *)
(* the radio, so an answer must not be of an attempt that was given up; and *)
(* only the first restart, before any connection, returns to the select     *)
(* without a new state.                                                     *)

LinkInv ==
  /\ radio.answer # "none" => radio.attempt = None
  /\ radio.answer = "ok" => radio.link # None \/ radio.dropped
  /\ pc = "select" /\ state = "Connected" =>
       radio.attempt = None /\ radio.answer = "none" /\ (radio.link # None \/ radio.dropped)
  /\ pc = "boot" => state = "StaDisabled"
  /\ pc \in {"stop", "configure", "start"} /\ resume = "select" => state = "StaDisabled"

LEMMA LinkInit == Init => LinkInv
BY DEF Init, LinkInv

LEMMA LinkCompute == TypeOK /\ LinkInv /\ Compute => LinkInv'
<1> SUFFICES ASSUME TypeOK, LinkInv, Compute PROVE LinkInv'
  OBVIOUS
<1>1. state' # "Connected" /\ pc' = "select"
  BY DEF Compute, ComputedState
<1>2. CASE ComputedState # "Connecting"
  BY <1>1, <1>2 DEF Compute, LinkInv
<1>3. CASE ComputedState = "Connecting"
  <2>1. PICK r \in Radios : /\ radio' = Polled(r)
                            /\ r.link = radio.link /\ r.attempt = radio.attempt
                            /\ r.answer = radio.answer /\ r.dropped = radio.dropped
    BY <1>3, PrepareIs DEF Is, TypeOK
  <2>2. CASE Signalled
    BY <1>1, <2>1, <2>2 DEF Polled, LinkInv
  <2>3. CASE ~Signalled
    <3>1. Is(Connecting(r), r.on, r.mode, r.ap_conf, r.ssid, None,
             IF r.on /\ r.mode \in StaModes /\ r.ssid # None THEN r.ssid ELSE None,
             IF r.on /\ r.mode \in StaModes /\ r.ssid # None THEN "none" ELSE "err",
             FALSE)
      BY ConnectingIs
    <3> QED
      BY <1>1, <2>1, <2>3, <3>1 DEF Polled, LinkInv, Is
  <2> QED
    BY <2>2, <2>3
<1> QED
  BY <1>2, <1>3

LEMMA LinkSelect ==
  TypeOK /\ LinkInv /\ (TakeReconfig \/ TakeToggled \/ TakeRequest) => LinkInv'
<1> SUFFICES ASSUME TypeOK, LinkInv, TakeReconfig \/ TakeToggled \/ TakeRequest
             PROVE  LinkInv'
  OBVIOUS
<1>1. radio \in Radios
  BY DEF TypeOK
<1> QED
  BY <1>1, LeaveIs DEF LinkInv, Is, TakeReconfig, TakeToggled, TakeRequest

LEMMA LinkEvents ==
  TypeOK /\ LinkInv /\ (Boot \/ Timeout \/ ConnOk \/ ConnFail \/ ConnLost \/ Pause)
    => LinkInv'
<1> SUFFICES ASSUME TypeOK, LinkInv PROVE
      Boot \/ Timeout \/ ConnOk \/ ConnFail \/ ConnLost \/ Pause => LinkInv'
  OBVIOUS
<1>0. radio \in Radios
  BY DEF TypeOK
<1>1. CASE Boot \/ Timeout \/ Pause
  BY <1>1 DEF LinkInv, Boot, Timeout, Pause
<1>2. CASE ConnOk \/ ConnFail
  BY <1>0, <1>2, AnsweredIs DEF LinkInv, Is, ConnOk, ConnFail
<1>3. CASE ConnLost
  BY <1>0, <1>3, NoticedIs DEF LinkInv, Is, ConnLost
<1> QED
  BY <1>1, <1>2, <1>3

LEMMA LinkApply == TypeOK /\ LinkInv /\ apply_ap_reconfig => LinkInv'
<1> SUFFICES ASSUME TypeOK, LinkInv, apply_ap_reconfig PROVE LinkInv'
  OBVIOUS
<1>1. UNCHANGED <<resume, state>> /\ pc \in {"stop", "configure", "start"}
  BY DEF apply_ap_reconfig, Stop, Configure, Start
<1>2. resume \in {"select", "compute", "ap_only"}
  BY DEF TypeOK
<1>3. CASE Stop
  BY <1>1, <1>2, <1>3, StopIs DEF LinkInv, Is
<1>4. CASE Configure
  BY <1>1, <1>2, <1>4, ConfigureIs DEF LinkInv, Is
<1>5. CASE Start
  BY <1>1, <1>2, <1>5, StartIs DEF LinkInv, Is
<1> QED
  BY <1>3, <1>4, <1>5 DEF apply_ap_reconfig

LEMMA LinkRadio == TypeOK /\ LinkInv /\ Radio => LinkInv'
<1> SUFFICES ASSUME TypeOK, LinkInv, Radio PROVE LinkInv'
  OBVIOUS
<1>1. radio \in Radios
  BY DEF TypeOK
<1>2. ASSUME Resolve PROVE LinkInv'
  <2>1. radio.attempt # None /\ UNCHANGED <<pc, resume, state>>
    BY <1>2 DEF Resolve, managed
  <2>2. \/ Is(radio', radio.on, radio.mode, radio.ap_conf, radio.ssid, radio.attempt,
              None, "ok", radio.dropped)
        \/ Is(radio', radio.on, radio.mode, radio.ap_conf, radio.ssid, radio.link,
              None, "err", radio.dropped)
    BY <1>1, <1>2, LinkedIs, RefusedIs, Zenon DEF Resolve
  <2> QED
    BY <2>1, <2>2 DEF LinkInv, Is
<1>3. ASSUME LinkDrop PROVE LinkInv'
  <2>1. UNCHANGED <<pc, resume, state>>
    BY <1>3 DEF LinkDrop, managed
  <2>2. Is(radio', radio.on, radio.mode, radio.ap_conf, radio.ssid, None,
           radio.attempt, radio.answer, TRUE)
    BY <1>1, <1>3, DroppedIs, Zenon DEF LinkDrop
  <2> QED
    BY <2>1, <2>2 DEF LinkInv, Is
<1> QED
  BY <1>2, <1>3 DEF Radio

LEMMA LinkStep == TypeOK /\ LinkInv /\ [Next]_vars => LinkInv'
<1> SUFFICES ASSUME TypeOK, LinkInv, [Next]_vars PROVE LinkInv'
  OBVIOUS
<1>1. CASE Manager
  BY <1>1, ManagerIs DEF Managed, LinkInv
<1>2. CASE UNCHANGED vars
  BY <1>2 DEF vars, LinkInv
<1> QED
  BY <1>1, <1>2, LinkCompute, LinkSelect, LinkEvents, LinkApply, LinkRadio
     DEF Next, Loop

-----------------------------------------------------------------------------
(* An attempt is waited for only if there is one, and the state fits the    *)
(* station's flag, or a signal says that it may not.                        *)

\* The state was computed from the flag as it is, or the toggle is raised.
Fits(disabled) == STA_TOGGLED = FALSE => (disabled <=> config.sta = FALSE)

SleepInv ==
  /\ pc = "select" /\ state = "Connecting" =>
       Signalled \/ radio.attempt # None \/ radio.answer # "none"
  /\ pc = "select" => Fits(state = "StaDisabled")
  /\ pc \in {"stop", "configure", "start"} /\ resume = "select" => Fits(TRUE)

LEMMA SleepInit == Init => SleepInv
BY DEF Init, SleepInv

LEMMA SleepCompute == TypeOK /\ Compute => SleepInv'
<1> SUFFICES ASSUME TypeOK, Compute PROVE SleepInv'
  OBVIOUS
<1>1. config.sta \in BOOLEAN /\ UNCHANGED managed /\ pc' = "select"
      /\ state' = ComputedState
  BY DEF TypeOK, Configs, Compute
<1>2. Fits(state = "StaDisabled")'
  BY <1>1 DEF Fits, ComputedState, managed
<1>3. ASSUME ComputedState = "Connecting", ~Signalled
      PROVE  radio'.attempt # None \/ radio'.answer # "none"
  <2>1. PICK r \in Radios : radio' = Polled(r)
    BY <1>3, PrepareIs DEF Is, TypeOK
  <2>2. Is(radio', r.on, r.mode, r.ap_conf, r.ssid, None,
           IF r.on /\ r.mode \in StaModes /\ r.ssid # None THEN r.ssid ELSE None,
           IF r.on /\ r.mode \in StaModes /\ r.ssid # None THEN "none" ELSE "err",
           FALSE)
    BY <1>3, <2>1, ConnectingIs DEF Polled
  <2> QED
    BY <2>2 DEF Is
<1>4. Signalled' = Signalled
  BY <1>1 DEF Signalled, managed
<1> QED
  BY <1>1, <1>2, <1>3, <1>4 DEF SleepInv

LEMMA SleepLoop ==
  TypeOK /\ SleepInv /\ (Boot \/ TakeReconfig \/ TakeToggled \/ TakeRequest \/ Timeout
                         \/ ConnOk \/ ConnFail \/ ConnLost \/ Pause)
    => SleepInv'
<1> SUFFICES ASSUME TypeOK, SleepInv PROVE
      Boot \/ TakeReconfig \/ TakeToggled \/ TakeRequest \/ Timeout \/ ConnOk
        \/ ConnFail \/ ConnLost \/ Pause => SleepInv'
  OBVIOUS
<1>1. config.sta \in BOOLEAN
  BY DEF TypeOK, Configs
<1>2. CASE Boot
  BY <1>1, <1>2 DEF SleepInv, Boot, Fits, managed
<1>3. CASE TakeReconfig \/ TakeToggled \/ TakeRequest
  BY <1>3 DEF SleepInv, TakeReconfig, TakeToggled, TakeRequest
<1>4. CASE Timeout \/ ConnFail \/ ConnLost \/ Pause
  BY <1>4 DEF SleepInv, Timeout, ConnFail, ConnLost, Pause
<1>5. CASE ConnOk
  <2>1. Fits(state = "StaDisabled")'
    BY <1>5 DEF SleepInv, Fits, ConnOk, managed
  <2> QED
    BY <1>5, <2>1 DEF SleepInv, ConnOk
<1> QED
  BY <1>2, <1>3, <1>4, <1>5

LEMMA SleepApply == TypeOK /\ LinkInv /\ SleepInv /\ apply_ap_reconfig => SleepInv'
<1> SUFFICES ASSUME TypeOK, LinkInv, SleepInv, apply_ap_reconfig PROVE SleepInv'
  OBVIOUS
<1>1. UNCHANGED <<managed, resume, state>> /\ pc \in {"stop", "configure", "start"}
      /\ pc' \in {"configure", "start", resume}
  BY DEF apply_ap_reconfig, Stop, Configure, Start
<1>2. resume \in {"select", "compute", "ap_only"}
  BY DEF TypeOK
<1>3. resume = "select" => state = "StaDisabled" /\ Fits(TRUE)
  BY <1>1 DEF LinkInv, SleepInv
<1>4. resume = "select" => Fits(TRUE)' /\ Fits(state = "StaDisabled")'
  BY <1>1, <1>3 DEF Fits, managed
<1> QED
  BY <1>1, <1>2, <1>3, <1>4 DEF SleepInv

LEMMA SleepRadio == TypeOK /\ SleepInv /\ Radio => SleepInv'
<1> SUFFICES ASSUME TypeOK, SleepInv, Radio PROVE SleepInv'
  OBVIOUS
<1>1. radio \in Radios
  BY DEF TypeOK
<1>2. UNCHANGED <<managed, pc, resume, state>>
  BY DEF Radio, Resolve, LinkDrop
<1>3. radio.attempt # None \/ radio.answer # "none"
        => radio'.attempt # None \/ radio'.answer # "none"
  <2>1. CASE Resolve
    BY <1>1, <2>1, LinkedIs, RefusedIs DEF Is, Resolve
  <2>2. CASE LinkDrop
    BY <1>1, <2>2, DroppedIs DEF Is, LinkDrop
  <2> QED
    BY <2>1, <2>2 DEF Radio
<1>4. Signalled' = Signalled /\ Fits(TRUE)' = Fits(TRUE)
      /\ Fits(state = "StaDisabled")' = Fits(state = "StaDisabled")
  BY <1>2 DEF Signalled, Fits, managed
<1> QED
  BY <1>2, <1>3, <1>4 DEF SleepInv

LEMMA SleepManager == TypeOK /\ SleepInv /\ Manager => SleepInv'
<1> SUFFICES ASSUME TypeOK, SleepInv, Managed PROVE SleepInv'
  BY ManagerIs
<1>1. Signalled => Signalled'
  <2>1. CONNECT_REQUEST # None => CONNECT_REQUEST' # None
    BY DEF Managed
  <2> QED
    BY <2>1, Zenon DEF Managed, Signalled
<1>2. STA_TOGGLED' = FALSE => STA_TOGGLED = FALSE /\ config'.sta = config.sta
  BY Zenon DEF Managed, TypeOK
<1>3. UNCHANGED <<pc, resume, state, radio>>
  BY DEF Managed
<1> QED
  BY <1>1, <1>2, <1>3 DEF SleepInv, Fits

LEMMA SleepStep == TypeOK /\ LinkInv /\ SleepInv /\ [Next]_vars => SleepInv'
<1> SUFFICES ASSUME TypeOK, LinkInv, SleepInv, [Next]_vars PROVE SleepInv'
  OBVIOUS
<1>1. CASE UNCHANGED vars
  BY <1>1 DEF vars, SleepInv, Signalled, Fits
<1> QED
  BY <1>1, SleepCompute, SleepLoop, SleepApply, SleepRadio, SleepManager
     DEF Next, Loop

\* The loop never sleeps on a lost link, a missing attempt or a state that does
\* not fit the station's flag, for all configurations and calls, and also when
\* controller calls fail.
THEOREM LoopNeverSleepsInVain == Spec => []NeverSleepsInVain
<1>1. Init => TypeOK /\ LinkInv /\ SleepInv
  BY TypeInit, LinkInit, SleepInit
<1>2. TypeOK /\ LinkInv /\ SleepInv /\ [Next]_vars => (TypeOK /\ LinkInv /\ SleepInv)'
  BY TypeStep, LinkStep, SleepStep
<1>3. TypeOK /\ LinkInv /\ SleepInv => NeverSleepsInVain
  <2> SUFFICES ASSUME TypeOK, LinkInv, SleepInv, pc = "select", ~Signalled
               PROVE  NeverSleepsInVain
    BY DEF NeverSleepsInVain
  <2>1. STA_TOGGLED = FALSE
    BY Zenon DEF Signalled, TypeOK
  <2>2. config.sta \in BOOLEAN
    BY DEF TypeOK, Configs
  <2>3. state = "StaDisabled" <=> config.sta = FALSE
    BY <2>1 DEF SleepInv, Fits
  <2>4. state = "StaDisabled" <=> ~config.sta
    BY <2>2, <2>3
  <2> QED
    BY <2>4 DEF NeverSleepsInVain, SleepInv, LinkInv
<1> QED
  BY <1>1, <1>2, <1>3, PTL DEF Spec

-----------------------------------------------------------------------------
(* A station that is off stays off the networks.  The stop that follows the *)
(* toggle ends link and attempt, and nothing makes new ones before the loop *)
(* has read the configuration again.                                        *)

Quiet == radio.link = None /\ radio.attempt = None

QuietInv ==
  failures = 0 =>
    /\ pc \in {"configure", "start"} => Quiet
    /\ pc # "stop" /\ ~STA_TOGGLED /\ ~config.sta => Quiet

\* When no call has failed yet, none did in the last step.
LEMMA NoFailure ==
  ASSUME TypeOK, [Next]_vars, failures' = 0
  PROVE  /\ failures = 0
         /\ ~Fails("connect_config") /\ ~Fails("stop")
         /\ ~Fails("set_config") /\ ~Fails("start")
<1>1. failures \in Nat
  BY ConnectionAssumption DEF TypeOK
<1>2. \A call : ~Fails(call)
  BY <1>1 DEF Fails
<1>3. failures' = failures
  BY <1>2 DEF Next, Loop, Radio, Manager, apply_ap_reconfig, Boot, Compute, Prepare,
       TakeReconfig, TakeToggled, TakeRequest, Timeout, ConnOk, ConnFail, ConnLost,
       Pause, Stop, Configure, Start, Resolve, LinkDrop, bounds, vars
<1> QED
  BY <1>2, <1>3

LEMMA QuietInit == Init => QuietInv
BY DEF Init, QuietInv, Quiet

LEMMA QuietLoop ==
  TypeOK /\ QuietInv /\ (Boot \/ Compute \/ TakeReconfig \/ TakeToggled \/ TakeRequest
                         \/ Timeout \/ ConnOk \/ ConnFail \/ ConnLost \/ Pause)
    => QuietInv'
<1> SUFFICES ASSUME TypeOK, QuietInv,
                    Boot \/ Compute \/ TakeReconfig \/ TakeToggled \/ TakeRequest
                      \/ Timeout \/ ConnOk \/ ConnFail \/ ConnLost \/ Pause,
                    failures' = 0
             PROVE  QuietInv'
  BY DEF QuietInv
<1>1. failures = 0
  BY NoFailure DEF Next, Loop
<1>2. radio \in Radios
  BY DEF TypeOK
<1>3. CASE Boot \/ Timeout \/ Pause
  BY <1>1, <1>3 DEF QuietInv, Quiet, Boot, Timeout, Pause, managed
<1>4. CASE Compute
  <2>1. CASE ComputedState = "Connecting"
    BY <1>4, <2>1 DEF QuietInv, Compute, ComputedState, managed
  <2>2. CASE ComputedState # "Connecting"
    BY <1>1, <1>4, <2>2 DEF QuietInv, Quiet, Compute, managed
  <2> QED
    BY <2>1, <2>2
<1>5. CASE TakeReconfig \/ TakeToggled
  BY <1>5 DEF QuietInv, TakeReconfig, TakeToggled
<1>6. CASE TakeRequest
  <2>1. LeaveNetwork /\ pc = "select" /\ pc' = "compute"
        /\ UNCHANGED <<STA_TOGGLED, config>>
    BY <1>6 DEF TakeRequest
  <2>2. radio' = radio \/ (radio'.link = None /\ radio'.attempt = None)
    BY <1>2, <2>1, LeaveIs DEF Is
  <2> QED
    BY <1>1, <2>1, <2>2 DEF QuietInv, Quiet
<1>7. CASE ConnOk \/ ConnFail
  BY <1>1, <1>2, <1>7, AnsweredIs DEF QuietInv, Quiet, Is, ConnOk, ConnFail, managed
<1>8. CASE ConnLost
  BY <1>1, <1>2, <1>8, NoticedIs DEF QuietInv, Quiet, Is, ConnLost, managed
<1> QED
  BY <1>3, <1>4, <1>5, <1>6, <1>7, <1>8

LEMMA QuietApply == TypeOK /\ QuietInv /\ apply_ap_reconfig => QuietInv'
<1> SUFFICES ASSUME TypeOK, QuietInv, apply_ap_reconfig, failures' = 0 PROVE QuietInv'
  BY DEF QuietInv
<1>1. /\ failures = 0 /\ ~Fails("stop") /\ ~Fails("set_config") /\ ~Fails("start")
  BY NoFailure DEF Next, Loop
<1>2. CASE Stop
  BY <1>1, <1>2, StopIs DEF QuietInv, Quiet, Is
<1>3. CASE Configure
  <2>1. pc = "configure"
    BY <1>3 DEF Configure
  <2> QED
    BY <1>1, <1>3, <2>1, ConfigureIs DEF QuietInv, Quiet, Is
<1>4. CASE Start
  <2>1. pc = "start"
    BY <1>4 DEF Start
  <2> QED
    BY <1>1, <1>4, <2>1, StartIs DEF QuietInv, Quiet, Is
<1> QED
  BY <1>2, <1>3, <1>4 DEF apply_ap_reconfig

LEMMA QuietRadio == TypeOK /\ QuietInv /\ Radio => QuietInv'
<1> SUFFICES ASSUME TypeOK, QuietInv, Radio PROVE QuietInv'
  OBVIOUS
<1>1. radio \in Radios
  BY DEF TypeOK
<1>2. CASE Resolve
  <2>1. radio.attempt # None /\ UNCHANGED <<pc, STA_TOGGLED, config, failures>>
    BY <1>2 DEF Resolve, managed, bounds
  <2> QED
    BY <2>1 DEF QuietInv, Quiet
<1>3. CASE LinkDrop
  <2>1. radio.link # None /\ UNCHANGED <<pc, STA_TOGGLED, config, failures>>
    BY <1>3 DEF LinkDrop, managed
  <2> QED
    BY <2>1 DEF QuietInv, Quiet
<1> QED
  BY <1>2, <1>3 DEF Radio

LEMMA QuietStep == TypeOK /\ QuietInv /\ [Next]_vars => QuietInv'
<1> SUFFICES ASSUME TypeOK, QuietInv, [Next]_vars PROVE QuietInv'
  OBVIOUS
<1>1. CASE Manager
  BY <1>1, ManagerIs DEF Managed, QuietInv, Quiet, TypeOK
<1>2. CASE UNCHANGED vars
  BY <1>2 DEF vars, QuietInv, Quiet
<1> QED
  BY <1>1, <1>2, QuietLoop, QuietApply, QuietRadio DEF Next, Loop

\* A station that is off is not on a network and not about to be, for all
\* configurations, calls and timings, as long as no controller call has failed.
THEOREM OffStaysOff == Spec => []StaDisabledMeansQuiet
<1>1. Init => TypeOK /\ QuietInv
  BY TypeInit, QuietInit
<1>2. TypeOK /\ QuietInv /\ [Next]_vars => (TypeOK /\ QuietInv)'
  BY TypeStep, QuietStep
<1>3. QuietInv => StaDisabledMeansQuiet
  BY DEF QuietInv, Quiet, StaDisabledMeansQuiet
<1> QED
  BY <1>1, <1>2, <1>3, PTL DEF Spec

-----------------------------------------------------------------------------
(* The access point.  Each of the two ways in which the loop sets the mode  *)
(* takes the flag into account; a change of the configuration in between is *)
(* signalled, and so handled later.                                         *)

\* The driver starts the access point of every build that has one; the loop
\* turns it off at boot if the station is off.
Follows(d) == d.config.ap \/ (d.build.sta /\ ~d.config.sta)
BootFollows == \A d \in Devices : d.build.ap => Follows(d)

ApUp == radio.on /\ radio.mode \in ApModes
ConfSet == config.ap => radio.ap_conf = config.ap_conf
Matches == (config.ap <=> ApUp) /\ ConfSet

ApInv ==
  build.ap /\ failures = 0 /\ ~AP_RECONFIG =>
    /\ pc \in {"compute", "select", "pause", "ap_only"} /\ (build.sta => ~STA_TOGGLED)
         => Matches
    /\ pc = "boot" => build.sta /\ (~STA_TOGGLED /\ config.sta => Matches)
    /\ pc = "configure" => ~radio.on
    /\ pc = "start" => (config.ap <=> radio.mode \in ApModes) /\ ConfSet

LEMMA ApInit == BootFollows /\ Init => ApInv
<1> SUFFICES ASSUME BootFollows, Init PROVE ApInv
  OBVIOUS
<1>1. PICK d \in Devices : build = d.build /\ config = d.config
  BY DEF Init
<1>2. build \in Builds /\ config \in Configs
  BY <1>1, ConnectionAssumption
<1>3. build.ap => config.ap \/ (build.sta /\ ~config.sta)
  BY <1>1 DEF BootFollows, Follows
<1>4. /\ radio.on /\ radio.ap_conf = config.ap_conf
      /\ build.ap => radio.mode \in ApModes
      /\ pc = IF build.sta THEN "boot" ELSE "ap_only"
  BY DEF Init, ApModes
<1> QED
  BY <1>2, <1>3, <1>4 DEF ApInv, Matches, ApUp, ConfSet

LEMMA ApCompute == TypeOK /\ ApInv /\ Compute => ApInv'
<1> SUFFICES ASSUME TypeOK, ApInv, Compute, failures' = 0, build.ap, ~AP_RECONFIG,
                    build.sta => ~STA_TOGGLED
             PROVE  Matches'
  BY DEF ApInv, Compute, managed
<1>1. failures = 0 /\ ~Fails("connect_config")
  BY NoFailure DEF Next, Loop
<1>2. Matches /\ config' = config
  BY <1>1 DEF ApInv, Compute, managed
<1>3. CASE ComputedState # "Connecting"
  BY <1>2, <1>3 DEF Compute, Matches, ApUp, ConfSet
<1>4. CASE ComputedState = "Connecting"
  <2>1. PICK r \in Radios : /\ radio' = Polled(r)
                            /\ r.on = radio.on /\ r.mode = StaMode
                            /\ r.ap_conf = config.ap_conf
    BY <1>1, <1>4, PrepareIs DEF Is
  <2>2. radio'.on = radio.on /\ radio'.mode = StaMode /\ radio'.ap_conf = config.ap_conf
    BY <2>1, ConnectingIs DEF Polled, Is
  <2>3. StaMode \in ApModes <=> config.ap
    BY DEF StaMode, ApModes
  <2> QED
    BY <1>2, <2>2, <2>3 DEF Matches, ApUp, ConfSet
<1> QED
  BY <1>3, <1>4

LEMMA ApSelect ==
  TypeOK /\ ApInv /\ (TakeReconfig \/ TakeToggled \/ TakeRequest) => ApInv'
<1> SUFFICES ASSUME TypeOK, ApInv, TakeReconfig \/ TakeToggled \/ TakeRequest PROVE ApInv'
  OBVIOUS
<1>1. radio \in Radios
  BY DEF TypeOK
<1>2. CASE TakeReconfig \/ TakeToggled
  BY <1>2 DEF ApInv, TakeReconfig, TakeToggled
<1>3. CASE TakeRequest
  <2>1. LeaveNetwork /\ pc = "select" /\ pc' = "compute"
        /\ UNCHANGED <<AP_RECONFIG, STA_TOGGLED, config, build, failures>>
    BY <1>3 DEF TakeRequest, bounds
  <2>2. radio'.on = radio.on /\ radio'.mode = radio.mode /\ radio'.ap_conf = radio.ap_conf
    BY <1>1, <2>1, LeaveIs DEF Is
  <2> QED
    BY <2>1, <2>2 DEF ApInv, Matches, ApUp, ConfSet
<1> QED
  BY <1>2, <1>3

LEMMA ApEvents ==
  TypeOK /\ ApInv /\ (Boot \/ Timeout \/ ConnOk \/ ConnFail \/ ConnLost \/ Pause)
    => ApInv'
<1> SUFFICES ASSUME TypeOK, ApInv PROVE
      Boot \/ Timeout \/ ConnOk \/ ConnFail \/ ConnLost \/ Pause => ApInv'
  OBVIOUS
<1>0. radio \in Radios
  BY DEF TypeOK
<1>1. CASE Boot
  BY <1>1 DEF ApInv, Boot, managed, bounds, Matches, ApUp, ConfSet
<1>2. CASE Timeout \/ Pause
  BY <1>2 DEF ApInv, Timeout, Pause, managed, bounds, Matches, ApUp, ConfSet
<1>3. CASE ConnOk \/ ConnFail
  BY <1>0, <1>3, AnsweredIs
     DEF ApInv, ConnOk, ConnFail, managed, bounds, Matches, ApUp, ConfSet, Is
<1>4. CASE ConnLost
  BY <1>0, <1>4, NoticedIs
     DEF ApInv, ConnLost, managed, bounds, Matches, ApUp, ConfSet, Is
<1> QED
  BY <1>1, <1>2, <1>3, <1>4

LEMMA ApApply == TypeOK /\ ApInv /\ apply_ap_reconfig => ApInv'
<1> SUFFICES ASSUME TypeOK, ApInv, apply_ap_reconfig, failures' = 0, build.ap,
                    ~AP_RECONFIG
             PROVE  ApInv'
  BY DEF ApInv, apply_ap_reconfig, Stop, Configure, Start, managed
<1>1. failures = 0 /\ ~Fails("stop") /\ ~Fails("set_config") /\ ~Fails("start")
  BY NoFailure DEF Next, Loop
<1>2. UNCHANGED <<build, config, AP_RECONFIG, STA_TOGGLED>>
      /\ resume \in {"select", "compute", "ap_only"}
  BY DEF apply_ap_reconfig, Stop, Configure, Start, managed, TypeOK
<1>3. build \in Builds /\ config.ap \in BOOLEAN
  BY Zenon DEF TypeOK, Configs
<1>4. CASE Stop
  BY <1>1, <1>2, <1>4, StopIs DEF ApInv, Is
<1>5. CASE Configure
  <2>1. pc = "configure" /\ ~radio.on
    BY <1>1, <1>5 DEF Configure, ApInv
  <2>2. AppliedMode \in ApModes <=> config.ap
    BY DEF AppliedMode, StaMode, ApModes
  <2>3. AppliedMode = "None" => ~config.ap
    BY DEF AppliedMode, StaMode
  <2>4. CASE AppliedMode = "None"
    BY <1>1, <1>2, <1>5, <2>1, <2>3, <2>4, ConfigureIs
       DEF ApInv, Matches, ApUp, ConfSet
  <2>5. CASE AppliedMode # "None"
    BY <1>1, <1>2, <1>5, <2>1, <2>2, <2>5, ConfigureIs
       DEF ApInv, Matches, ApUp, ConfSet, Is
  <2> QED
    BY <2>4, <2>5
<1>6. CASE Start
  <2>1. (config.ap <=> radio.mode \in ApModes) /\ ConfSet
    BY <1>1, <1>6 DEF Start, ApInv
  <2>2. pc' = resume /\ radio'.on /\ radio'.mode = radio.mode
        /\ radio'.ap_conf = radio.ap_conf
    BY <1>1, <1>6, StartIs DEF Is
  <2> QED
    BY <1>2, <2>1, <2>2 DEF ApInv, Matches, ApUp, ConfSet
<1> QED
  BY <1>4, <1>5, <1>6 DEF apply_ap_reconfig

LEMMA ApRadio == TypeOK /\ ApInv /\ Radio => ApInv'
<1> SUFFICES ASSUME TypeOK, ApInv, Radio PROVE ApInv'
  OBVIOUS
<1>1. radio \in Radios
  BY DEF TypeOK
<1>2. UNCHANGED <<build, config, AP_RECONFIG, STA_TOGGLED, pc, failures>>
  BY DEF Radio, Resolve, LinkDrop, managed, bounds
<1>3. radio'.on = radio.on /\ radio'.mode = radio.mode /\ radio'.ap_conf = radio.ap_conf
  <2>1. CASE Resolve
    BY <1>1, <2>1, LinkedIs, RefusedIs, Zenon DEF Resolve, Is
  <2>2. CASE LinkDrop
    BY <1>1, <2>2, DroppedIs, Zenon DEF LinkDrop, Is
  <2> QED
    BY <2>1, <2>2 DEF Radio
<1> QED
  BY <1>2, <1>3 DEF ApInv, Matches, ApUp, ConfSet

LEMMA ApStep == TypeOK /\ ApInv /\ [Next]_vars => ApInv'
<1> SUFFICES ASSUME TypeOK, ApInv, [Next]_vars PROVE ApInv'
  OBVIOUS
<1>1. CASE Manager
  <2>1. Managed
    BY <1>1, ManagerIs
  <2>2. UNCHANGED <<build, pc, radio, failures>>
    BY <2>1 DEF Managed
  <2>3. CASE AP_RECONFIG'
    BY <2>3 DEF ApInv
  <2>4. CASE ~AP_RECONFIG'
    <3>1. ~AP_RECONFIG /\ config'.ap = config.ap /\ config'.ap_conf = config.ap_conf
      BY <2>1, <2>4 DEF Managed
    <3>2. ~STA_TOGGLED' => ~STA_TOGGLED /\ config'.sta = config.sta
      BY <2>1 DEF Managed
    <3> QED
      BY <2>2, <3>1, <3>2 DEF ApInv, Matches, ApUp, ConfSet
  <2> QED
    BY <2>3, <2>4
<1>2. CASE UNCHANGED vars
  BY <1>2 DEF vars, ApInv, Matches, ApUp, ConfSet
<1> QED
  BY <1>1, <1>2, ApCompute, ApSelect, ApEvents, ApApply, ApRadio DEF Next, Loop

\* Whenever the loop is idle the access point is as the configuration says, for
\* all calls and timings, if no controller call has failed and the device did not
\* boot with the access point off and the station on (see MCConnBootAp).
THEOREM AccessPointFollows == BootFollows => (Spec => []ApFollowsConfig)
<1> SUFFICES ASSUME BootFollows PROVE Spec => []ApFollowsConfig
  OBVIOUS
<1>1. Init => TypeOK /\ ApInv
  BY TypeInit, ApInit
<1>2. TypeOK /\ ApInv /\ [Next]_vars => (TypeOK /\ ApInv)'
  BY TypeStep, ApStep
<1>3. ApInv => ApFollowsConfig
  BY DEF ApInv, Matches, ApUp, ConfSet, ApFollowsConfig
<1> QED
  BY <1>1, <1>2, <1>3, PTL DEF Spec

-----------------------------------------------------------------------------
(* The loop against the interface it shares with the manager.              *)

\* The loop of every build keeps to WifiManager: it only ever lowers one signal
\* at a time, one that is raised, and leaves the configuration alone.
THEOREM LoopKeepsInterface == Spec => ManagerSpec
<1>1. Init => ManagerInit
  BY TypeInit DEF Init, ManagerInit, TypeOK
<1>2. [Next]_vars => [ManagerNext]_managerVars
  <2> SUFFICES ASSUME [Next]_vars PROVE ManagerNext \/ UNCHANGED managerVars
    OBVIOUS
  <2>1. CASE Manager
    BY <2>1 DEF Manager, ManagerNext
  <2>2. CASE TakeReconfig \/ TakeToggled \/ TakeRequest
    BY <2>2, Zenon DEF TakeReconfig, TakeToggled, TakeRequest, Take, ManagerNext
  <2>3. CASE Boot \/ Compute \/ Timeout \/ ConnOk \/ ConnFail \/ ConnLost \/ Pause
    BY <2>3 DEF Boot, Compute, Timeout, ConnOk, ConnFail, ConnLost, Pause, managed,
                managerVars
  <2>4. CASE apply_ap_reconfig \/ Radio
    BY <2>4 DEF apply_ap_reconfig, Stop, Configure, Start, Radio, Resolve, LinkDrop,
                managed, managerVars
  <2>5. CASE UNCHANGED vars
    BY <2>5 DEF vars, managerVars
  <2> QED
    BY <2>1, <2>2, <2>3, <2>4, <2>5 DEF Next, Loop
<1> QED
  BY <1>1, <1>2, PTL DEF Spec, ManagerSpec
=============================================================================
