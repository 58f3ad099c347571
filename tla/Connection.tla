----------------------------- MODULE Connection -----------------------------
(***************************************************************************)
(* The connection loop (esp-wifi/src/tasks.rs): the task that owns the     *)
(* WifiController and keeps the radio as the saved configuration says.     *)
(*                                                                         *)
(* The loop runs on the cooperative executor of the manager calls, so the  *)
(* reads of the configuration between two of its awaits that pend are one  *)
(* step, and a manager call is one step.  The awaits that do pend are the  *)
(* select over the signals and the action of the state, the stop and the   *)
(* start of the radio, and the 5 s pause.  The radio is esp-radio's, and   *)
(* external: it is modelled from the calls the loop makes.  The manager    *)
(* calls and what they change are those of WifiManager.                    *)
(***************************************************************************)
EXTENDS WifiManager

CONSTANTS
  Reachable,      \* the networks that accept the device
  Devices,        \* the builds, with what flash may hold when they boot
  RadioFailures,  \* the controller calls that may return Err
  MaxChanges,     \* bound: manager calls
  MaxDrops,       \* bound: links lost
  MaxFailures     \* bound: controller calls that return Err

Modes  == {"None", "AccessPoint", "Client", "ApSta"}
ApModes  == {"AccessPoint", "ApSta"}
StaModes == {"Client", "ApSta"}

\* The Cargo features ap and sta: one of them at least.
Builds == {b \in [ap : BOOLEAN, sta : BOOLEAN] : b.ap \/ b.sta}

ASSUME ConnectionAssumption ==
  /\ Reachable \subseteq Networks
  /\ None \notin Networks \cup Nat
  /\ N \in Nat \ {0}
  /\ Devices \subseteq [build : Builds, config : Configs]
  /\ RadioFailures \subseteq {"connect_config", "stop", "set_config", "start"}
  /\ MaxChanges \in Nat /\ MaxDrops \in Nat /\ MaxFailures \in Nat

VARIABLES
  build,           \* the features the program was built with
  pc,              \* the await the loop is at
  resume,          \* where apply_ap_reconfig returns to
  state,           \* ConnState without its index
  net_idx,         \* the local net_idx of run_connection
  radio,           \* the WifiController and the hardware behind it
  changes, drops, failures  \* history, for the bounds

bounds == <<changes, drops, failures>>
vars   == <<build, config, AP_RECONFIG, STA_TOGGLED, CONNECT_REQUEST, pc, resume,
            state, net_idx, radio, changes, drops, failures>>

-----------------------------------------------------------------------------
(* The radio.  link is the network it is joined to, attempt the one it is  *)
(* joining, answer what connect_async will return, dropped whether a       *)
(* StaDisconnected event is pending.                                       *)

Radios == [on : BOOLEAN, mode : Modes, ap_conf : ApConfs,
           ssid : Networks \cup {None}, link : Networks \cup {None},
           attempt : Networks \cup {None}, answer : {"none", "ok", "err"},
           dropped : BOOLEAN]

Disconnected(r) == [r EXCEPT !.link = None, !.attempt = None, !.answer = "none"]

\* connect_async() on radio r: a cancelled one leaves the attempt behind.
Connecting(r) ==
  IF r.on /\ r.mode \in StaModes /\ r.ssid # None
  THEN [r EXCEPT !.link = None, !.attempt = r.ssid, !.answer = "none",
                 !.dropped = FALSE]
  ELSE [r EXCEPT !.link = None, !.attempt = None, !.answer = "err",
                 !.dropped = FALSE]

\* set_config() takes effect at once, on a running radio too.
Configured(r, mode, ssid) ==
  [r EXCEPT !.mode = mode, !.ap_conf = config.ap_conf, !.ssid = ssid]

Fails(call) ==
  /\ call \in RadioFailures
  /\ failures < MaxFailures
  /\ failures' = failures + 1

-----------------------------------------------------------------------------
Signalled == AP_RECONFIG \/ STA_TOGGLED \/ CONNECT_REQUEST # None

\* compute_state
ComputedState == IF ~config.sta THEN "StaDisabled"
                 ELSE IF config.networks = <<>> THEN "NoNetworks"
                 ELSE "Connecting"

\* The index in Connecting(idx): net_idx.min(networks.len() - 1).
ConnectingIdx == IF net_idx < Len(config.networks) THEN net_idx
                 ELSE Len(config.networks) - 1

\* Faulty variant: the mode for a connection leaves out the access point.
StaMode_ClientOnly == "Client"

\* build_mode_config, and the choice of apply_ap_reconfig for each build.
StaMode == IF build.ap /\ config.ap THEN "ApSta" ELSE "Client"
AppliedMode ==
  IF build.sta /\ (config.sta \/ ~build.ap) THEN StaMode
  ELSE IF build.ap /\ config.ap THEN "AccessPoint" ELSE "None"

Init ==
  /\ \E d \in Devices : build = d.build /\ config = d.config
  /\ Lowered
  /\ pc = IF build.sta THEN "boot" ELSE "ap_only"
  /\ resume = "compute"
  /\ state = "StaDisabled"
  /\ net_idx = 0
  \* WifiDriver::init starts the radio in every mode of the build.
  /\ radio = [on |-> TRUE,
              mode |-> IF ~build.sta THEN "AccessPoint"
                       ELSE IF build.ap THEN "ApSta" ELSE "Client",
              ap_conf |-> config.ap_conf, ssid |-> None, link |-> None,
              attempt |-> None, answer |-> "none", dropped |-> FALSE]
  /\ changes = 0 /\ drops = 0 /\ failures = 0

-----------------------------------------------------------------------------
(* The loop.                                                               *)

managed == <<build, config, AP_RECONFIG, STA_TOGGLED, CONNECT_REQUEST>>

Boot ==
  /\ pc = "boot"
  /\ IF config.sta THEN pc' = "compute" /\ UNCHANGED resume
                   ELSE pc' = "stop" /\ resume' = "select"
  /\ UNCHANGED <<managed, state, net_idx, radio, bounds>>

\* The first poll of the select polls the action only if no signal is raised.
Polled(r) == IF Signalled THEN r ELSE Connecting(r)

Prepare ==
  \/ /\ radio' = Polled(Configured(radio, StaMode,
                                   config.networks[ConnectingIdx + 1]))
     /\ UNCHANGED failures
  \/ Fails("connect_config") /\ radio' = Polled(radio)

Compute ==
  /\ pc = "compute"
  /\ pc' = "select"
  /\ state' = ComputedState
  /\ IF ComputedState = "Connecting" THEN Prepare ELSE UNCHANGED <<radio, failures>>
  /\ UNCHANGED <<managed, resume, net_idx, changes, drops>>

LeaveNetwork == radio' = IF state = "Connected" THEN Disconnected(radio) ELSE radio

TakeReconfig ==
  /\ pc \in {"select", "ap_only"}
  /\ AP_RECONFIG
  /\ AP_RECONFIG' = FALSE
  /\ LeaveNetwork
  /\ pc' = "stop"
  /\ resume' = IF pc = "ap_only" THEN "ap_only" ELSE "compute"
  /\ UNCHANGED <<build, config, STA_TOGGLED, CONNECT_REQUEST, state, net_idx, bounds>>

\* Faulty variant: the radio is not restarted when the station is toggled.
TakeToggled_NoRestart ==
  /\ pc = "select"
  /\ STA_TOGGLED /\ ~AP_RECONFIG
  /\ STA_TOGGLED' = FALSE
  /\ LeaveNetwork
  /\ pc' = "compute"
  /\ net_idx' = 0
  /\ UNCHANGED <<build, config, AP_RECONFIG, CONNECT_REQUEST, resume, state, bounds>>

TakeToggled ==
  /\ pc = "select"
  /\ STA_TOGGLED /\ ~AP_RECONFIG
  /\ STA_TOGGLED' = FALSE
  /\ LeaveNetwork
  /\ pc' = "stop" /\ resume' = "compute"
  /\ net_idx' = 0
  /\ UNCHANGED <<build, config, AP_RECONFIG, CONNECT_REQUEST, state, bounds>>

\* Faulty variant: the loop goes back to the select with its old state.
TakeRequest_Continue ==
  /\ pc = "select"
  /\ CONNECT_REQUEST # None /\ ~AP_RECONFIG /\ ~STA_TOGGLED
  /\ CONNECT_REQUEST' = None
  /\ LeaveNetwork
  /\ net_idx' = CONNECT_REQUEST
  /\ UNCHANGED <<build, config, AP_RECONFIG, STA_TOGGLED, pc, resume, state, bounds>>

\* Faulty variant: the loop recomputes with the index it had.
TakeRequest_OldIndex ==
  /\ pc = "select"
  /\ CONNECT_REQUEST # None /\ ~AP_RECONFIG /\ ~STA_TOGGLED
  /\ CONNECT_REQUEST' = None
  /\ LeaveNetwork
  /\ pc' = "compute"
  /\ UNCHANGED <<build, config, AP_RECONFIG, STA_TOGGLED, resume, state, net_idx, bounds>>

TakeRequest ==
  /\ pc = "select"
  /\ CONNECT_REQUEST # None /\ ~AP_RECONFIG /\ ~STA_TOGGLED
  /\ CONNECT_REQUEST' = None
  /\ LeaveNetwork
  /\ net_idx' = CONNECT_REQUEST
  /\ pc' = "compute"
  /\ UNCHANGED <<build, config, AP_RECONFIG, STA_TOGGLED, resume, state, bounds>>

\* The 30 s of NoNetworks are over.
Timeout ==
  /\ pc = "select" /\ ~Signalled
  /\ state = "NoNetworks"
  /\ pc' = "compute"
  /\ UNCHANGED <<managed, resume, state, net_idx, radio, bounds>>

ConnOk ==
  /\ pc = "select" /\ ~Signalled
  /\ state = "Connecting" /\ radio.answer = "ok"
  /\ radio' = [radio EXCEPT !.answer = "none"]
  /\ state' = "Connected"
  /\ UNCHANGED <<managed, pc, resume, net_idx, bounds>>

\* Faulty variants: the index is not wrapped; the same network is retried.
NextIndex_NoWrap == net_idx + 1
NextIndex_Same == net_idx

NextIndex == IF config.networks = <<>> THEN net_idx
             ELSE (net_idx + 1) % Len(config.networks)

ConnFail ==
  /\ pc = "select" /\ ~Signalled
  /\ state = "Connecting" /\ radio.answer = "err"
  /\ radio' = [radio EXCEPT !.answer = "none"]
  /\ net_idx' = NextIndex
  /\ pc' = "pause"
  /\ UNCHANGED <<managed, resume, state, bounds>>

ConnLost ==
  /\ pc = "select" /\ ~Signalled
  /\ state = "Connected" /\ radio.dropped
  /\ radio' = [radio EXCEPT !.dropped = FALSE]
  /\ net_idx' = 0
  /\ pc' = "pause"
  /\ UNCHANGED <<managed, resume, state, bounds>>

\* The 5 s pause is over.
Pause ==
  /\ pc = "pause"
  /\ pc' = "compute"
  /\ UNCHANGED <<managed, resume, state, net_idx, radio, bounds>>

-----------------------------------------------------------------------------
(* apply_ap_reconfig: stop, read the configuration and set it, start.      *)

Stop ==
  /\ pc = "stop"
  /\ \/ /\ radio' = [Disconnected(radio) EXCEPT !.on = FALSE]
        /\ pc' = "configure"
        /\ UNCHANGED failures
     \/ Fails("stop") /\ pc' = resume /\ UNCHANGED radio
  /\ UNCHANGED <<managed, resume, state, net_idx, changes, drops>>

Configure ==
  /\ pc = "configure"
  /\ \/ AppliedMode = "None" /\ pc' = resume /\ UNCHANGED <<radio, failures>>
     \/ /\ AppliedMode # "None"
        /\ radio' = Configured(radio, AppliedMode, None)
        /\ pc' = "start"
        /\ UNCHANGED failures
     \/ /\ AppliedMode # "None"
        /\ Fails("set_config")
        /\ pc' = resume
        /\ UNCHANGED radio
  /\ UNCHANGED <<managed, resume, state, net_idx, changes, drops>>

Start ==
  /\ pc = "start"
  /\ \/ radio' = [radio EXCEPT !.on = TRUE] /\ UNCHANGED failures
     \/ Fails("start") /\ UNCHANGED radio
  /\ pc' = resume
  /\ UNCHANGED <<managed, resume, state, net_idx, changes, drops>>

-----------------------------------------------------------------------------
(* The radio's own steps: an attempt ends, a link is lost.                 *)

Resolve ==
  /\ radio.attempt # None
  /\ radio' = IF radio.attempt \in Reachable
              THEN [radio EXCEPT !.link = radio.attempt, !.attempt = None,
                                 !.answer = "ok"]
              ELSE [radio EXCEPT !.attempt = None, !.answer = "err"]
  /\ UNCHANGED <<managed, pc, resume, state, net_idx, bounds>>

LinkDrop ==
  /\ radio.link # None
  /\ drops < MaxDrops
  /\ drops' = drops + 1
  /\ radio' = [radio EXCEPT !.link = None, !.dropped = TRUE]
  /\ UNCHANGED <<managed, pc, resume, state, net_idx, changes, failures>>

(* A manager call comes.                                                   *)
Manager ==
  /\ changes < MaxChanges
  /\ changes' = changes + 1
  /\ Call
  /\ UNCHANGED <<build, pc, resume, state, net_idx, radio, drops, failures>>

apply_ap_reconfig == Stop \/ Configure \/ Start
Loop == \/ Boot \/ Compute \/ TakeReconfig \/ TakeToggled \/ TakeRequest
        \/ Timeout \/ ConnOk \/ ConnFail \/ ConnLost \/ Pause
        \/ apply_ap_reconfig
Radio == Resolve \/ LinkDrop

Next == Loop \/ Radio \/ Manager

\* The executor polls a task that was woken, and the radio answers: no
\* fairness is asked of the manager, of the links or of failures.
Spec == Init /\ [][Next]_vars /\ WF_vars(Loop) /\ WF_vars(Resolve)

-----------------------------------------------------------------------------
(* The variables keep their types; the loop's index stays a valid slot.    *)
TypeOK ==
  /\ build \in Builds /\ config \in Configs
  /\ AP_RECONFIG \in BOOLEAN /\ STA_TOGGLED \in BOOLEAN
  /\ CONNECT_REQUEST \in 0 .. N - 1 \cup {None}
  /\ pc \in {"boot", "compute", "select", "pause", "stop", "configure",
             "start", "ap_only"}
  /\ resume \in {"select", "compute", "ap_only"}
  /\ state \in {"StaDisabled", "NoNetworks", "Connecting", "Connected"}
  /\ net_idx \in 0 .. N - 1
  /\ radio \in Radios
  /\ changes \in 0 .. MaxChanges
  /\ drops \in 0 .. MaxDrops /\ failures \in 0 .. MaxFailures

\* is_ap_enabled: "true if the Access Point interface should be active".
(* Whenever the loop is idle and no reconfiguration is waiting, the access *)
(* point is up exactly if the configuration enables it, with the SSID and  *)
(* the password it holds (a reconfiguration and a connection both set the  *)
(* mode of the one radio, from reads of the configuration of their own),   *)
(* as long as no controller call has failed.                               *)
ApFollowsConfig ==
  /\ build.ap
  /\ pc \in {"select", "pause", "ap_only"}
  /\ ~AP_RECONFIG
  /\ build.sta => ~STA_TOGGLED
  /\ failures = 0
  =>
    /\ config.ap <=> radio.on /\ radio.mode \in ApModes
    /\ config.ap => radio.ap_conf = config.ap_conf

(* Whenever the loop sleeps with no signal raised, something that will wake *)
(* it is under way: an attempt or its answer, a link or the report of its   *)
(* loss (NoNetworks has a timer).  Only a station that is off waits for     *)
(* signals alone.  No change of the configuration that comes in the middle  *)
(* of something else is overlooked.                                         *)
NeverSleepsInVain ==
  pc = "select" /\ ~Signalled =>
    /\ state = "StaDisabled" <=> ~config.sta
    /\ state = "Connecting" => radio.attempt # None \/ radio.answer # "none"
    /\ state = "Connected" => radio.link # None \/ radio.dropped

(* A station that is off, with no toggle waiting, is not on a network and  *)
(* not about to be: an attempt under way when it was turned off is over,   *)
(* as long as no controller call has failed.                               *)
StaDisabledMeansQuiet ==
  pc = "select" /\ ~config.sta /\ ~STA_TOGGLED /\ failures = 0 =>
    radio.link = None /\ radio.attempt = None

(* Connected(idx) is documented as "Connected to networks[idx]".           *)
ConnectedNamesLink ==
  pc = "select" /\ state = "Connected" /\ radio.link # None =>
    /\ net_idx < Len(config.networks)
    /\ config.networks[net_idx + 1] = radio.link

Connectable ==
  /\ build.sta /\ config.sta
  /\ \E i \in 1 .. Len(config.networks) : config.networks[i] \in Reachable
Online == state = "Connected" /\ radio.link # None

(* "reconnects on drop, handles AP reconfig signals" (README.md:162): with *)
(* a network in reach saved and the station on, the device ends up on a    *)
(* network.                                                                *)
Reconnects == <>[]Connectable => <>[]Online

(* So it does when no controller call fails, and also after calls that     *)
(* fail, unless they have left the radio off.                              *)
EventuallyConnected ==
  <>[](Connectable /\ (failures = 0 \/ radio.on)) => <>[]Online

Requested(n) ==
  /\ build.sta /\ config.sta
  /\ CONNECT_REQUEST # None
  /\ CONNECT_REQUEST < Len(config.networks)
  /\ config.networks[CONNECT_REQUEST + 1] = n

(* A requested connection is attempted, whatever the loop was in the       *)
(* middle of, unless another call comes first or a controller call fails.  *)
RequestTried ==
  \A n \in Networks, c \in 0 .. MaxChanges :
    (Requested(n) /\ changes = c)
      ~> (radio.attempt = n \/ changes > c \/ failures > 0)
=============================================================================
