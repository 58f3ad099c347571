----------------------------- MODULE WifiManager -----------------------------
(***************************************************************************)
(* What the traits WifiConfig and WifiManager (esp-system-api/src/lib.rs)  *)
(* promise to the connection loop: a configuration that changes by         *)
(* manager calls only, each one a single step that changes one part of it  *)
(* and raises the signal that belongs to the part.  There is none while    *)
(* the device boots, and a reset may come at any time.  Of the settings,   *)
(* those that the loop reads are here.                                     *)
(***************************************************************************)
EXTENDS Integers, SequencesExt

CONSTANTS
  Networks,  \* what is saved of a station network
  ApConfs,   \* values of AP SSID and password
  None,      \* no configuration, no request
  N          \* capacity of the saved list

NetworkLists == UNION {[1 .. n -> Networks] : n \in 0 .. N}
Configs == [ap : BOOLEAN, sta : BOOLEAN, ap_conf : ApConfs, networks : NetworkLists]

VARIABLES
  config,                    \* what the readers return, None during boot
  AP_RECONFIG, STA_TOGGLED,  \* is the signal raised
  CONNECT_REQUEST            \* the index in the signal, or None

signals     == <<AP_RECONFIG, STA_TOGGLED, CONNECT_REQUEST>>
managerVars == <<config, AP_RECONFIG, STA_TOGGLED, CONNECT_REQUEST>>

Lowered == AP_RECONFIG = FALSE /\ STA_TOGGLED = FALSE /\ CONNECT_REQUEST = None

ManagerInit == config \in Configs \cup {None} /\ Lowered

-----------------------------------------------------------------------------
(* The calls that succeed.                                                 *)

set_ap_enabled(enabled) ==
  /\ config' = [config EXCEPT !.ap = enabled]
  /\ AP_RECONFIG' = TRUE
  /\ UNCHANGED <<STA_TOGGLED, CONNECT_REQUEST>>

\* Also set_ap_ssid and set_ap_password.
configure_ap(ap_conf) ==
  /\ config' = [config EXCEPT !.ap_conf = ap_conf]
  /\ AP_RECONFIG' = TRUE
  /\ UNCHANGED <<STA_TOGGLED, CONNECT_REQUEST>>

set_sta_enabled(enabled) ==
  /\ config' = [config EXCEPT !.sta = enabled]
  /\ STA_TOGGLED' = TRUE
  /\ UNCHANGED <<AP_RECONFIG, CONNECT_REQUEST>>

\* With connect, add_and_connect_sta_network.
add_sta_network(n, connect) ==
  /\ Len(config.networks) < N
  /\ config' = [config EXCEPT !.networks = Append(@, n)]
  /\ CONNECT_REQUEST' = IF connect THEN Len(config.networks) ELSE CONNECT_REQUEST
  /\ UNCHANGED <<AP_RECONFIG, STA_TOGGLED>>

remove_sta_network(index) ==
  /\ index < Len(config.networks)
  /\ config' = [config EXCEPT !.networks = RemoveAt(@, index + 1)]
  /\ UNCHANGED signals

Call ==
  /\ config \in Configs
  /\ \/ \E enabled \in BOOLEAN : set_ap_enabled(enabled) \/ set_sta_enabled(enabled)
     \/ \E ap_conf \in ApConfs : configure_ap(ap_conf)
     \/ \E n \in Networks, connect \in BOOLEAN : add_sta_network(n, connect)
     \/ \E index \in 0 .. N - 1 : remove_sta_network(index)

-----------------------------------------------------------------------------
\* The loop takes a signal: wait() lowers it.
Take ==
  /\ \/ AP_RECONFIG /\ AP_RECONFIG' = FALSE /\ UNCHANGED <<STA_TOGGLED, CONNECT_REQUEST>>
     \/ STA_TOGGLED /\ STA_TOGGLED' = FALSE /\ UNCHANGED <<AP_RECONFIG, CONNECT_REQUEST>>
     \/ /\ CONNECT_REQUEST # None
        /\ CONNECT_REQUEST' = None
        /\ UNCHANGED <<AP_RECONFIG, STA_TOGGLED>>
  /\ UNCHANGED config

\* init() returns: what it found in flash, or the defaults.
Loaded ==
  /\ config = None
  /\ config' \in Configs
  /\ UNCHANGED signals

Reset == config' = None /\ Lowered'

ManagerNext == Call \/ Take \/ Loaded \/ Reset

ManagerSpec == ManagerInit /\ [][ManagerNext]_managerVars
=============================================================================
