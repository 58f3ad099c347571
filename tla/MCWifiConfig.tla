---------------------------- MODULE MCWifiConfig ----------------------------
(* Small instances of WifiConfig for TLC.                                  *)
EXTENDS WifiConfig

CONSTANTS t1, t2,       \* tasks
          a, b, cc      \* texts: two SSIDs or passwords, a country code

MCTexts == {a, b, cc, Empty}
MCCountryCodes == {cc}
MCTasks == {t1, t2}
TaskSymmetry == Permutations(MCTasks)

NoEnv == [name \in EnvNames |-> None]
\* An environment that sets the AP fields and the country but no station.
ApEnv == [NoEnv EXCEPT !["AP_SSID"] = a, !["AP_PASSWORD"] = b,
                       !["WIFI_COUNTRY_CODE"] = cc]
\* One that sets everything, the gateway to a text that does not fit.
FullEnv == [ApEnv EXCEPT !["AP_GATEWAY_IP"] = TooLong, !["STA_SSID"] = a,
                         !["STA_PASSWORD"] = b, !["HOSTNAME"] = a]
StaEnv == [NoEnv EXCEPT !["STA_SSID"] = a, !["STA_PASSWORD"] = b]

SetCall(k, v) == [op |-> "set", key |-> k, val |-> v]
ApCall(s, p)  == [op |-> "configure_ap", ssid |-> s, password |-> p]
AddCall(s, p, connect) ==
  [op |-> "add", ssid |-> s, password |-> p, connect |-> connect]
RemoveCall(i) == [op |-> "remove", index |-> i]

\* Calls on the saved networks, and one that changes a default.
NetworkCalls ==
  {SetCall(AP_ENABLED, FALSE), AddCall(a, b, TRUE), AddCall(b, a, TRUE),
   AddCall(b, None, FALSE)}
  \cup {RemoveCall(i) : i \in Slots}

\* Calls on the scalar fields: one for each kind of handler.
ScalarCalls ==
  {SetCall(AP_ENABLED, FALSE), SetCall(STA_ENABLED, TRUE),
   SetCall(STA_ENABLED, FALSE), SetCall(AP_SSID, b),
   SetCall(COUNTRY_CODE, cc), SetCall(COUNTRY_CODE, a), SetCall(HOSTNAME, b),
   ApCall(b, a), ApCall(None, a), ApCall(b, None), ApCall(a, TooLong)}

\* Both SSID and password given.
PairCalls == {ApCall(a, b), ApCall(b, a)}
PairCallsTooLong == PairCalls \cup {ApCall(b, TooLong)}

\* Some of each kind, and a reset that waits for the other calls.
MixedCalls ==
  PairCalls \cup {AddCall(a, b, TRUE), AddCall(b, None, FALSE), RemoveCall(0),
                  SetCall(HOSTNAME, b), SetCall(STA_ENABLED, FALSE)}

\* A network with an empty SSID, which the calls accept.
EmptySsidCalls ==
  {AddCall(Empty, None, FALSE), AddCall(a, b, FALSE), AddCall(b, a, FALSE)}
=============================================================================
