---------------------------- MODULE MCConnection ----------------------------
(* Small instances of Connection for TLC.                                  *)
EXTENDS Connection

CONSTANTS near, far,    \* a network in reach and one that is not
          conf1, conf2  \* settings of the access point

MCNetworks == {near, far}
MCReachable == {near}
MCApConfs == {conf1, conf2}

Saved(ap, sta, networks) ==
  [ap |-> ap, sta |-> sta, ap_conf |-> conf1, networks |-> networks]

\* Any flags, and no network, one out of reach, or both.
AnyConfig ==
  {Saved(ap, sta, nets) : ap \in BOOLEAN, sta \in BOOLEAN,
                          nets \in {<<>>, <<far>>, <<far, near>>}}

\* The driver always starts the access point.  With the station on and the
\* access point off, nothing stops it before the first connection (see
\* MCConnBootAp): these configurations are left out, and for the build that
\* has no station those with the access point off.
ApSta  == [ap |-> TRUE, sta |-> TRUE]
ApOnly == [ap |-> TRUE, sta |-> FALSE]
StaOnly == [ap |-> FALSE, sta |-> TRUE]

MCDevices ==
  [build : {ApSta}, config : {c \in AnyConfig : c.ap \/ ~c.sta}]
  \cup {[build |-> ApOnly, config |-> Saved(TRUE, FALSE, <<>>)],
        [build |-> StaOnly, config |-> Saved(FALSE, TRUE, <<far, near>>)]}

BootDevice  == {[build |-> ApSta, config |-> Saved(FALSE, TRUE, <<>>)]}
SavedDevice == {[build |-> ApSta, config |-> Saved(TRUE, TRUE, <<near, far>>)]}

AllFailures == {"connect_config", "stop", "set_config", "start"}
NoFailures == {}
StartFailure == {"start"}
=============================================================================
