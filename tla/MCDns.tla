-------------------------------- MODULE MCDns --------------------------------
(* Small instances of Dns for TLC: any start of a query, with an ending    *)
(* that is a type and a class, or a part of one.                           *)
EXTENDS Dns

CONSTANTS Bytes, StartMax

Starts == UNION {[1 .. n -> Bytes] : n \in 0 .. StartMax}
Ends == {<<>>, <<0, 1>>, <<0, 1, 0>>, <<0, 1, 0, 1>>, <<0, 28, 0, 1>>, <<0, 255, 0, 1>>}
MCBodies == {start \o end : start \in Starts, end \in Ends}
==============================================================================
