------------------------------ MODULE Settings ------------------------------
(***************************************************************************)
(* What define_config! (esp-persistent-config/src/lib.rs) promises: a      *)
(* record of settings that start as the defaults and change only when a    *)
(* setter is called, one field at a time, to the value that was given; no  *)
(* reset, loss of power, write error or boot changes one.                  *)
(***************************************************************************)
CONSTANTS
  Fields,
  Default,   \* the value each field has on the first boot
  Requests   \* the pairs of a field and a value that setters are called with

VARIABLE value

Init == value = Default

Set(field, val) == value' = [value EXCEPT ![field] = val]

Next == \E request \in Requests : Set(request[1], request[2])

Spec == Init /\ [][Next]_value
=============================================================================
