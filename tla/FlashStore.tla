------------------------------ MODULE FlashStore ------------------------------
(***************************************************************************)
(* One FlashStore (esp-persistent-config): a map from u8 keys to values    *)
(* that outlives every reset.  store() and fetch() hold the mutex of the   *)
(* store over their whole body, so each of them is one step of the task    *)
(* that calls it.  The item format below them is sequential-storage's: an  *)
(* interrupted store leaves the old item in place.                         *)
(***************************************************************************)
EXTENDS Integers

CONSTANTS
  None,           \* no item under the key; also the None of Rust's Option
  WritesMayFail,  \* TRUE: store_item may return Err
  ReadsMayFail    \* TRUE: fetch_item may return Err

ASSUME FailureAssumption == WritesMayFail \in BOOLEAN /\ ReadsMayFail \in BOOLEAN

VARIABLE flash    \* the items: a function from keys to values or None

\* What a call of store can return: is_ok() of store_item.
WriteResults == IF WritesMayFail THEN BOOLEAN ELSE {TRUE}

\* The effect of store(key, value) when it returns ok.
store(key, value, ok) ==
  flash' = IF ok THEN [flash EXCEPT ![key] = value] ELSE flash

\* The sets of these keys whose fetch_item may end in Err.
ReadErrors(keys) == IF ReadsMayFail THEN SUBSET keys ELSE {{}}

\* What fetch(key) returns when the reads of the keys in failed end in Err:
\* .ok().flatten() makes an error look like a missing item.
fetch(key, failed) == IF key \in failed THEN None ELSE flash[key]
===============================================================================
