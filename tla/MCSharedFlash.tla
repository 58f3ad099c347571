---------------------------- MODULE MCSharedFlash ----------------------------
(* Small instances of SharedFlash for TLC.                                 *)
EXTENDS SharedFlash, TLC

CONSTANTS t1, t2, u1, u2, wifi, app, k1, k2, v1

Wiring(l1, l2, lu, s1, s2) ==
  [level |-> (t1 :> l1) @@ (t2 :> l2) @@ [u \in Uploaders |-> lu],
   store |-> (t1 :> s1) @@ (t2 :> s2)]

\* Two stores on one executor (README.md), or one store used from two levels,
\* the updates on the lowest.
SafeLayouts ==
  {Wiring(0, 0, 0, wifi, app), Wiring(1, 1, 0, wifi, app), Wiring(0, 1, 0, wifi, wifi)}
\* Two stores used from two levels.
TwoLevels == {Wiring(0, 1, 0, wifi, app)}
\* Updates on a level above that of a store.
HighUpdates == {Wiring(0, 0, 1, wifi, wifi)}
==============================================================================
