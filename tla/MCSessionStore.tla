--------------------------- MODULE MCSessionStore ---------------------------
(* Small instances of SessionStore for TLC.                                *)
EXTENDS SessionStore

CONSTANTS s1, s2, s3, alice

MCIds == {s1, s2, s3}
MCData == {alice}

\* One policy, as handle_login has it, and both of the library.
LoginExpiry == {OnInactivity(1)}
BothExpiries == {OnInactivity(1), AtDateTime(2)}
=============================================================================
