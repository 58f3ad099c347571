------------------------------- MODULE MCLogin -------------------------------
(* Small instances of Login for TLC.                                       *)
EXTENDS Login, TLC

CONSTANTS c1, c2, n1, n2, i1, i2, i3, alice, bob, secret

MCClients == {c1, c2}
MCNonces == {n1, n2}
MCIds == {i1, i2, i3}
MCNames == {alice, bob}
MCPasswords == {secret}
MCOtherParts == {Part("session", None)}

\* Answers for either user, also after the user was replaced, to a nonce or to 0.
MCSubmitted == {data \in LoginData :
  data.response.nonce = data.nonce /\ data.response.user = data.user}

\* All but what the stores returned last, which no step reads in a later state.
MCView == <<nonces, next_idx, records, clock, storage, handler, jar, issues, logins,
            current, seen>>

MCSymmetry == Permutations(MCClients) \cup Permutations(MCNonces)
                \cup Permutations(MCIds) \cup Permutations(MCNames)
==============================================================================
