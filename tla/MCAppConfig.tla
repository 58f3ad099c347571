----------------------------- MODULE MCAppConfig -----------------------------
(* Small instances of AppConfig for TLC: the struct of the README.         *)
EXTENDS AppConfig

CONSTANTS t1, t2, admin, user, secret, empty

MCTasks == {t1, t2}
MCOrder == <<"username", "password", "retries">>
MCFields == {"username", "password", "retries"}
MCKey == [f \in MCFields |-> CASE f = "username" -> 100 [] f = "password" -> 101
                               [] f = "retries" -> 102]
MCDefault == [f \in MCFields |-> admin]
MCRequests == {<<"username", user>>, <<"password", secret>>, <<"password", user>>,
               <<"retries", secret>>}
==============================================================================
