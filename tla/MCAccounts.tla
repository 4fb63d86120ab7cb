----------------------------- MODULE MCAccounts -----------------------------
(* Small values for the constants of Accounts. *)
EXTENDS Accounts

CONSTANTS a, b, p, q, t1, t2

MCWords == {a, b, p, q, LoginField, PasswordField, TokenField}
MCTwoThreads == {t1, t2}

MCLoginsPlain == {<<a>>, <<b>>}
MCLoginsSpaced == {<<a>>, <<b>>, <<a, b>>}
(* The third may be SET logintoid::b token EX 2, and HMSET users::2 login  *)
(* b token EX password p.                                                  *)
MCLoginsLong == {<<a>>, <<b>>, <<b, TokenField, a>>}
MCOneLogin == {<<a>>}
MCPasswordsPlain == {<<p>>, <<q>>}
MCPasswordsSpaced == {<<p>>, <<p, q>>, <<p, q, p>>}
MCOnePassword == {<<p>>}

(* With TokenSpace = 4 user 1 gets tokens 2 and 3, user 2 tokens 0 and 1:  *)
(* the sum wraps around.                                                   *)
MCHashOf == [i \in Ids |-> 2 * i]
=============================================================================
