------------------------------- MODULE MCAccounts -------------------------------
(* Constants of the run of Accounts. *)
EXTENDS Accounts, TLC

CONSTANTS m1, n1, c1, c2, p1

Connections == Permutations({c1, c2})
OneProcess == c1 :> p1 @@ c2 :> p1
===============================================================================
