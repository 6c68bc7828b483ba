------------------------ MODULE MCAccountLifecycle ------------------------
(***************************************************************************)
(* Two servers, which are interchangeable, and every failure, deadline and *)
(* crash at any step; the state space needs no bound.                      *)
(***************************************************************************)
EXTENDS AccountLifecycle, TLC

Servers == Permutations(Account)
=============================================================================
