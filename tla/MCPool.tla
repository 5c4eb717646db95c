------------------------------- MODULE MCPool -------------------------------
(* A small instance of Pool for TLC.                                        *)
EXTENDS Pool

CONSTANTS t1, t2, t3, t4

(* With Reserve = 1 and MinBudget = 1, tasks t1 and t3 are late after two  *)
(* units of time, t2 after one, and t4 the moment it is submitted.         *)
MCDeadline == [t \in Tasks |-> CASE t = t2 -> 2 [] t = t4 -> 1 [] OTHER -> 3]
=============================================================================
