----------------------------- MODULE MCService -----------------------------
(* A small instance of Service for TLC: two requests, and a message that   *)
(* receive refuses.                                                        *)
EXTENDS Service

CONSTANTS m1, m2, m3

MCKind == [m \in Events |-> IF m = m3 THEN "phase" ELSE "request"]

(* Two subjects; m2 alone makes a full batch by its size.                  *)
MCSubject == [m \in Events |-> IF m = m2 THEN "route b" ELSE "route a"]
MCWeight == [m \in Events |-> IF m = m2 THEN 5 ELSE 1]
=============================================================================
