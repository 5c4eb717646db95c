----------------------------- MODULE Responder -----------------------------
(***************************************************************************)
(* What the request pool promises (internal/queue), without its queue,     *)
(* locks, timers and clocks: a request handed in is answered once, by the  *)
(* goroutine that handed it in or by the pool itself; a pool that is being *)
(* closed takes nothing more into its keeping, and it is closed only when  *)
(* it keeps nothing.  Module Pool implements this, and module Service uses *)
(* it in place of the pool.                                                *)
(***************************************************************************)
CONSTANT Tasks

VARIABLES
  caller,    \* requests in the hands of a goroutine that called Submit
  held,      \* requests in the pool's keeping: queue, workers, sweeper
  outcome,   \* how each request was answered, "none" before
  gate       \* "open", "closing" (p.closed is set) or "closed" (Close returned)

vars == <<caller, held, outcome, gate>>

(* Types of the variables.                                                 *)
TypeOK ==
  /\ caller \subseteq Tasks /\ held \subseteq Tasks
  /\ outcome \in [Tasks -> {"none", "evaluated", "expired", "limit"}]
  /\ gate \in {"open", "closing", "closed"}

Init ==
  /\ caller = {} /\ held = {}
  /\ outcome = [t \in Tasks |-> "none"]
  /\ gate = "open"

(* Submit is called, open or not.                                          *)
Submit(t) ==
  /\ outcome[t] = "none" /\ t \notin caller \cup held
  /\ caller' = caller \cup {t}
  /\ UNCHANGED <<held, outcome, gate>>

(* The request is queued; its submitter is free.                           *)
Enter(t) ==
  /\ gate = "open" /\ t \in caller
  /\ caller' = caller \ {t} /\ held' = held \cup {t}
  /\ UNCHANGED <<outcome, gate>>

(* A submitter takes expired requests of others out of the queue.          *)
Leave(S) ==
  /\ S \subseteq held
  /\ caller' = caller \cup S /\ held' = held \ S
  /\ UNCHANGED <<outcome, gate>>

(* Only the pool evaluates; only a submitter finds the queue full.         *)
MayAnswer(t, reason) ==
  \/ t \in held /\ reason \in {"evaluated", "expired"}
  \/ t \in caller /\ reason \in {"expired", "limit"}

Answer(t, reason) ==
  /\ MayAnswer(t, reason)
  /\ outcome' = [outcome EXCEPT ![t] = reason]
  /\ caller' = caller \ {t} /\ held' = held \ {t}
  /\ UNCHANGED gate

Close ==
  /\ gate = "open" /\ gate' = "closing"
  /\ UNCHANGED <<caller, held, outcome>>

Closed ==
  /\ gate = "closing" /\ held = {} /\ gate' = "closed"
  /\ UNCHANGED <<caller, held, outcome>>

Next ==
  \/ \E t \in Tasks : Submit(t) \/ Enter(t)
  \/ \E S \in SUBSET Tasks : Leave(S)
  \/ \E t \in Tasks, reason \in {"evaluated", "expired", "limit"} : Answer(t, reason)
  \/ Close \/ Closed

Spec == Init /\ [][Next]_vars
=============================================================================
