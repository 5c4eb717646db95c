----------------------------- MODULE PoolProofs -----------------------------
(***************************************************************************)
(* Theorems about Pool for any number of tasks, submitters and workers,    *)
(* any queue depth and any deadlines.  The inductive invariant comes       *)
(* first, then one lemma per action, then the theorems; at the end, that   *)
(* the pool implements Responder: every action of Pool is one action of    *)
(* Responder or leaves caller, held, outcome and gate alone.               *)
(***************************************************************************)
EXTENDS Pool, FiniteSetTheorems, TLAPS

(* Which labels a goroutine of each kind can be at, and what it holds      *)
(* there.                                                                  *)
Control ==
  /\ \A s \in Submitters :
       /\ pc[s] \in {"idle", "collect", "lock", "loop", "wait", "expire", "shed"}
       /\ pc[s] = "idle" <=> cur[s] = NoTask
       /\ pc[s] \notin {"lock", "loop"} => hand[s] = {}
  /\ \A w \in Workers :
       /\ pc[w] \in {"pop", "wait", "eval", "done"}
       /\ pc[w] = "eval" <=> cur[w] # NoTask
       /\ pc[w] = "wait" => hand[w] = {}
  /\ pc[Sweeper] \in {"sweep", "done"} /\ cur[Sweeper] = NoTask
  /\ pc[Closer] \in {"open", "closing", "joining", "done"}
  /\ cur[Closer] = NoTask /\ hand[Closer] = {}

(* A task is in one place only, and only an unanswered one is anywhere.    *)
OnePlace ==
  /\ \A t \in q : calls[t] = 0 /\ t \in submitted
  /\ \A th \in Threads : \A t \in hand[th] : calls[t] = 0 /\ t \in submitted /\ t \notin q
  /\ \A th \in Threads : cur[th] # NoTask =>
       calls[cur[th]] = 0 /\ cur[th] \in submitted /\ cur[th] \notin q
  /\ \A th, u \in Threads : cur[th] # NoTask => cur[th] \notin hand[u]
  /\ \A th, u \in Threads : cur[th] # NoTask /\ cur[th] = cur[u] => th = u
  /\ \A th, u \in Threads : th # u => hand[th] \cap hand[u] = {}
  /\ \A t \in Tasks : calls[t] <= 1 /\ (calls[t] = 1 => t \in submitted)

(* An unanswered request is somewhere.                                     *)
Kept == \A t \in submitted : calls[t] = 0 => Pending(t)

(* A worker leaves only when the pool is closed and the queue empty, and   *)
(* Close waits for all of them.                                            *)
Shutdown ==
  /\ closed <=> pc[Closer] \in {"joining", "done"}
  /\ \A w \in Workers : pc[w] = "done" => closed /\ q = {}
  /\ pc[Closer] = "done" =>
       \A th \in Workers \cup {Sweeper} : pc[th] = "done" /\ hand[th] = {}

IInv ==
  /\ TypeOK /\ Control /\ OnePlace /\ Kept /\ Shutdown
  /\ WaiterMeansFull /\ NoLostWakeup /\ QueueBounded
-----------------------------------------------------------------------------
(* Cardinalities of parts of the queue.                                    *)
LEMMA SmallerQueue ==
  ASSUME NEW S \in SUBSET Tasks, NEW R \in SUBSET S
  PROVE  /\ Cardinality(R) \in Nat /\ Cardinality(S) \in Nat
         /\ Cardinality(R) <= Cardinality(S)
BY PoolAssumption, FS_Subset, FS_CardinalityType, Zenon

(* ... and of the queue with one more task.                               *)
LEMMA LargerQueue ==
  ASSUME NEW S \in SUBSET Tasks, NEW t \in Tasks \ S
  PROVE  /\ Cardinality(S) \in Nat
         /\ Cardinality(S \cup {t}) = Cardinality(S) + 1
BY PoolAssumption, FS_Subset, FS_CardinalityType, FS_AddElement, Zenon

(* The initial state.                                                      *)
LEMMA InitIInv == Init => IInv
<1> SUFFICES ASSUME Init PROVE IInv
  BY Zenon
<1> USE PoolAssumption DEF Init, Threads
<1>1. TypeOK
  BY Zenon DEF TypeOK, Labels, TimerStates, Outcomes
<1>2. Control
  BY Zenon DEF Control
<1>3. OnePlace /\ Kept /\ Shutdown
  BY DEF OnePlace, Kept, Shutdown
<1>4. WaiterMeansFull /\ NoLostWakeup
  BY Zenon DEF WaiterMeansFull, NoLostWakeup
<1>5. QueueBounded
  BY FS_EmptySet DEF QueueBounded
<1> QED BY <1>1, <1>2, <1>3, <1>4, <1>5, Zenon DEF IInv

(* Submit stamps a fresh task. *)
LEMMA SubmitBeginStep ==
  ASSUME IInv, NEW s \in Submitters,
         NEW t \in Tasks,
         SubmitBegin(s, t)
  PROVE  IInv'
<1> USE PoolAssumption DEF Threads, IInv, SubmitBegin, Go, NoAnswer, Resume
<1>0. calls[t] = 0 /\ t \notin q /\ \A th \in Threads : t \notin hand[th] /\ cur[th] # t
  BY SMTT(30) DEF TypeOK, OnePlace
<1>1. TypeOK'
  BY Zenon DEF TypeOK, Labels, Outcomes
<1>2. Control'
  BY Zenon DEF TypeOK, Control
<1>3. OnePlace'
  BY <1>0 DEF TypeOK, Control, OnePlace
<1>4. Kept'
  BY DEF TypeOK, Control, OnePlace, Kept, Pending
<1>5. Shutdown'
  BY Zenon DEF TypeOK, Control, Shutdown
<1>6. WaiterMeansFull'
  BY Zenon DEF TypeOK, Control, Shutdown, WaiterMeansFull
<1>7. NoLostWakeup'
  BY Zenon DEF TypeOK, Control, Shutdown, NoLostWakeup
<1>8. QueueBounded'
  BY Zenon DEF TypeOK, QueueBounded
<1> QED BY <1>1, <1>2, <1>3, <1>4, <1>5, <1>6, <1>7, <1>8, Zenon DEF IInv

(* Submit takes expired tasks of others out of the queue. *)
LEMMA SubmitCollectStep ==
  ASSUME IInv, NEW s \in Submitters,
         SubmitCollect(s)
  PROVE  IInv'
<1> USE PoolAssumption DEF Threads, IInv, SubmitCollect, TakeExpired, DeadTasks, Go, WokenBy, Waiting, Resume, NoAnswer
<1>0. \/ q' = q
      \/ q' \subseteq q /\ \A u \in Threads : pc'[u] # "wait"
  BY Zenon DEF TypeOK, Control
<1>1. TypeOK'
  BY Zenon DEF TypeOK, Labels, Outcomes
<1>2. Control'
  BY Zenon DEF TypeOK, Control
<1>3. OnePlace'
  BY DEF TypeOK, Control, OnePlace
<1>4. Kept'
  BY Zenon DEF TypeOK, Control, OnePlace, Kept, Pending
<1>5. Shutdown'
  BY Zenon DEF TypeOK, Control, Shutdown
<1>6. WaiterMeansFull'
  BY <1>0, Zenon DEF TypeOK, Control, Shutdown, WaiterMeansFull, Full
<1>7. NoLostWakeup'
  BY Zenon DEF TypeOK, Control, Shutdown, NoLostWakeup
<1>8. QueueBounded'
  BY SmallerQueue DEF TypeOK, QueueBounded
<1> QED BY <1>1, <1>2, <1>3, <1>4, <1>5, <1>6, <1>7, <1>8, Zenon DEF IInv

(* Submit answers its own task. *)
LEMMA SubmitAnswerStep ==
  ASSUME IInv, NEW s \in Submitters,
         SubmitAnswer(s)
  PROVE  IInv'
<1> USE PoolAssumption DEF Threads, IInv, SubmitAnswer, Answer, Go
<1>1. TypeOK'
  BY DEF TypeOK, Control, Labels, Outcomes
<1>2. Control'
  BY Zenon DEF TypeOK, Control
<1>3. OnePlace'
  BY DEF TypeOK, Control, OnePlace
<1>4. Kept'
  BY DEF TypeOK, Control, OnePlace, Kept, Pending
<1>5. Shutdown'
  BY Zenon DEF TypeOK, Control, Shutdown
<1>6. WaiterMeansFull'
  BY Zenon DEF TypeOK, Control, Shutdown, WaiterMeansFull
<1>7. NoLostWakeup'
  BY Zenon DEF TypeOK, Control, Shutdown, NoLostWakeup
<1>8. QueueBounded'
  BY Zenon DEF TypeOK, QueueBounded
<1> QED BY <1>1, <1>2, <1>3, <1>4, <1>5, <1>6, <1>7, <1>8, Zenon DEF IInv

(* The sweeper takes expired tasks out of the queue. *)
LEMMA SweepStep ==
  ASSUME IInv, Sweep
  PROVE  IInv'
<1> USE PoolAssumption DEF Threads, IInv, Sweep, TakeExpired, DeadTasks, Go, WokenBy, Waiting, Resume, NoAnswer
<1>0. \/ q' = q
      \/ q' \subseteq q /\ \A u \in Threads : pc'[u] # "wait"
  BY Zenon DEF TypeOK, Control
<1>1. TypeOK'
  BY Zenon DEF TypeOK, Labels, Outcomes
<1>2. Control'
  BY Zenon DEF TypeOK, Control
<1>3. OnePlace'
  BY DEF TypeOK, Control, OnePlace
<1>4. Kept'
  BY Zenon DEF TypeOK, Control, OnePlace, Kept, Pending
<1>5. Shutdown'
  BY Zenon DEF TypeOK, Control, Shutdown
<1>6. WaiterMeansFull'
  BY <1>0, Zenon DEF TypeOK, Control, Shutdown, WaiterMeansFull, Full
<1>7. NoLostWakeup'
  BY Zenon DEF TypeOK, Control, Shutdown, NoLostWakeup
<1>8. QueueBounded'
  BY SmallerQueue DEF TypeOK, QueueBounded
<1> QED BY <1>1, <1>2, <1>3, <1>4, <1>5, <1>6, <1>7, <1>8, Zenon DEF IInv

(* A taken task is answered. *)
LEMMA ReplyDeadStep ==
  ASSUME IInv, NEW th \in Threads,
         NEW t \in Tasks,
         ReplyDead(th, t)
  PROVE  IInv'
<1> USE PoolAssumption DEF Threads, IInv, ReplyDead, Answer
<1>1. TypeOK'
  BY DEF TypeOK, Labels, Outcomes
<1>2. Control'
  BY Zenon DEF TypeOK, Control
<1>3. OnePlace'
  BY DEF TypeOK, Control, OnePlace
<1>4. Kept'
  BY DEF TypeOK, Control, OnePlace, Kept, Pending
<1>5. Shutdown'
  BY Zenon DEF TypeOK, Control, Shutdown
<1>6. WaiterMeansFull'
  BY Zenon DEF TypeOK, Control, Shutdown, WaiterMeansFull
<1>7. NoLostWakeup'
  BY Zenon DEF TypeOK, Control, Shutdown, NoLostWakeup
<1>8. QueueBounded'
  BY Zenon DEF TypeOK, QueueBounded
<1> QED BY <1>1, <1>2, <1>3, <1>4, <1>5, <1>6, <1>7, <1>8, Zenon DEF IInv

(* A worker answers the task it popped. *)
LEMMA EvaluateStep ==
  ASSUME IInv, NEW w \in Workers,
         Evaluate(w)
  PROVE  IInv'
<1> USE PoolAssumption DEF Threads, IInv, Evaluate, Answer, Go
<1>1. TypeOK'
  BY DEF TypeOK, Control, Labels, Outcomes
<1>2. Control'
  BY Zenon DEF TypeOK, Control
<1>3. OnePlace'
  BY DEF TypeOK, Control, OnePlace
<1>4. Kept'
  BY DEF TypeOK, Control, OnePlace, Kept, Pending
<1>5. Shutdown'
  BY Zenon DEF TypeOK, Control, Shutdown
<1>6. WaiterMeansFull'
  BY Zenon DEF TypeOK, Control, Shutdown, WaiterMeansFull
<1>7. NoLostWakeup'
  BY Zenon DEF TypeOK, Control, Shutdown, NoLostWakeup
<1>8. QueueBounded'
  BY Zenon DEF TypeOK, QueueBounded
<1> QED BY <1>1, <1>2, <1>3, <1>4, <1>5, <1>6, <1>7, <1>8, Zenon DEF IInv

(* Timers change no task and no queue. *)
LEMMA TimerElapseStep ==
  ASSUME IInv, NEW t \in Tasks,
         TimerElapse(t)
  PROVE  IInv'
<1> USE PoolAssumption DEF Threads, IInv, TimerElapse, NoAnswer, TimerStates
<1>1. TypeOK'
  BY Zenon DEF TypeOK, Labels, Outcomes
<1>2. Control'
  BY Zenon DEF TypeOK, Control
<1>3. OnePlace'
  BY Zenon DEF TypeOK, Control, OnePlace
<1>4. Kept'
  BY Zenon DEF TypeOK, Control, OnePlace, Kept, Pending
<1>5. Shutdown'
  BY Zenon DEF TypeOK, Control, Shutdown
<1>6. WaiterMeansFull'
  BY Zenon DEF TypeOK, Control, Shutdown, WaiterMeansFull
<1>7. NoLostWakeup'
  BY Zenon DEF TypeOK, Control, Shutdown, NoLostWakeup
<1>8. QueueBounded'
  BY Zenon DEF TypeOK, QueueBounded
<1> QED BY <1>1, <1>2, <1>3, <1>4, <1>5, <1>6, <1>7, <1>8, Zenon DEF IInv

(* The callback wakes everybody. *)
LEMMA TimerCallbackStep ==
  ASSUME IInv, NEW t \in Tasks,
         TimerCallback(t)
  PROVE  IInv'
<1> USE PoolAssumption DEF Threads, IInv, TimerCallback, NoAnswer, TimerStates, Waiting, Resume
<1>1. TypeOK'
  BY Zenon DEF TypeOK, Labels, Outcomes
<1>2. Control'
  BY Zenon DEF TypeOK, Control
<1>3. OnePlace'
  BY Zenon DEF TypeOK, Control, OnePlace
<1>4. Kept'
  BY Zenon DEF TypeOK, Control, OnePlace, Kept, Pending
<1>5. Shutdown'
  BY Zenon DEF TypeOK, Control, Shutdown
<1>6. WaiterMeansFull'
  BY Zenon DEF TypeOK, Control, Shutdown, WaiterMeansFull
<1>7. NoLostWakeup'
  BY Zenon DEF TypeOK, Control, Shutdown, NoLostWakeup
<1>8. QueueBounded'
  BY ONLY IInv, TimerCallback(t), Zenon DEF IInv, TimerCallback, QueueBounded
<1> QED BY <1>1, <1>2, <1>3, <1>4, <1>5, <1>6, <1>7, <1>8, Zenon DEF IInv

(* The sweeper leaves. *)
LEMMA SweepStopStep ==
  ASSUME IInv, SweepStop
  PROVE  IInv'
<1> USE PoolAssumption DEF Threads, IInv, SweepStop, Go, NoAnswer
<1>1. TypeOK'
  BY Zenon DEF TypeOK, Labels, Outcomes
<1>2. Control'
  BY Zenon DEF TypeOK, Control
<1>3. OnePlace'
  BY Zenon DEF TypeOK, Control, OnePlace
<1>4. Kept'
  BY Zenon DEF TypeOK, Control, OnePlace, Kept, Pending
<1>5. Shutdown'
  BY Zenon DEF TypeOK, Control, Shutdown
<1>6. WaiterMeansFull'
  BY Zenon DEF TypeOK, Control, Shutdown, WaiterMeansFull
<1>7. NoLostWakeup'
  BY Zenon DEF TypeOK, Control, Shutdown, NoLostWakeup
<1>8. QueueBounded'
  BY Zenon DEF TypeOK, QueueBounded
<1> QED BY <1>1, <1>2, <1>3, <1>4, <1>5, <1>6, <1>7, <1>8, Zenon DEF IInv

(* Close closes the stop channel. *)
LEMMA CloseStopStep ==
  ASSUME IInv, CloseStop
  PROVE  IInv'
<1> USE PoolAssumption DEF Threads, IInv, CloseStop, Go, NoAnswer
<1>1. TypeOK'
  BY Zenon DEF TypeOK, Labels, Outcomes
<1>2. Control'
  BY Zenon DEF TypeOK, Control
<1>3. OnePlace'
  BY Zenon DEF TypeOK, Control, OnePlace
<1>4. Kept'
  BY Zenon DEF TypeOK, Control, OnePlace, Kept, Pending
<1>5. Shutdown'
  BY Zenon DEF TypeOK, Control, Shutdown
<1>6. WaiterMeansFull'
  BY Zenon DEF TypeOK, Control, Shutdown, WaiterMeansFull
<1>7. NoLostWakeup'
  BY Zenon DEF TypeOK, Control, Shutdown, NoLostWakeup
<1>8. QueueBounded'
  BY Zenon DEF TypeOK, QueueBounded
<1> QED BY <1>1, <1>2, <1>3, <1>4, <1>5, <1>6, <1>7, <1>8, Zenon DEF IInv

(* Close sets closed and wakes everybody. *)
LEMMA CloseMarkStep ==
  ASSUME IInv, CloseMark
  PROVE  IInv'
<1> USE PoolAssumption DEF Threads, IInv, CloseMark, Go, Waiting, Resume, NoAnswer
<1>1. TypeOK'
  BY Zenon DEF TypeOK, Labels, Outcomes
<1>2. Control'
  BY Zenon DEF TypeOK, Control
<1>3. OnePlace'
  BY Zenon DEF TypeOK, Control, OnePlace
<1>4. Kept'
  BY Zenon DEF TypeOK, Control, OnePlace, Kept, Pending
<1>5. Shutdown'
  BY Zenon DEF TypeOK, Control, Shutdown
<1>6. WaiterMeansFull'
  BY Zenon DEF TypeOK, Control, Shutdown, WaiterMeansFull
<1>7. NoLostWakeup'
  BY Zenon DEF TypeOK, Control, Shutdown, NoLostWakeup
<1>8. QueueBounded'
  BY ONLY IInv, CloseMark, Zenon DEF IInv, CloseMark, QueueBounded
<1> QED BY <1>1, <1>2, <1>3, <1>4, <1>5, <1>6, <1>7, <1>8, Zenon DEF IInv

(* Close returns. *)
LEMMA CloseJoinStep ==
  ASSUME IInv, CloseJoin
  PROVE  IInv'
<1> USE PoolAssumption DEF Threads, IInv, CloseJoin, Go, NoAnswer
<1>1. TypeOK'
  BY Zenon DEF TypeOK, Labels, Outcomes
<1>2. Control'
  BY Zenon DEF TypeOK, Control
<1>3. OnePlace'
  BY Zenon DEF TypeOK, Control, OnePlace
<1>4. Kept'
  BY Zenon DEF TypeOK, Control, OnePlace, Kept, Pending
<1>5. Shutdown'
  BY Zenon DEF TypeOK, Control, Shutdown
<1>6. WaiterMeansFull'
  BY Zenon DEF TypeOK, Control, Shutdown, WaiterMeansFull
<1>7. NoLostWakeup'
  BY Zenon DEF TypeOK, Control, Shutdown, NoLostWakeup
<1>8. QueueBounded'
  BY Zenon DEF TypeOK, QueueBounded
<1> QED BY <1>1, <1>2, <1>3, <1>4, <1>5, <1>6, <1>7, <1>8, Zenon DEF IInv

(* Time passes. *)
LEMMA TickStep ==
  ASSUME IInv, Tick
  PROVE  IInv'
<1> USE PoolAssumption DEF Threads, IInv, Tick, NoAnswer
<1>1. TypeOK'
  BY DEF TypeOK, Labels, Outcomes
<1>2. Control'
  BY Zenon DEF TypeOK, Control
<1>3. OnePlace'
  BY Zenon DEF TypeOK, Control, OnePlace
<1>4. Kept'
  BY Zenon DEF TypeOK, Control, OnePlace, Kept, Pending
<1>5. Shutdown'
  BY Zenon DEF TypeOK, Control, Shutdown
<1>6. WaiterMeansFull'
  BY Zenon DEF TypeOK, Control, Shutdown, WaiterMeansFull
<1>7. NoLostWakeup'
  BY Zenon DEF TypeOK, Control, Shutdown, NoLostWakeup
<1>8. QueueBounded'
  BY Zenon DEF TypeOK, QueueBounded
<1> QED BY <1>1, <1>2, <1>3, <1>4, <1>5, <1>6, <1>7, <1>8, Zenon DEF IInv
-----------------------------------------------------------------------------
(* The two ends of the queue: Submit under the mutex, and pop.             *)

(* A task enters the queue: the Signal reaches a worker. *)
LEMMA EnqueueStep ==
  ASSUME IInv, NEW s \in Submitters,
         pc[s] \in {"lock", "loop"}, hand[s] = {}, ~closed, ~Full(q),
         Enqueue(s),
         timer' \in [Tasks -> TimerStates],
         UNCHANGED <<full, closed, stopped, age, submitted, timedOut>>,
         NoAnswer
  PROVE  IInv'
<1> USE PoolAssumption DEF Threads, IInv, Enqueue, NoAnswer
<1>a. Waiting \subseteq Workers
  BY Zenon DEF TypeOK, Control, WaiterMeansFull, Waiting
<1>b. \A w \in Workers : pc[w] # "done"
  BY Zenon DEF Shutdown
<1>d. cur[s] \in Tasks
  BY Zenon DEF TypeOK, Control
<1>c. PICK W \in SUBSET Workers :
        /\ pc' = [u \in Threads |-> IF u = s THEN "idle"
                                  ELSE IF u \in W THEN "pop" ELSE pc[u]]
        /\ W = {} => Waiting = {}
        /\ W \subseteq Waiting
  <2>1. CASE Waiting = {}
    <3>1. Go(s, "idle", {})
      BY <2>1, Zenon DEF Signal
    <3> QED BY <3>1, <2>1, Zenon DEF Go
  <2>2. CASE Waiting # {}
    <3>1. PICK u \in Waiting : Go(s, "idle", {u})
      BY <2>2, Zenon DEF Signal
    <3>2. {u} \in SUBSET Workers
      BY <1>a, Zenon
    <3>3. pc' = [x \in Threads |-> IF x = s THEN "idle"
                                  ELSE IF x \in {u} THEN "pop" ELSE pc[x]]
      BY <3>1, <3>2, Zenon DEF Go, Resume
    <3> QED BY <3>2, <3>3, Zenon
  <2> QED BY <2>1, <2>2, Zenon
<1>e. pc' \in [Threads -> Labels]
  BY <1>c, Zenon DEF TypeOK, Labels
<1>f. /\ q' \subseteq Tasks /\ accepted' \in Nat
      /\ order' \in [Tasks -> Nat]
      /\ cur' \in [Threads -> Tasks \cup {NoTask}]
  BY <1>d DEF TypeOK
<1>1. TypeOK'
  BY <1>d, <1>e, <1>f, Zenon DEF TypeOK
<1>2. Control'
  BY <1>c, Zenon DEF TypeOK, Control, Waiting
<1>3. OnePlace'
  BY DEF TypeOK, Control, OnePlace
<1>4. Kept'
  BY Zenon DEF TypeOK, Control, OnePlace, Kept, Pending
<1>5. Shutdown'
  BY <1>b, <1>c, Zenon DEF TypeOK, Control, Shutdown, Waiting
<1>6. WaiterMeansFull'
  BY <1>a, <1>c, Zenon DEF TypeOK, Control, WaiterMeansFull, Waiting
<1>7. NoLostWakeup'
  BY <1>b, <1>c, Zenon DEF TypeOK, Control, NoLostWakeup, Waiting
<1>8. QueueBounded'
  BY LargerQueue DEF TypeOK, Control, OnePlace, QueueBounded, Full
<1> QED BY <1>1, <1>2, <1>3, <1>4, <1>5, <1>6, <1>7, <1>8, Zenon DEF IInv

(* A Submit finds the queue full: it takes the dead or waits. *)
LEMMA ParkStep ==
  ASSUME IInv, NEW s \in Submitters,
         pc[s] \in {"lock", "loop"}, hand[s] = {}, ~closed, Full(q),
         Park(s),
         timer' \in [Tasks -> TimerStates],
         UNCHANGED <<full, closed, stopped, age, submitted, timedOut>>,
         NoAnswer
  PROVE  IInv'
<1> USE PoolAssumption DEF Threads, IInv, Park, TakeExpired, DeadTasks, Go, WokenBy, Waiting, Resume, NoAnswer
<1>0. \/ q' = q
      \/ q' \subseteq q /\ \A u \in Threads : pc'[u] # "wait"
  BY DEF TypeOK, Control
<1>1. TypeOK'
  BY DEF TypeOK, Labels
<1>2. Control'
  BY DEF TypeOK, Control
<1>3. OnePlace'
  BY ZenonT(30) DEF TypeOK, Control, OnePlace
<1>4. Kept'
  BY Zenon DEF TypeOK, Control, OnePlace, Kept, Pending
<1>5. Shutdown'
  BY DEF TypeOK, Control, Shutdown
<1>6. WaiterMeansFull'
  BY <1>0, Zenon DEF TypeOK, Control, Shutdown, WaiterMeansFull, Full
<1>7. NoLostWakeup'
  BY DEF TypeOK, Control, Shutdown, NoLostWakeup
<1>8. QueueBounded'
  BY SmallerQueue DEF TypeOK, QueueBounded
<1> QED BY <1>1, <1>2, <1>3, <1>4, <1>5, <1>6, <1>7, <1>8, Zenon DEF IInv

(* A Submit goes on to answer its task itself. *)
LEMMA GiveUpStep ==
  ASSUME IInv, NEW s \in Submitters,
         pc[s] \in {"lock", "loop"}, hand[s] = {},
         NEW label \in {"expire", "shed"},
         GiveUp(s, label),
         timer' \in [Tasks -> TimerStates],
         UNCHANGED <<full, closed, stopped, age, submitted, timedOut>>,
         NoAnswer
  PROVE  IInv'
<1> USE PoolAssumption DEF Threads, IInv, GiveUp, Go, NoAnswer
<1>1. TypeOK'
  BY Zenon DEF TypeOK, Labels, Outcomes
<1>2. Control'
  BY Zenon DEF TypeOK, Control
<1>3. OnePlace'
  BY Zenon DEF TypeOK, Control, OnePlace
<1>4. Kept'
  BY Zenon DEF TypeOK, Control, OnePlace, Kept, Pending
<1>5. Shutdown'
  BY Zenon DEF TypeOK, Control, Shutdown
<1>6. WaiterMeansFull'
  BY Zenon DEF TypeOK, Control, Shutdown, WaiterMeansFull
<1>7. NoLostWakeup'
  BY Zenon DEF TypeOK, Control, Shutdown, NoLostWakeup
<1>8. QueueBounded'
  BY Zenon DEF TypeOK, QueueBounded
<1> QED BY <1>1, <1>2, <1>3, <1>4, <1>5, <1>6, <1>7, <1>8, Zenon DEF IInv

(* A worker finds the queue empty once the expired are gone.               *)
LEMMA PopEmptyStep ==
  ASSUME IInv, NEW w \in Workers, Pop(w), q \ DeadTasks = {}
  PROVE  IInv'
<1> USE PoolAssumption DEF Threads, IInv, Pop, TakeExpired, DeadTasks, Go,
        WokenBy, Waiting, Resume, NoAnswer
<1>0. q' = {} /\ UNCHANGED cur
  BY ONLY Pop(w), q \ DeadTasks = {}, Zenon DEF Pop
<1>9. /\ pc[w] = "pop" /\ hand[w] = {} /\ hand' = [hand EXCEPT ![w] = q]
      /\ UNCHANGED <<closed, submitted, calls>>
  BY ZenonT(30)
<1>1. TypeOK'
  BY <1>0, ZenonT(30) DEF TypeOK, Labels
<1>10. /\ pc'[w] \in {"done", "pop", "wait"}
       /\ pc'[w] = "wait" => q = {}
       /\ \A u \in Threads \ {w} : pc'[u] = pc[u] \/ (pc[u] = "wait" /\ pc'[u] = Resume(u))
  <2>1. Go(w, IF closed THEN "done" ELSE IF DeadTasks # {} THEN "pop" ELSE "wait",
           WokenBy(DeadTasks))
    BY ONLY Pop(w), q \ DeadTasks = {}, Zenon DEF Pop
  <2> QED BY ONLY <2>1, w \in Workers, q \ DeadTasks = {}, Zenon DEF Go, WokenBy, Waiting, Threads
<1>2. Control'
  <2>1. \A u \in Threads \ {w} : hand'[u] = hand[u]
    BY ONLY <1>9, IInv, Zenon DEF IInv, TypeOK
  <2>2. hand'[w] = q
    BY ONLY <1>9, IInv, w \in Workers, Zenon DEF IInv, TypeOK, Threads
  <2> QED BY ONLY <1>0, <1>9, <1>10, <2>1, <2>2, w \in Workers, PoolAssumption, IInv
          DEF IInv, TypeOK, Control, Threads, Resume
<1>3. OnePlace'
  BY ONLY <1>0, <1>9, IInv DEF IInv, TypeOK, Control, OnePlace, Threads
<1>4. Kept'
  BY <1>0, Zenon DEF TypeOK, Control, OnePlace, Kept, Pending
<1>5. Shutdown'
  <2>1. /\ pc'[w] = "done" => closed
        /\ pc'[w] \in {"done", "pop", "wait"}
        /\ \A u \in Threads \ {w} : pc'[u] = pc[u] \/ (pc[u] = "wait" /\ pc'[u] # "done")
    <3>1. Go(w, IF closed THEN "done" ELSE IF DeadTasks # {} THEN "pop" ELSE "wait",
             WokenBy(DeadTasks))
      BY ONLY Pop(w), q \ DeadTasks = {}, Zenon DEF Pop
    <3> QED BY ONLY <3>1, w \in Workers, Zenon DEF Go, WokenBy, Waiting, Resume, Threads
  <2> QED BY ONLY <1>0, <1>9, <2>1, PoolAssumption, IInv, Zenon DEF IInv, TypeOK, Control, Shutdown, Threads
<1>6. WaiterMeansFull'
  <2>1. CASE DeadTasks = {}
    BY <1>0, <2>1, Zenon DEF TypeOK, Control, WaiterMeansFull, Full
  <2>2. CASE DeadTasks # {}
    BY <2>2, Zenon DEF TypeOK, Control, WaiterMeansFull
  <2> QED BY <2>1, <2>2, Zenon
<1>7. NoLostWakeup'
  BY <1>0, Zenon DEF NoLostWakeup
<1>8. QueueBounded'
  BY ONLY <1>0, FS_EmptySet, PoolAssumption DEF QueueBounded
<1> QED BY <1>1, <1>2, <1>3, <1>4, <1>5, <1>6, <1>7, <1>8, Zenon DEF IInv

(* A worker takes the head of the queue and wakes everybody.               *)
LEMMA PopTaskStep ==
  ASSUME IInv, NEW w \in Workers, Pop(w), q \ DeadTasks # {}
  PROVE  IInv'
<1> USE PoolAssumption DEF Threads, IInv
<1> DEFINE live == q \ DeadTasks
<1>0. PICK t \in live :
        /\ q' = live \ {t}
        /\ cur' = [cur EXCEPT ![w] = t]
        /\ Go(w, "eval", Waiting)
  BY Zenon DEF Pop
<1>a. /\ pc[w] = "pop" /\ hand[w] = {}
      /\ hand' = [hand EXCEPT ![w] = DeadTasks]
      /\ UNCHANGED <<full, order, closed, stopped, age, submitted, timer, timedOut, accepted>>
      /\ NoAnswer
  BY Zenon DEF Pop, TakeExpired
<1>b. DeadTasks \subseteq q /\ t \in q /\ t \notin DeadTasks /\ t \in Tasks
  BY Zenon DEF DeadTasks, TypeOK
<1> HIDE DEF live
<1>c. q' = (q \ DeadTasks) \ {t}
  BY <1>0, Zenon DEF live
<1> USE <1>0, <1>a, <1>b, <1>c DEF Go, Waiting, Resume, NoAnswer
<1>1. TypeOK'
  BY Zenon DEF TypeOK, Labels
<1>2. Control'
  BY Zenon DEF TypeOK, Control
<1>3. OnePlace'
  BY DEF TypeOK, Control, OnePlace
<1>4. Kept'
  BY Zenon DEF TypeOK, Control, OnePlace, Kept, Pending
<1>5. Shutdown'
  BY Zenon DEF TypeOK, Control, Shutdown
<1>6. WaiterMeansFull'
  BY Zenon DEF TypeOK, Control, WaiterMeansFull
<1>7. NoLostWakeup'
  BY Zenon DEF TypeOK, NoLostWakeup
<1>8. QueueBounded'
  BY SmallerQueue DEF TypeOK, QueueBounded
<1> QED BY <1>1, <1>2, <1>3, <1>4, <1>5, <1>6, <1>7, <1>8, Zenon DEF IInv

(* Submit under the mutex: closed, room, or full.                          *)
LEMMA SubmitLockStep ==
  ASSUME IInv, NEW s \in Submitters, SubmitLock(s)
  PROVE  IInv'
<1> USE DEF SubmitLock
<1>1. cur[s] \in Tasks
  BY ONLY IInv, SubmitLock(s), s \in Submitters, PoolAssumption, Zenon
     DEF SubmitLock, IInv, TypeOK, Control, Threads
<1>2. timer' \in [Tasks -> TimerStates]
  <2>1. timer \in [Tasks -> TimerStates]
    BY Zenon DEF IInv, TypeOK
  <2> QED BY ONLY <1>1, <2>1, SubmitLock(s), Zenon DEF SubmitLock, TimerStates
<1>3. CASE GiveUp(s, "expire") \/ GiveUp(s, "shed")
  BY <1>2, <1>3, GiveUpStep, Zenon
<1>4. CASE ~closed /\ ~Full(q) /\ Enqueue(s)
  BY <1>2, <1>4, EnqueueStep, Zenon
<1>5. CASE ~closed /\ Full(q) /\ Park(s)
  BY <1>2, <1>5, ParkStep, Zenon
<1> QED BY <1>3, <1>4, <1>5, Zenon

(* The same, each time a parked Submit looks again.                        *)
LEMMA SubmitLoopStep ==
  ASSUME IInv, NEW s \in Submitters, SubmitLoop(s)
  PROVE  IInv'
<1> USE DEF SubmitLoop
<1>1. cur[s] \in Tasks
  BY ONLY IInv, SubmitLoop(s), s \in Submitters, PoolAssumption, Zenon
     DEF SubmitLoop, IInv, TypeOK, Control, Threads
<1>2. timer' \in [Tasks -> TimerStates]
  <2>1. timer \in [Tasks -> TimerStates]
    BY Zenon DEF IInv, TypeOK
  <2> QED BY ONLY <1>1, <2>1, SubmitLoop(s), Zenon DEF SubmitLoop, StopTimer, TimerStates
<1>3. CASE GiveUp(s, "expire")
  BY <1>2, <1>3, GiveUpStep, Zenon
<1>4. CASE ~closed /\ ~Full(q) /\ Enqueue(s)
  BY <1>2, <1>4, EnqueueStep, Zenon
<1>5. CASE ~closed /\ Full(q) /\ Park(s)
  BY <1>2, <1>5, ParkStep, Zenon
<1> QED BY <1>3, <1>4, <1>5, Zenon
-----------------------------------------------------------------------------
(* The theorems.                                                           *)

(* Every step of the pool preserves the inductive invariant, so it holds   *)
(* in every reachable state.                                               *)
THEOREM Inductive == Spec => []IInv
<1>1. IInv /\ [Next]_vars => IInv'
  <2> SUFFICES ASSUME IInv, [Next]_vars PROVE IInv'
    BY Zenon
  <2>1. ASSUME NEW s \in Submitters, NEW t \in Tasks, SubmitBegin(s, t) PROVE IInv'
    BY <2>1, SubmitBeginStep, Zenon
  <2>2. ASSUME NEW s \in Submitters, SubmitStep(s) PROVE IInv'
    BY <2>2, SubmitCollectStep, SubmitLockStep, SubmitLoopStep, SubmitAnswerStep, Zenon DEF SubmitStep
  <2>3. ASSUME NEW w \in Workers, WorkerStep(w) PROVE IInv'
    BY <2>3, PopEmptyStep, PopTaskStep, EvaluateStep, Zenon DEF WorkerStep
  <2>4. ASSUME NEW th \in Threads, ReplyStep(th) PROVE IInv'
    BY <2>4, ReplyDeadStep, Zenon DEF ReplyStep
  <2>5. ASSUME NEW t \in Tasks, TimerStep(t) PROVE IInv'
    BY <2>5, TimerElapseStep, TimerCallbackStep, Zenon DEF TimerStep
  <2>6. CASE Sweep \/ SweepStop \/ CloseStop \/ CloseStep \/ Tick
    BY <2>6, SweepStep, SweepStopStep, CloseStopStep, CloseMarkStep, CloseJoinStep,
       TickStep, Zenon DEF CloseStep
  <2>7. CASE UNCHANGED vars
    BY <2>7 DEF vars, IInv, TypeOK, Control, OnePlace, Kept, Pending, Shutdown,
       WaiterMeansFull, NoLostWakeup, QueueBounded, Full
  <2> QED BY <2>1, <2>2, <2>3, <2>4, <2>5, <2>6, <2>7, Zenon DEF Next
<1> QED BY <1>1, InitIInv, PTL DEF Spec

(* The variables keep their types.                                         *)
THEOREM TypeCorrect == Spec => []TypeOK
<1>1. IInv => TypeOK
  BY Zenon DEF IInv
<1> QED BY <1>1, Inductive, PTL

(* Exactly one handler call for every request, for any number of           *)
(* submitters, workers and requests, across expiry and Close.              *)
THEOREM AnsweredExactlyOnce == Spec => []ExactlyOnce
<1>1. IInv => ExactlyOnce
  <2> SUFFICES ASSUME IInv, NEW t \in Tasks
               PROVE  /\ calls[t] <= 1
                      /\ Pending(t) <=> (t \in submitted /\ calls[t] = 0)
    BY Zenon DEF ExactlyOnce
  <2>1. Pending(t) => t \in submitted /\ calls[t] = 0
    BY PoolAssumption, Zenon DEF IInv, OnePlace, Pending
  <2>2. t \in submitted /\ calls[t] = 0 => Pending(t)
    BY Zenon DEF IInv, Kept
  <2> QED BY <2>1, <2>2, Zenon DEF IInv, OnePlace
<1> QED BY <1>1, Inductive, PTL

(* No wake-up is lost: a parked Submit faces a full, open queue, and a     *)
(* queued request has a worker awake.                                      *)
THEOREM WakeUps == Spec => [](WaiterMeansFull /\ NoLostWakeup)
<1>1. IInv => WaiterMeansFull /\ NoLostWakeup
  BY Zenon DEF IInv
<1> QED BY <1>1, Inductive, PTL

(* The queue never holds more than queue_max requests.                     *)
THEOREM Bounded == Spec => []QueueBounded
<1>1. IInv => QueueBounded
  BY Zenon DEF IInv
<1> QED BY <1>1, Inductive, PTL

(* Close leaves nothing behind.                                            *)
THEOREM CloseLeavesNothing == Spec => []CloseDrains
<1>1. IInv => CloseDrains
  <2> SUFFICES ASSUME IInv, pc[Closer] = "done" PROVE CloseDrains
    BY Zenon DEF CloseDrains
  <2>1. q = {}
    BY PoolAssumption, Zenon DEF IInv, Shutdown
  <2>2. \A s \in Submitters : pc[s] # "wait"
    BY Zenon DEF IInv, Shutdown, WaiterMeansFull
  <2>3. \A t \in submitted : calls[t] = 0 =>
          \E s \in Submitters : cur[s] = t \/ t \in hand[s]
    BY <2>1, PoolAssumption DEF IInv, TypeOK, Control, Kept, Pending, Shutdown, Threads
  <2> QED BY <2>1, <2>2, <2>3, Zenon DEF CloseDrains
<1> QED BY <1>1, Inductive, PTL

(* After Close marked the pool closed nothing enters the queue.            *)
THEOREM NothingAfterClose == Spec => ClosedOnlyDrains
<1>1. [Next]_vars => [closed => q' \subseteq q]_vars
  <2> SUFFICES ASSUME Next, closed PROVE q' \subseteq q
    BY Zenon
  <2>1. ASSUME NEW s \in Submitters, SubmitStep(s) PROVE q' \subseteq q
    BY <2>1, Zenon DEF SubmitStep, SubmitCollect, SubmitLock, SubmitLoop, SubmitAnswer, GiveUp
  <2>2. ASSUME NEW w \in Workers, WorkerStep(w) PROVE q' \subseteq q
    BY <2>2, Zenon DEF WorkerStep, Pop, Evaluate
  <2> QED BY <2>1, <2>2, Zenon DEF Next, SubmitBegin, ReplyStep, ReplyDead, TimerStep,
             TimerElapse, TimerCallback, Sweep, SweepStop, CloseStop, CloseStep,
             CloseMark, CloseJoin, Tick
<1> QED BY <1>1, PTL DEF Spec, ClosedOnlyDrains

(* Workers take requests in the order in which they entered the queue.     *)
THEOREM InOrder == Spec => NoOvertaking
<1> DEFINE Kept1 == \A t, u \in q : order[t] < order[u] /\ t \in q' =>
                      \A w \in Workers : cur'[w] # u
<1>1. IInv /\ [Next]_vars => [Kept1]_vars
  <2> SUFFICES ASSUME IInv, Next,
                      NEW t \in q, NEW u \in q, order[t] < order[u], t \in q',
                      NEW w \in Workers
               PROVE  cur'[w] # u
    BY Zenon
  <2>1. cur[w] # u /\ t \in Tasks /\ u \in Tasks
    BY PoolAssumption, Zenon DEF IInv, TypeOK, OnePlace, Threads
  <2>2. ASSUME NEW v \in Workers, Pop(v) PROVE cur'[w] # u
    <3>1. CASE v = w
      <4>1. SUFFICES ASSUME cur'[w] = u PROVE FALSE
        BY Zenon
      <4>2. IsHead(u, q \ DeadTasks) /\ q' \subseteq q \ DeadTasks
        BY <2>1, <2>2, <3>1, <4>1, Zenon DEF Pop, IInv, TypeOK, Threads
      <4> QED BY <4>2, <2>1 DEF IsHead, IInv, TypeOK
    <3>2. CASE v # w
      BY <2>1, <2>2, <3>2, Zenon DEF Pop, IInv, TypeOK, Threads
    <3> QED BY <3>1, <3>2, Zenon
  <2>3. ASSUME NEW s \in Submitters, SubmitStep(s) PROVE cur'[w] = cur[w]
    BY <2>3, PoolAssumption, Zenon DEF SubmitStep, SubmitCollect, SubmitLock, SubmitLoop, SubmitAnswer,
       GiveUp, Park, Enqueue, IInv, TypeOK, Threads
  <2>4. ASSUME NEW v \in Workers, Evaluate(v) PROVE cur'[w] \in {cur[w], NoTask}
    BY <2>4, Zenon DEF Evaluate, IInv, TypeOK, Threads
  <2>5. ASSUME NEW s \in Submitters, NEW r \in Tasks, SubmitBegin(s, r) PROVE cur'[w] = cur[w]
    BY <2>5, PoolAssumption, Zenon DEF SubmitBegin, IInv, TypeOK, Threads
  <2> QED BY <2>1, <2>2, <2>3, <2>4, <2>5, PoolAssumption, Zenon DEF Next, WorkerStep, ReplyStep, ReplyDead,
             TimerStep, TimerElapse, TimerCallback, Sweep, SweepStop, CloseStop, CloseStep,
             CloseMark, CloseJoin, Tick
<1> QED BY <1>1, Inductive, PTL DEF Spec, NoOvertaking
-----------------------------------------------------------------------------
(* The counters.                                                           *)

(* A request that was not answered has no outcome.                         *)
Silent == \A t \in Tasks : calls[t] = 0 => outcome[t] = "none"

(* A task that has not been answered has no answer recorded, in every reachable state. *)
LEMMA SilentHolds == Spec => []Silent
<1>1. Init => Silent
  BY Zenon DEF Init, Silent
<1>2. IInv /\ Silent /\ [Next]_vars => Silent'
  <2> SUFFICES ASSUME IInv, Silent, [Next]_vars PROVE Silent'
    BY Zenon
  <2>1. ASSUME UNCHANGED <<calls, outcome>> PROVE Silent'
    BY <2>1, Zenon DEF Silent
  <2>2. ASSUME NEW t \in Tasks, NEW reason, Answer(t, reason) PROVE Silent'
    BY <2>2 DEF Silent, Answer, IInv, TypeOK
  <2>3. ASSUME NEW s \in Submitters, SubmitAnswer(s) PROVE cur[s] \in Tasks
    BY <2>3, Zenon DEF SubmitAnswer, IInv, TypeOK, Control, Threads
  <2>4. ASSUME NEW w \in Workers, Evaluate(w) PROVE cur[w] \in Tasks
    BY <2>4, Zenon DEF Evaluate, IInv, TypeOK, Control, Threads
  <2>5. ASSUME NEW s \in Submitters, SubmitStep(s) PROVE Silent'
    <3>1. UNCHANGED <<calls, outcome>> \/ SubmitAnswer(s)
      BY <2>5, Zenon DEF SubmitStep, SubmitCollect, SubmitLock, SubmitLoop, NoAnswer
    <3> QED BY <2>1, <2>2, <2>3, <3>1, Zenon DEF SubmitAnswer
  <2>6. ASSUME NEW w \in Workers, WorkerStep(w) PROVE Silent'
    BY <2>1, <2>2, <2>4, <2>6, Zenon DEF WorkerStep, Pop, Evaluate, NoAnswer
  <2>7. ASSUME NEW th \in Threads, ReplyStep(th) PROVE Silent'
    BY <2>2, <2>7, Zenon DEF ReplyStep, ReplyDead
  <2>8. CASE UNCHANGED vars
    BY <2>1, <2>8, Zenon DEF vars
  <2> QED BY <2>1, <2>5, <2>6, <2>7, <2>8, Zenon DEF Next, SubmitBegin, TimerStep, TimerElapse,
             TimerCallback, Sweep, SweepStop, CloseStop, CloseStep, CloseMark, CloseJoin,
             Tick, NoAnswer
<1> QED BY <1>1, <1>2, Inductive, PTL DEF Spec

(* What the counters rest on: a request still with its submitter has not   *)
(* been given an arrival number, and neither has one not submitted.        *)
Unnumbered ==
  /\ \A t \in Tasks : t \notin submitted => order[t] = 0
  /\ \A s \in Submitters : cur[s] # NoTask => order[cur[s]] = 0

Numbered == {t \in Tasks : order[t] > 0}
Got(reason) == {t \in Tasks : outcome[t] = reason}

CountInv == IInv /\ Silent /\ Unnumbered /\ CountersAgree

(* A handler call moves its request from unanswered to answered, once.     *)
LEMMA AnswerCounts ==
  ASSUME IInv, Silent, CountersAgree, NEW t \in Tasks, calls[t] = 0,
         NEW reason \in Outcomes \ {"none"}, Answer(t, reason)
  PROVE  shed' = Cardinality(Got("limit")') /\ expired' = Cardinality(Got("expired")')
<1>1. outcome \in [Tasks -> Outcomes] /\ outcome[t] = "none"
  BY Zenon DEF IInv, TypeOK, Silent
<1>2. outcome' = [outcome EXCEPT ![t] = reason]
  BY Zenon DEF Answer
<1>3. \A r \in {"limit", "expired"} :
        Got(r)' = IF reason = r THEN Got(r) \cup {t} ELSE Got(r)
  BY <1>1, <1>2, Zenon DEF Got
<1>4. \A r \in {"limit", "expired"} : Got(r) \in SUBSET Tasks /\ t \in Tasks \ Got(r)
  BY <1>1, Zenon DEF Got
<1>5. \A r \in {"limit", "expired"} : Cardinality(Got(r) \cup {t}) = Cardinality(Got(r)) + 1
  BY <1>4, LargerQueue, Zenon
<1>6. shed = Cardinality(Got("limit")) /\ expired = Cardinality(Got("expired"))
  BY Zenon DEF CountersAgree, Got
<1>7. /\ shed' = IF reason = "limit" THEN shed + 1 ELSE shed
      /\ expired' = IF reason = "expired" THEN expired + 1 ELSE expired
  BY Zenon DEF Answer
<1> QED BY ONLY <1>3, <1>5, <1>6, <1>7, Zenon

(* A request enters the queue once.                                        *)
LEMMA EnqueueCounts ==
  ASSUME IInv, Unnumbered, CountersAgree, NEW s \in Submitters, cur[s] # NoTask, Enqueue(s),
         submitted' = submitted
  PROVE  Unnumbered' /\ accepted' = Cardinality(Numbered')
<1>1. /\ cur[s] \in submitted /\ cur[s] \in Tasks /\ order[cur[s]] = 0 /\ accepted \in Nat
      /\ order \in [Tasks -> Nat] /\ submitted \subseteq Tasks
  BY Zenon DEF IInv, OnePlace, TypeOK, Unnumbered, Threads
<1>2. /\ order' = [order EXCEPT ![cur[s]] = accepted + 1]
      /\ cur' = [cur EXCEPT ![s] = NoTask] /\ accepted' = accepted + 1
  BY Zenon DEF Enqueue
<1>3. \A u \in Submitters : cur'[u] # NoTask => cur'[u] = cur[u] /\ cur[u] # cur[s]
  BY <1>2, Zenon DEF IInv, OnePlace, TypeOK, Threads
<1>4. \A u \in Submitters : cur[u] # NoTask => cur[u] \in Tasks
  BY Zenon DEF IInv, TypeOK, Threads
<1>5. Unnumbered'
  BY <1>1, <1>2, <1>3, <1>4, Zenon DEF Unnumbered
<1>6. Numbered' = Numbered \cup {cur[s]} /\ cur[s] \notin Numbered /\ Numbered \subseteq Tasks
  BY <1>1, <1>2 DEF Numbered
<1>7. Cardinality(Numbered \cup {cur[s]}) = Cardinality(Numbered) + 1
  BY <1>1, <1>6, LargerQueue, Zenon
<1> QED BY <1>2, <1>5, <1>6, <1>7, Zenon DEF CountersAgree, Numbered

(* Steps that answer nobody and let nobody into the queue count nothing.   *)
LEMMA NothingCounted ==
  ASSUME CountersAgree, UNCHANGED <<outcome, order, accepted, shed, expired>>
  PROVE  CountersAgree'
BY Zenon DEF CountersAgree

(* An answer that moves its counter by as much keeps the counters exact. *)
LEMMA AnswerKeepsCount ==
  ASSUME CountersAgree, shed' = Cardinality(Got("limit")'),
         expired' = Cardinality(Got("expired")'), UNCHANGED <<order, accepted>>
  PROVE  CountersAgree'
BY Zenon DEF CountersAgree, Got

(* Numbering a task and counting it accepted keeps the counters exact. *)
LEMMA EnqueueKeepsCount ==
  ASSUME CountersAgree, accepted' = Cardinality(Numbered'), NoAnswer
  PROVE  CountersAgree'
BY Zenon DEF CountersAgree, Numbered, NoAnswer

(* A step that numbers no task keeps the tasks in a caller's hand unnumbered. *)
LEMMA UnnumberedFrame ==
  ASSUME Unnumbered, UNCHANGED order, submitted \subseteq submitted',
         \A s \in Submitters : cur'[s] \in {cur[s], NoTask}
  PROVE  Unnumbered'
BY Zenon DEF Unnumbered

(* Every step of Submit keeps the counters exact. *)
LEMMA SubmitCounts ==
  ASSUME CountInv, NEW s \in Submitters, SubmitStep(s)
  PROVE  Unnumbered' /\ CountersAgree'
<1>1. CASE Enqueue(s) /\ submitted' = submitted /\ NoAnswer /\ pc[s] \in {"lock", "loop"}
  <2>1. cur[s] # NoTask
    BY <1>1, Zenon DEF CountInv, IInv, Control
  <2> QED BY <1>1, <2>1, EnqueueCounts, EnqueueKeepsCount, Zenon DEF CountInv
<1>2. CASE UNCHANGED <<order, cur, accepted, submitted>> /\ NoAnswer
  BY <1>2, NothingCounted, UnnumberedFrame, Zenon DEF CountInv, NoAnswer
<1>3. CASE SubmitAnswer(s)
  <2>1. cur[s] \in Tasks /\ calls[cur[s]] = 0
    BY <1>3, Zenon DEF SubmitAnswer, CountInv, IInv, TypeOK, Control, OnePlace, Threads
  <2>2. Answer(cur[s], IF pc[s] = "shed" THEN "limit" ELSE "expired")
    BY <1>3, Zenon DEF SubmitAnswer
  <2>3. (IF pc[s] = "shed" THEN "limit" ELSE "expired") \in Outcomes \ {"none"}
    BY Zenon DEF Outcomes
  <2>4. UNCHANGED <<order, accepted, submitted>> /\ cur' = [cur EXCEPT ![s] = NoTask]
    BY <1>3, Zenon DEF SubmitAnswer
  <2>5. \A u \in Submitters : cur'[u] \in {cur[u], NoTask}
    BY <2>4, Zenon DEF CountInv, IInv, TypeOK, Threads
  <2>6. CountersAgree'
    BY <2>1, <2>2, <2>3, <2>4, AnswerCounts, AnswerKeepsCount, Zenon DEF CountInv
  <2> QED BY <2>4, <2>5, <2>6, UnnumberedFrame, Zenon DEF CountInv
<1> QED BY <1>1, <1>2, <1>3, Zenon DEF SubmitStep, SubmitCollect, SubmitLock, SubmitLoop, GiveUp, Park

(* Every step of a worker keeps the counters exact. *)
LEMMA WorkerCounts ==
  ASSUME CountInv, NEW w \in Workers, WorkerStep(w)
  PROVE  Unnumbered' /\ CountersAgree'
<1>1. w \notin Submitters /\ Submitters \subseteq Threads
  BY PoolAssumption, Zenon DEF Threads
<1>2. \A u \in Submitters : cur'[u] = cur[u]
  BY <1>1, Zenon DEF WorkerStep, Pop, Evaluate, CountInv, IInv, TypeOK
<1>3. UNCHANGED <<order, submitted, accepted>>
  BY Zenon DEF WorkerStep, Pop, Evaluate
<1>4. Unnumbered'
  BY <1>2, <1>3, UnnumberedFrame, Zenon DEF CountInv
<1>5. CASE Pop(w)
  BY <1>3, <1>4, <1>5, NothingCounted, Zenon DEF CountInv, Pop, NoAnswer
<1>6. CASE Evaluate(w)
  <2>1. cur[w] \in Tasks /\ calls[cur[w]] = 0
    BY <1>6, Zenon DEF Evaluate, CountInv, IInv, TypeOK, Control, OnePlace, Threads
  <2>2. Answer(cur[w], IF Late(cur[w]) THEN "expired" ELSE "evaluated")
    BY <1>6, Zenon DEF Evaluate
  <2>3. (IF Late(cur[w]) THEN "expired" ELSE "evaluated") \in Outcomes \ {"none"}
    BY Zenon DEF Outcomes
  <2> QED BY <1>3, <1>4, <2>1, <2>2, <2>3, AnswerCounts, AnswerKeepsCount, Zenon DEF CountInv
<1> QED BY <1>5, <1>6, Zenon DEF WorkerStep

(* Shed, Expired and Accepted agree with the requests shed, expired and    *)
(* accepted, whoever answered them.                                        *)
THEOREM CountersRight == Spec => []CountersAgree
<1>1. Init => Unnumbered /\ CountersAgree
  <2> SUFFICES ASSUME Init PROVE Unnumbered /\ CountersAgree
    BY Zenon
  <2>1. {t \in Tasks : outcome[t] = "limit"} = {} /\ {t \in Tasks : outcome[t] = "expired"} = {}
    BY Zenon DEF Init
  <2>2. {t \in Tasks : order[t] > 0} = {}
    BY DEF Init
  <2>3. CountersAgree
    BY <2>1, <2>2, FS_EmptySet, Zenon DEF CountersAgree, Init
  <2>4. Unnumbered
    BY Zenon DEF Unnumbered, Init, Threads
  <2> QED BY <2>3, <2>4, Zenon
<1>2. CountInv /\ [Next]_vars => Unnumbered' /\ CountersAgree'
  <2> SUFFICES ASSUME CountInv, [Next]_vars PROVE Unnumbered' /\ CountersAgree'
    BY Zenon
  <2>1. ASSUME NEW s \in Submitters, NEW t \in Tasks, SubmitBegin(s, t)
        PROVE  Unnumbered' /\ CountersAgree'
    <3>1. order[t] = 0 /\ UNCHANGED <<order, accepted>> /\ submitted' = submitted \cup {t}
      BY <2>1, Zenon DEF SubmitBegin, CountInv, Unnumbered
    <3>2. \A u \in Submitters : cur'[u] \in {cur[u], t}
      BY <2>1, Zenon DEF SubmitBegin, CountInv, IInv, TypeOK, Threads
    <3>3. Unnumbered'
      BY <3>1, <3>2, Zenon DEF CountInv, Unnumbered
    <3> QED BY <2>1, <3>1, <3>3, NothingCounted, Zenon DEF SubmitBegin, NoAnswer, CountInv
  <2>2. ASSUME NEW th \in Threads, ReplyStep(th) PROVE Unnumbered' /\ CountersAgree'
    <3>1. PICK t \in Tasks : ReplyDead(th, t)
      BY <2>2, Zenon DEF ReplyStep
    <3>2. calls[t] = 0 /\ Answer(t, "expired") /\ UNCHANGED <<order, cur, submitted, accepted>>
      BY <3>1, Zenon DEF ReplyDead, CountInv, IInv, OnePlace
    <3>3. "expired" \in Outcomes \ {"none"}
      BY Zenon DEF Outcomes
    <3>4. CountersAgree'
      BY <3>2, <3>3, AnswerCounts, AnswerKeepsCount, Zenon DEF CountInv
    <3> QED BY <3>2, <3>4, UnnumberedFrame, Zenon DEF CountInv
  <2>3. ASSUME UNCHANGED <<order, cur, submitted, accepted>>, NoAnswer
        PROVE  Unnumbered' /\ CountersAgree'
    BY <2>3, NothingCounted, UnnumberedFrame, Zenon DEF NoAnswer, CountInv
  <2>4. CASE UNCHANGED vars
    BY <2>3, <2>4, Zenon DEF vars, NoAnswer
  <2> QED BY <2>1, <2>2, <2>3, <2>4, SubmitCounts, WorkerCounts, Zenon DEF Next, TimerStep,
             TimerElapse, TimerCallback, Sweep, SweepStop, CloseStop, CloseStep, CloseMark,
             CloseJoin, Tick
<1> QED BY <1>1, <1>2, Inductive, SilentHolds, PTL DEF Spec, CountInv
-----------------------------------------------------------------------------
(* Towards Responder: who has a request, and what a step does to it.       *)

Simulated == [Promise!Next]_(Promise!vars)

Others(th) == Threads \ {th}

(* What a goroutine has, and who has a request: now and after a step.      *)
LEMMA Places ==
  /\ \A th, t : t \in Has(th) <=> t \in hand[th] \/ (t = cur[th] /\ t # NoTask)
  /\ \A t : t \in InCall <=> \E s \in Submitters : t \in Has(s)
  /\ \A t : t \in InPool <=> t \in q \/ \E th \in Workers \cup {Sweeper} : t \in Has(th)
BY Zenon DEF InCall, InPool, Has

(* The definitions of who holds a task, read in the state after a step. *)
LEMMA PlacesAfter ==
  /\ \A th, t : t \in Has(th)' <=> t \in hand'[th] \/ (t = cur'[th] /\ t # NoTask)
  /\ \A t : t \in InCall' <=> \E s \in Submitters : t \in Has(s)'
  /\ \A t : t \in InPool' <=> t \in q' \/ \E th \in Workers \cup {Sweeper} : t \in Has(th)'
BY Zenon DEF InCall, InPool, Has

(* A request is in one place only.                                         *)
LEMMA Apart ==
  ASSUME IInv
  PROVE  /\ \A th \in Threads : Has(th) \subseteq Tasks /\ Has(th) \cap q = {}
         /\ \A th, u \in Threads : th # u => Has(th) \cap Has(u) = {}
         /\ InCall \cap InPool = {}
<1>1. \A th \in Threads : Has(th) \subseteq Tasks /\ Has(th) \cap q = {}
  BY Places DEF IInv, TypeOK, OnePlace
<1>2. \A th, u \in Threads : th # u => Has(th) \cap Has(u) = {}
  BY Places DEF IInv, OnePlace
<1>3. InCall \cap InPool = {}
  BY <1>1, <1>2, Places, PoolAssumption DEF Threads
<1> QED BY <1>1, <1>2, <1>3, Zenon

(* A submitter gets more; it loses some; no submitter is concerned.        *)
LEMMA CallerGains ==
  ASSUME NEW s \in Submitters, NEW S, Has(s)' = Has(s) \cup S,
         \A u \in Others(s) : Has(u)' = Has(u)
  PROVE  InCall' = InCall \cup S
BY Places, PlacesAfter DEF Others, Threads

(* When one caller gives tasks up, exactly those leave the tasks in a call. *)
LEMMA CallerLoses ==
  ASSUME IInv, NEW s \in Submitters, NEW S \in SUBSET Has(s), Has(s)' = Has(s) \ S,
         \A u \in Others(s) : Has(u)' = Has(u)
  PROVE  InCall' = InCall \ S
BY Places, PlacesAfter, Apart DEF Others, Threads

(* When no caller's tasks change, the tasks in a call do not. *)
LEMMA CallerSame ==
  ASSUME \A s \in Submitters : Has(s)' = Has(s)
  PROVE  InCall' = InCall
BY Places, PlacesAfter

(* A goroutine of the pool loses some; only the queue is concerned.        *)
LEMMA PoolLoses ==
  ASSUME IInv, NEW th \in Workers \cup {Sweeper}, NEW S \in SUBSET Has(th),
         Has(th)' = Has(th) \ S, \A u \in Others(th) : Has(u)' = Has(u), q' = q
  PROVE  InPool' = InPool \ S
BY Places, PlacesAfter, Apart DEF Others, Threads

(* Tasks that join the queue join the tasks in the pool. *)
LEMMA QueueGains ==
  ASSUME NEW S, q' = q \cup S, \A th \in Workers \cup {Sweeper} : Has(th)' = Has(th)
  PROVE  InPool' = InPool \cup S
<1>1. \A t : t \in InPool' <=> t \in InPool \/ t \in S
  BY ONLY Places, PlacesAfter, q' = q \cup S,
     \A th \in Workers \cup {Sweeper} : Has(th)' = Has(th)
<1> QED BY ONLY <1>1, Zenon

(* When neither queue nor workers nor sweeper change, the tasks in the pool do not. *)
LEMMA PoolSame ==
  ASSUME q' = q, \A th \in Workers \cup {Sweeper} : Has(th)' = Has(th)
  PROVE  InPool' = InPool
<1>1. \A t : t \in InPool' <=> t \in InPool
  BY ONLY Places, PlacesAfter, q' = q,
     \A th \in Workers \cup {Sweeper} : Has(th)' = Has(th)
<1> QED BY ONLY <1>1, Zenon

(* Tasks that leave the queue for no thread leave the tasks in the pool. *)
LEMMA QueueLoses ==
  ASSUME IInv, NEW S \in SUBSET q, q' = q \ S,
         \A th \in Workers \cup {Sweeper} : Has(th)' = Has(th)
  PROVE  InPool' = InPool \ S
BY Places, PlacesAfter, Apart DEF Threads

(* Nothing of Responder moves.                                             *)
LEMMA Frame ==
  ASSUME UNCHANGED <<q, cur, hand, outcome>>, Gate' = Gate
  PROVE  Simulated
<1>1. \A th : Has(th)' = Has(th)
  BY Zenon DEF Has
<1>2. InCall' = InCall /\ InPool' = InPool
  BY <1>1, CallerSame, PoolSame, Zenon
<1> QED BY <1>2, Zenon DEF Simulated, Promise!vars

(* The gate moves with the closer alone.                                   *)
LEMMA GateKept ==
  ASSUME closed' = closed, pc'[Closer] = pc[Closer]
  PROVE  Gate' = Gate
BY Zenon DEF Gate

(* A step of another goroutine leaves the closer where it is: the closer   *)
(* never waits for the condition variable.                                 *)
LEMMA CloserStays ==
  ASSUME IInv, NEW th \in Threads, th # Closer, NEW label, NEW woken \in SUBSET Waiting,
         Go(th, label, woken), closed' = closed
  PROVE  Gate' = Gate
<1>1. pc'[Closer] = pc[Closer]
  BY PoolAssumption, Zenon DEF IInv, Control, Go, Waiting, Threads
<1> QED BY <1>1, GateKept, Zenon

(* Submit is called.                                                       *)
LEMMA SubmitBeginSim ==
  ASSUME IInv, Silent, NEW s \in Submitters, NEW t \in Tasks, SubmitBegin(s, t)
  PROVE  Simulated
<1>1. Gate' = Gate
  BY CloserStays, PoolAssumption, Zenon DEF SubmitBegin, Threads
<1>2. t # NoTask /\ Has(s)' = Has(s) \cup {t} /\ \A u \in Others(s) : Has(u)' = Has(u)
  BY PoolAssumption, Zenon DEF SubmitBegin, IInv, TypeOK, Control, Has, Others, Threads
<1>3. InCall' = InCall \cup {t} /\ InPool' = InPool
  BY <1>2, CallerGains, PoolSame, PoolAssumption, Zenon DEF SubmitBegin, Others, Threads
<1>4. outcome' = outcome /\ outcome[t] = "none"
  BY DEF SubmitBegin, NoAnswer, IInv, TypeOK, OnePlace, Silent
<1>5. t \notin InCall \cup InPool
  BY <1>2, Places DEF SubmitBegin, IInv, OnePlace, Threads
<1>6. Promise!Submit(t)
  BY <1>1, <1>3, <1>4, <1>5, Zenon DEF Promise!Submit
<1> QED BY <1>6, Zenon DEF Simulated, Promise!Next

(* A submitter takes the expired requests of others out of the queue, at   *)
(* its start or when it is about to wait.                                  *)
LEMMA TakeSim ==
  ASSUME IInv, NEW s \in Submitters, hand[s] = {}, cur' = cur, outcome' = outcome,
         TakeExpired(s), q' = q \ DeadTasks, Gate' = Gate
  PROVE  Simulated
<1>1. DeadTasks \in SUBSET q /\ DeadTasks \in SUBSET Tasks
  BY Zenon DEF DeadTasks, IInv, TypeOK
<1>2. Has(s)' = Has(s) \cup DeadTasks /\ \A u \in Others(s) : Has(u)' = Has(u)
  BY Zenon DEF TakeExpired, IInv, TypeOK, Has, Others, Threads
<1>3. InCall' = InCall \cup DeadTasks
  BY <1>2, CallerGains, Zenon
<1>4. InPool' = InPool \ DeadTasks
  BY <1>1, <1>2, QueueLoses, PoolAssumption, Zenon DEF Others, Threads
<1>5. Promise!Leave(DeadTasks)
  BY <1>1, <1>3, <1>4, Places, Zenon DEF Promise!Leave
<1> QED BY <1>1, <1>5, Zenon DEF Simulated, Promise!Next

(* A submitter puts its request into the queue.                            *)
LEMMA EnqueueSim ==
  ASSUME IInv, NEW s \in Submitters, pc[s] # "idle", hand[s] = {}, ~closed,
         outcome' = outcome, Enqueue(s), closed' = closed
  PROVE  Simulated
<1> DEFINE t == cur[s]
<1>0. t \in Tasks /\ t # NoTask
  BY PoolAssumption, Zenon DEF IInv, TypeOK, Control, Threads
<1>1. Gate' = Gate /\ Gate = "open"
  <2>1. PICK woken \in SUBSET Waiting : Go(s, "idle", woken)
    BY Zenon DEF Enqueue, Signal
  <2> QED BY <2>1, CloserStays, PoolAssumption, Zenon DEF Threads, Gate
<1>2. /\ Has(s) = {t} /\ Has(s)' = Has(s) \ {t}
      /\ \A u \in Others(s) : Has(u)' = Has(u)
  BY <1>0, Zenon DEF Enqueue, IInv, TypeOK, Has, Others, Threads
<1>3. InCall' = InCall \ {t}
  BY <1>2, CallerLoses, Zenon
<1>4. InPool' = InPool \cup {t}
  BY <1>2, QueueGains, PoolAssumption, Zenon DEF Enqueue, Others, Threads
<1>5. Promise!Enter(t)
  BY <1>1, <1>2, <1>3, <1>4, Places, Zenon DEF Promise!Enter
<1> QED BY <1>0, <1>5, Zenon DEF Simulated, Promise!Next

(* An answer of a submitter, for its own request or an expired one.        *)
LEMMA CallerAnswerSim ==
  ASSUME IInv, NEW s \in Submitters, NEW t \in Has(s), NEW reason \in {"expired", "limit"},
         Answer(t, reason), Has(s)' = Has(s) \ {t},
         \A u \in Others(s) : Has(u)' = Has(u), q' = q, Gate' = Gate
  PROVE  Simulated
<1>1. t \in Tasks /\ t \in InCall /\ t \notin InPool
  BY Apart, Places, Zenon DEF Threads
<1>2. InCall' = InCall \ {t}
  <2>1. {t} \in SUBSET Has(s)
    BY Zenon
  <2> QED BY <2>1, CallerLoses, Zenon
<1>3. InPool' = InPool
  BY PoolSame, PoolAssumption, Zenon DEF Others, Threads
<1>4. InPool \ {t} = InPool
  BY <1>1, Zenon
<1>5. Promise!Answer(t, reason)
  BY <1>1, <1>2, <1>3, <1>4, Zenon DEF Promise!Answer, Promise!MayAnswer, Answer
<1> QED BY <1>1, <1>5, Zenon DEF Simulated, Promise!Next

(* An answer of a worker or of the sweeper.                                *)
LEMMA PoolAnswerSim ==
  ASSUME IInv, NEW th \in Workers \cup {Sweeper}, NEW t \in Has(th),
         NEW reason \in {"evaluated", "expired"},
         Answer(t, reason), Has(th)' = Has(th) \ {t},
         \A u \in Others(th) : Has(u)' = Has(u), q' = q, Gate' = Gate
  PROVE  Simulated
<1>1. t \in Tasks /\ t \in InPool /\ t \notin InCall
  BY Apart, Places DEF Threads
<1>2. InPool' = InPool \ {t}
  <2>1. {t} \in SUBSET Has(th)
    BY Zenon
  <2> QED BY <2>1, PoolLoses, Zenon
<1>3. InCall' = InCall
  BY CallerSame, PoolAssumption, Zenon DEF Others, Threads
<1>4. InCall \ {t} = InCall
  BY <1>1, Zenon
<1>5. Promise!Answer(t, reason)
  BY <1>1, <1>2, <1>3, <1>4, Zenon DEF Promise!Answer, Promise!MayAnswer, Answer
<1> QED BY <1>1, <1>5, Zenon DEF Simulated, Promise!Next

(* Submit answers its own request.                                         *)
LEMMA SubmitAnswerSim ==
  ASSUME IInv, NEW s \in Submitters, SubmitAnswer(s)
  PROVE  Simulated
<1> DEFINE t == cur[s]
           reason == IF pc[s] = "shed" THEN "limit" ELSE "expired"
<1>0. s \in Threads /\ s # Closer /\ t \in Tasks /\ t # NoTask
  BY PoolAssumption, Zenon DEF IInv, TypeOK, Control, Threads, SubmitAnswer
<1>1. Gate' = Gate
  BY <1>0, CloserStays DEF SubmitAnswer
<1>2. t \in Has(s) /\ Has(s)' = Has(s) \ {t} /\ \A u \in Others(s) : Has(u)' = Has(u)
  BY <1>0, Zenon DEF SubmitAnswer, IInv, TypeOK, Control, Has, Others, Threads
<1>3. Answer(t, reason) /\ q' = q
  BY Zenon DEF SubmitAnswer
<1>4. reason \in {"expired", "limit"}
  BY Zenon
<1> HIDE DEF t, reason
<1> QED BY <1>1, <1>2, <1>3, <1>4, CallerAnswerSim, Zenon

(* replyDead, by whoever took the requests out of the queue.               *)
LEMMA ReplyDeadSim ==
  ASSUME IInv, NEW th \in Threads, NEW t \in Tasks, ReplyDead(th, t)
  PROVE  Simulated
<1>1. Gate' = Gate
  BY GateKept, Zenon DEF ReplyDead
<1>2. t \in Has(th) /\ Has(th)' = Has(th) \ {t} /\ \A u \in Others(th) : Has(u)' = Has(u)
  BY PoolAssumption DEF ReplyDead, IInv, TypeOK, OnePlace, Has, Others, Threads
<1>3. Answer(t, "expired") /\ q' = q
  BY Zenon DEF ReplyDead
<1>4. CASE th \in Submitters
  BY <1>1, <1>2, <1>3, <1>4, CallerAnswerSim, Zenon
<1>5. CASE th \in Workers \cup {Sweeper}
  BY <1>1, <1>2, <1>3, <1>5, PoolAnswerSim, Zenon
<1>6. th # Closer
  BY Zenon DEF ReplyDead, IInv, Control
<1> QED BY <1>4, <1>5, <1>6, Zenon DEF Threads

(* Submit under the mutex: it enters, parks or gives up.                   *)
LEMMA SubmitLockSim ==
  ASSUME IInv, NEW s \in Submitters, SubmitLock(s) \/ SubmitLoop(s)
  PROVE  Simulated
<1>0. /\ pc[s] # "idle" /\ hand[s] = {} /\ outcome' = outcome /\ closed' = closed
      /\ s \in Threads /\ s # Closer
  BY PoolAssumption, Zenon DEF SubmitLock, SubmitLoop, NoAnswer, Threads
<1>1. CASE ~closed /\ Enqueue(s)
  BY <1>0, <1>1, EnqueueSim, Zenon
<1>2. ASSUME NEW label, GiveUp(s, label) PROVE Simulated
  <2>1. Gate' = Gate
    BY <1>0, <1>2, CloserStays, Zenon DEF GiveUp
  <2> QED BY <1>0, <1>2, <2>1, Frame, Zenon DEF GiveUp
<1>3. CASE Park(s)
  <2>1. \E label, woken : woken \in SUBSET Waiting /\ Go(s, label, woken)
    BY <1>3, Zenon DEF Park
  <2>2. Gate' = Gate
    BY <1>0, <2>1, CloserStays, Zenon
  <2> QED BY <1>0, <1>3, <2>2, TakeSim, Zenon DEF Park
<1> QED BY <1>1, <1>2, <1>3, Zenon DEF SubmitLock, SubmitLoop

(* Before it locks, Submit takes the expired requests out of the queue.    *)
LEMMA SubmitCollectSim ==
  ASSUME IInv, NEW s \in Submitters, SubmitCollect(s)
  PROVE  Simulated
<1>0. hand[s] = {} /\ s \in Threads /\ s # Closer
  BY PoolAssumption, Zenon DEF SubmitCollect, IInv, Control, Threads
<1>1. WokenBy(DeadTasks) \in SUBSET Waiting
  BY Zenon DEF WokenBy
<1>2. Gate' = Gate
  BY <1>0, <1>1, CloserStays, Zenon DEF SubmitCollect
<1> QED BY <1>0, <1>2, TakeSim, Zenon DEF SubmitCollect, NoAnswer

(* A worker or the sweeper takes requests out of the queue: they stay in   *)
(* the pool's keeping.                                                     *)
LEMMA WithinPool ==
  ASSUME IInv, NEW th \in Workers \cup {Sweeper}, NEW S \in SUBSET q,
         q' = q \ S, Has(th)' = Has(th) \cup S,
         \A u \in Others(th) : Has(u)' = Has(u), outcome' = outcome, Gate' = Gate
  PROVE  Simulated
<1>1. InCall' = InCall
  BY CallerSame, PoolAssumption, Zenon DEF Others, Threads
<1>2. InPool' = InPool
  <2>1. \A t : t \in InPool' <=> t \in InPool
    BY Places, PlacesAfter DEF Others, Threads
  <2> QED BY ONLY <2>1, Zenon
<1> QED BY <1>1, <1>2, Zenon DEF Simulated, Promise!vars

(* A worker's pop moves tasks within the pool: a stutter of the abstract responder. *)
LEMMA PopSim ==
  ASSUME IInv, NEW w \in Workers, Pop(w)
  PROVE  Simulated
<1>0. /\ w \in Threads /\ w # Closer /\ cur[w] = NoTask /\ hand[w] = {} /\ outcome' = outcome
      /\ closed' = closed /\ DeadTasks \subseteq q /\ q \subseteq Tasks /\ NoTask \notin Tasks
  BY PoolAssumption, Zenon DEF Pop, NoAnswer, IInv, TypeOK, Control, Threads, DeadTasks
<1>1. CASE \E t \in q \ DeadTasks : /\ q' = (q \ DeadTasks) \ {t}
                                   /\ cur' = [cur EXCEPT ![w] = t]
                                   /\ Go(w, "eval", Waiting)
  <2>1. PICK t \in q \ DeadTasks : /\ q' = (q \ DeadTasks) \ {t}
                                  /\ cur' = [cur EXCEPT ![w] = t]
                                  /\ Go(w, "eval", Waiting)
    BY <1>1, Zenon
  <2>2. Gate' = Gate
    BY <1>0, <2>1, CloserStays, Zenon
  <2> DEFINE S == DeadTasks \cup {t}
  <2>3. S \in SUBSET q /\ q' = q \ S
    BY <1>0, <2>1, Zenon
  <2>4. Has(w)' = Has(w) \cup S /\ \A u \in Others(w) : Has(u)' = Has(u)
    BY <1>0, <2>1, Zenon DEF Pop, TakeExpired, IInv, TypeOK, Has, Others
  <2> HIDE DEF S
  <2> QED BY <1>0, <2>2, <2>3, <2>4, WithinPool, Zenon
<1>2. CASE \E label, woken : /\ q' = q \ DeadTasks /\ cur' = cur
                             /\ woken \in SUBSET Waiting /\ Go(w, label, woken)
  <2>1. Gate' = Gate
    BY <1>0, <1>2, CloserStays, Zenon
  <2>2. Has(w)' = Has(w) \cup DeadTasks /\ \A u \in Others(w) : Has(u)' = Has(u)
    BY <1>0, <1>2, Zenon DEF Pop, TakeExpired, IInv, TypeOK, Has, Others
  <2> QED BY <1>0, <1>2, <2>1, <2>2, WithinPool, Zenon
<1>3. \A label : Go(w, label, WokenBy(DeadTasks)) =>
        \E woken : woken \in SUBSET Waiting /\ Go(w, label, woken)
  <2>1. WokenBy(DeadTasks) \in SUBSET Waiting
    BY Zenon DEF WokenBy
  <2> QED BY <2>1, Zenon
<1> QED BY <1>1, <1>2, <1>3, <1>0, Zenon DEF Pop

(* A worker's evaluation is an abstract answer. *)
LEMMA EvaluateSim ==
  ASSUME IInv, NEW w \in Workers, Evaluate(w)
  PROVE  Simulated
<1> DEFINE t == cur[w]
           reason == IF Late(t) THEN "expired" ELSE "evaluated"
<1>0. w \in Threads /\ w # Closer /\ t \in Tasks /\ t # NoTask
  <2>1. pc[w] = "eval" /\ cur \in [Threads -> Tasks \cup {NoTask}]
    BY Zenon DEF Evaluate, IInv, TypeOK
  <2>2. cur[w] # NoTask
    BY <2>1, Zenon DEF IInv, Control
  <2>3. w \in Threads /\ w # Closer
    BY PoolAssumption, Zenon DEF Threads
  <2> QED BY ONLY <2>1, <2>2, <2>3, Zenon
<1>1. Gate' = Gate
  BY <1>0, CloserStays, Zenon DEF Evaluate
<1>2. t \in Has(w) /\ Has(w)' = Has(w) \ {t} /\ \A u \in Others(w) : Has(u)' = Has(u)
  BY <1>0, Zenon DEF Evaluate, IInv, TypeOK, Has, Others, Threads
<1>3. Answer(t, reason) /\ q' = q
  BY Zenon DEF Evaluate
<1>4. reason \in {"evaluated", "expired"}
  BY Zenon
<1> HIDE DEF t, reason
<1> QED BY <1>1, <1>2, <1>3, <1>4, PoolAnswerSim, Zenon

(* The sweeper's pass moves late tasks within the pool: a stutter of the abstract responder. *)
LEMMA SweepSim ==
  ASSUME IInv, Sweep
  PROVE  Simulated
<1>0. Sweeper \in Threads /\ Sweeper # Closer /\ DeadTasks \in SUBSET q
  BY PoolAssumption, Zenon DEF Threads, DeadTasks
<1>1. WokenBy(DeadTasks) \in SUBSET Waiting
  BY Zenon DEF WokenBy
<1>2. Gate' = Gate
  BY <1>0, <1>1, CloserStays, Zenon DEF Sweep
<1>3. /\ Has(Sweeper)' = Has(Sweeper) \cup DeadTasks
      /\ \A u \in Others(Sweeper) : Has(u)' = Has(u)
  BY <1>0, Zenon DEF Sweep, TakeExpired, IInv, TypeOK, Has, Others
<1> QED BY <1>0, <1>2, <1>3, WithinPool, Zenon DEF Sweep, NoAnswer

(* Close marks the pool, waits for its goroutines and returns.             *)
LEMMA CloseSim ==
  ASSUME IInv, CloseStop \/ CloseMark \/ CloseJoin
  PROVE  Simulated
<1>0. /\ Closer \in Threads /\ UNCHANGED <<q, cur, hand, outcome>>
      /\ (\A th : Has(th)' = Has(th)) /\ pc \in [Threads -> Labels]
  BY Zenon DEF CloseStop, CloseMark, CloseJoin, NoAnswer, Has, Threads, IInv, TypeOK
<1>1. InCall' = InCall /\ InPool' = InPool
  BY <1>0, CallerSame, PoolSame, Zenon
<1>2. CASE CloseStop
  <2>1. Gate' = Gate
    BY <1>0, <1>2, Zenon DEF CloseStop, Go, Gate, IInv, Shutdown
  <2> QED BY <1>0, <2>1, Frame, SMTT(20)
<1>3. CASE CloseMark
  <2>1. Gate = "open" /\ Gate' = "closing"
    BY <1>0, <1>3, Zenon DEF CloseMark, Go, Gate, IInv, Shutdown
  <2> QED BY <1>0, <1>1, <2>1, Zenon DEF Promise!Close, Promise!Next, Simulated
<1>4. CASE CloseJoin
  <2>1. Gate = "closing" /\ Gate' = "closed"
    BY <1>0, <1>4, Zenon DEF CloseJoin, Go, Gate, IInv, Shutdown
  <2>2. q = {} /\ \A th \in Workers \cup {Sweeper} : hand[th] = {} /\ cur[th] = NoTask
    BY <1>4, PoolAssumption, Zenon DEF CloseJoin, IInv, Shutdown, Control
  <2>3. InPool = {}
    BY <2>2, Places
  <2> QED BY <1>0, <1>1, <2>1, <2>3, Zenon DEF Promise!Closed, Promise!Next, Simulated
<1> QED BY <1>2, <1>3, <1>4, Zenon

(* Steps that only concern clocks, timers and the end of the sweeper.      *)
LEMMA QuietSim ==
  ASSUME IInv, SweepStop \/ Tick \/ \E t \in Tasks : TimerStep(t)
  PROVE  Simulated
<1>1. UNCHANGED <<q, cur, hand, outcome, closed>>
  BY Zenon DEF SweepStop, Tick, TimerStep, TimerElapse, TimerCallback, NoAnswer
<1>2. pc'[Closer] = pc[Closer]
  BY PoolAssumption, Zenon DEF SweepStop, Tick, TimerStep, TimerElapse, TimerCallback, Go, Waiting,
     IInv, Control, Threads
<1> QED BY <1>1, <1>2, GateKept, Frame, Zenon

(* The pool implements Responder: each request handed to Submit is         *)
(* answered once, by the pool or by a submitter as the reason says, Close  *)
(* shuts the queue at once and returns only when nothing is in it or with  *)
(* a worker or the sweeper.                                                *)
THEOREM PoolImplementsResponder == Spec => ImplementsResponder
<1>1. Init => Promise!Init
  <2> SUFFICES ASSUME Init PROVE Promise!Init
    BY Zenon
  <2>1. \A th \in Threads : Has(th) = {}
    BY Zenon DEF Init, Has
  <2>2. InCall = {} /\ InPool = {}
    BY <2>1, Places, Zenon DEF Init, Threads
  <2> QED BY <2>2, Zenon DEF Init, Gate, Promise!Init
<1>2. IInv /\ Silent /\ [Next]_vars => [Promise!Next]_(Promise!vars)
  <2> SUFFICES ASSUME IInv, Silent, [Next]_vars PROVE Simulated
    BY Zenon DEF Simulated
  <2>1. ASSUME NEW s \in Submitters, NEW t \in Tasks, SubmitBegin(s, t) PROVE Simulated
    BY <2>1, SubmitBeginSim, Zenon
  <2>2. ASSUME NEW s \in Submitters, SubmitStep(s) PROVE Simulated
    BY <2>2, SubmitCollectSim, SubmitLockSim, SubmitAnswerSim, Zenon DEF SubmitStep
  <2>3. ASSUME NEW w \in Workers, WorkerStep(w) PROVE Simulated
    BY <2>3, PopSim, EvaluateSim, Zenon DEF WorkerStep
  <2>4. ASSUME NEW th \in Threads, ReplyStep(th) PROVE Simulated
    BY <2>4, ReplyDeadSim, Zenon DEF ReplyStep
  <2>5. CASE UNCHANGED vars
    <3>1. Gate' = Gate
      BY <2>5, Zenon DEF vars, Gate
    <3> QED BY <2>5, <3>1, Frame, Zenon DEF vars
  <2> QED BY <2>1, <2>2, <2>3, <2>4, <2>5, SweepSim, CloseSim, QuietSim, Zenon DEF Next, CloseStep
<1> QED BY <1>1, <1>2, Inductive, SilentHolds, PTL DEF Spec, ImplementsResponder, Promise!Spec
=============================================================================
