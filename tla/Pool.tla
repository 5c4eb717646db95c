-------------------------------- MODULE Pool --------------------------------
(***************************************************************************)
(* The bounded worker pool of internal/queue/queue.go: submitters hand in  *)
(* requests, workers pop and evaluate them, a sweeper answers the ones     *)
(* whose deadline passed in the queue, and Close drains everything.  All   *)
(* of them share one mutex and ONE condition variable.                     *)
(*                                                                         *)
(* One action is one region of code between two acquisitions of the mutex, *)
(* or one call of the handler outside it.  A thread blocked in cond.Wait   *)
(* has pc "wait".  Time is the age of each request since Submit stamped    *)
(* it; Tick advances all ages together, up to MaxAge.  The slice p.q is    *)
(* the set q of queued tasks ordered by their arrival number: the code     *)
(* only appends at the tail, takes the head, and filters in order.         *)
(***************************************************************************)
EXTENDS Integers, FiniteSets

CONSTANTS
  Tasks,       \* requests; each is submitted at most once
  Submitters,  \* goroutines that call Submit (the subscription callback)
  Workers,     \* goroutines running work()
  Sweeper,     \* the goroutine running sweep()
  Closer,      \* the goroutine that calls Close
  NoTask,
  Depth,       \* queue_max
  Deadline,    \* Deadline[t]: deadline_ms of the request
  Reserve,     \* reserve_ms
  MinBudget,   \* min_budget_ms
  MaxAge       \* bound on the age Tick counts up to

Threads == Submitters \cup Workers \cup {Sweeper, Closer}

ASSUME PoolAssumption ==
  /\ IsFiniteSet(Tasks) /\ NoTask \notin Tasks
  /\ Workers # {}
  /\ Submitters \cap Workers = {}
  /\ Sweeper \notin Submitters \cup Workers
  /\ Closer \notin Submitters \cup Workers \cup {Sweeper}
  /\ Depth \in Nat \ {0}
  /\ Deadline \in [Tasks -> Nat]
  /\ Reserve \in Nat /\ MinBudget \in Nat /\ MaxAge \in Nat

VARIABLES
  full,       \* p.full: queue_full, "drop" or "wait"
  q,          \* the queued tasks
  order,      \* order[t]: arrival number of t in the queue, 0 before
  closed,     \* p.closed
  stopped,    \* p.stop is closed
  pc,         \* where each thread is
  cur,        \* the task a thread is submitting or evaluating
  hand,       \* tasks taken out of the queue as expired, still to be answered
  age,        \* time since t.enqueued
  submitted,  \* tasks Submit was called with
  timer,      \* the AfterFunc timer of a waiting Submit
  timedOut,   \* tasks whose timedOut flag is set
  calls,      \* calls[t]: handler calls made for t
  outcome,    \* the reason of the last handler call for t
  accepted, shed, expired   \* the counters

vars == <<full, q, order, closed, stopped, pc, cur, hand, age, submitted, timer,
          timedOut, calls, outcome, accepted, shed, expired>>

Labels == {"idle", "collect", "lock", "loop", "wait", "expire", "shed",
           "pop", "eval", "sweep", "open", "closing", "joining", "done"}
TimerStates == {"off", "armed", "firing"}
Outcomes == {"none", "evaluated", "expired", "limit"}

(* Types of the variables: the fields of Pool and of its tasks, timers and *)
(* goroutines.                                                             *)
TypeOK ==
  /\ full \in {"drop", "wait"}
  /\ q \subseteq Tasks
  /\ order \in [Tasks -> Nat]
  /\ closed \in BOOLEAN /\ stopped \in BOOLEAN
  /\ pc \in [Threads -> Labels]
  /\ cur \in [Threads -> Tasks \cup {NoTask}]
  /\ hand \in [Threads -> SUBSET Tasks]
  /\ age \in [Tasks -> Nat]
  /\ submitted \subseteq Tasks
  /\ timer \in [Tasks -> TimerStates]
  /\ timedOut \subseteq Tasks
  /\ calls \in [Tasks -> Nat]
  /\ outcome \in [Tasks -> Outcomes]
  /\ accepted \in Nat /\ shed \in Nat /\ expired \in Nat

Init ==
  /\ full \in {"drop", "wait"}
  /\ q = {} /\ order = [t \in Tasks |-> 0]
  /\ closed = FALSE /\ stopped = FALSE
  /\ pc = [th \in Threads |-> CASE th \in Submitters -> "idle"
                                [] th \in Workers -> "pop"
                                [] th = Sweeper -> "sweep"
                                [] OTHER -> "open"]
  /\ cur = [th \in Threads |-> NoTask]
  /\ hand = [th \in Threads |-> {}]
  /\ age = [t \in Tasks |-> 0]
  /\ submitted = {}
  /\ timer = [t \in Tasks |-> "off"] /\ timedOut = {}
  /\ calls = [t \in Tasks |-> 0]
  /\ outcome = [t \in Tasks |-> "none"]
  /\ accepted = 0 /\ shed = 0 /\ expired = 0
-----------------------------------------------------------------------------
(* Budget, expiry, fill.                                                   *)

Left(t) == Deadline[t] - age[t] - Reserve

Late(t) == Left(t) < MinBudget

DeadTasks == {t \in q : Late(t)}

(* Variant of Full: one request too many.                                  *)
FullLate(S) == Cardinality(S) > Depth

Full(S) == Cardinality(S) >= Depth

(* Variant of IsHead: any request may be taken.                            *)
AnyMember(t, S) == t \in S

(* What a thread finds at the head of the slice S.                         *)
IsHead(t, S) == t \in S /\ \A u \in S : order[t] <= order[u]

(* The condition variable.  Signal wakes one waiter, if there is one;      *)
(* Broadcast wakes all.  A woken thread goes back to the test of its loop. *)
Waiting == {th \in Threads : pc[th] = "wait"}

Resume(th) == IF th \in Workers THEN "pop" ELSE "loop"

Go(th, label, woken) ==
  pc' = [u \in Threads |-> IF u = th THEN label
                           ELSE IF u \in woken THEN Resume(u) ELSE pc[u]]

(* Variant of Signal: nobody is woken.                                     *)
SignalNobody(th, label) == Go(th, label, {})

Signal(th, label) ==
  \/ Waiting = {} /\ Go(th, label, {})
  \/ \E u \in Waiting : Go(th, label, {u})

(* takeExpiredLocked: the expired tasks leave the queue into the hand of   *)
(* the calling thread, which answers them after it unlocks.                *)
TakeExpired(th) == hand' = [hand EXCEPT ![th] = DeadTasks]

WokenBy(dead) == IF dead = {} THEN {} ELSE Waiting

(* Variant of Answer: sheds are not counted.                               *)
AnswerShedUncounted(t, reason) ==
  /\ calls' = [calls EXCEPT ![t] = @ + 1]
  /\ outcome' = [outcome EXCEPT ![t] = reason]
  /\ expired' = IF reason = "expired" THEN expired + 1 ELSE expired
  /\ UNCHANGED shed

(* A handler call: every reply of the pool goes through one of these.      *)
Answer(t, reason) ==
  /\ calls' = [calls EXCEPT ![t] = @ + 1]
  /\ outcome' = [outcome EXCEPT ![t] = reason]
  /\ expired' = IF reason = "expired" THEN expired + 1 ELSE expired
  /\ shed' = IF reason = "limit" THEN shed + 1 ELSE shed

NoAnswer == UNCHANGED <<calls, outcome, expired, shed>>
-----------------------------------------------------------------------------
(* Submit.                                                                 *)

SubmitBegin(s, t) ==
  /\ pc[s] = "idle" /\ t \notin submitted
  /\ submitted' = submitted \cup {t}
  /\ cur' = [cur EXCEPT ![s] = t]
  /\ Go(s, IF Late(t) THEN "expire" ELSE "collect", {})
  /\ UNCHANGED <<full, q, order, closed, stopped, hand, age, timer, timedOut, accepted>>
  /\ NoAnswer

(* p.replyDead(p.collectExpired()), on behalf of others, before it locks.  *)
SubmitCollect(s) ==
  /\ pc[s] = "collect"
  /\ TakeExpired(s)
  /\ q' = q \ DeadTasks
  /\ Go(s, "lock", WokenBy(DeadTasks))
  /\ UNCHANGED <<full, order, closed, stopped, cur, age, submitted, timer, timedOut, accepted>>
  /\ NoAnswer

(* enqueueLocked: append, count, Signal.                                   *)
Enqueue(s) ==
  /\ q' = q \cup {cur[s]}
  /\ accepted' = accepted + 1
  /\ order' = [order EXCEPT ![cur[s]] = accepted + 1]
  /\ cur' = [cur EXCEPT ![s] = NoTask]
  /\ Signal(s, "idle")
  /\ UNCHANGED hand

(* One turn of the loop in submitWaitLocked with its test true: answer     *)
(* expired tasks and test again, or wait.                                  *)
Park(s) ==
  /\ TakeExpired(s)
  /\ q' = q \ DeadTasks
  /\ IF DeadTasks = {} THEN Go(s, "wait", {}) ELSE Go(s, "loop", Waiting)
  /\ UNCHANGED <<order, cur, accepted>>

GiveUp(s, label) == Go(s, label, {}) /\ UNCHANGED <<q, order, cur, hand, accepted>>

SubmitLock(s) ==
  /\ pc[s] = "lock" /\ hand[s] = {}
  /\ \/ closed /\ GiveUp(s, "expire") /\ UNCHANGED timer
     \/ ~closed /\ ~Full(q) /\ Enqueue(s) /\ UNCHANGED timer
     \/ /\ ~closed /\ Full(q) /\ full = "drop"
        /\ GiveUp(s, "shed") /\ UNCHANGED timer
     \/ /\ ~closed /\ Full(q) /\ full = "wait" /\ Late(cur[s])
        /\ GiveUp(s, "expire") /\ UNCHANGED timer
     \/ /\ ~closed /\ Full(q) /\ full = "wait" /\ ~Late(cur[s])
        /\ timer' = [timer EXCEPT ![cur[s]] = "armed"]
        /\ Park(s)
  /\ UNCHANGED <<full, closed, stopped, age, submitted, timedOut>>
  /\ NoAnswer

(* Stop() turns off an armed timer; a callback already started still runs. *)
StopTimer(t) ==
  timer' = [timer EXCEPT ![t] = IF @ = "armed" THEN "off" ELSE @]

(* Variant of SubmitLoop: a parked request may still enter a closed queue. *)
SubmitLoopLate(s) ==
  /\ pc[s] = "loop" /\ hand[s] = {}
  /\ \/ ~Full(q) /\ StopTimer(cur[s]) /\ Enqueue(s)
     \/ Full(q) /\ cur[s] \in timedOut /\ StopTimer(cur[s]) /\ GiveUp(s, "expire")
     \/ Full(q) /\ cur[s] \notin timedOut /\ Park(s) /\ UNCHANGED timer
  /\ UNCHANGED <<full, closed, stopped, age, submitted, timedOut>>
  /\ NoAnswer

SubmitLoop(s) ==
  /\ pc[s] = "loop" /\ hand[s] = {}
  /\ \/ closed /\ StopTimer(cur[s]) /\ GiveUp(s, "expire")
     \/ ~closed /\ ~Full(q) /\ StopTimer(cur[s]) /\ Enqueue(s)
     \/ /\ ~closed /\ Full(q) /\ cur[s] \in timedOut
        /\ StopTimer(cur[s]) /\ GiveUp(s, "expire")
     \/ /\ ~closed /\ Full(q) /\ cur[s] \notin timedOut
        /\ Park(s) /\ UNCHANGED timer
  /\ UNCHANGED <<full, closed, stopped, age, submitted, timedOut>>
  /\ NoAnswer

SubmitAnswer(s) ==
  /\ pc[s] \in {"expire", "shed"}
  /\ Answer(cur[s], IF pc[s] = "shed" THEN "limit" ELSE "expired")
  /\ cur' = [cur EXCEPT ![s] = NoTask]
  /\ Go(s, "idle", {})
  /\ UNCHANGED <<full, q, order, closed, stopped, hand, age, submitted, timer, timedOut, accepted>>

(* The AfterFunc timer: it elapses, and its callback takes the mutex.      *)
TimerElapse(t) ==
  /\ timer[t] = "armed" /\ Left(t) <= 0
  /\ timer' = [timer EXCEPT ![t] = "firing"]
  /\ UNCHANGED <<full, q, order, closed, stopped, pc, cur, hand, age, submitted, timedOut, accepted>>
  /\ NoAnswer

TimerCallback(t) ==
  /\ timer[t] = "firing"
  /\ timer' = [timer EXCEPT ![t] = "off"]
  /\ timedOut' = timedOut \cup {t}
  /\ pc' = [u \in Threads |-> IF u \in Waiting THEN Resume(u) ELSE pc[u]]
  /\ UNCHANGED <<full, q, order, closed, stopped, cur, hand, age, submitted, accepted>>
  /\ NoAnswer
-----------------------------------------------------------------------------
(* work, pop, budget.                                                      *)

(* Variant of ReplyDead: an answered request stays in hand.                *)
ReplyDeadAgain(th, t) ==
  /\ t \in hand[th] /\ calls[t] < 2
  /\ Answer(t, "expired")
  /\ UNCHANGED <<full, q, order, closed, stopped, pc, cur, hand, age, submitted, timer, timedOut, accepted>>

(* replyDead: expire() for each task taken out of the queue, in turn.      *)
ReplyDead(th, t) ==
  /\ t \in hand[th]
  /\ hand' = [hand EXCEPT ![th] = @ \ {t}]
  /\ Answer(t, "expired")
  /\ UNCHANGED <<full, q, order, closed, stopped, pc, cur, age, submitted, timer, timedOut, accepted>>

Pop(w) ==
  /\ pc[w] = "pop" /\ hand[w] = {}
  /\ LET live == q \ DeadTasks IN
     /\ TakeExpired(w)
     /\ \/ \E t \in live :
             /\ IsHead(t, live)
             /\ q' = live \ {t}
             /\ cur' = [cur EXCEPT ![w] = t]
             /\ Go(w, "eval", Waiting)
        \/ /\ live = {}
           /\ q' = live
           /\ Go(w, IF closed THEN "done" ELSE IF DeadTasks # {} THEN "pop" ELSE "wait",
                 WokenBy(DeadTasks))
           /\ UNCHANGED cur
  /\ UNCHANGED <<full, order, closed, stopped, age, submitted, timer, timedOut, accepted>>
  /\ NoAnswer

(* budget() looks at the clock once more, after the pop, then the handler. *)
Evaluate(w) ==
  /\ pc[w] = "eval" /\ hand[w] = {}
  /\ Answer(cur[w], IF Late(cur[w]) THEN "expired" ELSE "evaluated")
  /\ cur' = [cur EXCEPT ![w] = NoTask]
  /\ Go(w, "pop", {})
  /\ UNCHANGED <<full, q, order, closed, stopped, hand, age, submitted, timer, timedOut, accepted>>
-----------------------------------------------------------------------------
(* sweep: the select picks the tick or, once Close began, the stop.        *)

Sweep ==
  /\ pc[Sweeper] = "sweep" /\ hand[Sweeper] = {}
  /\ TakeExpired(Sweeper)
  /\ q' = q \ DeadTasks
  /\ Go(Sweeper, "sweep", WokenBy(DeadTasks))
  /\ UNCHANGED <<full, order, closed, stopped, cur, age, submitted, timer, timedOut, accepted>>
  /\ NoAnswer

SweepStop ==
  /\ pc[Sweeper] = "sweep" /\ hand[Sweeper] = {} /\ stopped
  /\ Go(Sweeper, "done", {})
  /\ UNCHANGED <<full, q, order, closed, stopped, cur, hand, age, submitted, timer, timedOut, accepted>>
  /\ NoAnswer

(* Close: close(stop); closed under the mutex with a Broadcast; wg.Wait(). *)
CloseStop ==
  /\ pc[Closer] = "open"
  /\ stopped' = TRUE
  /\ Go(Closer, "closing", {})
  /\ UNCHANGED <<full, q, order, closed, cur, hand, age, submitted, timer, timedOut, accepted>>
  /\ NoAnswer

(* Variant of CloseMark: no Broadcast.                                     *)
CloseMarkQuiet ==
  /\ pc[Closer] = "closing"
  /\ closed' = TRUE
  /\ Go(Closer, "joining", {})
  /\ UNCHANGED <<full, q, order, stopped, cur, hand, age, submitted, timer, timedOut, accepted>>
  /\ NoAnswer

CloseMark ==
  /\ pc[Closer] = "closing"
  /\ closed' = TRUE
  /\ Go(Closer, "joining", Waiting)
  /\ UNCHANGED <<full, q, order, stopped, cur, hand, age, submitted, timer, timedOut, accepted>>
  /\ NoAnswer

CloseJoin ==
  /\ pc[Closer] = "joining"
  /\ \A th \in Workers \cup {Sweeper} : pc[th] = "done" /\ hand[th] = {}
  /\ Go(Closer, "done", {})
  /\ UNCHANGED <<full, q, order, closed, stopped, cur, hand, age, submitted, timer, timedOut, accepted>>
  /\ NoAnswer

(* Time passes for every request that is not answered yet.                 *)
Tick ==
  /\ \E t \in submitted : calls[t] = 0 /\ age[t] < MaxAge
  /\ age' = [t \in Tasks |-> IF t \in submitted /\ calls[t] = 0 /\ age[t] < MaxAge
                             THEN age[t] + 1 ELSE age[t]]
  /\ UNCHANGED <<full, q, order, closed, stopped, pc, cur, hand, submitted, timer, timedOut, accepted>>
  /\ NoAnswer
-----------------------------------------------------------------------------
SubmitStep(s) == SubmitCollect(s) \/ SubmitLock(s) \/ SubmitLoop(s) \/ SubmitAnswer(s)
WorkerStep(w) == Pop(w) \/ Evaluate(w)
TimerStep(t) == TimerElapse(t) \/ TimerCallback(t)
CloseStep == CloseMark \/ CloseJoin
ReplyStep(th) == \E t \in Tasks : ReplyDead(th, t)

Next ==
  \/ \E s \in Submitters, t \in Tasks : SubmitBegin(s, t)
  \/ \E s \in Submitters : SubmitStep(s)
  \/ \E w \in Workers : WorkerStep(w)
  \/ \E th \in Threads : ReplyStep(th)
  \/ \E t \in Tasks : TimerStep(t)
  \/ Sweep \/ SweepStop
  \/ CloseStop \/ CloseStep
  \/ Tick

Spec == Init /\ [][Next]_vars

(* Goroutines that can run do run.  Nobody is obliged to call Submit or    *)
(* Close, the sweeper need not tick and time need not pass: the workers    *)
(* alone must get every request answered.                                  *)
FairSpec ==
  /\ Spec
  /\ \A s \in Submitters : WF_vars(SubmitStep(s))
  /\ \A w \in Workers : WF_vars(WorkerStep(w))
  /\ \A th \in Threads : WF_vars(ReplyStep(th))
  /\ \A t \in Tasks : WF_vars(TimerStep(t))
  /\ WF_vars(SweepStop) /\ WF_vars(CloseStep)
-----------------------------------------------------------------------------
(* Properties.                                                             *)

Pending(t) ==
  t \in q \/ \E th \in Threads : t \in hand[th] \/ cur[th] = t

(* Every request handed to Submit gets exactly one handler call, whichever *)
(* of submitter, worker, sweeper or Close gets to it: no task is answered  *)
(* twice, and one that is not answered yet is still in the queue or in the *)
(* hands of some goroutine (Submit, takeExpiredLocked, pop, Close).        *)
ExactlyOnce ==
  \A t \in Tasks :
    /\ calls[t] <= 1
    /\ Pending(t) <=> (t \in submitted /\ calls[t] = 0)

(* A Submit is parked in cond.Wait only while the queue is full and open:  *)
(* every region that makes room or closes broadcasts.  This is what makes  *)
(* the single Signal of enqueueLocked safe although submitters and workers *)
(* share one condition variable.                                           *)
WaiterMeansFull ==
  \A s \in Submitters : pc[s] = "wait" => Full(q) /\ ~closed

(* While a request is queued some worker is awake: Signal is never lost or *)
(* swallowed by a goroutine that cannot use it (enqueueLocked, pop).       *)
NoLostWakeup ==
  q # {} => \E w \in Workers : pc[w] \in {"pop", "eval"}

(* queue_max bounds the requests waiting for evaluation, those in progress *)
(* not counted, although expired ones leave it from three places and a     *)
(* parked Submit enters it late (Submit, submitWaitLocked).                *)
QueueBounded == Cardinality(q) <= Depth

(* When Close has returned, nothing is left behind: the queue is empty, no *)
(* Submit is parked, and an unanswered request is in the hands of its own  *)
(* submitter, which is about to answer it (Close, pop).                    *)
CloseDrains ==
  pc[Closer] = "done" =>
    /\ q = {}
    /\ \A s \in Submitters : pc[s] # "wait"
    /\ \A t \in submitted : calls[t] = 0 =>
         \E s \in Submitters : cur[s] = t \/ t \in hand[s]

(* The counters the heartbeat reports agree with the answers given: Shed   *)
(* and Expired count requests, each once, and Accepted those that entered  *)
(* the queue, expired afterwards or not.                                   *)
CountersAgree ==
  /\ shed = Cardinality({t \in Tasks : outcome[t] = "limit"})
  /\ expired = Cardinality({t \in Tasks : outcome[t] = "expired"})
  /\ accepted = Cardinality({t \in Tasks : order[t] > 0})

(* Requests are taken for evaluation in the order they entered the queue,  *)
(* whatever expires in between and whoever pops (pop).                     *)
NoOvertaking ==
  [][\A t, u \in q : order[t] < order[u] /\ t \in q' =>
        \A w \in Workers : cur'[w] # u]_vars

(* Once closed is set nothing enters the queue any more, not even a Submit *)
(* that was parked when Close came (Submit, submitWaitLocked).             *)
ClosedOnlyDrains == [][closed => q' \subseteq q]_vars

AllAnswered == \A t \in submitted : calls[t] = 1

(* Every request handed to Submit is eventually answered, even if it never *)
(* expires and the sweeper never runs (work, submitWaitLocked): from every *)
(* state one comes in which all are.                                       *)
EveryTaskAnswered == []<>AllAnswered

(* Close returns: no worker stays parked and the sweeper stops, so no      *)
(* behaviour stays between its call and its return for ever (Close).       *)
CloseReturns == []<>(pc[Closer] \in {"open", "done"})
-----------------------------------------------------------------------------
(* The pool implements Responder.  A request is the caller's while a       *)
(* submitter has it, its own or one it took out of the queue as expired,   *)
(* and the pool's while it is queued or a worker or the sweeper has it.    *)

Has(th) == hand[th] \cup ({cur[th]} \ {NoTask})

InCall == UNION {Has(s) : s \in Submitters}

InPool == q \cup UNION {Has(th) : th \in Workers \cup {Sweeper}}

Gate == IF ~closed THEN "open" ELSE IF pc[Closer] = "done" THEN "closed" ELSE "closing"

Promise == INSTANCE Responder WITH caller <- InCall, held <- InPool, gate <- Gate

(* Every step of the pool is a step of Responder or changes nothing there: *)
(* each request is answered once, an evaluation only by the pool and a     *)
(* refusal for want of room only by a submitter; nothing enters a closing  *)
(* pool, and Close returns only when the pool keeps nothing.               *)
ImplementsResponder == Promise!Spec
=============================================================================
