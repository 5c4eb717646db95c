------------------------------ MODULE Service ------------------------------
(***************************************************************************)
(* The inspector around its pool: the subscription on the bus and its      *)
(* callback (receive), the handler calls (evaluate, send, recoverInto of   *)
(* cmd/ip/handler.go), the audit sink, and run() from the signal to the    *)
(* end of the process (cmd/ip/main.go).  The sink is module AuditSink; the *)
(* pool is what it promises, module Responder.                             *)
(*                                                                         *)
(* The client library calls receive for one message at a time, from a      *)
(* goroutine of its own that Drain does not wait for.  A handler call      *)
(* publishes the reply, adds an audit event and returns; only then does    *)
(* the pool let go of the request.  Events of AuditSink are messages here, *)
(* and the goroutine that runs the handler for a message is its adder.     *)
(***************************************************************************)
EXTENDS AuditSink

CONSTANTS
  Kind,          \* Kind[m]: "request", or how receive refuses the message:
                 \* "malformed", "version" or "phase"
  Audited,       \* messages that name an audit subject
  Faulty,        \* messages whose handling may panic
  PendingLimit,  \* messages the subscription buffers
  MaxFailed      \* bound on the events the bus refuses

ASSUME ServiceAssumption ==
  /\ Adders = Events /\ Audited \subseteq Events /\ Faulty \subseteq Events
  /\ Kind \in [Events -> {"request", "malformed", "version", "phase"}]
  /\ PendingLimit \in Nat \ {0} /\ MaxFailed \in Nat

VARIABLES
  arrived,    \* messages the subscription has taken from the bus
  inbox,      \* those its callback has not been called with
  listening,  \* the subscription still takes messages
  caller, held, outcome, gate,   \* the pool: see Responder
  refusing,   \* the message receive is refusing
  replied,    \* messages whose reply was handed to the connection
  panicked,   \* those of them answered by recoverInto
  main        \* where run() is

poolVars == <<caller, held, outcome, gate>>
subVars == <<arrived, inbox, listening>>
replyVars == <<refusing, replied, panicked>>
sinkVars == vars
serviceVars == <<sinkVars, poolVars, subVars, replyVars, main>>

Responders == INSTANCE Responder WITH Tasks <- Events

ServiceInit ==
  /\ Init /\ Responders!Init
  /\ arrived = {} /\ inbox = <<>> /\ listening = TRUE
  /\ refusing = {} /\ replied = {} /\ panicked = {}
  /\ main = "serving"

Up == main # "exited"
-----------------------------------------------------------------------------
(* The subscription (external).  A message that finds the buffer full is   *)
(* dropped by the client library, as if it had never come.                 *)
Deliver(m) ==
  /\ Up /\ listening /\ m \notin arrived /\ Len(inbox) < PendingLimit
  /\ arrived' = arrived \cup {m} /\ inbox' = Append(inbox, m)
  /\ UNCHANGED <<sinkVars, poolVars, listening, replyVars, main>>

(* receive is called again when it has returned: what it submitted is      *)
(* queued or answered, and so is all it took out of the queue.             *)
CallbackFree == caller = {} /\ refusing = {}

(* Variant of Receive: a message of another phase is ignored.              *)
ReceiveIgnoresPhase ==
  /\ Up /\ CallbackFree /\ inbox # <<>>
  /\ inbox' = Tail(inbox)
  /\ LET m == Head(inbox) IN
     CASE Kind[m] = "request" -> Responders!Submit(m) /\ UNCHANGED refusing
       [] Kind[m] = "phase" -> UNCHANGED <<refusing, poolVars>>
       [] OTHER -> refusing' = {m} /\ UNCHANGED poolVars
  /\ UNCHANGED <<sinkVars, arrived, listening, replied, panicked, main>>

(* receive: what does not parse, has a version not supported or belongs to *)
(* another phase is answered on the spot, the rest goes to the pool.       *)
Receive ==
  /\ Up /\ CallbackFree /\ inbox # <<>>
  /\ inbox' = Tail(inbox)
  /\ LET m == Head(inbox) IN
     IF Kind[m] = "request"
     THEN Responders!Submit(m) /\ UNCHANGED refusing
     ELSE refusing' = {m} /\ UNCHANGED poolVars
  /\ UNCHANGED <<sinkVars, arrived, listening, replied, panicked, main>>

(* Submit queues the request, or takes expired ones out of the queue.      *)
Queue(m) ==
  /\ Up /\ m \notin replied
  /\ Responders!Enter(m)
  /\ UNCHANGED <<sinkVars, subVars, replyVars, main>>

TakeBack(S) ==
  /\ Up /\ caller # {} /\ S # {} /\ S \cap replied = {}
  /\ Responders!Leave(S)
  /\ UNCHANGED <<sinkVars, subVars, replyVars, main>>
-----------------------------------------------------------------------------
(* A handler call: evaluate of a worker, the sweeper or the callback, or   *)
(* receive's own refusal.                                                  *)
Handling == held \cup caller \cup refusing

(* send publishes the reply; a panic before it leads to recoverInto, which *)
(* publishes a fallback without a request.                                 *)
Reply(m, panics) ==
  /\ Up /\ m \in Handling \ replied /\ (panics => m \in Faulty)
  /\ replied' = replied \cup {m}
  /\ panicked' = IF panics THEN panicked \cup {m} ELSE panicked
  /\ UNCHANGED <<sinkVars, poolVars, subVars, refusing, main>>

(* Add has something to do: there is a request, with an audit subject.     *)
Audits(m) == Kind[m] # "malformed" /\ m \notin panicked /\ m \in Audited

Record(m) ==
  /\ Up /\ m \in Handling \cap replied /\ Audits(m)
  /\ Add(m, m)
  /\ UNCHANGED <<poolVars, subVars, replyVars, main>>

KickSink(m) ==
  /\ Up /\ Kick(m)
  /\ UNCHANGED <<poolVars, subVars, replyVars, main>>

Returns(m) ==
  /\ Up /\ m \in Handling \cap replied
  /\ Audits(m) => m \in Elements(log) /\ pc[m] = "idle"
  /\ IF m \in refusing
     THEN refusing' = {} /\ UNCHANGED poolVars
     ELSE /\ \E reason \in {"evaluated", "expired", "limit"} : Responders!Answer(m, reason)
          /\ UNCHANGED refusing
  /\ UNCHANGED <<sinkVars, subVars, replied, panicked, main>>

HandlerStep(m) ==
  \/ \E panics \in BOOLEAN : Reply(m, panics)
  \/ Record(m) \/ KickSink(m) \/ Returns(m)

(* The goroutine of the sink.                                              *)
SinkStep ==
  /\ Up /\ LoopStep /\ Cardinality(failed') <= MaxFailed
  /\ UNCHANGED <<poolVars, subVars, replyVars, main>>

SinkStop ==
  /\ Up /\ SelectStop
  /\ UNCHANGED <<poolVars, subVars, replyVars, main>>
-----------------------------------------------------------------------------
(* run(), from waitForSignal on.                                           *)
Signal ==
  /\ main = "serving" /\ main' = "draining"
  /\ UNCHANGED <<sinkVars, poolVars, subVars, replyVars>>

(* sub.Drain: no more messages, those in the buffer are still called with; *)
(* it returns at once.  Its failure is only logged.                        *)
Drain(ok) ==
  /\ main = "draining" /\ main' = "closing"
  /\ listening' = (listening /\ ~ok)
  /\ UNCHANGED <<sinkVars, poolVars, arrived, inbox, replyVars>>

ClosePool ==
  /\ main = "closing" /\ main' = "joining"
  /\ Responders!Close
  /\ UNCHANGED <<sinkVars, subVars, replyVars>>

(* Variant of PoolClosed: Close of the pool is not waited for.             *)
PoolClosedLater ==
  /\ main = "joining" /\ main' = "flushing"
  /\ UNCHANGED <<sinkVars, poolVars, subVars, replyVars>>

PoolClosed ==
  /\ main = "joining" /\ main' = "flushing"
  /\ Responders!Closed
  /\ UNCHANGED <<sinkVars, subVars, replyVars>>

CloseSink ==
  /\ main = "flushing" /\ main' = "stopping"
  /\ CloseBegins
  /\ UNCHANGED <<poolVars, subVars, replyVars>>

SinkClosed ==
  /\ main = "stopping" /\ main' = "returning"
  /\ CloseEnds
  /\ UNCHANGED <<poolVars, subVars, replyVars>>

(* The deferred calls close the connection; the process ends.              *)
Exit ==
  /\ main = "returning" /\ main' = "exited"
  /\ UNCHANGED <<sinkVars, poolVars, subVars, replyVars>>

ShutdownStep == (\E ok \in BOOLEAN : Drain(ok)) \/ ClosePool \/ PoolClosed \/ CloseSink
                  \/ SinkClosed \/ Exit

ServiceNext ==
  \/ \E m \in Events : Deliver(m) \/ Queue(m) \/ HandlerStep(m)
  \/ \E S \in SUBSET Events : TakeBack(S)
  \/ Receive \/ SinkStep \/ SinkStop
  \/ Signal \/ ShutdownStep

ServiceSpec == ServiceInit /\ [][ServiceNext]_serviceVars

(* Goroutines that can run do run: the callback, the handler calls (the    *)
(* pool's own promise, checked of Pool) and run() taken together, as each  *)
(* has only so many steps to take; the goroutine of the sink, whose ticker *)
(* keeps ticking and whose select, picking at random among what is ready,  *)
(* takes the stop in the end.  No message and no signal need come.         *)
ServiceFairSpec ==
  /\ ServiceSpec
  /\ WF_serviceVars(Receive \/ ShutdownStep \/ \E m \in Events : HandlerStep(m))
  /\ WF_serviceVars(SinkStep) /\ SF_serviceVars(SinkStop)
-----------------------------------------------------------------------------
(* Properties.                                                             *)

(* What the end of the process can cost.  A request that was evaluated has *)
(* its reply published and its audit event out of the sink; a message that *)
(* got no reply was in the subscription's buffer or in the hands of its    *)
(* callback; and an event still in the sink was added by the callback      *)
(* after the sink's Close began.  This is the order of Drain, pool.Close   *)
(* and auditSink.Close in run().                                           *)
OrderlyExit ==
  main = "exited" =>
    /\ \A m \in Events : outcome[m] = "evaluated" =>
         m \in replied /\ m \notin Elements(pending) \cup Elements(take)
    /\ arrived \ replied \subseteq Elements(inbox) \cup caller \cup refusing
    /\ CloseFlushes

Settled(m) ==
  /\ m \in replied
  /\ Audits(m) => m \in Elements(log) \ (Elements(pending) \cup Elements(take))

AllSettled == \A m \in arrived : Settled(m)

(* While nobody stops the process every message its subscription took is   *)
(* answered: evaluated, expired, shed, refused for its form, its version   *)
(* or its phase, or after a panic; and its audit event leaves the sink,    *)
(* even if no batch ever fills (receive, evaluate, recoverInto, loop):     *)
(* from every state one comes in which all are settled.                    *)
EveryMessageAnswered ==
  []<>(AllSettled \/ main # "serving")

(* A signal ends the process: neither Close waits for ever, whatever the   *)
(* callback is doing meanwhile (run, Pool.Close, Sink.Close).  run() never *)
(* serves again after it, so no behaviour stays between the two for ever.  *)
SignalEnds == []<>(main \in {"serving", "exited"})
=============================================================================
