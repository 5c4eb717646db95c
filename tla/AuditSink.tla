----------------------------- MODULE AuditSink -----------------------------
(***************************************************************************)
(* The audit sink of internal/audit/sink.go: workers and the subscription  *)
(* callback add events, one goroutine batches and publishes them, and      *)
(* Close ends it.  One action is one region under the mutex, one publish   *)
(* on the bus or one channel operation.  An event is its subject and its   *)
(* weight; its body is not looked into.                                    *)
(***************************************************************************)
EXTENDS Naturals, Sequences, FiniteSets, SequencesExt

CONSTANTS
  Events,      \* events with an audit subject; each is added at most once
  Adders,      \* goroutines that call Add
  Subject,     \* Subject[e]: the bus subject of the event
  Weight,      \* Weight[e]: bytes it takes in a batch
  MaxItems,    \* maxItems
  MaxSize,     \* maxSize
  MaxPending   \* maxPending

ASSUME SinkAssumption ==
  /\ IsFiniteSet(Events) /\ Weight \in [Events -> Nat]
  /\ MaxItems \in Nat \ {0} /\ MaxSize \in Nat \ {0} /\ MaxPending \in Nat \ {0}

VARIABLES
  pending,   \* s.pending
  size,      \* s.size
  dropped,   \* s.dropped
  wake,      \* a token lies in the wake channel
  stop,      \* the stop channel is closed
  pc,        \* adders: "idle" or "kick"
  loop,      \* the goroutine: "select", "flush", "publish" or "done"
  last,      \* it flushes for the last time
  take,      \* what flush took and has not published yet
  closer,    \* Close: "open", "waiting" or "closed"
  log,       \* history: events in the order they were added
  sent,      \* history: batches in the order they were published
  failed,    \* history: events of batches the bus refused
  cut,       \* history: events dropped
  before     \* history: events added before Close was called

vars == <<pending, size, dropped, wake, stop, pc, loop, last, take, closer,
          log, sent, failed, cut, before>>

Elements(s) == {s[i] : i \in DOMAIN s}

(* sizeOf: the loop over the items.                                        *)
SizeOf(s) ==
  LET sum[n \in 0 .. Len(s)] == IF n = 0 THEN 0 ELSE sum[n - 1] + Weight[s[n]]
  IN sum[Len(s)]

(* One turn of groupBySubject: the items that are in T, in their order.    *)
Only(s, T) ==
  LET upTo[n \in 0 .. Len(s)] ==
        IF n = 0 THEN <<>>
        ELSE IF s[n] \in T THEN Append(upTo[n - 1], s[n]) ELSE upTo[n - 1]
  IN upTo[Len(s)]

Init ==
  /\ pending = <<>> /\ size = 0 /\ dropped = 0
  /\ wake = FALSE /\ stop = FALSE
  /\ pc = [a \in Adders |-> "idle"]
  /\ loop = "select" /\ last = FALSE /\ take = <<>> /\ closer = "open"
  /\ log = <<>> /\ sent = <<>> /\ failed = {} /\ cut = {} /\ before = {}

(* Variants: nothing is ever dropped; a full batch is one too many; a      *)
(* batch is taken backwards; it is not taken off.                          *)
OverNever(n) == 0
FullBatchLate(n, bytes) == n > MaxItems \/ bytes >= MaxSize
BatchBackwards(s) == Reverse(SubSeq(s, 1, IF Len(s) > MaxItems THEN MaxItems ELSE Len(s)))
RestKeeps(s) == s

(* How many pending events are over the limit; what is worth a kick; the   *)
(* batch flush takes and what it leaves; what goes in one message.         *)
Over(n) == IF n > MaxPending THEN n - MaxPending ELSE 0
FullBatch(n, bytes) == n >= MaxItems \/ bytes >= MaxSize
Batch(s) == SubSeq(s, 1, IF Len(s) > MaxItems THEN MaxItems ELSE Len(s))
Rest(s) == SubSeq(s, Len(Batch(s)) + 1, Len(s))
SameMessage(e, f) == Subject[e] = Subject[f]

(* Add: append; over the limit the oldest go; a full batch is worth a kick. *)
Add(a, e) ==
  /\ pc[a] = "idle" /\ e \notin Elements(log)
  /\ LET all == Append(pending, e)
         over == Over(Len(all))
     IN /\ pending' = SubSeq(all, over + 1, Len(all))
        /\ size' = IF over > 0 THEN SizeOf(pending') ELSE size + Weight[e]
        /\ dropped' = dropped + over
        /\ cut' = cut \cup Elements(SubSeq(all, 1, over))
  /\ pc' = [pc EXCEPT ![a] = IF FullBatch(Len(pending'), size')
                             THEN "kick" ELSE "idle"]
  /\ log' = Append(log, e)
  /\ UNCHANGED <<wake, stop, loop, last, take, closer, sent, failed, before>>

(* kick: a token that is already there is enough.                          *)
Kick(a) ==
  /\ pc[a] = "kick"
  /\ wake' = TRUE
  /\ pc' = [pc EXCEPT ![a] = "idle"]
  /\ UNCHANGED <<pending, size, dropped, stop, loop, last, take, closer,
                 log, sent, failed, cut, before>>

(* Variant of SelectStop: the loop goes on after the flush.                *)
SelectStopForgets ==
  /\ loop = "select" /\ stop
  /\ loop' = "flush"
  /\ UNCHANGED <<pending, size, dropped, wake, stop, pc, last, take, closer,
                 log, sent, failed, cut, before>>

(* The select of loop.  A tick may come at any time.                       *)
SelectStop ==
  /\ loop = "select" /\ stop
  /\ loop' = "flush" /\ last' = TRUE
  /\ UNCHANGED <<pending, size, dropped, wake, stop, pc, take, closer,
                 log, sent, failed, cut, before>>

SelectWake ==
  /\ loop = "select" /\ wake
  /\ loop' = "flush" /\ wake' = FALSE
  /\ UNCHANGED <<pending, size, dropped, stop, pc, last, take, closer,
                 log, sent, failed, cut, before>>

SelectTick ==
  /\ loop = "select"
  /\ loop' = "flush"
  /\ UNCHANGED <<pending, size, dropped, wake, stop, pc, last, take, closer,
                 log, sent, failed, cut, before>>

(* flush: a batch at a time until nothing is pending.                      *)
Flush ==
  /\ loop = "flush" /\ pending # <<>>
  /\ take' = Batch(pending)
  /\ pending' = Rest(pending)
  /\ size' = SizeOf(pending')
  /\ loop' = "publish"
  /\ UNCHANGED <<dropped, wake, stop, pc, last, closer, log, sent, failed, cut, before>>

FlushEnds ==
  /\ loop = "flush" /\ pending = <<>>
  /\ loop' = IF last THEN "done" ELSE "select"
  /\ UNCHANGED <<pending, size, dropped, wake, stop, pc, last, take, closer,
                 log, sent, failed, cut, before>>

(* publish: one message per subject, subjects in order of appearance; a    *)
(* message the bus refuses is logged and forgotten.                        *)
Publish(ok) ==
  /\ loop = "publish" /\ take # <<>>
  /\ LET same == {e \in Events : SameMessage(take[1], e)}
         group == Only(take, same)
     IN /\ take' = Only(take, Events \ same)
        /\ sent' = IF ok THEN Append(sent, group) ELSE sent
        /\ failed' = IF ok THEN failed ELSE failed \cup Elements(group)
  /\ loop' = IF take' = <<>> THEN "flush" ELSE "publish"
  /\ UNCHANGED <<pending, size, dropped, wake, stop, pc, last, closer, log, cut, before>>

(* Close.                                                                  *)
CloseBegins ==
  /\ closer = "open"
  /\ closer' = "waiting" /\ stop' = TRUE
  /\ before' = Elements(log)
  /\ UNCHANGED <<pending, size, dropped, wake, pc, loop, last, take, log, sent, failed, cut>>

CloseEnds ==
  /\ closer = "waiting" /\ loop = "done"
  /\ closer' = "closed"
  /\ UNCHANGED <<pending, size, dropped, wake, stop, pc, loop, last, take,
                 log, sent, failed, cut, before>>

LoopStep == SelectWake \/ SelectTick \/ Flush \/ FlushEnds \/ \E ok \in BOOLEAN : Publish(ok)

Next ==
  \/ \E a \in Adders, e \in Events : Add(a, e)
  \/ \E a \in Adders : Kick(a)
  \/ LoopStep \/ SelectStop
  \/ CloseBegins \/ CloseEnds

Spec == Init /\ [][Next]_vars
-----------------------------------------------------------------------------
(* Properties.                                                             *)

(* The events of the messages m, one after the other.                      *)
Flat(m) ==
  LET flat[n \in 0 .. Len(m)] == IF n = 0 THEN <<>> ELSE flat[n - 1] \o m[n]
  IN flat[Len(m)]

Published == Flat(sent)

(* Every event added is in exactly one place: pending, taken, published,   *)
(* refused by the bus or dropped, once, and dropped counts the last (Add,  *)
(* flush, publish).                                                        *)
Conserved ==
  LET places == <<Elements(pending), Elements(take), Elements(Published), failed, cut>>
  IN /\ Elements(log) = UNION {places[i] : i \in 1 .. 5}
     /\ \A i, j \in 1 .. 5 : i # j => places[i] \cap places[j] = {}
     /\ \A s \in {log, pending, take, Published} : IsInjective(s)
     /\ dropped = Cardinality(cut)

Index(s, e) == CHOOSE i \in DOMAIN s : s[i] = e

(* Events of one subject are published in the order they were added,       *)
(* although a batch is regrouped by subject and later batches follow, and  *)
(* no message mixes subjects or exceeds maxItems (flush, groupBySubject).  *)
SubjectOrder ==
  /\ \A b \in Elements(sent) :
       Len(b) \in 1 .. MaxItems /\ \A e, f \in Elements(b) : Subject[e] = Subject[f]
  /\ \A i, j \in DOMAIN Published :
       i < j /\ Subject[Published[i]] = Subject[Published[j]] =>
         Index(log, Published[i]) < Index(log, Published[j])

(* The sink holds maxPending events at most, its size is theirs, and what  *)
(* it drops is older than all it keeps (Add).                              *)
DropsOldest ==
  /\ Len(pending) <= MaxPending /\ size = SizeOf(pending)
  /\ \A e \in cut, f \in Elements(pending) : Index(log, e) < Index(log, f)

(* A full batch is never left to the ticker: while one is pending, the     *)
(* goroutine is flushing, a token is on its way to it, or an adder is      *)
(* about to kick, although Add kicks after it unlocked (Add, kick, loop).  *)
NoLostKick ==
  Len(pending) >= MaxItems \/ size >= MaxSize =>
    \/ loop # "select" \/ wake
    \/ \E a \in Adders : pc[a] = "kick"

(* When Close has returned, nothing added before it was called is left     *)
(* (Close, loop).                                                          *)
CloseFlushes ==
  closer = "closed" =>
    before \cap (Elements(pending) \cup Elements(take)) = {}
=============================================================================
