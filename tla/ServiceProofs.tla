--------------------------- MODULE ServiceProofs ---------------------------
(***************************************************************************)
(* Theorems about AuditSink for any number of adders and events and any    *)
(* limits: no full batch is left to the ticker, the sink stays within its  *)
(* limit, Close leaves nothing behind that was added before it, a flush    *)
(* neither loses nor doubles an event between two batches, every event is  *)
(* in one place, subjects are published in order and the oldest go first.  *)
(* Then about Service, for any number of messages: the inspector uses its  *)
(* sink and its pool as they are specified, so what is proved of the sink  *)
(* holds of it in the service, and the end of the process costs no more    *)
(* than OrderlyExit says.                                                  *)
(***************************************************************************)
EXTENDS Service, SequenceTheorems, FiniteSetTheorems, TLAPS

-----------------------------------------------------------------------------
(* Loops over a sequence.                                                  *)

(* Induction, from the least natural outside T.                            *)
LEMMA NatInd ==
  ASSUME NEW T \in SUBSET Nat, 0 \in T, \A n \in T : n + 1 \in T
  PROVE  T = Nat
  <1> SUFFICES ASSUME T # Nat PROVE FALSE
    BY Zenon
  <1> DEFINE M == Nat \ T
             R == OpToRel(<, Nat)
  <1>1. M \subseteq Nat /\ M # {}
    BY Zenon
  <1>2. \A x, y \in Nat : y < x => <<y, x>> \in R
    BY Zenon DEF OpToRel
  <1>3. IsWellFoundedOn(R, Nat)
    BY NatLessThanWellFounded, Zenon
  <1> HIDE DEF R, M
  <1>4. PICK x \in M : \A y \in M : ~(<<y, x>> \in R)
    BY ONLY <1>1, <1>3, WFMin, Zenon
  <1>5. x \in Nat /\ x # 0 /\ x \notin T
    BY Zenon DEF M
  <1>6. x - 1 \in Nat /\ x - 1 < x
    BY ONLY <1>5
  <1>7. x - 1 \in M \/ (x - 1) + 1 \in T
    BY ONLY <1>6, \A n \in T : n + 1 \in T, M = Nat \ T, Zenon DEF M
  <1>8. (x - 1) + 1 = x
    BY ONLY <1>5
  <1> QED BY <1>2, <1>4, <1>5, <1>6, <1>7, <1>8, Zenon

(* f starts at b, and G leads from one of its values to the next.          *)
Loop(f, N, b, G) == f[0] = b /\ \A n \in 1 .. N : f[n] = G[<<n, f[n - 1]>>]

(* A loop has a value after every turn ...                                 *)
LEMMA LoopExists ==
  ASSUME NEW X, NEW b \in X, NEW N \in Nat, NEW G \in [(1 .. N) \X X -> X]
  PROVE  \E f \in [0 .. N -> X] : Loop(f, N, b, G)
  <1> DEFINE P(k) == k <= N => \E f \in [0 .. k -> X] : Loop(f, k, b, G)
             T == {k \in Nat : P(k)}
  <1>1. P(0)
    <2> DEFINE f == [n \in 0 .. 0 |-> b]
    <2>1. f \in [0 .. 0 -> X] /\ f[0] = b /\ 1 .. 0 = {}
      OBVIOUS
    <2> QED BY ONLY <2>1, Zenon DEF Loop
  <1>2. ASSUME NEW k \in Nat, P(k) PROVE P(k + 1)
    <2> SUFFICES ASSUME k + 1 <= N PROVE \E f \in [0 .. (k + 1) -> X] : Loop(f, k + 1, b, G)
      BY Zenon
    <2>1. PICK f \in [0 .. k -> X] : Loop(f, k, b, G)
      BY <1>2
    <2> DEFINE v == G[<<k + 1, f[k]>>]
               g == [n \in 0 .. (k + 1) |-> IF n = k + 1 THEN v ELSE f[n]]
    <2>2. v \in X
      <3>1. k \in 0 .. k /\ k + 1 \in 1 .. N
        OBVIOUS
      <3>2. f[k] \in X
        BY ONLY <3>1, <2>1, Zenon
      <3>3. <<k + 1, f[k]>> \in (1 .. N) \X X
        BY ONLY <3>1, <3>2, Zenon
      <3> QED BY ONLY <3>3, G \in [(1 .. N) \X X -> X], Zenon
    <2> HIDE DEF v
    <2>3. \A n \in 0 .. k : n \in 0 .. (k + 1) /\ n # k + 1 /\ g[n] = f[n] /\ f[n] \in X
      BY <2>1
    <2>4. g[k + 1] = v /\ k + 1 - 1 = k /\ k \in 0 .. k /\ 0 \in 0 .. k
      OBVIOUS
    <2>5. \A n \in 1 .. (k + 1) : n = k + 1 \/ (n \in 1 .. k /\ n \in 0 .. k /\ n - 1 \in 0 .. k)
      OBVIOUS
    <2>6. g \in [0 .. (k + 1) -> X]
      BY <2>1, <2>2
    <2> HIDE DEF g
    <2>7. g[0] = b
      BY ONLY <2>1, <2>3, <2>4, Zenon DEF Loop
    <2>8. ASSUME NEW n \in 1 .. (k + 1) PROVE g[n] = G[<<n, g[n - 1]>>]
      <3>1. CASE n = k + 1
        <4>1. n - 1 = k
          BY ONLY <3>1, k \in Nat
        <4>2. g[n - 1] = f[k]
          BY ONLY <4>1, <2>3, <2>4, Zenon
        <4> QED BY ONLY <3>1, <4>2, <2>4, Zenon DEF v
      <3>2. CASE n \in 1 .. k /\ n \in 0 .. k /\ n - 1 \in 0 .. k
        <4>1. g[n] = f[n] /\ g[n - 1] = f[n - 1]
          BY ONLY <3>2, <2>3, Zenon
        <4> QED BY ONLY <3>2, <4>1, <2>1, Zenon DEF Loop
      <3> QED BY ONLY <3>1, <3>2, <2>5, n \in 1 .. (k + 1), Zenon
    <2> QED BY ONLY <2>6, <2>7, <2>8, Zenon DEF Loop
  <1>3. T \in SUBSET Nat /\ 0 \in T
    BY <1>1, 0 \in Nat, Zenon
  <1>0. \A n \in Nat : n + 1 \in Nat
    OBVIOUS
  <1>4. \A n \in T : n + 1 \in T
    BY <1>0, <1>2, Zenon
  <1> HIDE DEF P
  <1>5. T = Nat
    BY ONLY <1>3, <1>4, NatInd, Zenon
  <1>6. P(N)
    BY ONLY <1>5, N \in Nat, Zenon
  <1> QED BY ONLY <1>6, N \in Nat DEF P

(* ... and only one, of the loop's type.                                   *)
Turns(f, N, X, G) == \A n \in 1 .. N : f[n - 1] \in X => f[n] = G[<<n, f[n - 1]>>]

(* A loop with a given start and body has one result: two runs of it agree turn by turn. *)
LEMMA LoopUnique ==
  ASSUME NEW X, NEW b \in X, NEW N \in Nat, NEW G \in [(1 .. N) \X X -> X],
         NEW f, NEW g, f[0] = b, g[0] = b,
         Turns(f, N, X, G), Turns(g, N, X, G)
  PROVE  \A n \in 0 .. N : f[n] = g[n] /\ f[n] \in X
  <1> DEFINE P(k) == k <= N => f[k] = g[k] /\ f[k] \in X
             T == {k \in Nat : P(k)}
  <1>1. P(0)
    BY Zenon
  <1>2. ASSUME NEW k \in Nat, P(k) PROVE P(k + 1)
    <2> SUFFICES ASSUME k + 1 <= N PROVE f[k + 1] = g[k + 1] /\ f[k + 1] \in X
      BY Zenon
    <2>1. k + 1 \in 1 .. N /\ k + 1 - 1 = k /\ f[k] = g[k] /\ f[k] \in X
      BY <1>2
    <2>2. f[k + 1] = G[<<k + 1, f[k]>>] /\ g[k + 1] = G[<<k + 1, f[k]>>]
      BY <2>1 DEF Turns
    <2>3. G[<<k + 1, f[k]>>] \in X
      <3>1. <<k + 1, f[k]>> \in (1 .. N) \X X
        BY ONLY <2>1, Zenon
      <3> QED BY ONLY <3>1, G \in [(1 .. N) \X X -> X], Zenon
    <2> QED BY ONLY <2>2, <2>3, Zenon
  <1>3. T \in SUBSET Nat /\ 0 \in T
    BY <1>1, 0 \in Nat, Zenon
  <1>4. \A n \in T : n + 1 \in T
    BY <1>2
  <1> HIDE DEF P
  <1>5. T = Nat
    BY ONLY <1>3, <1>4, NatInd, Zenon
  <1>6. \A n \in Nat : P(n)
    BY ONLY <1>5, Zenon
  <1> QED BY ONLY <1>6, N \in Nat DEF P

(* The total of sizeOf after each item.                                    *)
Sums(s, h) == h[0] = 0 /\ \A n \in 1 .. Len(s) : h[n] = h[n - 1] + Weight[s[n]]

(* SizeOf is the result of the loop that adds up the encoded sizes. *)
LEMMA SizeLoop ==
  ASSUME NEW s \in Seq(Events)
  PROVE  \E h : Sums(s, h) /\ SizeOf(s) = h[Len(s)]
  <1> DEFINE N == Len(s)
             step(f) == [n \in 0 .. N |-> IF n = 0 THEN 0 ELSE f[n - 1] + Weight[s[n]]]
             G == [p \in (1 .. N) \X Nat |-> p[2] + Weight[s[p[1]]]]
  <1>1. N \in Nat /\ \A n \in 1 .. N : Weight[s[n]] \in Nat
    BY SinkAssumption
  <1>2. G \in [(1 .. N) \X Nat -> Nat]
    BY <1>1
  <1>3. \A n \in 1 .. N, x \in Nat : G[<<n, x>>] = x + Weight[s[n]]
    BY Zenon
  <1> HIDE DEF N, G
  <1>4. PICK f \in [0 .. N -> Nat] : Loop(f, N, 0, G)
    <2>1. 0 \in Nat
      BY Zenon
    <2> QED BY ONLY <1>1, <1>2, <2>1, LoopExists, Zenon
  <1>5. \A n \in 1 .. N : n \in 0 .. N /\ n - 1 \in 0 .. N /\ n # 0
    BY <1>1
  <1>6. f[0] = 0 /\ \A n \in 1 .. N : f[n] = f[n - 1] + Weight[s[n]]
    BY ONLY <1>3, <1>4, <1>5, Zenon DEF Loop
  <1>7. \A n \in 0 .. N : n = 0 \/ n \in 1 .. N
    BY ONLY <1>1
  <1>8. f = step(f)
    BY ONLY <1>4, <1>6, <1>7, Zenon
  <1> DEFINE h == CHOOSE g : g = step(g)
  <1>9. h = step(h)
    BY ONLY <1>8, Zenon
  <1>10. SizeOf(s) = h[N]
    BY Zenon DEF SizeOf, N
  <1> HIDE DEF h
  <1>11. 0 \in 0 .. N
    BY ONLY <1>1
  <1>12. h[0] = 0 /\ \A n \in 1 .. N : h[n] = h[n - 1] + Weight[s[n]]
    BY ONLY <1>5, <1>9, <1>11, Zenon
  <1> QED BY ONLY <1>10, <1>12, Zenon DEF Sums, N

(* Totals are determined by the items.                                     *)
LEMMA SumsAgree ==
  ASSUME NEW s \in Seq(Events), NEW t \in Seq(Events), NEW g, NEW h, Sums(s, g), Sums(t, h),
         Len(s) <= Len(t), \A n \in 1 .. Len(s) : s[n] = t[n]
  PROVE  h[Len(s)] = g[Len(s)] /\ g[Len(s)] \in Nat
  <1> DEFINE N == Len(s)
             G == [p \in (1 .. N) \X Nat |-> p[2] + Weight[s[p[1]]]]
  <1>1. N \in Nat /\ \A n \in 1 .. N : Weight[s[n]] \in Nat /\ n \in 1 .. Len(t)
    BY SinkAssumption
  <1>2. G \in [(1 .. N) \X Nat -> Nat]
    BY <1>1
  <1>3. \A n \in 1 .. N, x \in Nat : G[<<n, x>>] = x + Weight[s[n]]
    BY Zenon
  <1> HIDE DEF G
  <1>4. g[0] = 0 /\ h[0] = 0 /\ 0 \in Nat /\ N \in 0 .. N
    BY <1>1 DEF Sums
  <1>5. Turns(g, N, Nat, G)
    BY <1>3, Zenon DEF Sums, Turns
  <1>6. Turns(h, N, Nat, G)
    <2> SUFFICES ASSUME NEW n \in 1 .. N, h[n - 1] \in Nat
                 PROVE  h[n] = G[<<n, h[n - 1]>>]
      BY Zenon DEF Turns
    <2>1. t[n] = s[n] /\ h[n] = h[n - 1] + Weight[t[n]]
      BY <1>1, Zenon DEF Sums
    <2> QED BY <1>3, <2>1, Zenon
  <1> HIDE DEF N
  <1>8. N \in Nat /\ 0 \in Nat /\ g[0] = 0 /\ h[0] = 0
    BY ONLY <1>1, <1>4, Zenon
  <1>7. \A n \in 0 .. N : g[n] = h[n] /\ g[n] \in Nat
    BY ONLY <1>2, <1>5, <1>6, <1>8, LoopUnique, Zenon
  <1> QED BY ONLY <1>4, <1>7, Zenon DEF N

(* One more item adds its weight; nothing weighs nothing (sizeOf).         *)
LEMMA SizeOfAppend ==
  ASSUME NEW s \in Seq(Events), NEW e \in Events
  PROVE  SizeOf(Append(s, e)) = SizeOf(s) + Weight[e]
  <1> DEFINE t == Append(s, e)
  <1>1. /\ t \in Seq(Events) /\ Len(t) = Len(s) + 1 /\ Len(s) \in Nat
        /\ t[Len(s) + 1] = e /\ \A n \in 1 .. Len(s) : s[n] = t[n]
    OBVIOUS
  <1> HIDE DEF t
  <1>2. PICK g : Sums(s, g) /\ SizeOf(s) = g[Len(s)]
    BY SizeLoop, Zenon
  <1>3. PICK h : Sums(t, h) /\ SizeOf(t) = h[Len(t)]
    BY <1>1, SizeLoop, Zenon
  <1>4. h[Len(s)] = g[Len(s)]
    <2>1. Len(s) <= Len(t)
      BY ONLY <1>1
    <2> QED BY ONLY <1>1, <1>2, <1>3, <2>1, s \in Seq(Events), SumsAgree, Zenon
  <1>5. Len(t) \in 1 .. Len(t) /\ Len(t) - 1 = Len(s)
    BY ONLY <1>1
  <1>6. h[Len(t)] = h[Len(s)] + Weight[e]
    BY ONLY <1>1, <1>3, <1>5, Zenon DEF Sums
  <1> QED BY ONLY <1>2, <1>3, <1>4, <1>6, Zenon DEF t

(* No events have size zero. *)
LEMMA SizeOfNothing == SizeOf(<<>>) = 0
  <1>1. <<>> \in Seq(Events) /\ Len(<<>>) = 0
    OBVIOUS
  <1>2. PICK g : Sums(<<>>, g) /\ SizeOf(<<>>) = g[Len(<<>>)]
    BY ONLY <1>1, SizeLoop, Zenon
  <1> QED BY ONLY <1>1, <1>2, Zenon DEF Sums

-----------------------------------------------------------------------------
(* The goroutine and its kicks.                                            *)

(* Pending events stay within the limit (maxPending in Add).               *)
Bounded == Len(pending) <= MaxPending

(* Inductive.  The goroutine holds no batch outside of publish; it ends    *)
(* only after a flush that began when Close had closed the stop channel,   *)
(* and what was added before that is then in no queue.                     *)
Inv ==
  /\ pending \in Seq(Events) /\ log \in Seq(Events)
  /\ pc \in [Adders -> {"idle", "kick"}]
  /\ Bounded /\ (pending = <<>> => size = 0)
  /\ loop # "publish" => take = <<>>
  /\ Elements(pending) \subseteq Elements(log) /\ before \subseteq Elements(log)
  /\ stop => closer # "open"
  /\ last => stop
  /\ loop = "done" => last /\ before \cap Elements(pending) = {}
  /\ closer = "closed" => loop = "done"
  /\ NoLostKick

(* The end of a sequence has no element the sequence does not have.        *)
LEMMA TailElements ==
  ASSUME NEW s \in Seq(Events), NEW m \in Nat, m > 0
  PROVE  /\ SubSeq(s, m, Len(s)) \in Seq(Events)
         /\ Elements(SubSeq(s, m, Len(s))) \subseteq Elements(s)
         /\ Len(SubSeq(s, m, Len(s))) = IF m <= Len(s) THEN Len(s) - m + 1 ELSE 0
  BY DEF Elements

(* A new sink is empty.                                                    *)
LEMMA InitInv == Init => Inv
  BY SinkAssumption DEF Init, Inv, Bounded, NoLostKick, Elements

(* Add keeps the invariant: what it drops makes room, and a batch it fills *)
(* leaves the adder at the kick.                                           *)
LEMMA AddInv ==
  ASSUME Inv, NEW a \in Adders, NEW e \in Events, Add(a, e)
  PROVE  Inv'
  <1> DEFINE all == Append(pending, e)
  <1> DEFINE over == Over(Len(all))
  <1>1. all \in Seq(Events) /\ Len(all) = Len(pending) + 1 /\ Len(pending) \in Nat
        /\ Elements(all) \subseteq Elements(pending) \cup {e}
    BY DEF Inv, Elements
  <1>2. over \in Nat /\ over < Len(all) /\ Len(all) - over <= MaxPending
    BY <1>1, SinkAssumption DEF Over
  <1>3. pending' = SubSeq(all, over + 1, Len(all))
    BY Zenon DEF Add
  <1>4. /\ pending' \in Seq(Events) /\ Elements(pending') \subseteq Elements(all)
        /\ Len(pending') = Len(all) - over
    <2> HIDE DEF all, over
    <2> QED BY <1>1, <1>2, <1>3, TailElements
  <1>5. Bounded' /\ pending' # <<>>
    BY <1>1, <1>2, <1>4 DEF Bounded
  <1>6. log' \in Seq(Events) /\ Elements(log') = Elements(log) \cup {e} /\ e \notin Elements(log)
    <2>1. log' = Append(log, e) /\ e \notin Elements(log) /\ log \in Seq(Events)
      BY Zenon DEF Add, Inv
    <2>2. \A x : x \in Elements(Append(log, e)) <=> x \in Elements(log) \cup {e}
      BY <2>1 DEF Elements
    <2> QED BY <2>1, <2>2
  <1>7. Elements(pending') \subseteq Elements(log') /\ before' \subseteq Elements(log')
        /\ before' \cap Elements(pending') \subseteq before \cap Elements(pending)
    BY <1>1, <1>4, <1>6, Zenon DEF Add, Inv
  <1>8. NoLostKick' /\ pc' \in [Adders -> {"idle", "kick"}]
    BY Zenon DEF Add, Inv, NoLostKick, FullBatch
  <1> QED BY <1>4, <1>5, <1>6, <1>7, <1>8, Zenon DEF Add, Inv

(* The steps of the goroutine keep it: it selects again, or ends, only     *)
(* with nothing pending.                                                   *)
LEMMA LoopInv ==
  ASSUME Inv, LoopStep \/ SelectStop
  PROVE  Inv'
  <1>1. CASE SelectWake \/ SelectTick
    BY <1>1 DEF SelectWake, SelectTick, Inv, Bounded, NoLostKick
  <1>2. CASE SelectStop
    BY <1>2, Zenon DEF SelectStop, Inv, Bounded, NoLostKick
  <1>3. CASE Flush
    <2>1. Len(Batch(pending)) \in Nat
      BY SinkAssumption DEF Inv, Batch
    <2>2. /\ pending' \in Seq(Events) /\ Elements(pending') \subseteq Elements(pending)
          /\ Len(pending') <= Len(pending)
      BY <1>3, <2>1, TailElements DEF Flush, Rest, Inv
    <2>3. pending' = <<>> => size' = 0
      BY <1>3, SizeOfNothing, Zenon DEF Flush
    <2>4. Bounded'
      BY <2>2, SinkAssumption DEF Inv, Bounded
    <2> QED BY <1>3, <2>2, <2>3, <2>4, Zenon DEF Flush, Inv, NoLostKick
  <1>4. CASE FlushEnds
    <2>1. Elements(pending) = {} /\ ~(Len(pending) >= MaxItems \/ size >= MaxSize)
      BY <1>4, SinkAssumption DEF FlushEnds, Inv, Elements
    <2> QED BY <1>4, <2>1, Zenon DEF FlushEnds, Inv, Bounded, NoLostKick
  <1>5. ASSUME NEW ok \in BOOLEAN, Publish(ok) PROVE Inv'
    BY <1>5, Zenon DEF Publish, Inv, Bounded, NoLostKick
  <1> QED BY <1>1, <1>2, <1>3, <1>4, <1>5, Zenon DEF LoopStep

(* The invariant holds in every reachable state.                           *)
LEMMA Invariance == Spec => []Inv
  <1>1. Inv /\ [Next]_vars => Inv'
    <2> SUFFICES ASSUME Inv, [Next]_vars PROVE Inv' BY Zenon
    <2>1. CASE UNCHANGED vars
      BY <2>1, Zenon DEF vars, Inv, Bounded, NoLostKick
    <2>2. ASSUME NEW a \in Adders, Kick(a) PROVE Inv'
      BY <2>2, Zenon DEF Kick, Inv, Bounded, NoLostKick
    <2>3. CASE CloseBegins
      BY <2>3, Zenon DEF CloseBegins, Inv, Bounded, NoLostKick
    <2>4. CASE CloseEnds
      BY <2>4, Zenon DEF CloseEnds, Inv, Bounded, NoLostKick
    <2> QED BY <2>1, <2>2, <2>3, <2>4, AddInv, LoopInv, Zenon DEF Next
  <1> QED BY <1>1, InitInv, PTL DEF Spec

(* No full batch is left to the ticker, however many adders unlock before  *)
(* they kick (Add, kick, loop).                                            *)
THEOREM KickReachesLoop == Spec => []NoLostKick
  <1>1. Inv => NoLostKick
    BY Zenon DEF Inv
  <1> QED BY <1>1, Invariance, PTL

(* When Close has returned nothing added before it is in the sink, even if *)
(* adders go on (Close, loop, flush).                                      *)
THEOREM NothingLeftBehind == Spec => [](CloseFlushes /\ Bounded)
  <1>1. Inv => CloseFlushes /\ Bounded
    BY DEF Inv, CloseFlushes, Elements
  <1> QED BY <1>1, Invariance, PTL

(* flush cuts a batch of at most maxItems off the front and leaves the     *)
(* rest, in order, however much is pending (flush).                        *)
BatchesCutClean ==
  [][loop = "flush" /\ loop' = "publish" =>
       take' \o pending' = pending /\ Len(take') \in 1 .. MaxItems]_vars

(* No event is lost, doubled or moved between two batches, for any limits  *)
(* and any number pending (flush).                                         *)
THEOREM NothingBetweenBatches == Spec => BatchesCutClean
  <1>1. ASSUME Inv, [Next]_vars, loop = "flush", loop' = "publish"
        PROVE  take' \o pending' = pending /\ Len(take') \in 1 .. MaxItems
    <2>1. Flush
      BY <1>1, Zenon DEF Next, LoopStep, vars, Add, Kick, SelectWake, SelectTick, SelectStop,
                  FlushEnds, Publish, CloseBegins, CloseEnds
    <2>2. pending \in Seq(Events) /\ pending # <<>>
      BY <1>1, <2>1, Zenon DEF Inv, Flush
    <2> DEFINE n == IF Len(pending) > MaxItems THEN MaxItems ELSE Len(pending)
    <2>3. n \in 1 .. Len(pending) /\ n <= MaxItems /\ Len(pending) \in Nat
      BY <2>2, SinkAssumption
    <2>4. take' = SubSeq(pending, 1, n)
      BY <2>1, Zenon DEF Flush, Batch
    <2> HIDE DEF n
    <2>5. Len(take') = n
      BY <2>2, <2>3, <2>4
    <2>6. pending' = SubSeq(pending, n + 1, Len(pending))
      BY <2>1, <2>5, Zenon DEF Flush, Rest
    <2>7. take' \o pending' = SubSeq(pending, 1, Len(pending))
      BY <2>2, <2>3, <2>4, <2>6, ConcatAdjacentSubSeq
    <2> QED BY <2>2, <2>3, <2>5, <2>7, SubSeqFull, SinkAssumption
  <1>2. Inv /\ [Next]_vars =>
          [loop = "flush" /\ loop' = "publish" =>
             take' \o pending' = pending /\ Len(take') \in 1 .. MaxItems]_vars
    BY <1>1, Zenon
  <1> QED BY <1>2, Invariance, PTL DEF Spec, BatchesCutClean

-----------------------------------------------------------------------------
(* The line of events.                                                     *)

(* The messages laid end to end, after each of them.                       *)
Joins(m, h) == h[0] = <<>> /\ \A n \in 1 .. Len(m) : h[n] = h[n - 1] \o m[n]

(* Flat is the result of the loop that joins the messages one after another. *)
LEMMA FlatLoop ==
  ASSUME NEW m \in Seq(Seq(Events))
  PROVE  \E h : Joins(m, h) /\ Flat(m) = h[Len(m)]
  <1> DEFINE N == Len(m)
             X == Seq(Events)
             step(f) == [n \in 0 .. N |-> IF n = 0 THEN <<>> ELSE f[n - 1] \o m[n]]
             G == [p \in (1 .. N) \X X |-> p[2] \o m[p[1]]]
  <1>1. N \in Nat /\ (\A n \in 1 .. N : m[n] \in X) /\ <<>> \in X
    OBVIOUS
  <1>2. G \in [(1 .. N) \X X -> X]
    BY <1>1
  <1>3. \A n \in 1 .. N, x \in X : G[<<n, x>>] = x \o m[n]
    BY Zenon
  <1> HIDE DEF N, G, X
  <1>4. PICK f \in [0 .. N -> X] : Loop(f, N, <<>>, G)
    BY ONLY <1>1, <1>2, LoopExists, Zenon
  <1>5. \A n \in 1 .. N : n \in 0 .. N /\ n - 1 \in 0 .. N /\ n # 0
    BY ONLY <1>1
  <1>6. f[0] = <<>> /\ \A n \in 1 .. N : f[n] = f[n - 1] \o m[n]
    BY ONLY <1>3, <1>4, <1>5, Zenon DEF Loop
  <1>7. \A n \in 0 .. N : n = 0 \/ n \in 1 .. N
    BY ONLY <1>1
  <1>8. f = step(f)
    BY ONLY <1>4, <1>6, <1>7, Zenon
  <1> DEFINE h == CHOOSE g : g = step(g)
  <1>9. h = step(h)
    BY ONLY <1>8, Zenon
  <1>10. Flat(m) = h[N]
    BY Zenon DEF Flat, N
  <1> HIDE DEF h
  <1>11. 0 \in 0 .. N
    BY ONLY <1>1
  <1>12. h[0] = <<>> /\ \A n \in 1 .. N : h[n] = h[n - 1] \o m[n]
    BY ONLY <1>5, <1>9, <1>11, Zenon
  <1> QED BY ONLY <1>10, <1>12, Zenon DEF Joins, N

(* Joining agrees on a common prefix of messages. *)
LEMMA JoinsAgree ==
  ASSUME NEW m \in Seq(Seq(Events)), NEW t \in Seq(Seq(Events)), NEW g, NEW h,
         Joins(m, g), Joins(t, h), Len(m) <= Len(t), \A n \in 1 .. Len(m) : m[n] = t[n]
  PROVE  h[Len(m)] = g[Len(m)] /\ g[Len(m)] \in Seq(Events)
  <1> DEFINE N == Len(m)
             X == Seq(Events)
             G == [p \in (1 .. N) \X X |-> p[2] \o m[p[1]]]
  <1>1. N \in Nat /\ (\A n \in 1 .. N : m[n] \in X /\ n \in 1 .. Len(t)) /\ <<>> \in X
    OBVIOUS
  <1>2. G \in [(1 .. N) \X X -> X]
    BY <1>1
  <1>3. \A n \in 1 .. N, x \in X : G[<<n, x>>] = x \o m[n]
    BY Zenon
  <1> HIDE DEF G, X
  <1>4. g[0] = <<>> /\ h[0] = <<>>
    BY Zenon DEF Joins
  <1>5. Turns(g, N, X, G)
    BY <1>3, Zenon DEF Joins, Turns
  <1>6. Turns(h, N, X, G)
    <2> SUFFICES ASSUME NEW n \in 1 .. N, h[n - 1] \in X
                 PROVE  h[n] = G[<<n, h[n - 1]>>]
      BY Zenon DEF Turns
    <2>1. t[n] = m[n] /\ h[n] = h[n - 1] \o t[n]
      BY <1>1, Zenon DEF Joins
    <2> QED BY <1>3, <2>1, Zenon
  <1> HIDE DEF N
  <1>7. \A n \in 0 .. N : g[n] = h[n] /\ g[n] \in X
    BY ONLY <1>1, <1>2, <1>4, <1>5, <1>6, LoopUnique, Zenon
  <1>8. N \in 0 .. N
    BY ONLY <1>1
  <1> QED BY ONLY <1>7, <1>8, Zenon DEF N, X

(* One more message adds its events at the end (publish).                  *)
LEMMA FlatAppend ==
  ASSUME NEW m \in Seq(Seq(Events)), NEW b \in Seq(Events)
  PROVE  Flat(Append(m, b)) = Flat(m) \o b
  <1> DEFINE t == Append(m, b)
  <1>1. /\ t \in Seq(Seq(Events)) /\ Len(t) = Len(m) + 1 /\ Len(m) \in Nat
        /\ t[Len(m) + 1] = b /\ \A n \in 1 .. Len(m) : m[n] = t[n]
    OBVIOUS
  <1> HIDE DEF t
  <1>2. PICK g : Joins(m, g) /\ Flat(m) = g[Len(m)]
    BY FlatLoop, Zenon
  <1>3. PICK h : Joins(t, h) /\ Flat(t) = h[Len(t)]
    BY <1>1, FlatLoop, Zenon
  <1>4. h[Len(m)] = g[Len(m)]
    <2>1. Len(m) <= Len(t)
      BY ONLY <1>1
    <2> QED BY ONLY <1>1, <1>2, <1>3, <2>1, m \in Seq(Seq(Events)), JoinsAgree, Zenon
  <1>5. Len(t) \in 1 .. Len(t) /\ Len(t) - 1 = Len(m)
    BY ONLY <1>1
  <1>6. h[Len(t)] = h[Len(m)] \o b
    BY ONLY <1>1, <1>3, <1>5, Zenon DEF Joins
  <1> QED BY ONLY <1>2, <1>3, <1>4, <1>6, Zenon DEF t

(* The joined messages are a sequence of events, empty when there are none. *)
LEMMA FlatType ==
  ASSUME NEW m \in Seq(Seq(Events))
  PROVE  Flat(m) \in Seq(Events) /\ (m = <<>> => Flat(m) = <<>>)
  <1>1. PICK g : Joins(m, g) /\ Flat(m) = g[Len(m)]
    BY FlatLoop, Zenon
  <1>2. Len(m) <= Len(m) /\ (m = <<>> => Len(m) = 0)
    OBVIOUS
  <1>3. g[Len(m)] \in Seq(Events)
    BY ONLY <1>1, <1>2, m \in Seq(Seq(Events)), JoinsAgree, Zenon
  <1> QED BY ONLY <1>1, <1>2, <1>3, Zenon DEF Joins

(* What groupBySubject has picked after each item.                         *)
Pick(s, T, n, u) == IF s[n] \in T THEN Append(u, s[n]) ELSE u
Picks(s, T, h) == h[0] = <<>> /\ \A n \in 1 .. Len(s) : h[n] = Pick(s, T, n, h[n - 1])

(* Only is the result of the loop that keeps the members of a set. *)
LEMMA OnlyLoop ==
  ASSUME NEW s \in Seq(Events), NEW T
  PROVE  \E h : Picks(s, T, h) /\ Only(s, T) = h[Len(s)]
  <1> DEFINE N == Len(s)
             X == Seq(Events)
             step(f) == [n \in 0 .. N |->
               IF n = 0 THEN <<>>
               ELSE IF s[n] \in T THEN Append(f[n - 1], s[n]) ELSE f[n - 1]]
             G == [p \in (1 .. N) \X X |-> Pick(s, T, p[1], p[2])]
  <1>1. N \in Nat /\ <<>> \in X
    OBVIOUS
  <1>2. \A n \in 1 .. N, x \in X : Pick(s, T, n, x) \in X
    BY DEF Pick
  <1>3. \A n \in 1 .. N, x \in X : G[<<n, x>>] = Pick(s, T, n, x)
    BY Zenon
  <1>13. G \in [(1 .. N) \X X -> X]
    <2>1. \A p \in (1 .. N) \X X : p[1] \in 1 .. N /\ p[2] \in X
      BY Zenon
    <2> QED BY ONLY <1>2, <2>1, Zenon
  <1> HIDE DEF N, G, X
  <1>4. PICK f \in [0 .. N -> X] : Loop(f, N, <<>>, G)
    BY ONLY <1>1, <1>13, LoopExists, Zenon
  <1>5. \A n \in 1 .. N : n \in 0 .. N /\ n - 1 \in 0 .. N /\ n # 0
    BY ONLY <1>1
  <1>6. f[0] = <<>> /\ \A n \in 1 .. N : f[n] = Pick(s, T, n, f[n - 1])
    BY ONLY <1>3, <1>4, <1>5, Zenon DEF Loop
  <1>7. \A n \in 0 .. N : n = 0 \/ n \in 1 .. N
    BY ONLY <1>1
  <1>8. f = step(f)
    BY ONLY <1>4, <1>6, <1>7, Zenon DEF Pick
  <1> DEFINE h == CHOOSE g : g = step(g)
  <1>9. h = step(h)
    BY ONLY <1>8, Zenon
  <1>10. Only(s, T) = h[N]
    BY Zenon DEF Only, N
  <1> HIDE DEF h
  <1>11. 0 \in 0 .. N
    BY ONLY <1>1
  <1>12. h[0] = <<>> /\ \A n \in 1 .. N : h[n] = Pick(s, T, n, h[n - 1])
    BY ONLY <1>5, <1>9, <1>11, Zenon DEF Pick
  <1> QED BY ONLY <1>10, <1>12, Zenon DEF Picks, N

(* u holds the items in T among the first n, in their order.               *)
Kept(u, n, s, T) ==
  /\ u \in Seq(Events) /\ Len(u) <= n
  /\ \A x \in Elements(u) : x \in T /\ \E k \in 1 .. n : s[k] = x
  /\ \A k \in 1 .. n : s[k] \in T => s[k] \in Elements(u)
  /\ \A i, j \in DOMAIN u : i < j => \E k, l \in 1 .. n : k < l /\ s[k] = u[i] /\ s[l] = u[j]

(* The length, the elements and the positions of a sequence with one more element. *)
LEMMA AppendElements ==
  ASSUME NEW X, NEW u \in Seq(X), NEW x \in X
  PROVE  /\ Append(u, x) \in Seq(X) /\ Len(Append(u, x)) = Len(u) + 1
         /\ Elements(Append(u, x)) = Elements(u) \cup {x}
         /\ \A i \in DOMAIN Append(u, x) :
              \/ i \in DOMAIN u /\ Append(u, x)[i] = u[i]
              \/ i = Len(u) + 1 /\ Append(u, x)[i] = x
         /\ \A i \in DOMAIN u : i \in DOMAIN Append(u, x) /\ Append(u, x)[i] = u[i]
         /\ Len(u) + 1 \in DOMAIN Append(u, x) /\ Append(u, x)[Len(u) + 1] = x
  <1> DEFINE w == Append(u, x)
  <1>1. w \in Seq(X) /\ Len(w) = Len(u) + 1 /\ Len(u) \in Nat
    OBVIOUS
  <1>2. w[Len(u) + 1] = x /\ \A i \in 1 .. Len(u) : w[i] = u[i]
    OBVIOUS
  <1>3. DOMAIN u = 1 .. Len(u) /\ DOMAIN w = 1 .. (Len(u) + 1)
    BY <1>1
  <1> HIDE DEF w
  <1>4. \A i \in DOMAIN w : (i \in DOMAIN u /\ w[i] = u[i]) \/ (i = Len(u) + 1 /\ w[i] = x)
    BY ONLY <1>1, <1>2, <1>3
  <1>5. Len(u) + 1 \in DOMAIN w /\ \A i \in DOMAIN u : i \in DOMAIN w /\ w[i] = u[i]
    BY ONLY <1>1, <1>2, <1>3
  <1>6. Elements(w) = Elements(u) \cup {x}
    <2>1. \A y : y \in Elements(w) <=> y \in Elements(u) \/ y = x
      BY ONLY <1>2, <1>4, <1>5, Zenon DEF Elements
    <2> QED BY ONLY <2>1, Zenon
  <1> QED BY ONLY <1>1, <1>2, <1>4, <1>5, <1>6, Zenon DEF w

(* One turn of the loop of Only keeps exactly the members among one more event, in order. *)
LEMMA KeptStep ==
  ASSUME NEW s \in Seq(Events), NEW T, NEW n \in Nat, n + 1 <= Len(s), NEW u, Kept(u, n, s, T)
  PROVE  Kept(Pick(s, T, n + 1, u), n + 1, s, T)
  <1>0. \A k : k \in 1 .. (n + 1) <=> k \in 1 .. n \/ k = n + 1
    OBVIOUS
  <1>1. s[n + 1] \in Events /\ u \in Seq(Events) /\ Len(u) <= n /\ Len(u) \in Nat
    BY DEF Kept
  <1>2. CASE s[n + 1] \notin T
    <2>1. Pick(s, T, n + 1, u) = u
      BY <1>2, Zenon DEF Pick
    <2>2. Len(u) <= n + 1
      BY ONLY <1>1, n \in Nat
    <2>3. Kept(u, n + 1, s, T)
      <3>1. /\ \A x \in Elements(u) : x \in T /\ \E k \in 1 .. (n + 1) : s[k] = x
            /\ \A k \in 1 .. (n + 1) : s[k] \in T => s[k] \in Elements(u)
        BY <1>0, <1>2, Zenon DEF Kept
      <3>2. ASSUME NEW i \in DOMAIN u, NEW j \in DOMAIN u, i < j
            PROVE  \E k, l \in 1 .. (n + 1) : k < l /\ s[k] = u[i] /\ s[l] = u[j]
        <4>1. PICK k \in 1 .. n, l \in 1 .. n : k < l /\ s[k] = u[i] /\ s[l] = u[j]
          BY <3>2, Zenon DEF Kept
        <4> QED BY <1>0, <4>1, Zenon
      <3> QED BY ONLY <1>1, <2>2, <3>1, <3>2, Zenon DEF Kept
    <2> QED BY <2>1, <2>3, Zenon
  <1>3. CASE s[n + 1] \in T
    <2> DEFINE w == Append(u, s[n + 1])
    <2>1. Pick(s, T, n + 1, u) = w
      BY <1>3, Zenon DEF Pick
    <2>2. /\ w \in Seq(Events) /\ Len(w) = Len(u) + 1
          /\ Elements(w) = Elements(u) \cup {s[n + 1]}
          /\ \A i \in DOMAIN w : \/ i \in DOMAIN u /\ w[i] = u[i]
                                 \/ i = Len(u) + 1 /\ w[i] = s[n + 1]
      BY ONLY <1>1, AppendElements
    <2> HIDE DEF w
    <2>3. Len(w) <= n + 1
      BY ONLY <1>1, <2>2, n \in Nat
    <2>4. /\ \A x \in Elements(w) : x \in T /\ \E k \in 1 .. (n + 1) : s[k] = x
          /\ \A k \in 1 .. (n + 1) : s[k] \in T => s[k] \in Elements(w)
      BY <1>0, <1>3, <2>2, Zenon DEF Kept
    <2>5. \A i \in DOMAIN u : i \in 1 .. Len(u) /\ u[i] \in Elements(u)
      <3>1. DOMAIN u = 1 .. Len(u)
        BY ONLY <1>1
      <3> QED BY ONLY <3>1, Zenon DEF Elements
    <2>6. ASSUME NEW i \in DOMAIN w, NEW j \in DOMAIN w, i < j
          PROVE  \E k, l \in 1 .. (n + 1) : k < l /\ s[k] = w[i] /\ s[l] = w[j]
      <3>1. i \in DOMAIN u /\ w[i] = u[i]
        <4>1. \A p \in DOMAIN w : p <= Len(u) + 1 /\ p \in Nat
          BY ONLY <1>1, <2>2
        <4>2. i # Len(u) + 1
          BY ONLY <1>1, <4>1, <2>6, i \in DOMAIN w, j \in DOMAIN w
        <4> QED BY ONLY <2>2, <4>2, i \in DOMAIN w, Zenon
      <3>2. CASE j \in DOMAIN u /\ w[j] = u[j]
        <4>1. PICK k \in 1 .. n, l \in 1 .. n : k < l /\ s[k] = u[i] /\ s[l] = u[j]
          BY <2>6, <3>1, <3>2, Zenon DEF Kept
        <4> QED BY <1>0, <3>1, <3>2, <4>1, Zenon
      <3>3. CASE j = Len(u) + 1 /\ w[j] = s[n + 1]
        <4>1. PICK k \in 1 .. n : s[k] = u[i]
          BY <2>5, <3>1, Zenon DEF Kept
        <4>2. k < n + 1 /\ k \in 1 .. (n + 1) /\ n + 1 \in 1 .. (n + 1)
          BY ONLY n \in Nat, k \in 1 .. n
        <4> QED BY ONLY <3>1, <3>3, <4>1, <4>2, Zenon
      <3> QED BY ONLY <2>2, <3>2, <3>3, j \in DOMAIN w, Zenon
    <2>7. Kept(w, n + 1, s, T)
      BY ONLY <2>2, <2>3, <2>4, <2>6, Zenon DEF Kept
    <2> QED BY <2>1, <2>7, Zenon
  <1> QED BY <1>2, <1>3, Zenon

(* What a turn of groupBySubject returns.                                  *)
LEMMA OnlyKeeps ==
  ASSUME NEW s \in Seq(Events), NEW T
  PROVE  Kept(Only(s, T), Len(s), s, T)
  <1>1. PICK h : Picks(s, T, h) /\ Only(s, T) = h[Len(s)]
    BY OnlyLoop, Zenon
  <1> DEFINE N == Len(s)
             P(k) == k <= N => Kept(h[k], k, s, T)
             M == {k \in Nat : P(k)}
  <1>2. N \in Nat /\ 0 \in Nat /\ (\A k \in Nat : k + 1 \in Nat) /\ N <= N
    OBVIOUS
  <1>3. P(0)
    <2>1. h[0] = <<>>
      BY <1>1, Zenon DEF Picks
    <2>2. <<>> \in Seq(Events) /\ Len(<<>>) <= 0 /\ Elements(<<>>) = {} /\ 1 .. 0 = {}
          /\ DOMAIN <<>> = {}
      BY DEF Elements
    <2>3. Kept(<<>>, 0, s, T)
      BY ONLY <2>2, Zenon DEF Kept
    <2> QED BY <2>1, <2>3, Zenon
  <1>4. ASSUME NEW k \in Nat, P(k) PROVE P(k + 1)
    <2> SUFFICES ASSUME k + 1 <= N PROVE Kept(h[k + 1], k + 1, s, T)
      BY Zenon
    <2>1. k <= N /\ k + 1 \in 1 .. N /\ k + 1 - 1 = k
      BY ONLY <1>2, k \in Nat, k + 1 <= N
    <2>2. h[k + 1] = Pick(s, T, k + 1, h[k])
      <3>1. h[k + 1] = Pick(s, T, k + 1, h[k + 1 - 1])
        BY ONLY <1>1, <2>1 DEF Picks
      <3> QED BY ONLY <2>1, <3>1, Zenon
    <2>3. Kept(h[k], k, s, T)
      BY <1>4, <2>1, Zenon
    <2>4. Kept(Pick(s, T, k + 1, h[k]), k + 1, s, T)
      BY <2>3, KeptStep, Zenon
    <2> QED BY <2>2, <2>4, Zenon
  <1>5. M \in SUBSET Nat /\ 0 \in M
    BY <1>2, <1>3, Zenon
  <1>6. \A k \in M : k + 1 \in M
    BY <1>2, <1>4, Zenon
  <1> HIDE DEF P, N
  <1>7. M = Nat
    BY ONLY <1>5, <1>6, NatInd, Zenon
  <1>8. P(N)
    BY ONLY <1>2, <1>7, Zenon
  <1> QED BY ONLY <1>1, <1>2, <1>8, Zenon DEF P, N

-----------------------------------------------------------------------------
(* The order of a log l.                                                   *)

Before(l, e, f) == Index(l, e) < Index(l, f)
Ordered(l, s) == \A i, j \in DOMAIN s : i < j => Before(l, s[i], s[j])
AllBefore(l, S, T) == \A e \in S, f \in T : Before(l, e, f)
SameBefore(l, S, T) == \A e \in S, f \in T : Subject[e] = Subject[f] => Before(l, e, f)
OrderedSame(l, s) ==
  \A i, j \in DOMAIN s : i < j /\ Subject[s[i]] = Subject[s[j]] => Before(l, s[i], s[j])

(* The position of an event in a sequence, unique when none repeats. *)
LEMMA IndexIs ==
  ASSUME NEW l \in Seq(Events)
  PROVE  /\ \A x \in Elements(l) : Index(l, x) \in 1 .. Len(l) /\ l[Index(l, x)] = x
         /\ IsInjective(l) => \A i \in DOMAIN l : Index(l, l[i]) = i
  <1>1. DOMAIN l = 1 .. Len(l)
    OBVIOUS
  <1>2. \A x \in Elements(l) : Index(l, x) \in DOMAIN l /\ l[Index(l, x)] = x
    BY Zenon DEF Elements, Index
  <1>3. \A i \in DOMAIN l : l[i] \in Elements(l)
    BY Zenon DEF Elements
  <1> QED BY ONLY <1>1, <1>2, <1>3, Zenon DEF IsInjective

(* No event comes before itself.                                           *)
LEMMA NotBeforeItself ==
  ASSUME NEW l \in Seq(Events), NEW x \in Elements(l)
  PROVE  ~Before(l, x, x)
  <1>1. Index(l, x) \in 1 .. Len(l) /\ Len(l) \in Nat
    BY IndexIs
  <1> QED BY ONLY <1>1 DEF Before

(* Sets of events of which one precedes the other share none. *)
LEMMA BeforeDisjoint ==
  ASSUME NEW l \in Seq(Events), NEW S \in SUBSET Elements(l), NEW T \in SUBSET Elements(l)
  PROVE  AllBefore(l, S, T) \/ SameBefore(l, S, T) => S \cap T = {}
  <1>1. \A x \in Elements(l) : ~Before(l, x, x)
    BY NotBeforeItself, Zenon
  <1> QED BY ONLY <1>1, S \in SUBSET Elements(l), Zenon DEF AllBefore, SameBefore

(* A sequence in the order of emission repeats no event. *)
LEMMA OrderedInjective ==
  ASSUME NEW l \in Seq(Events), NEW s \in Seq(Events), Elements(s) \subseteq Elements(l),
         Ordered(l, s) \/ OrderedSame(l, s)
  PROVE  IsInjective(s)
  <1> SUFFICES ASSUME NEW i \in DOMAIN s, NEW j \in DOMAIN s, s[i] = s[j], i # j
               PROVE  FALSE
    BY Zenon DEF IsInjective
  <1>1. i < j \/ j < i
    <2>1. i \in 1 .. Len(s) /\ j \in 1 .. Len(s) /\ Len(s) \in Nat
      OBVIOUS
    <2> QED BY ONLY <2>1, i # j
  <1>2. s[i] \in Elements(l)
    BY Zenon DEF Elements
  <1>3. ~Before(l, s[i], s[i])
    BY ONLY <1>2, l \in Seq(Events), NotBeforeItself, Zenon
  <1> QED BY <1>1, <1>3, Zenon DEF Ordered, OrderedSame

(* What is added to the log comes after what is there, and changes nothing *)
(* of its order.                                                           *)
LEMMA LogGrows ==
  ASSUME NEW l \in Seq(Events), IsInjective(l), NEW e \in Events, e \notin Elements(l)
  PROVE  /\ Append(l, e) \in Seq(Events) /\ IsInjective(Append(l, e))
         /\ Elements(Append(l, e)) = Elements(l) \cup {e}
         /\ \A x, y \in Elements(l) : Before(l, x, y) => Before(Append(l, e), x, y)
         /\ \A x \in Elements(l) : Before(Append(l, e), x, e)
  <1> DEFINE m == Append(l, e)
  <1>1. /\ m \in Seq(Events) /\ Len(m) = Len(l) + 1 /\ Len(l) \in Nat
        /\ Elements(m) = Elements(l) \cup {e}
        /\ \A i \in DOMAIN m : (i \in DOMAIN l /\ m[i] = l[i]) \/ (i = Len(l) + 1 /\ m[i] = e)
        /\ \A i \in DOMAIN l : i \in DOMAIN m /\ m[i] = l[i]
        /\ Len(l) + 1 \in DOMAIN m /\ m[Len(l) + 1] = e
    <2>1. Len(l) \in Nat
      OBVIOUS
    <2> QED BY ONLY <2>1, AppendElements, l \in Seq(Events), e \in Events, Zenon
  <1> HIDE DEF m
  <1>2. \A i \in DOMAIN l : l[i] \in Elements(l)
    BY Zenon DEF Elements
  <1>3. IsInjective(m)
    BY ONLY <1>1, <1>2, IsInjective(l), e \notin Elements(l), Zenon DEF IsInjective
  <1>4. \A x \in Elements(l) : Index(l, x) \in 1 .. Len(l) /\ l[Index(l, x)] = x
    BY IndexIs, Zenon
  <1>5. \A i \in DOMAIN m : Index(m, m[i]) = i
    BY ONLY <1>1, <1>3, IndexIs, Zenon
  <1>6. DOMAIN l = 1 .. Len(l)
    OBVIOUS
  <1>7. \A x \in Elements(l) : Index(m, x) = Index(l, x)
    BY ONLY <1>1, <1>4, <1>5, <1>6, Zenon
  <1>8. Index(m, e) = Len(l) + 1
    BY ONLY <1>1, <1>5, Zenon
  <1>9. \A x \in Elements(l) : Index(m, x) < Index(m, e)
    BY ONLY <1>1, <1>4, <1>7, <1>8
  <1> QED BY ONLY <1>1, <1>3, <1>7, <1>9, Zenon DEF Before, m

(* A sequence cut in two.                                                  *)
CutAt(s, n, a, b) ==
  n \in 0 .. Len(s) /\ a = SubSeq(s, 1, n) /\ b = SubSeq(s, n + 1, Len(s))

Halves(s, n, a, b) ==
  /\ a \in Seq(Events) /\ b \in Seq(Events) /\ Len(a) = n /\ Len(b) = Len(s) - n
  /\ \A i \in DOMAIN a : i \in DOMAIN s /\ a[i] = s[i]
  /\ \A i \in DOMAIN b : i + n \in DOMAIN s /\ b[i] = s[i + n]
  /\ \A i \in DOMAIN a, j \in DOMAIN b : i < j + n
  /\ Elements(s) = Elements(a) \cup Elements(b)

(* Cutting a sequence in two: its halves, their elements and positions. *)
LEMMA CutSeq ==
  ASSUME NEW s \in Seq(Events), NEW n, NEW a, NEW b, CutAt(s, n, a, b)
  PROVE  Halves(s, n, a, b)
  <1>1. Len(s) \in Nat /\ n \in Nat /\ n <= Len(s) /\ DOMAIN s = 1 .. Len(s)
    BY DEF CutAt
  <1>0. a = SubSeq(s, 1, n) /\ b = SubSeq(s, n + 1, Len(s))
    BY Zenon DEF CutAt
  <1>2. a \in Seq(Events) /\ Len(a) = n /\ \A i \in 1 .. n : a[i] = s[i]
    BY <1>0, <1>1
  <1>3. b \in Seq(Events) /\ Len(b) = Len(s) - n /\ \A i \in 1 .. (Len(s) - n) : b[i] = s[i + n]
    <2>1. n + 1 \in Int /\ Len(s) \in Int /\ \A i \in (n + 1) .. Len(s) : s[i] \in Events
      BY ONLY <1>1, s \in Seq(Events)
    <2>2. /\ SubSeq(s, n + 1, Len(s)) \in Seq(Events)
          /\ Len(SubSeq(s, n + 1, Len(s))) = IF n + 1 <= Len(s) THEN Len(s) - (n + 1) + 1 ELSE 0
          /\ \A i \in 1 .. (Len(s) - (n + 1) + 1) :
               SubSeq(s, n + 1, Len(s))[i] = s[(n + 1) + i - 1]
      BY ONLY <2>1, SubSeqProperties
    <2>5. Len(s) \in Nat /\ n \in Nat /\ n <= Len(s)
      BY ONLY <1>1, Zenon
    <2>3. /\ Len(s) - (n + 1) + 1 = Len(s) - n
          /\ n + 1 <= Len(s) \/ 0 = Len(s) - n
      BY ONLY <2>5
    <2>4. \A i \in 1 .. (Len(s) - n) : (n + 1) + i - 1 = i + n
      BY ONLY <2>5
    <2> QED BY <1>0, <2>2, <2>3, <2>4, Zenon
  <1>4. DOMAIN a = 1 .. n /\ DOMAIN b = 1 .. (Len(s) - n)
    BY <1>2, <1>3
  <1>5. /\ \A i \in DOMAIN a : i \in DOMAIN s /\ a[i] = s[i]
        /\ \A i \in DOMAIN b : i + n \in DOMAIN s /\ b[i] = s[i + n]
        /\ \A i \in DOMAIN a, j \in DOMAIN b : i < j + n
    BY ONLY <1>1, <1>2, <1>3, <1>4
  <1>6. \A i \in DOMAIN s : i \in DOMAIN a \/ (i - n \in DOMAIN b /\ (i - n) + n = i)
    BY ONLY <1>1, <1>4
  <1>7. Elements(s) = Elements(a) \cup Elements(b)
    <2>1. ASSUME NEW i \in DOMAIN s PROVE s[i] \in Elements(a) \cup Elements(b)
      <3>1. CASE i \in DOMAIN a
        BY ONLY <1>5, <3>1, Zenon DEF Elements
      <3>2. CASE i - n \in DOMAIN b /\ (i - n) + n = i
        <4>1. b[i - n] = s[i]
          BY ONLY <1>5, <3>2, Zenon
        <4> QED BY ONLY <3>2, <4>1, Zenon DEF Elements
      <3> QED BY <1>6, <3>1, <3>2, Zenon
    <2>2. \A x \in Elements(a) \cup Elements(b) : x \in Elements(s)
      BY ONLY <1>5, Zenon DEF Elements
    <2> QED BY ONLY <2>1, <2>2, Zenon DEF Elements
  <1> QED BY ONLY <1>2, <1>3, <1>5, <1>7, Zenon DEF Halves

(* Both halves of an ordered sequence are ordered, and the first precedes the second. *)
LEMMA CutOrdered ==
  ASSUME NEW l, NEW s \in Seq(Events), NEW n, NEW a, NEW b, CutAt(s, n, a, b), Ordered(l, s)
  PROVE  Ordered(l, a) /\ Ordered(l, b) /\ AllBefore(l, Elements(a), Elements(b))
  <1>0. Halves(s, n, a, b)
    BY CutSeq, Zenon
  <1>1. /\ \A i \in DOMAIN a : i \in DOMAIN s /\ a[i] = s[i]
        /\ \A i \in DOMAIN b : i + n \in DOMAIN s /\ b[i] = s[i + n]
        /\ \A i \in DOMAIN a, j \in DOMAIN b : i < j + n
        /\ b \in Seq(Events)
    BY ONLY <1>0, Zenon DEF Halves
  <1>2. \A i, j \in DOMAIN b : i < j => i + n < j + n
    <2>1. \A i \in DOMAIN b : i \in Nat
      BY ONLY <1>1
    <2>2. n \in Nat
      BY DEF CutAt
    <2> QED BY ONLY <2>1, <2>2
  <1>3. Ordered(l, a)
    BY ONLY <1>1, Ordered(l, s), Zenon DEF Ordered
  <1>4. Ordered(l, b)
    BY ONLY <1>1, <1>2, Ordered(l, s), Zenon DEF Ordered
  <1>5. AllBefore(l, Elements(a), Elements(b))
    BY ONLY <1>1, Ordered(l, s), Zenon DEF Ordered, AllBefore, Elements
  <1> QED BY <1>3, <1>4, <1>5, Zenon

(* The line of the sink: published u, taken k and pending p of one subject *)
(* follow each other as they were added to the log l, and what was dropped *)
(* came before all that is pending.                                        *)
InLine(l, p, k, u, c) ==
  /\ Ordered(l, p) /\ Ordered(l, k) /\ OrderedSame(l, u)
  /\ AllBefore(l, Elements(k), Elements(p)) /\ AllBefore(l, c, Elements(p))
  /\ SameBefore(l, Elements(u), Elements(k) \cup Elements(p))

(* An event goes to the end of the line ...                                *)
LEMMA LineGrows ==
  ASSUME NEW l \in Seq(Events), IsInjective(l), NEW e \in Events, e \notin Elements(l),
         NEW p \in Seq(Events), NEW k \in Seq(Events), NEW u \in Seq(Events), NEW c,
         Elements(p) \subseteq Elements(l), Elements(k) \subseteq Elements(l),
         Elements(u) \subseteq Elements(l), c \subseteq Elements(l), InLine(l, p, k, u, c)
  PROVE  InLine(Append(l, e), Append(p, e), k, u, c)
  <1> DEFINE m == Append(l, e)
             w == Append(p, e)
  <1>1. /\ \A x, y \in Elements(l) : Before(l, x, y) => Before(m, x, y)
        /\ \A x \in Elements(l) : Before(m, x, e)
    BY LogGrows, Zenon
  <1>2. /\ Elements(w) = Elements(p) \cup {e} /\ w \in Seq(Events)
        /\ \A i \in DOMAIN w : (i \in DOMAIN p /\ w[i] = p[i]) \/ (i = Len(p) + 1 /\ w[i] = e)
        /\ Len(w) = Len(p) + 1 /\ Len(p) \in Nat
    <2>1. Len(p) \in Nat
      OBVIOUS
    <2> QED BY ONLY <2>1, AppendElements, p \in Seq(Events), e \in Events, Zenon
  <1> HIDE DEF m, w
  <1>3. \A i \in DOMAIN p : p[i] \in Elements(l)
    BY Zenon DEF Elements
  <1>4. \A i \in DOMAIN k : k[i] \in Elements(l)
    BY Zenon DEF Elements
  <1>5. \A i \in DOMAIN u : u[i] \in Elements(l)
    BY Zenon DEF Elements
  <1>6. Ordered(m, w)
    <2> SUFFICES ASSUME NEW i \in DOMAIN w, NEW j \in DOMAIN w, i < j
                 PROVE  Before(m, w[i], w[j])
      BY Zenon DEF Ordered
    <2>1. i \in DOMAIN p /\ w[i] = p[i]
      <3>1. \A n \in DOMAIN w : n <= Len(p) + 1 /\ n \in Nat
        BY ONLY <1>2
      <3>2. i # Len(p) + 1
        BY ONLY <1>2, <3>1, i < j, i \in DOMAIN w, j \in DOMAIN w
      <3> QED BY ONLY <1>2, <3>2, i \in DOMAIN w, Zenon
    <2>2. CASE j \in DOMAIN p /\ w[j] = p[j]
      BY <1>1, <1>3, <2>1, <2>2, Zenon DEF InLine, Ordered
    <2>3. CASE w[j] = e
      BY <1>1, <1>3, <2>1, <2>3, Zenon
    <2> QED BY <1>2, <2>2, <2>3, Zenon
  <1>7. Ordered(m, k)
    BY <1>1, <1>4, Zenon DEF InLine, Ordered
  <1>8. OrderedSame(m, u)
    BY <1>1, <1>5, Zenon DEF InLine, OrderedSame
  <1>9. AllBefore(m, Elements(k), Elements(w)) /\ AllBefore(m, c, Elements(w))
    BY <1>1, <1>2, Zenon DEF InLine, AllBefore
  <1>10. SameBefore(m, Elements(u), Elements(k) \cup Elements(w))
    BY <1>1, <1>2, Zenon DEF InLine, SameBefore
  <1> QED BY <1>6, <1>7, <1>8, <1>9, <1>10, Zenon DEF InLine, m, w

(* ... leaves it at its head, dropped or taken ...                         *)
LEMMA LineCut ==
  ASSUME NEW l, NEW p \in Seq(Events), NEW k, NEW u, NEW c, InLine(l, p, k, u, c),
         NEW n, NEW a, NEW b, CutAt(p, n, a, b)
  PROVE  /\ InLine(l, b, k, u, c \cup Elements(a))
         /\ Elements(k) = {} => InLine(l, b, a, u, c)
  <1>0. Halves(p, n, a, b)
    BY CutSeq, Zenon
  <1>1. Elements(p) = Elements(a) \cup Elements(b)
    BY ONLY <1>0, Zenon DEF Halves
  <1>2. Ordered(l, a) /\ Ordered(l, b) /\ AllBefore(l, Elements(a), Elements(b))
    BY CutOrdered, Zenon DEF InLine
  <1>3. InLine(l, b, k, u, c \cup Elements(a))
    BY <1>1, <1>2, Zenon DEF InLine, AllBefore, SameBefore
  <1>4. ASSUME Elements(k) = {} PROVE InLine(l, b, a, u, c)
    BY <1>1, <1>2, <1>4, Zenon DEF InLine, AllBefore, SameBefore
  <1> QED BY <1>3, <1>4, Zenon

(* The elements and the positions of two sequences joined. *)
LEMMA JoinSeqs ==
  ASSUME NEW u \in Seq(Events), NEW g \in Seq(Events)
  PROVE  /\ u \o g \in Seq(Events) /\ Elements(u \o g) = Elements(u) \cup Elements(g)
         /\ \A i \in DOMAIN (u \o g) :
              \/ i \in DOMAIN u /\ (u \o g)[i] = u[i]
              \/ i > Len(u) /\ i - Len(u) \in DOMAIN g /\ (u \o g)[i] = g[i - Len(u)]
  <1> DEFINE w == u \o g
  <1>1. w \in Seq(Events) /\ Len(w) = Len(u) + Len(g) /\ Len(u) \in Nat /\ Len(g) \in Nat
    OBVIOUS
  <1>2. /\ \A i \in 1 .. Len(u) : w[i] = u[i]
        /\ \A i \in 1 .. Len(g) : w[Len(u) + i] = g[i]
    OBVIOUS
  <1>3. DOMAIN u = 1 .. Len(u) /\ DOMAIN g = 1 .. Len(g) /\ DOMAIN w = 1 .. (Len(u) + Len(g))
    BY <1>1
  <1> HIDE DEF w
  <1>4. ASSUME NEW i \in DOMAIN w
        PROVE  \/ i \in DOMAIN u /\ w[i] = u[i]
               \/ i > Len(u) /\ i - Len(u) \in DOMAIN g /\ w[i] = g[i - Len(u)]
    <2>1. CASE i <= Len(u)
      BY <1>1, <1>2, <1>3, <2>1
    <2>2. CASE i > Len(u)
      <3>1. i - Len(u) \in 1 .. Len(g) /\ Len(u) + (i - Len(u)) = i
        BY ONLY <1>1, <1>3, <2>2, i \in DOMAIN w
      <3>2. w[Len(u) + (i - Len(u))] = g[i - Len(u)]
        BY ONLY <1>2, <3>1, Zenon
      <3> QED BY ONLY <1>3, <2>2, <3>1, <3>2, Zenon
    <2>3. i \in Nat
      BY ONLY <1>1, <1>3, i \in DOMAIN w
    <2> QED BY ONLY <1>1, <2>1, <2>2, <2>3
  <1>5. /\ \A i \in DOMAIN u : i \in DOMAIN w /\ w[i] = u[i]
        /\ \A i \in DOMAIN g : Len(u) + i \in DOMAIN w /\ w[Len(u) + i] = g[i]
    BY ONLY <1>1, <1>2, <1>3
  <1>6. Elements(w) = Elements(u) \cup Elements(g)
    <2>1. \A x \in Elements(w) : x \in Elements(u) \cup Elements(g)
      BY ONLY <1>4, Zenon DEF Elements
    <2>2. \A x \in Elements(u) \cup Elements(g) : x \in Elements(w)
      BY ONLY <1>5, Zenon DEF Elements
    <2> QED BY ONLY <2>1, <2>2, Zenon
  <1> QED BY ONLY <1>1, <1>4, <1>6, Zenon DEF w

(* What a turn of groupBySubject keeps is in the order of what it got.     *)
LEMMA KeptOrdered ==
  ASSUME NEW k \in Seq(Events), NEW T, NEW g, Kept(g, Len(k), k, T), NEW l, Ordered(l, k)
  PROVE  /\ Ordered(l, g) /\ g \in Seq(Events) /\ Len(g) <= Len(k)
         /\ Elements(g) = Elements(k) \cap T
  <1>1. DOMAIN k = 1 .. Len(k)
    OBVIOUS
  <1>2. Ordered(l, g)
    <2> SUFFICES ASSUME NEW i \in DOMAIN g, NEW j \in DOMAIN g, i < j
                 PROVE  Before(l, g[i], g[j])
      BY Zenon DEF Ordered
    <2>1. PICK m, n \in 1 .. Len(k) : m < n /\ k[m] = g[i] /\ k[n] = g[j]
      BY Zenon DEF Kept
    <2>2. Before(l, k[m], k[n])
      BY <1>1, <2>1, Zenon DEF Ordered
    <2> QED BY <2>1, <2>2, Zenon
  <1>3. \A x \in Elements(g) : x \in Elements(k) \cap T
    BY <1>1, Zenon DEF Elements, Kept
  <1>4. \A x \in Elements(k) \cap T : x \in Elements(g)
    <2> SUFFICES ASSUME NEW i \in DOMAIN k, k[i] \in T PROVE k[i] \in Elements(g)
      BY Zenon DEF Elements
    <2> QED BY <1>1, Zenon DEF Kept
  <1> QED BY <1>2, <1>3, <1>4, Zenon DEF Kept

(* ... and is taken out of a batch by subject, published or refused.       *)
LEMMA LinePublish ==
  ASSUME NEW l, NEW p, NEW k \in Seq(Events), NEW u \in Seq(Events), NEW c, InLine(l, p, k, u, c),
         NEW x, NEW T, T = {e \in Events : SameMessage(x, e)},
         NEW g, NEW r, Kept(g, Len(k), k, T), Kept(r, Len(k), k, Events \ T)
  PROVE  InLine(l, p, r, u \o g, c) /\ InLine(l, p, r, u, c)
  <1> DEFINE w == u \o g
  <1>1. /\ Ordered(l, g) /\ g \in Seq(Events) /\ Elements(g) = Elements(k) \cap T
        /\ Ordered(l, r) /\ r \in Seq(Events) /\ Elements(r) = Elements(k) \cap (Events \ T)
    <2>1. Ordered(l, k)
      BY Zenon DEF InLine
    <2> QED BY <2>1, KeptOrdered, Zenon
  <1>2. /\ w \in Seq(Events) /\ Elements(w) = Elements(u) \cup Elements(g)
        /\ \A i \in DOMAIN w :
             \/ i \in DOMAIN u /\ w[i] = u[i]
             \/ i > Len(u) /\ i - Len(u) \in DOMAIN g /\ w[i] = g[i - Len(u)]
    BY ONLY <1>1, JoinSeqs, u \in Seq(Events), Zenon
  <1> HIDE DEF w
  <1>3. \A e \in Elements(g), f \in Elements(r) : Subject[e] # Subject[f]
    BY <1>1, Zenon DEF SameMessage
  <1>4. OrderedSame(l, w)
    <2> SUFFICES ASSUME NEW i \in DOMAIN w, NEW j \in DOMAIN w, i < j, Subject[w[i]] = Subject[w[j]]
                 PROVE  Before(l, w[i], w[j])
      BY Zenon DEF OrderedSame
    <2>1. CASE i \in DOMAIN u /\ w[i] = u[i] /\ j \in DOMAIN u /\ w[j] = u[j]
      BY <2>1, Zenon DEF InLine, OrderedSame
    <2>2. CASE i \in DOMAIN u /\ w[i] = u[i] /\ j - Len(u) \in DOMAIN g /\ w[j] = g[j - Len(u)]
      <3>1. w[i] \in Elements(u) /\ w[j] \in Elements(g)
        BY <2>2, Zenon DEF Elements
      <3> QED BY <1>1, <3>1, Zenon DEF InLine, SameBefore
    <2>3. CASE /\ i > Len(u) /\ i - Len(u) \in DOMAIN g /\ w[i] = g[i - Len(u)]
               /\ j > Len(u) /\ j - Len(u) \in DOMAIN g /\ w[j] = g[j - Len(u)]
      <3>1. i \in Nat /\ j \in Nat /\ Len(u) \in Nat
        BY ONLY <1>2, i \in DOMAIN w, j \in DOMAIN w, u \in Seq(Events)
      <3>2. i - Len(u) < j - Len(u)
        BY ONLY <3>1, i < j
      <3> QED BY <1>1, <2>3, <3>2, Zenon DEF Ordered
    <2>4. ~(i > Len(u) /\ j \in DOMAIN u)
      <3>1. i \in Nat /\ Len(u) \in Nat /\ (j \in DOMAIN u => j \in Nat /\ j <= Len(u))
        BY ONLY <1>2, i \in DOMAIN w, u \in Seq(Events)
      <3> QED BY ONLY <3>1, i < j
    <2> QED BY <1>2, <2>1, <2>2, <2>3, <2>4, Zenon
  <1>5. AllBefore(l, Elements(r), Elements(p))
    BY <1>1, Zenon DEF InLine, AllBefore
  <1>6. SameBefore(l, Elements(u), Elements(r) \cup Elements(p))
    BY <1>1, Zenon DEF InLine, SameBefore
  <1>7. SameBefore(l, Elements(w), Elements(r) \cup Elements(p))
    <2> SUFFICES ASSUME NEW e \in Elements(g), NEW f \in Elements(r) \cup Elements(p),
                        Subject[e] = Subject[f]
                 PROVE  Before(l, e, f)
      BY <1>2, <1>6, Zenon DEF SameBefore
    <2>1. f \in Elements(p) /\ e \in Elements(k)
      BY <1>1, <1>3, Zenon
    <2> QED BY <2>1, Zenon DEF InLine, AllBefore
  <1> QED BY <1>1, <1>4, <1>5, <1>6, <1>7, Zenon DEF InLine, w

(* Five places that share nothing and hold what is in L.                   *)
Apart(L, p, k, u, f, c) ==
  /\ L = p \cup k \cup u \cup f \cup c
  /\ p \cap k = {} /\ p \cap u = {} /\ p \cap f = {} /\ p \cap c = {}
  /\ k \cap u = {} /\ k \cap f = {} /\ k \cap c = {}
  /\ u \cap f = {} /\ u \cap c = {} /\ f \cap c = {}

(* They stay apart when an event is added and the oldest d are dropped ... *)
LEMMA ApartAdd ==
  ASSUME NEW L, NEW p, NEW k, NEW u, NEW f, NEW c, Apart(L, p, k, u, f, c),
         NEW e, e \notin L, NEW d, NEW q, p \cup {e} = d \cup q, d \cap q = {}
  PROVE  Apart(L \cup {e}, q, k, u, f, c \cup d)
  BY DEF Apart

(* ... when a batch is taken ...                                           *)
LEMMA ApartTake ==
  ASSUME NEW L, NEW p, NEW k, NEW u, NEW f, NEW c, Apart(L, p, k, u, f, c), k = {},
         NEW t, NEW q, p = t \cup q, t \cap q = {}
  PROVE  Apart(L, q, t, u, f, c)
  BY Zenon DEF Apart

(* ... and when a message of it is published or refused.                   *)
LEMMA ApartPublish ==
  ASSUME NEW L, NEW p, NEW k, NEW u, NEW f, NEW c, Apart(L, p, k, u, f, c),
         NEW g, NEW r, k = g \cup r, g \cap r = {}
  PROVE  Apart(L, p, r, u \cup g, f, c) /\ Apart(L, p, r, u, f \cup g, c)
  BY Zenon DEF Apart

(* Messages are of one subject and no larger than a batch.                 *)
MessagesClean(m) ==
  \A b \in Elements(m) :
    Len(b) \in 1 .. MaxItems /\ \A e, f \in Elements(b) : Subject[e] = Subject[f]

(* Inductive, with Inv: the sink is a line, its five places are apart, and *)
(* its two counts are right.                                               *)
Line ==
  /\ take \in Seq(Events) /\ sent \in Seq(Seq(Events)) /\ Len(take) <= MaxItems
  /\ IsInjective(log) /\ MessagesClean(sent)
  /\ InLine(log, pending, take, Published, cut)
  /\ Apart(Elements(log), Elements(pending), Elements(take), Elements(Published), failed, cut)
  /\ size = SizeOf(pending) /\ dropped = Cardinality(cut) /\ IsFiniteSet(cut)

(* The empty sequence has no elements. *)
LEMMA NothingHasNoElements == Elements(<<>>) = {}
  BY DEF Elements

(* A new sink is empty.                                                    *)
LEMMA InitLine == Init => Line
  <1> SUFFICES ASSUME Init PROVE Line
    BY Zenon
  <1>1. /\ <<>> \in Seq(Events) /\ <<>> \in Seq(Seq(Events)) /\ DOMAIN <<>> = {}
        /\ Len(<<>>) = 0 /\ 0 <= MaxItems
    BY SinkAssumption
  <1>2. Published = <<>>
    BY <1>1, FlatType, Zenon DEF Init, Published
  <1>3. IsInjective(<<>>) /\ MessagesClean(<<>>)
    BY <1>1, NothingHasNoElements, Zenon DEF IsInjective, MessagesClean
  <1>4. InLine(<<>>, <<>>, <<>>, <<>>, {})
    BY <1>1, NothingHasNoElements, Zenon
    DEF InLine, Ordered, OrderedSame, AllBefore, SameBefore
  <1>5. Apart({}, {}, {}, {}, {}, {})
    BY Zenon DEF Apart
  <1>6. Cardinality({}) = 0 /\ IsFiniteSet({})
    BY FS_EmptySet, Zenon
  <1> QED
    BY <1>1, <1>2, <1>3, <1>4, <1>5, <1>6, NothingHasNoElements, SizeOfNothing, Zenon
    DEF Init, Line

(* Add keeps the line: what it drops was first in it.                      *)
LEMMA AddLine ==
  ASSUME Inv, Line, NEW a \in Adders, NEW e \in Events, Add(a, e)
  PROVE  Line'
  <1> DEFINE all == Append(pending, e)
             over == Over(Len(all))
             d == SubSeq(all, 1, over)
             q == SubSeq(all, over + 1, Len(all))
             u == Published
  <1>1. /\ pending \in Seq(Events) /\ log \in Seq(Events) /\ take \in Seq(Events)
        /\ sent \in Seq(Seq(Events)) /\ IsInjective(log) /\ e \notin Elements(log)
    BY Zenon DEF Inv, Line, Add
  <1>2. u \in Seq(Events)
    BY <1>1, FlatType, Zenon DEF Published
  <1>3. /\ Apart(Elements(log), Elements(pending), Elements(take), Elements(u), failed, cut)
        /\ InLine(log, pending, take, u, cut)
    BY Zenon DEF Line
  <1>4. all \in Seq(Events) /\ Elements(all) = Elements(pending) \cup {e} /\ Len(all) \in Nat
    <2>1. Elements(all) = Elements(pending) \cup {e}
      BY <1>1, AppendElements, Zenon
    <2> QED BY <1>1, <2>1
  <1>5. Len(all) = Len(pending) + 1 /\ Len(pending) \in Nat /\ Len(pending) <= MaxPending
    BY <1>1 DEF Inv, Bounded
  <1>6. over = 0 \/ over = 1
    BY <1>5, SinkAssumption DEF Over
  <1>7. log' = Append(log, e) /\ pending' = q /\ take' = take /\ sent' = sent /\ failed' = failed
        /\ cut' = cut \cup Elements(d) /\ dropped' = dropped + over
        /\ size' = IF over > 0 THEN SizeOf(q) ELSE size + Weight[e]
    BY Zenon DEF Add
  <1>8. CutAt(all, over, d, q)
    <2>1. over \in 0 .. Len(all)
      BY <1>4, <1>5, <1>6
    <2> QED BY <2>1, Zenon DEF CutAt
  <1>9. size' = SizeOf(pending')
    <2>1. CASE over = 0
      <3>1. q = all
        <4>1. q = SubSeq(all, 1, Len(all))
          BY <2>1
        <4> QED BY ONLY <1>4, <4>1, SubSeqFull, Zenon
      <3>2. size' = size + Weight[e]
        BY <1>7, <2>1
      <3> QED BY <1>1, <1>7, <3>1, <3>2, SizeOfAppend, Zenon DEF Line
    <2>2. CASE over = 1
      BY <1>7, <2>2
    <2> QED BY <1>6, <2>1, <2>2, Zenon
  <1> HIDE DEF all, over, d, q, u
  <1>10. Halves(all, over, d, q)
    BY <1>4, <1>8, CutSeq, Zenon
  <1>11. /\ log' \in Seq(Events) /\ IsInjective(log') /\ Elements(log') = Elements(log) \cup {e}
    BY <1>1, <1>7, LogGrows, Zenon
  <1>12. InLine(log', all, take, u, cut)
    <2>1. /\ Elements(pending) \subseteq Elements(log) /\ Elements(take) \subseteq Elements(log)
          /\ Elements(u) \subseteq Elements(log) /\ cut \subseteq Elements(log)
      BY <1>3, Zenon DEF Apart
    <2> QED BY <1>1, <1>2, <1>3, <1>7, <2>1, LineGrows, Zenon DEF all
  <1>13. InLine(log', q, take, u, cut \cup Elements(d))
    BY <1>4, <1>8, <1>12, LineCut, Zenon
  <1>14. Elements(all) = Elements(d) \cup Elements(q)
    BY <1>10, Zenon DEF Halves
  <1>15. Elements(d) \cap Elements(q) = {}
    <2>1. AllBefore(log', Elements(d), Elements(q))
      BY <1>13, Zenon DEF InLine, AllBefore
    <2>2. Elements(d) \subseteq Elements(log') /\ Elements(q) \subseteq Elements(log')
      BY <1>3, <1>4, <1>11, <1>14, Zenon DEF Apart
    <2> QED BY <1>11, <2>1, <2>2, BeforeDisjoint, Zenon
  <1>16. Apart(Elements(log'), Elements(q), Elements(take), Elements(u), failed, cut \cup Elements(d))
    <2>1. Elements(pending) \cup {e} = Elements(d) \cup Elements(q)
      BY <1>4, <1>14, Zenon
    <2>2. Apart(Elements(log) \cup {e}, Elements(q), Elements(take), Elements(u), failed,
                cut \cup Elements(d))
      BY ONLY <1>1, <1>3, <1>15, <2>1, ApartAdd, Zenon
    <2> QED BY <1>11, <2>2, Zenon
  <1>17. dropped' = Cardinality(cut') /\ IsFiniteSet(cut')
    <2>1. dropped = Cardinality(cut) /\ IsFiniteSet(cut) /\ dropped \in Nat
      BY FS_CardinalityType, Zenon DEF Line
    <2>2. Len(d) = over /\ d \in Seq(Events)
      BY <1>10, Zenon DEF Halves
    <2>3. CASE over = 0
      <3>1. Elements(d) = {}
        BY ONLY <2>2, <2>3 DEF Elements
      <3>2. dropped' = dropped /\ cut' = cut
        BY ONLY <1>7, <2>1, <2>3, <3>1
      <3> QED BY ONLY <2>1, <3>2, Zenon
    <2>4. CASE over = 1
      <3>1. Elements(d) = {d[1]} /\ d[1] \in Elements(d)
        BY ONLY <2>2, <2>4 DEF Elements
      <3>2. d[1] \notin cut
        <4>1. d[1] \in Elements(pending) \cup {e}
          BY <1>4, <1>14, <3>1, Zenon
        <4> QED BY <1>1, <1>3, <4>1, Zenon DEF Apart
      <3>3. Cardinality(cut \cup {d[1]}) = Cardinality(cut) + 1 /\ IsFiniteSet(cut \cup {d[1]})
        BY ONLY <2>1, <3>2, FS_AddElement, Zenon
      <3> QED BY ONLY <1>7, <2>1, <2>4, <3>1, <3>3, Zenon
    <2> QED BY ONLY <1>6, <2>3, <2>4, Zenon
  <1>18. Published' = u
    BY <1>7, Zenon DEF Published, u
  <1> QED BY <1>7, <1>9, <1>11, <1>13, <1>16, <1>17, <1>18, Zenon DEF Line

(* flush keeps the line: the batch was first in it.                        *)
LEMMA FlushLine ==
  ASSUME Inv, Line, Flush
  PROVE  Line'
  <1> DEFINE n == IF Len(pending) > MaxItems THEN MaxItems ELSE Len(pending)
             t == SubSeq(pending, 1, n)
             q == SubSeq(pending, n + 1, Len(pending))
             u == Published
  <1>1. pending \in Seq(Events) /\ log \in Seq(Events) /\ take = <<>>
    BY Zenon DEF Inv, Flush
  <1>2. n \in 0 .. Len(pending) /\ n <= MaxItems
    BY <1>1, SinkAssumption
  <1>3. CutAt(pending, n, t, q)
    BY <1>2, Zenon DEF CutAt
  <1>4. take' = t
    BY Zenon DEF Flush, Batch
  <1> HIDE DEF n, t, q, u
  <1>5. Halves(pending, n, t, q)
    BY <1>1, <1>3, CutSeq, Zenon
  <1>6. /\ t \in Seq(Events) /\ q \in Seq(Events) /\ Len(t) = n
        /\ Elements(pending) = Elements(t) \cup Elements(q)
    BY <1>5, Zenon DEF Halves
  <1>7. pending' = q /\ size' = SizeOf(q)
    BY <1>4, <1>6, Zenon DEF Flush, Rest, Batch, q, t, n
  <1>8. /\ Apart(Elements(log), Elements(pending), Elements(take), Elements(u), failed, cut)
        /\ InLine(log, pending, take, u, cut) /\ Elements(take) = {}
    BY <1>1, NothingHasNoElements, Zenon DEF Line, u
  <1>9. InLine(log, q, t, u, cut)
    BY <1>1, <1>3, <1>8, LineCut, Zenon
  <1>10. Elements(t) \cap Elements(q) = {}
    <2>1. AllBefore(log, Elements(t), Elements(q))
      BY <1>9, Zenon DEF InLine
    <2>2. Elements(t) \subseteq Elements(log) /\ Elements(q) \subseteq Elements(log)
      BY <1>6, Zenon DEF Inv
    <2> QED BY <1>1, <2>1, <2>2, BeforeDisjoint, Zenon
  <1>11. Apart(Elements(log), Elements(q), Elements(t), Elements(u), failed, cut)
    BY ONLY <1>6, <1>8, <1>10, ApartTake, Zenon
  <1>12. /\ log' = log /\ sent' = sent /\ failed' = failed /\ cut' = cut /\ dropped' = dropped
         /\ Published' = u
    BY Zenon DEF Flush, Published, u
  <1> QED BY <1>2, <1>4, <1>6, <1>7, <1>9, <1>11, <1>12, Zenon DEF Line

(* publish keeps the line: a message takes its subject's first events out  *)
(* of the batch, and no subject passes it.                                 *)
LEMMA PublishLine ==
  ASSUME Inv, Line, NEW ok \in BOOLEAN, Publish(ok)
  PROVE  Line'
  <1> DEFINE x == take[1]
             T == {e \in Events : SameMessage(x, e)}
             g == Only(take, T)
             r == Only(take, Events \ T)
             u == Published
  <1>1. /\ pending \in Seq(Events) /\ log \in Seq(Events) /\ take \in Seq(Events)
        /\ sent \in Seq(Seq(Events)) /\ take # <<>> /\ Len(take) <= MaxItems
    BY Zenon DEF Inv, Line, Publish
  <1>2. u \in Seq(Events)
    BY <1>1, FlatType, Zenon DEF Published
  <1>3. /\ Apart(Elements(log), Elements(pending), Elements(take), Elements(u), failed, cut)
        /\ InLine(log, pending, take, u, cut)
    BY Zenon DEF Line
  <1>4. Kept(g, Len(take), take, T) /\ Kept(r, Len(take), take, Events \ T)
    BY <1>1, OnlyKeeps, Zenon
  <1>5. /\ take' = r /\ sent' = (IF ok THEN Append(sent, g) ELSE sent)
        /\ failed' = (IF ok THEN failed ELSE failed \cup Elements(g))
        /\ pending' = pending /\ log' = log /\ cut' = cut /\ dropped' = dropped /\ size' = size
    BY Zenon DEF Publish
  <1>6. T = {e \in Events : SameMessage(x, e)}
    BY Zenon
  <1>7. x \in Elements(take) /\ x \in Events
    <2>1. 1 \in DOMAIN take /\ take[1] \in Events
      BY <1>1
    <2> QED BY <2>1, Zenon DEF Elements
  <1> HIDE DEF x, T, g, r, u
  <1>8. /\ g \in Seq(Events) /\ Len(g) <= Len(take) /\ Elements(g) = Elements(take) \cap T
        /\ r \in Seq(Events) /\ Len(r) <= Len(take) /\ Elements(r) = Elements(take) \cap (Events \ T)
    <2>1. Ordered(log, take)
      BY <1>3, Zenon DEF InLine
    <2> QED BY <1>1, <1>4, <2>1, KeptOrdered, Zenon
  <1>9. Elements(take) = Elements(g) \cup Elements(r) /\ Elements(g) \cap Elements(r) = {}
    <2>1. Elements(take) \subseteq Events
      BY <1>1 DEF Elements
    <2> QED BY <1>8, <2>1, Zenon
  <1>10. /\ InLine(log, pending, r, u \o g, cut) /\ InLine(log, pending, r, u, cut)
    BY <1>1, <1>2, <1>3, <1>4, <1>6, LinePublish, Zenon
  <1>11. Elements(u \o g) = Elements(u) \cup Elements(g)
    BY <1>2, <1>8, JoinSeqs, Zenon
  <1>12. /\ Apart(Elements(log), Elements(pending), Elements(r), Elements(u) \cup Elements(g), failed, cut)
         /\ Apart(Elements(log), Elements(pending), Elements(r), Elements(u), failed \cup Elements(g), cut)
    BY ONLY <1>3, <1>9, ApartPublish, Zenon
  <1>13. Len(r) <= MaxItems
    BY ONLY <1>1, <1>8, SinkAssumption
  <1>14. Len(g) \in 1 .. MaxItems /\ \A e, f \in Elements(g) : Subject[e] = Subject[f]
    <2>1. x \in Elements(g)
      BY <1>6, <1>7, <1>8, Zenon DEF SameMessage
    <2>2. g # <<>>
      BY <2>1, NothingHasNoElements, Zenon
    <2>3. Len(g) \in 1 .. MaxItems
      BY ONLY <1>1, <1>8, <2>2, SinkAssumption
    <2> QED BY <1>6, <1>8, <2>3, Zenon DEF SameMessage
  <1>15. CASE ok
    <2>1. sent' = Append(sent, g) /\ failed' = failed
      BY <1>5, <1>15, Zenon
    <2>2. Published' = u \o g
      BY <1>1, <1>8, <2>1, FlatAppend, Zenon DEF Published, u
    <2>3. Append(sent, g) \in Seq(Seq(Events)) /\ Elements(Append(sent, g)) = Elements(sent) \cup {g}
      BY <1>1, <1>8, AppendElements, Zenon
    <2>4. MessagesClean(Append(sent, g))
      BY <1>14, <2>3, Zenon DEF Line, MessagesClean
    <2> QED BY <1>5, <1>8, <1>10, <1>11, <1>12, <1>13, <2>1, <2>2, <2>3, <2>4, Zenon DEF Line
  <1>16. CASE ~ok
    <2>1. sent' = sent /\ failed' = failed \cup Elements(g) /\ Published' = u
      BY <1>5, <1>16, Zenon DEF Published, u
    <2> QED BY <1>5, <1>8, <1>10, <1>12, <1>13, <2>1, Zenon DEF Line
  <1> QED BY <1>15, <1>16, Zenon

(* The line holds in every reachable state.                                *)
LEMMA Lining == Spec => []Line
  <1>1. Inv /\ Line /\ [Next]_vars => Line'
    <2> SUFFICES ASSUME Inv, Line, [Next]_vars PROVE Line'
      BY Zenon
    <2>1. ASSUME UNCHANGED <<pending, size, dropped, take, log, sent, failed, cut>> PROVE Line'
      BY <2>1, Zenon DEF Line, Published
    <2>2. CASE UNCHANGED vars
      BY <2>1, <2>2, Zenon DEF vars
    <2>3. ASSUME NEW a \in Adders, Kick(a) PROVE Line'
      BY <2>1, <2>3, Zenon DEF Kick
    <2>4. CASE SelectWake \/ SelectTick \/ SelectStop
      BY <2>1, <2>4, Zenon DEF SelectWake, SelectTick, SelectStop
    <2>5. CASE FlushEnds \/ CloseBegins \/ CloseEnds
      BY <2>1, <2>5, Zenon DEF FlushEnds, CloseBegins, CloseEnds
    <2>6. ASSUME NEW a \in Adders, NEW e \in Events, Add(a, e) PROVE Line'
      BY <2>6, AddLine, Zenon
    <2>7. CASE Flush
      BY <2>7, FlushLine, Zenon
    <2>8. ASSUME NEW ok \in BOOLEAN, Publish(ok) PROVE Line'
      BY <2>8, PublishLine, Zenon
    <2> QED BY <2>2, <2>3, <2>4, <2>5, <2>6, <2>7, <2>8, Zenon DEF Next, LoopStep
  <1> QED BY <1>1, InitLine, Invariance, PTL DEF Spec

(* Every event added is in exactly one place, once, for any number of      *)
(* events and adders and any limits, whatever the bus refuses (Add, flush, *)
(* publish).                                                               *)
THEOREM NothingLostOrDoubled == Spec => []Conserved
  <1>1. ASSUME Inv, Line PROVE Conserved
    <2> DEFINE L == Elements(log)
               p == Elements(pending)
               k == Elements(take)
               u == Elements(Published)
               f == failed
               c == cut
               places == <<p, k, u, f, c>>
    <2>1. Apart(L, p, k, u, f, c) /\ InLine(log, pending, take, Published, cut)
      BY <1>1, Zenon DEF Line
    <2>2. /\ log \in Seq(Events) /\ pending \in Seq(Events) /\ take \in Seq(Events)
          /\ Published \in Seq(Events) /\ IsInjective(log)
      BY <1>1, FlatType, Zenon DEF Inv, Line, Published
    <2>3. IsInjective(pending) /\ IsInjective(take) /\ IsInjective(Published)
      <3>1. p \subseteq L /\ k \subseteq L /\ u \subseteq L
        BY <2>1, Zenon DEF Apart
      <3>2. Ordered(log, pending) /\ Ordered(log, take) /\ OrderedSame(log, Published)
        BY <2>1, Zenon DEF InLine
      <3> QED BY <2>2, <3>1, <3>2, OrderedInjective, Zenon
    <2>4. dropped = Cardinality(cut)
      BY <1>1, Zenon DEF Line
    <2> HIDE DEF L, p, k, u, f, c
    <2>5. places[1] = p /\ places[2] = k /\ places[3] = u /\ places[4] = f /\ places[5] = c
      BY ONLY TRUE, Zenon
    <2>6. \A i : i \in 1 .. 5 <=> i \in {1, 2, 3, 4, 5}
      BY ONLY TRUE
    <2> HIDE DEF places
    <2>7. L = UNION {places[i] : i \in 1 .. 5}
      <3>1. \A z : z \in UNION {places[i] : i \in 1 .. 5} <=> z \in p \cup k \cup u \cup f \cup c
        BY ONLY <2>5, <2>6, Zenon
      <3> QED BY ONLY <2>1, <3>1, Zenon DEF Apart
    <2>8. \A i, j \in 1 .. 5 : i # j => places[i] \cap places[j] = {}
      <3> SUFFICES ASSUME NEW i \in 1 .. 5, NEW j \in 1 .. 5, i # j
                   PROVE  places[i] \cap places[j] = {}
        BY Zenon
      <3> QED BY ONLY <2>1, <2>5, i # j, i \in 1 .. 5, j \in 1 .. 5, SMTT(30) DEF Apart
    <2> QED BY ONLY <2>2, <2>3, <2>4, <2>7, <2>8, Zenon DEF Conserved, places, L, p, k, u, f, c
  <1> QED BY <1>1, Invariance, Lining, PTL

(* Events of one subject are published in the order they were added, in    *)
(* messages of that subject only and of maxItems at most, for any limits   *)
(* (flush, groupBySubject).                                                *)
THEOREM SubjectsInOrder == Spec => []SubjectOrder
  <1>1. Line => SubjectOrder
    BY Zenon DEF Line, MessagesClean, InLine, OrderedSame, Before, SubjectOrder
  <1> QED BY <1>1, Lining, PTL

(* The sink stays within its limit, its size is that of what it holds, and *)
(* it drops the oldest, for any limits (Add).                              *)
THEOREM OldestGoFirst == Spec => []DropsOldest
  <1>1. Inv /\ Line => DropsOldest
    BY Zenon DEF Inv, Bounded, Line, InLine, AllBefore, Before, DropsOldest
  <1> QED BY <1>1, Invariance, Lining, PTL
-----------------------------------------------------------------------------
(* The service.                                                            *)

(* Where run() is tells how far the pool and the sink are closed.          *)
Phases ==
  /\ main \in {"serving", "draining", "closing", "joining", "flushing", "stopping",
               "returning", "exited"}
  /\ main \in {"serving", "draining", "closing"} => gate = "open"
  /\ main = "joining" => gate = "closing"
  /\ main \in {"flushing", "stopping", "returning", "exited"} => gate = "closed"
  /\ main \in {"returning", "exited"} => closer = "closed"

(* A message without a reply is in the buffer or handled.                  *)
Carried == arrived \subseteq replied \cup Elements(inbox) \cup Handling

(* What was answered is handled no more, and what was refused by receive   *)
(* never came to the pool.  receive refuses one at a time.                 *)
Fresh ==
  /\ \A m \in caller \cup held : outcome[m] = "none" /\ Kind[m] = "request"
  /\ \A m \in refusing : Kind[m] # "request" /\ refusing = {m}
  /\ \A m \in Events : outcome[m] # "none" => Kind[m] = "request"

(* Nothing is evaluated once the pool is closed, so an evaluated message   *)
(* that was recorded was recorded before the sink's Close began.           *)
Recorded ==
  /\ \A m \in Events : outcome[m] = "evaluated" => m \in replied
  /\ gate = "closed" => held = {}
  /\ main \in {"stopping", "returning", "exited"} =>
       \A m \in Events : outcome[m] = "evaluated" /\ m \in Elements(log) => m \in before

(* Inductive, with the sink's.                                             *)
ServiceInv ==
  /\ inbox \in Seq(Events) /\ refusing \subseteq Events /\ Responders!TypeOK
  /\ Phases /\ Carried /\ Fresh /\ Recorded

(* Every step of the service is a step of the sink, or none of it.         *)
LEMMA SinkSteps == ServiceNext => [Next]_vars
  <1> SUFFICES ASSUME ServiceNext PROVE [Next]_vars
    OBVIOUS
  <1>1. ASSUME NEW m \in Events, Deliver(m) \/ Queue(m) PROVE UNCHANGED vars
    BY <1>1, Zenon DEF Deliver, Queue, sinkVars
  <1>2. ASSUME NEW m \in Events, HandlerStep(m) PROVE [Next]_vars
    <2>1. ASSUME NEW panics \in BOOLEAN, Reply(m, panics) PROVE UNCHANGED vars
      BY <2>1, Zenon DEF Reply, sinkVars
    <2>2. m \in Adders
      BY ServiceAssumption, Zenon
    <2>3. CASE Record(m) \/ KickSink(m)
      BY <2>2, <2>3, Zenon DEF Record, KickSink, Next
    <2>4. CASE Returns(m)
      BY <2>4, Zenon DEF Returns, sinkVars
    <2> QED BY <1>2, <2>1, <2>3, <2>4, Zenon DEF HandlerStep
  <1>3. ASSUME NEW S, TakeBack(S) PROVE UNCHANGED vars
    BY <1>3, Zenon DEF TakeBack, sinkVars
  <1>4. CASE Receive \/ Signal
    BY <1>4, Zenon DEF Receive, Signal, sinkVars
  <1>5. CASE SinkStep \/ SinkStop
    BY <1>5, Zenon DEF SinkStep, SinkStop, Next
  <1>6. CASE ShutdownStep
    <2>1. ASSUME NEW ok \in BOOLEAN, Drain(ok) PROVE UNCHANGED vars
      BY <2>1, Zenon DEF Drain, sinkVars
    <2>2. CASE ClosePool \/ PoolClosed \/ Exit
      BY <2>2, Zenon DEF ClosePool, PoolClosed, Exit, sinkVars
    <2>3. CASE CloseSink \/ SinkClosed
      BY <2>3, Zenon DEF CloseSink, SinkClosed, Next
    <2> QED BY <1>6, <2>1, <2>2, <2>3, Zenon DEF ShutdownStep
  <1> QED BY <1>1, <1>2, <1>3, <1>4, <1>5, <1>6, Zenon DEF ServiceNext

(* The service uses its audit sink as it is specified: workers, callback   *)
(* and run() add, kick and close in no other way (evaluate, receive, run). *)
THEOREM SinkUsedAsSpecified == ServiceSpec => Spec
  <1>1. ServiceInit => Init
    BY Zenon DEF ServiceInit
  <1>2. [ServiceNext]_serviceVars => [Next]_vars
    BY SinkSteps, Zenon DEF serviceVars, sinkVars
  <1> QED BY <1>1, <1>2, PTL DEF ServiceSpec, Spec

(* What is proved of the sink holds in the service: events are conserved,  *)
(* published in order and dropped oldest first, and no full batch is left  *)
(* to the ticker, whatever the pool, the bus and the signal do.            *)
THEOREM SinkSafeInService ==
  ServiceSpec => [](Conserved /\ SubjectOrder /\ DropsOldest /\ NoLostKick)
  BY SinkUsedAsSpecified, NothingLostOrDoubled, SubjectsInOrder, OldestGoFirst,
     KickReachesLoop, PTL

(* Every step of the service is a step of the pool, or none of it.         *)
LEMMA PoolSteps == inbox \in Seq(Events) /\ ServiceNext => [Responders!Next]_poolVars
  <1> SUFFICES ASSUME inbox \in Seq(Events), ServiceNext PROVE [Responders!Next]_poolVars
    OBVIOUS
  <1>1. ASSUME NEW m \in Events, Deliver(m) \/ Queue(m) PROVE [Responders!Next]_poolVars
    BY <1>1, Zenon DEF Deliver, Queue, Responders!Next
  <1>2. ASSUME NEW m \in Events, HandlerStep(m) PROVE [Responders!Next]_poolVars
    <2>1. ASSUME NEW panics \in BOOLEAN, Reply(m, panics) PROVE UNCHANGED poolVars
      BY <2>1, Zenon DEF Reply
    <2>2. CASE Record(m) \/ KickSink(m)
      BY <2>2, Zenon DEF Record, KickSink
    <2>3. CASE Returns(m)
      BY <2>3, Zenon DEF Returns, Responders!Next
    <2> QED BY <1>2, <2>1, <2>2, <2>3, Zenon DEF HandlerStep
  <1>3. ASSUME NEW S \in SUBSET Events, TakeBack(S) PROVE [Responders!Next]_poolVars
    BY <1>3, Zenon DEF TakeBack, Responders!Next
  <1>4. CASE Receive
    <2>1. CASE UNCHANGED poolVars
      BY <2>1
    <2>2. CASE Responders!Submit(Head(inbox))
      <3>1. Head(inbox) \in Events
        BY <1>4 DEF Receive
      <3> QED BY <2>2, <3>1, Zenon DEF Responders!Next
    <2> QED BY <1>4, <2>1, <2>2, Zenon DEF Receive
  <1>5. CASE SinkStep \/ SinkStop \/ Signal
    BY <1>5, Zenon DEF SinkStep, SinkStop, Signal
  <1>6. CASE ShutdownStep
    <2>1. ASSUME NEW ok \in BOOLEAN, Drain(ok) PROVE UNCHANGED poolVars
      BY <2>1, Zenon DEF Drain
    <2>2. CASE ClosePool \/ PoolClosed
      BY <2>2, Zenon DEF ClosePool, PoolClosed, Responders!Next
    <2>3. CASE CloseSink \/ SinkClosed \/ Exit
      BY <2>3, Zenon DEF CloseSink, SinkClosed, Exit
    <2> QED BY <1>6, <2>1, <2>2, <2>3, Zenon DEF ShutdownStep
  <1> QED BY <1>1, <1>2, <1>3, <1>4, <1>5, <1>6, Zenon DEF ServiceNext

(* The service starts with nothing to do.                                  *)
LEMMA ServiceInitInv == ServiceInit => ServiceInv
  <1> SUFFICES ASSUME ServiceInit PROVE ServiceInv
    OBVIOUS
  <1>1. inbox \in Seq(Events) /\ refusing \subseteq Events
    BY DEF ServiceInit
  <1>2. Responders!TypeOK /\ Fresh /\ \A m \in Events : outcome[m] = "none"
    BY DEF ServiceInit, Responders!Init, Responders!TypeOK, Fresh
  <1>3. Phases /\ Carried
    BY Zenon DEF ServiceInit, Responders!Init, Phases, Carried
  <1>4. Recorded
    <2>1. gate = "open" /\ main = "serving"
      BY Zenon DEF ServiceInit, Responders!Init
    <2> QED BY ONLY <1>2, <2>1 DEF Recorded
  <1> QED BY <1>1, <1>2, <1>3, <1>4, Zenon DEF ServiceInv

(* The first of a sequence and the others.                                 *)
LEMMA HeadAndTail ==
  ASSUME NEW s \in Seq(Events), s # <<>>
  PROVE  /\ Tail(s) \in Seq(Events) /\ Head(s) \in Events
         /\ Elements(s) = {Head(s)} \cup Elements(Tail(s))
  <1>1. /\ Len(s) \in Nat /\ Len(s) >= 1 /\ DOMAIN s = 1 .. Len(s)
        /\ Head(s) = s[1] /\ s[1] \in Events
    OBVIOUS
  <1>2. /\ Tail(s) \in Seq(Events) /\ DOMAIN Tail(s) = 1 .. (Len(s) - 1)
        /\ \A i \in 1 .. (Len(s) - 1) : Tail(s)[i] = s[i + 1]
    BY <1>1
  <1>3. \A i \in DOMAIN Tail(s) : i + 1 \in DOMAIN s /\ Tail(s)[i] = s[i + 1]
    BY ONLY <1>1, <1>2
  <1>4. \A i \in DOMAIN s : i = 1 \/ (i - 1 \in DOMAIN Tail(s) /\ Tail(s)[i - 1] = s[i])
    BY ONLY <1>1, <1>2
  <1>5. 1 \in DOMAIN s
    BY <1>1
  <1>6. \A x \in Elements(s) : x \in {Head(s)} \cup Elements(Tail(s))
    <2> SUFFICES ASSUME NEW i \in DOMAIN s PROVE s[i] \in {Head(s)} \cup Elements(Tail(s))
      BY Zenon DEF Elements
    <2>1. CASE i = 1
      BY <1>1, <2>1, Zenon
    <2>2. CASE i - 1 \in DOMAIN Tail(s) /\ Tail(s)[i - 1] = s[i]
      BY <2>2, Zenon DEF Elements
    <2> QED BY <1>4, <2>1, <2>2, Zenon
  <1>7. \A x \in {Head(s)} \cup Elements(Tail(s)) : x \in Elements(s)
    <2>1. Head(s) \in Elements(s)
      BY <1>1, <1>5, Zenon DEF Elements
    <2>2. ASSUME NEW i \in DOMAIN Tail(s) PROVE Tail(s)[i] \in Elements(s)
      BY <1>3, Zenon DEF Elements
    <2> QED BY <2>1, <2>2, Zenon DEF Elements
  <1> QED BY <1>1, <1>2, <1>6, <1>7, Zenon

(* The subscription and its callback keep it.                              *)
LEMMA CallbackInv ==
  ASSUME ServiceInv, NEW m \in Events, NEW S \in SUBSET Events,
         Deliver(m) \/ Receive \/ Queue(m) \/ TakeBack(S)
  PROVE  ServiceInv'
  <1> USE DEF ServiceInv, poolVars, subVars, replyVars, sinkVars, vars
  <1>1. CASE Deliver(m)
    <2>1. inbox' \in Seq(Events) /\ Elements(inbox') = Elements(inbox) \cup {m}
      BY <1>1, AppendElements, Zenon DEF Deliver
    <2>2. Carried'
      BY <1>1, <2>1, Zenon DEF Deliver, Carried, Handling
    <2>3. Responders!TypeOK' /\ Phases' /\ Fresh' /\ Recorded' /\ refusing' \subseteq Events
      BY <1>1, Zenon DEF Deliver, Responders!TypeOK, Phases, Fresh, Recorded
    <2> QED BY <2>1, <2>2, <2>3, Zenon
  <1>2. CASE Receive
    <2> DEFINE h == Head(inbox)
    <2>1. inbox' \in Seq(Events) /\ h \in Events /\ Elements(inbox) = {h} \cup Elements(inbox')
      <3>1. inbox \in Seq(Events) /\ inbox # <<>> /\ inbox' = Tail(inbox)
        BY <1>2, Zenon DEF Receive
      <3> QED BY ONLY <3>1, HeadAndTail
    <2>2. Kind[h] = "request" => Responders!Submit(h) /\ refusing' = refusing
      BY <1>2, Zenon DEF Receive
    <2>3. Kind[h] # "request" => refusing' = {h} /\ UNCHANGED poolVars
      BY <1>2, Zenon DEF Receive
    <2>4. /\ caller = {} /\ refusing = {} /\ arrived' = arrived /\ replied' = replied
          /\ main' = main /\ UNCHANGED vars
      BY <1>2, Zenon DEF Receive, CallbackFree
    <2> HIDE DEF h
    <2>5. CASE Kind[h] = "request"
      BY <2>1, <2>2, <2>4, <2>5 DEF Responders!Submit, Responders!TypeOK, Phases, Carried,
                                    Handling, Fresh, Recorded
    <2>6. CASE Kind[h] # "request"
      BY <2>1, <2>3, <2>4, <2>6, SMTT(30) DEF Responders!TypeOK, Phases, Carried, Handling, Fresh, Recorded
    <2> QED BY <2>5, <2>6, Zenon
  <1>3. CASE Queue(m)
    BY <1>3 DEF Queue, Responders!Enter, Responders!TypeOK, Phases, Carried, Handling, Fresh,
                Recorded
  <1>4. CASE TakeBack(S)
    BY <1>4 DEF TakeBack, Responders!Leave, Responders!TypeOK, Phases, Carried, Handling, Fresh,
                Recorded
  <1> QED BY <1>1, <1>2, <1>3, <1>4, Zenon

(* A handler call keeps it.                                                *)
LEMMA HandlerInv ==
  ASSUME Inv, ServiceInv, NEW m \in Events, HandlerStep(m)
  PROVE  ServiceInv'
  <1> USE DEF ServiceInv, poolVars, subVars, replyVars, sinkVars, vars
  <1>1. ASSUME NEW panics \in BOOLEAN, Reply(m, panics) PROVE ServiceInv'
    BY <1>1 DEF Reply, Responders!TypeOK, Phases, Carried, Handling, Fresh, Recorded
  <1>2. CASE Record(m)
    <2>1. outcome[m] # "evaluated"
      BY <1>2 DEF Record, Handling, Fresh
    <2>2. Elements(log') = Elements(log) \cup {m}
      BY <1>2, AppendElements, Zenon DEF Record, Add, Inv
    <2>3. before' = before /\ closer' = closer
      BY <1>2, Zenon DEF Record, Add
    <2>4. Recorded'
      BY <1>2, <2>1, <2>2, <2>3, Zenon DEF Record, Recorded
    <2> QED BY <1>2, <2>3, <2>4, Zenon DEF Record, Responders!TypeOK, Phases, Carried, Handling, Fresh
  <1>3. CASE KickSink(m)
    BY <1>3, Zenon DEF KickSink, Kick, Responders!TypeOK, Phases, Carried, Handling, Fresh, Recorded
  <1>4. CASE Returns(m)
    <2>1. CASE m \in refusing
      <3>1. /\ m \in replied /\ refusing' = {} /\ UNCHANGED poolVars
            /\ UNCHANGED <<sinkVars, subVars, replied, main>>
        BY <1>4, <2>1, Zenon DEF Returns
      <3>2. refusing = {m}
        BY <2>1, Zenon DEF Fresh
      <3>3. Carried'
        BY <3>1, <3>2, Zenon DEF Carried, Handling
      <3> QED BY <3>1, <3>3, Zenon DEF Responders!TypeOK, Phases, Fresh, Recorded
    <2>2. CASE m \notin refusing
      <3>1. PICK reason \in {"evaluated", "expired", "limit"} : Responders!Answer(m, reason)
        BY <1>4, <2>2, Zenon DEF Returns
      <3>2. /\ m \in replied /\ refusing' = refusing /\ UNCHANGED <<sinkVars, subVars, replied, main>>
        BY <1>4, <2>2, Zenon DEF Returns
      <3> QED BY <2>2, <3>1, <3>2 DEF Responders!Answer, Responders!MayAnswer, Responders!TypeOK,
                Phases, Carried, Handling, Fresh, Recorded
    <2> QED BY <2>1, <2>2, Zenon
  <1> QED BY <1>1, <1>2, <1>3, <1>4, HandlerStep(m), Zenon DEF HandlerStep

(* The sink's goroutine and run() keep it: the pool is closed before the   *)
(* sink's Close begins, and the sink's Close begins once.                  *)
LEMMA RunInv ==
  ASSUME Inv, ServiceInv, SinkStep \/ SinkStop \/ Signal \/ ShutdownStep
  PROVE  ServiceInv'
  <1> USE DEF ServiceInv, poolVars, subVars, replyVars, sinkVars, vars
  <1>1. CASE SinkStep \/ SinkStop
    <2>1. UNCHANGED <<log, before, closer>>
      BY <1>1, Zenon DEF SinkStep, SinkStop, LoopStep, SelectWake, SelectTick, SelectStop, Flush,
                         FlushEnds, Publish
    <2>2. UNCHANGED <<poolVars, subVars, replyVars, main>>
      BY <1>1, Zenon DEF SinkStep, SinkStop
    <2> QED BY <2>1, <2>2, Zenon DEF Responders!TypeOK, Phases, Carried, Handling, Fresh, Recorded
  <1>2. ASSUME UNCHANGED <<inbox, arrived, poolVars, replyVars>>, Phases', Recorded'
        PROVE  ServiceInv'
    BY <1>2, Zenon DEF Responders!TypeOK, Carried, Handling, Fresh
  <1>3. CASE Signal
    <2>1. Phases' /\ Recorded'
      BY <1>3 DEF Signal, Phases, Recorded
    <2> QED BY <1>2, <1>3, <2>1, Zenon DEF Signal
  <1>4. ASSUME NEW ok \in BOOLEAN, Drain(ok) PROVE ServiceInv'
    <2>1. Phases' /\ Recorded'
      BY <1>4 DEF Drain, Phases, Recorded
    <2> QED BY <1>2, <1>4, <2>1, Zenon DEF Drain
  <1>5. CASE ClosePool
    BY <1>5 DEF ClosePool, Responders!Close, Responders!TypeOK, Phases, Carried, Handling, Fresh,
                Recorded
  <1>6. CASE PoolClosed
    BY <1>6 DEF PoolClosed, Responders!Closed, Responders!TypeOK, Phases, Carried, Handling, Fresh,
                Recorded
  <1>7. CASE CloseSink
    <2>1. Phases'
      BY <1>7 DEF CloseSink, Phases
    <2>2. Recorded'
      BY <1>7, Zenon DEF CloseSink, CloseBegins, Recorded
    <2> QED BY <1>2, <1>7, <2>1, <2>2, Zenon DEF CloseSink
  <1>8. CASE SinkClosed
    <2>1. Phases' /\ Recorded'
      BY <1>8 DEF SinkClosed, CloseEnds, Phases, Recorded
    <2> QED BY <1>2, <1>8, <2>1, Zenon DEF SinkClosed
  <1>9. CASE Exit
    <2>1. Phases' /\ Recorded'
      BY <1>9 DEF Exit, Phases, Recorded
    <2> QED BY <1>2, <1>9, <2>1, Zenon DEF Exit
  <1> QED BY <1>1, <1>3, <1>4, <1>5, <1>6, <1>7, <1>8, <1>9, Zenon DEF ShutdownStep

(* The invariant holds in every reachable state of the service.            *)
LEMMA ServiceInvariance == ServiceSpec => [](Inv /\ ServiceInv)
  <1>1. ServiceSpec => []Inv
    BY SinkUsedAsSpecified, Invariance, PTL
  <1>2. Inv /\ ServiceInv /\ [ServiceNext]_serviceVars => ServiceInv'
    <2> SUFFICES ASSUME Inv, ServiceInv, [ServiceNext]_serviceVars PROVE ServiceInv'
      OBVIOUS
    <2>1. CASE UNCHANGED serviceVars
      BY <2>1, Zenon DEF serviceVars, poolVars, subVars, replyVars, sinkVars, vars, ServiceInv,
                         Responders!TypeOK, Phases, Carried, Handling, Fresh, Recorded
    <2>2. ASSUME NEW m \in Events, HandlerStep(m) PROVE ServiceInv'
      BY <2>2, HandlerInv, Zenon
    <2>3. ASSUME NEW m \in Events, Deliver(m) \/ Queue(m) PROVE ServiceInv'
      BY <2>3, CallbackInv, Zenon
    <2>4. ASSUME NEW S \in SUBSET Events, TakeBack(S) PROVE ServiceInv'
      <3>1. ASSUME NEW m \in Events PROVE ServiceInv'
        BY <2>4, CallbackInv, Zenon
      <3>2. CASE Events = {}
        BY <2>4, <3>2 DEF TakeBack
      <3> QED BY <3>1, <3>2
    <2>5. CASE Receive
      <3>1. Head(inbox) \in Events /\ {} \in SUBSET Events
        BY <2>5 DEF Receive, ServiceInv
      <3> QED BY <2>5, <3>1, CallbackInv, Zenon
    <2>6. CASE SinkStep \/ SinkStop \/ Signal \/ ShutdownStep
      BY <2>6, RunInv, Zenon
    <2> QED BY <2>1, <2>2, <2>3, <2>4, <2>5, <2>6, Zenon DEF ServiceNext
  <1> QED BY <1>1, <1>2, ServiceInitInv, PTL DEF ServiceSpec

(* The service uses its pool as it is specified: what Pool implements is   *)
(* all that receive, evaluate and run() ask of it.                         *)
THEOREM PoolUsedAsSpecified == ServiceSpec => Responders!Spec
  <1>1. ServiceInit => Responders!Init
    BY Zenon DEF ServiceInit
  <1>2. ServiceInv /\ [ServiceNext]_serviceVars => [Responders!Next]_(Responders!vars)
    BY PoolSteps, Zenon DEF ServiceInv, serviceVars, poolVars, Responders!vars
  <1> QED BY <1>1, <1>2, ServiceInvariance, PTL DEF ServiceSpec, Responders!Spec

(* When the process has ended, what was evaluated is answered and out of   *)
(* the sink, and what was not answered was in the subscription's buffer or *)
(* with its callback, for any number of messages and whenever the signal   *)
(* came (run, Drain, pool.Close, auditSink.Close).                         *)
THEOREM ExitIsOrderly == ServiceSpec => []OrderlyExit
  <1>1. ASSUME Inv, ServiceInv, main = "exited" PROVE OrderlyExit
    <2>1. closer = "closed" /\ gate = "closed" /\ held = {}
      BY <1>1 DEF ServiceInv, Phases, Recorded
    <2>2. loop = "done" /\ take = <<>> /\ before \cap Elements(pending) = {}
      BY <1>1, <2>1 DEF Inv
    <2>3. CloseFlushes /\ Elements(take) = {}
      BY <2>2, NothingHasNoElements, Zenon DEF CloseFlushes
    <2>4. ASSUME NEW m \in Events, outcome[m] = "evaluated"
          PROVE  m \in replied /\ m \notin Elements(pending) \cup Elements(take)
      <3>1. m \in Elements(log) => m \in before
        BY <1>1, <2>4 DEF ServiceInv, Recorded
      <3> QED BY <1>1, <2>2, <2>3, <2>4, <3>1, Zenon DEF ServiceInv, Recorded, Inv
    <2>5. arrived \ replied \subseteq Elements(inbox) \cup caller \cup refusing
      BY <1>1, <2>1, Zenon DEF ServiceInv, Carried, Handling
    <2> QED BY <2>3, <2>4, <2>5, Zenon DEF OrderlyExit
  <1>2. Inv /\ ServiceInv => OrderlyExit
    BY <1>1, Zenon DEF OrderlyExit
  <1> QED BY <1>2, ServiceInvariance, PTL
=============================================================================
