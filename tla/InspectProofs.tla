--------------------------- MODULE InspectProofs ---------------------------
(***************************************************************************)
(* Proofs about Inspect, for any profile, sets, request and number of live *)
(* set changes.  An inspection only ever goes forward, so the inductive    *)
(* invariants say what each stage has settled so far: the rows of a pass   *)
(* up to row are known not to have matched throughout, the rows collected  *)
(* are those that fired, the writes tried are a prefix of those collected. *)
(***************************************************************************)
EXTENDS Inspect, TLAPS, WellFoundedInduction

PCs == {"evaluate", "allow", "deny", "side", "overload", "write", "done"}
HitKinds == {"list", "asn", "live", "country", "none"}
Errors ==
  {NoCode, "IP_QUEUE_LIMIT", "IP_DEADLINE_EXCEEDED", "IP_UNKNOWN_PROFILE", "IP_MALFORMED",
   "IP_MISSING_SET"}
Marked == {"row", "outcome", "overload"} \X Nat

TypeOK ==
  /\ prof \in [rules : Seq(Rules), outcomes : Seq(Outcomes), default : {"allow", "deny"}]
  /\ req \in Requests
  /\ world \in [member : SUBSET Statics, country : Countries \cup {NoCountry}, geo : BOOLEAN]
  /\ live \in [Lives -> {"loading", "in", "out"}]
  /\ seen \in [Lives -> SUBSET BOOLEAN]
  /\ moves \in Nat
  /\ pc \in PCs /\ row \in Nat /\ hit \in HitKinds /\ by \in Nat
  /\ where \in {"error", "white", "black", "none"}
  /\ err \in Errors
  /\ actions \in Seq(Marked) /\ bans \in Seq(Marked) /\ written \in Seq(Marked)
  /\ tried \in Nat /\ failed \in BOOLEAN
-----------------------------------------------------------------------------
(* What the search for the verdict has settled.                            *)

SeenNow == \A l \in Lives : (live[l] = "in") \in seen[l]

UpToRow(act) == {k \in PassRows(act) : k <= row}

Searched ==
  /\ pc \in {"evaluate", "allow", "deny"} => where = "error"
  /\ pc = "evaluate" => row = 0 /\ hit = "none"
  /\ pc = "allow" => NoneMust(UpToRow("allow"))
  /\ pc = "deny" => NoneMust(PassRows("allow")) /\ NoneMust(UpToRow("deny"))
  /\ pc \in {"allow", "deny"} /\ hit # "none" =>
       \A j \in DOMAIN prof.rules :
         IsNext(j, PassRows(pc)) => MayHit(Sets[prof.rules[j].set].match)
  /\ where = "white" => by \in PassRows("allow")
  /\ where = "black" => by \in PassRows("deny")

VerdictInv == TypeOK /\ SeenNow /\ Searched /\ VerdictExplained
-----------------------------------------------------------------------------
(* What has been collected.                                                *)

(* What a sequence holds, and that it holds nothing twice.                 *)
Rng(s) == {s[n] : n \in DOMAIN s}
Distinct(s) == \A m, n \in DOMAIN s : s[m] = s[n] => m = n

IsAsk(e) ==
  IF e[1] = "row" THEN prof.rules[e[2]].action = "request" ELSE prof.outcomes[e[2]].do = "ask"
IsBan(e) ==
  IF e[1] = "row" THEN prof.rules[e[2]].action = "list" ELSE prof.outcomes[e[2]].do = "list"

SideFired(j) ==
  /\ j \in PassRows("side") /\ where # "error"
  /\ pc = "side" => j <= row
  /\ (~prof.rules[j].not) \in Said(prof.rules[j].dataset)

OverloadDue(j) ==
  /\ j \in DOMAIN prof.outcomes
  /\ prof.outcomes[j].on = "overload" /\ req.known /\ (prof.outcomes[j].do = "list" => req.valid)
  /\ \/ req.shed = "IP_QUEUE_LIMIT"
     \/ req.shed = NoCode /\ At(prof.outcomes[j].at) < AtMax /\ req.fill >= At(prof.outcomes[j].at)

OutcomeDue(j) ==
  /\ j \in DOMAIN prof.outcomes
  /\ prof.outcomes[j].on = where
  /\ pc \in {"overload", "write", "done"}

Stage ==
  /\ pc \in {"evaluate", "allow", "deny"} => where = "error" /\ actions = <<>> /\ bans = <<>>
  /\ pc = "side" => where # "error"
  /\ pc \in {"evaluate", "allow", "deny", "side"} => err = NoCode
  /\ pc \in {"allow", "deny", "side", "overload"} => req.shed = NoCode
  /\ err # NoCode => where = "error"
  /\ pc \in {"write", "done"} /\ req.shed # NoCode => err = req.shed
  /\ pc \in {"overload", "write", "done"} /\ where = "error" => err # NoCode

RowsCollected ==
  /\ \A j \in Nat : <<"row", j>> \in Collected => SideFired(j)
  /\ where # "error" =>
       \A j \in PassRows("side") :
         (pc = "side" => j <= row) /\ <<"row", j>> \notin Collected =>
           prof.rules[j].not \in Said(prof.rules[j].dataset)

OutcomesCollected == \A j \in Nat : <<"outcome", j>> \in Collected <=> OutcomeDue(j)

OverloadsCollected ==
  \A j \in Nat : <<"overload", j>> \in Collected <=> pc \in {"write", "done"} /\ OverloadDue(j)

Apart ==
  /\ Distinct(actions) /\ Distinct(bans)
  /\ \A e \in Rng(actions) : IsAsk(e)
  /\ \A e \in Rng(bans) : IsBan(e)

CollectInv ==
  TypeOK /\ SeenNow /\ Stage /\ RowsCollected /\ OutcomesCollected /\ OverloadsCollected /\ Apart
-----------------------------------------------------------------------------
(* What has been written and answered.                                     *)

(* The first k writes collected, of which w were sent.                     *)
AddressesSent(k, w) ==
  \A n \in 1 .. k : WriteOf(bans[n]) = "addr" => \E m \in DOMAIN w : w[m] = bans[n]
SentAmong(k, w) == \A m \in DOMAIN w : \E i \in 1 .. k : bans[i] = w[m]
SentInOrder(k, w) ==
  \A m, n \in DOMAIN w : m < n =>
    \E i, j \in 1 .. k : i < j /\ bans[i] = w[m] /\ bans[j] = w[n]
GivenUp(k, w) ==
  \E n \in 1 .. k : WriteOf(bans[n]) # "addr" /\ \A m \in DOMAIN w : w[m] # bans[n]

WritesTried ==
  /\ pc \notin {"write", "done"} => tried = 0
  /\ tried <= Len(bans) /\ (tried = 0 => written = <<>>)
  /\ pc = "done" => tried = Len(bans)
  /\ AddressesSent(tried, written) /\ SentAmong(tried, written) /\ SentInOrder(tried, written)
  /\ failed => GivenUp(tried, written)

Answered == (pc # "done" => reply = NoReply) /\ ErrorsAskNothing

WriteInv == CollectInv /\ WritesTried /\ Answered
-----------------------------------------------------------------------------
(* Induction, from the least natural outside T.                           *)
LEMMA NatInd ==
  ASSUME NEW T \in SUBSET Nat, 0 \in T, \A n \in T : n + 1 \in T
  PROVE  T = Nat
  <1> SUFFICES ASSUME T # Nat PROVE FALSE
    BY Zenon
  <1> DEFINE M == Nat \ T
             R == OpToRel(<, Nat)
  <1>1. M \subseteq Nat /\ M # {}
    BY Zenon
  <1>2. \A x, y \in Nat : y < x => <<y, x>> \in R
    BY Zenon DEF OpToRel
  <1>3. IsWellFoundedOn(R, Nat)
    BY NatLessThanWellFounded, Zenon
  <1> HIDE DEF R, M
  <1>4. PICK x \in M : \A y \in M : ~(<<y, x>> \in R)
    BY ONLY <1>1, <1>3, WFMin, Zenon
  <1>5. x \in Nat /\ x # 0 /\ x \notin T
    BY DEF M
  <1>6. x - 1 \in Nat /\ x - 1 < x
    BY ONLY <1>5
  <1>7. x - 1 \in M \/ (x - 1) + 1 \in T
    BY ONLY <1>6, \A n \in T : n + 1 \in T, M = Nat \ T DEF M
  <1>8. (x - 1) + 1 = x
    BY ONLY <1>5
  <1> QED BY <1>2, <1>4, <1>5, <1>6, <1>7, <1>8, Zenon

(* What a sequence holds once it has been appended to or joined.           *)
LEMMA AppendRange ==
  ASSUME NEW X, NEW s \in Seq(X), NEW e \in X
  PROVE  /\ Append(s, e) \in Seq(X)
         /\ Rng(Append(s, e)) = Rng(s) \cup {e}
         /\ Distinct(s) /\ e \notin Rng(s) => Distinct(Append(s, e))
  <1> DEFINE u == Append(s, e)
  <1>1. u \in Seq(X) /\ Len(u) = Len(s) + 1 /\ Len(s) \in Nat
    OBVIOUS
  <1>2. u[Len(s) + 1] = e /\ \A i \in 1 .. Len(s) : u[i] = s[i]
    OBVIOUS
  <1>3. DOMAIN s = 1 .. Len(s) /\ DOMAIN u = 1 .. (Len(s) + 1)
    BY <1>1
  <1> HIDE DEF u
  <1>4. \A i \in DOMAIN u : (i \in DOMAIN s /\ u[i] = s[i]) \/ (i = Len(s) + 1 /\ u[i] = e)
    BY <1>1, <1>2, <1>3
  <1>5. Len(s) + 1 \in DOMAIN u /\ \A i \in DOMAIN s : i \in DOMAIN u /\ u[i] = s[i]
    BY <1>1, <1>2, <1>3
  <1>6. Rng(u) = Rng(s) \cup {e}
    BY <1>2, <1>4, <1>5 DEF Rng
  <1>7. Distinct(s) /\ e \notin Rng(s) => Distinct(u)
    BY <1>4 DEF Distinct, Rng
  <1> QED BY <1>1, <1>6, <1>7 DEF u

(* Appending one collected list to another joins their marks and, when they share none,
   repeats none. *)
LEMMA ConcatRange ==
  ASSUME NEW X, NEW s \in Seq(X), NEW t \in Seq(X)
  PROVE  /\ s \o t \in Seq(X)
         /\ Rng(s \o t) = Rng(s) \cup Rng(t)
         /\ Distinct(s) /\ Distinct(t) /\ Rng(s) \cap Rng(t) = {} => Distinct(s \o t)
  <1>1. s \o t \in Seq(X) /\ Len(s \o t) = Len(s) + Len(t)
    OBVIOUS
  <1>2. /\ \A i \in 1 .. Len(s) : (s \o t)[i] = s[i]
        /\ \A i \in 1 .. Len(t) : (s \o t)[Len(s) + i] = t[i]
    OBVIOUS
  <1> DEFINE u == s \o t
  <1>3. DOMAIN s = 1 .. Len(s) /\ DOMAIN t = 1 .. Len(t) /\ DOMAIN u = 1 .. (Len(s) + Len(t))
    BY <1>1
  <1>4. Len(s) \in Nat /\ Len(t) \in Nat
    OBVIOUS
  <1>5. \A i \in DOMAIN u : \/ i \in DOMAIN s /\ u[i] = s[i]
                            \/ i - Len(s) \in DOMAIN t /\ u[i] = t[i - Len(s)] /\ i > Len(s)
    <2> TAKE i \in DOMAIN u
    <2>1. CASE i <= Len(s)
      BY <2>1, <1>2, <1>3, <1>4
    <2>2. CASE i > Len(s)
      <3>1. i - Len(s) \in 1 .. Len(t)
        BY <2>2, <1>3, <1>4
      <3>2. u[Len(s) + (i - Len(s))] = t[i - Len(s)]
        BY <3>1, <1>2
      <3>3. Len(s) + (i - Len(s)) = i
        BY <1>3, <1>4
      <3> QED BY <3>1, <3>2, <3>3, <2>2, <1>3
    <2> QED BY <2>1, <2>2, <1>3, <1>4
  <1>6. /\ \A i \in DOMAIN s : i \in DOMAIN u /\ u[i] = s[i]
        /\ \A i \in DOMAIN t : Len(s) + i \in DOMAIN u /\ u[Len(s) + i] = t[i]
    BY <1>2, <1>3, <1>4
  <1> HIDE DEF u
  <1>7. Rng(u) = Rng(s) \cup Rng(t)
    BY <1>5, <1>6 DEF Rng
  <1>8. ASSUME Distinct(s), Distinct(t), Rng(s) \cap Rng(t) = {}
        PROVE  Distinct(u)
    <2> SUFFICES ASSUME NEW i \in DOMAIN u, NEW k \in DOMAIN u, u[i] = u[k] PROVE i = k
      BY DEF Distinct
    <2>1. CASE i \in DOMAIN s /\ u[i] = s[i] /\ k \in DOMAIN s /\ u[k] = s[k]
      BY <2>1, <1>8, Zenon DEF Distinct
    <2>2. CASE /\ i - Len(s) \in DOMAIN t /\ u[i] = t[i - Len(s)]
               /\ k - Len(s) \in DOMAIN t /\ u[k] = t[k - Len(s)]
      <3>1. i - Len(s) = k - Len(s)
        BY <2>2, <1>8, Zenon DEF Distinct
      <3> QED BY <3>1, <1>3, <1>4
    <2> QED BY <1>5, <1>8, <2>1, <2>2 DEF Rng
  <1> QED BY <1>1, <1>7, <1>8 DEF u

(* Chosen runs through the rows in order and takes each of S once.         *)
Taken(g, n, S, src) == IF n \in S THEN Append(g[n - 1], <<src, n>>) ELSE g[n - 1]
Runs(g, m, S, src) == g = [n \in 0 .. m |-> IF n = 0 THEN <<>> ELSE Taken(g, n, S, src)]

Tagged(src, S) == {<<src, k>> : k \in S}
LoopUpTo(f, N, S, src) == f[0] = <<>> /\ \A n \in 1 .. N : f[n] = Taken(f, n, S, src)

(* The loop over the outcome rows can always run one row further. *)
LEMMA LoopExtends ==
  ASSUME NEW m \in Nat, NEW S, NEW src, NEW g, Runs(g, m, S, src)
  PROVE  \E h : Runs(h, m + 1, S, src)
  <1> DEFINE h == [n \in 0 .. m + 1 |-> IF n = m + 1 THEN Taken(g, n, S, src) ELSE g[n]]
  <1>1. \A n \in 0 .. m : g[n] = IF n = 0 THEN <<>> ELSE Taken(g, n, S, src)
    BY Zenon DEF Runs
  <1>2. /\ \A n \in 0 .. m : h[n] = g[n]
        /\ h[m + 1] = Taken(g, m + 1, S, src)
        /\ DOMAIN h = 0 .. m + 1
        /\ h = [n \in DOMAIN h |-> h[n]]
    OBVIOUS
  <1> HIDE DEF h
  <1>3. \A n \in 1 .. m + 1 : h[n - 1] = g[n - 1]
    BY <1>2
  <1>4. \A n \in 1 .. m + 1 : Taken(h, n, S, src) = Taken(g, n, S, src)
    BY <1>3, Zenon DEF Taken
  <1>5. \A n \in 0 .. m + 1 : h[n] = IF n = 0 THEN <<>> ELSE Taken(h, n, S, src)
    <2> TAKE n \in 0 .. m + 1
    <2>1. CASE n = m + 1
      BY ONLY <2>1, <1>2, <1>4, m \in Nat
    <2>2. CASE n # m + 1
      BY ONLY <2>2, <1>1, <1>2, <1>4, m \in Nat, n \in 0 .. m + 1
    <2> QED BY <2>1, <2>2
  <1>6. Runs(h, m + 1, S, src)
    BY ONLY <1>2, <1>5, Zenon DEF Runs
  <1> QED BY <1>6

(* The loop over the outcome rows runs to any length: the recursive function has a value. *)
LEMMA LoopRuns ==
  ASSUME NEW N \in Nat, NEW S, NEW src
  PROVE  \E g : Runs(g, N, S, src)
  <1> DEFINE T == {m \in Nat : \E g : Runs(g, m, S, src)}
  <1>1. Runs([n \in 0 .. 0 |-> <<>>], 0, S, src)
    BY DEF Runs
  <1>2. \A m \in T : m + 1 \in T
    <2> SUFFICES ASSUME NEW m \in T PROVE m + 1 \in T
      BY Zenon
    <2>1. m \in Nat /\ \E g : Runs(g, m, S, src)
      BY Zenon
    <2>2. \E g : Runs(g, m + 1, S, src)
      BY <2>1, LoopExtends, Zenon
    <2> QED BY <2>1, <2>2
  <1>3. T = Nat
    <2>1. 0 \in T
      BY <1>1, Zenon
    <2> QED BY <2>1, <1>2, NatInd, Zenon
  <1> QED BY <1>3, Zenon

(* After N rows the loop has taken each chosen row up to N exactly once. *)
LEMMA LoopTakes ==
  ASSUME NEW N \in Nat, NEW S, NEW src \in {"row", "outcome", "overload"}, NEW f,
         LoopUpTo(f, N, S, src)
  PROVE  /\ f[N] \in Seq(Marked) /\ Distinct(f[N])
         /\ Rng(f[N]) = Tagged(src, S \cap (1 .. N))
  <1> DEFINE Good(n) == /\ f[n] \in Seq(Marked) /\ Distinct(f[n])
                        /\ Rng(f[n]) = Tagged(src, S \cap (1 .. n))
             U == {n \in Nat : n <= N => Good(n)}
  <1>1. Good(0)
    BY DEF Distinct, Rng, Tagged, LoopUpTo
  <1>2. ASSUME NEW n \in Nat, n + 1 <= N, Good(n) PROVE Good(n + 1)
    <2>1. n + 1 \in 1 .. N /\ (n + 1) - 1 = n /\ 1 .. (n + 1) = (1 .. n) \cup {n + 1}
      BY <1>2
    <2>2. f[n + 1] = IF n + 1 \in S THEN Append(f[n], <<src, n + 1>>) ELSE f[n]
      BY <2>1 DEF Taken, LoopUpTo
    <2>3. <<src, n + 1>> \in Marked
      BY DEF Marked
    <2>4. <<src, n + 1>> \notin Rng(f[n])
      <3>1. \A k \in 1 .. n : <<src, k>> # <<src, n + 1>>
        BY <1>2
      <3> QED BY <3>1, <1>2 DEF Tagged
    <2>5. CASE n + 1 \in S
      <3>1. f[n + 1] = Append(f[n], <<src, n + 1>>)
        BY <2>2, <2>5
      <3>2. /\ f[n + 1] \in Seq(Marked) /\ Distinct(f[n + 1])
            /\ Rng(f[n + 1]) = Rng(f[n]) \cup {<<src, n + 1>>}
        <4>1. f[n] \in Seq(Marked) /\ Distinct(f[n])
          BY <1>2, Zenon
        <4> QED BY ONLY <4>1, <2>3, <2>4, <3>1, AppendRange
      <3>3. S \cap (1 .. (n + 1)) = (S \cap (1 .. n)) \cup {n + 1}
        BY ONLY <2>1, <2>5, Zenon
      <3>4. Tagged(src, (S \cap (1 .. n)) \cup {n + 1})
              = Tagged(src, S \cap (1 .. n)) \cup {<<src, n + 1>>}
        BY DEF Tagged
      <3> HIDE DEF Good
      <3> QED BY <1>2, <3>2, <3>3, <3>4, Zenon DEF Good
    <2>6. CASE n + 1 \notin S
      <3>1. S \cap (1 .. (n + 1)) = S \cap (1 .. n)
        BY ONLY <2>1, <2>6, Zenon
      <3> QED BY <1>2, <2>2, <2>6, <3>1, Zenon
    <2> QED BY <2>5, <2>6
  <1> HIDE DEF Good
  <1>3. 0 \in U /\ \A n \in U : n + 1 \in U
    BY <1>1, <1>2
  <1>4. U = Nat
    BY <1>3, NatInd, Zenon
  <1>5. Good(N)
    BY <1>4
  <1> QED BY <1>5 DEF Good

(* The loop over all of a profile's outcome rows takes exactly the chosen ones, once each. *)
LEMMA ChosenTakes ==
  ASSUME prof.outcomes \in Seq(Outcomes), NEW S, NEW src \in {"row", "outcome", "overload"}
  PROVE  /\ Chosen(S, src) \in Seq(Marked) /\ Distinct(Chosen(S, src))
         /\ Rng(Chosen(S, src)) = Tagged(src, S \cap DOMAIN prof.outcomes)
  <1> DEFINE N == Len(prof.outcomes)
             f == CHOOSE g : Runs(g, N, S, src)
  <1>1. N \in Nat /\ DOMAIN prof.outcomes = 1 .. N
    OBVIOUS
  <1>2. Chosen(S, src) = f[N]
    BY Zenon DEF Chosen, Runs, Taken
  <1> HIDE DEF N
  <1>3. Runs(f, N, S, src)
    BY <1>1, LoopRuns, Zenon
  <1> HIDE DEF f
  <1>4. \A n \in 0 .. N : f[n] = IF n = 0 THEN <<>> ELSE Taken(f, n, S, src)
    BY <1>3, Zenon DEF Runs
  <1>5. LoopUpTo(f, N, S, src)
    BY ONLY <1>1, <1>4 DEF LoopUpTo
  <1>6. /\ f[N] \in Seq(Marked) /\ Distinct(f[N])
        /\ Rng(f[N]) = Tagged(src, S \cap (1 .. N))
    BY ONLY <1>1, <1>5, LoopTakes, src \in {"row", "outcome", "overload"}, Zenon
  <1> QED BY <1>1, <1>2, <1>6, Zenon

(* Chosen outcome rows split into requests and list writes by what each row does. *)
LEMMA AsksAndWrites ==
  ASSUME prof.outcomes \in Seq(Outcomes), NEW S \in SUBSET DOMAIN prof.outcomes,
         NEW src \in {"row", "outcome", "overload"}
  PROVE  /\ Asks(S, src) \in Seq(Marked) /\ Distinct(Asks(S, src))
         /\ Rng(Asks(S, src)) = Tagged(src, {j \in S : prof.outcomes[j].do = "ask"})
         /\ Writes(S, src) \in Seq(Marked) /\ Distinct(Writes(S, src))
         /\ Rng(Writes(S, src)) = Tagged(src, {j \in S : prof.outcomes[j].do = "list"})
  <1>1. /\ {j \in S : prof.outcomes[j].do = "ask"} \cap DOMAIN prof.outcomes
             = {j \in S : prof.outcomes[j].do = "ask"}
        /\ {j \in S : prof.outcomes[j].do = "list"} \cap DOMAIN prof.outcomes
             = {j \in S : prof.outcomes[j].do = "list"}
    BY Zenon
  <1> QED BY <1>1, ChosenTakes, Zenon DEF Asks, Writes

(* What the type invariant says of the profile the request was given. *)
LEMMA ProfileType ==
  ASSUME TypeOK
  PROVE  /\ prof.rules \in Seq(Rules) /\ prof.outcomes \in Seq(Outcomes)
         /\ prof.default \in {"allow", "deny"}
         /\ \A j \in DOMAIN prof.rules : j \in Nat /\ prof.rules[j] \in Rules
         /\ \A j \in DOMAIN prof.outcomes : j \in Nat /\ prof.outcomes[j] \in Outcomes
  <1>1. /\ prof.rules \in Seq(Rules) /\ prof.outcomes \in Seq(Outcomes)
        /\ prof.default \in {"allow", "deny"}
    BY Zenon DEF TypeOK
  <1> QED BY ONLY <1>1

(* The overload rows yield well-formed lists of requests and writes. *)
LEMMA OverloadTypes ==
  ASSUME TypeOK, NEW shed \in BOOLEAN
  PROVE  OverloadAsks(shed) \in Seq(Marked) /\ OverloadBans(shed) \in Seq(Marked)
  <1>1. Overloaded(shed) \in SUBSET DOMAIN prof.outcomes
    BY Zenon DEF Overloaded
  <1>2. /\ Asks(Overloaded(shed), "overload") \in Seq(Marked)
        /\ Writes(Overloaded(shed), "overload") \in Seq(Marked)
    BY <1>1, ProfileType, AsksAndWrites, Zenon
  <1>3. <<>> \in Seq(Marked)
    OBVIOUS
  <1> QED BY <1>2, <1>3, Zenon DEF OverloadAsks, OverloadBans

(* The initial states are well typed. *)
LEMMA TypeInit == Init => TypeOK
  <1> SUFFICES ASSUME Init PROVE TypeOK
    OBVIOUS
  <1>1. PICK c \in Cases : prof = c.prof /\ req = c.req /\ moves = c.moves
    BY Zenon DEF Init
  <1>2. /\ prof \in [rules : Seq(Rules), outcomes : Seq(Outcomes), default : {"allow", "deny"}]
        /\ req \in Requests /\ moves \in Nat
    BY <1>1, InspectAssumption, Zenon
  <1>3. seen \in [Lives -> SUBSET BOOLEAN]
    BY DEF Init
  <1>4. <<>> \in Seq(Marked) /\ 0 \in Nat
    OBVIOUS
  <1> QED BY <1>2, <1>3, <1>4, Zenon DEF Init, TypeOK, PCs, HitKinds, Errors

(* Every step of an inspection keeps the types. *)
LEMMA TypeStep == TypeOK /\ Next => TypeOK'
  <1> SUFFICES ASSUME TypeOK, Next PROVE TypeOK'
    OBVIOUS
  <1>1. ASSUME NEW l \in Lives, NEW now \in {"in", "out"}, LiveChange(l, now) PROVE TypeOK'
    <2>1. moves' \in Nat
      BY <1>1 DEF LiveChange, TypeOK
    <2>2. live' \in [Lives -> {"loading", "in", "out"}]
      BY <1>1 DEF LiveChange, TypeOK
    <2>3. seen' \in [Lives -> SUBSET BOOLEAN]
      BY <1>1, Zenon DEF LiveChange, TypeOK
    <2> QED BY <1>1, <2>1, <2>2, <2>3, Zenon DEF LiveChange, TypeOK
  <1>2. CASE Shed
    <2>1. actions' \in Seq(Marked) /\ bans' \in Seq(Marked)
      <3>1. <<>> \in Seq(Marked)
        OBVIOUS
      <3> QED BY <1>2, <3>1, OverloadTypes, Zenon DEF Shed
    <2>2. err' \in Errors /\ pc' \in PCs
      BY <1>2, Zenon DEF Shed, TypeOK, Requests, Errors, PCs
    <2> QED BY <1>2, <2>1, <2>2, Zenon DEF Shed, TypeOK, inputs, output
  <1>3. ASSUME NEW code \in {"IP_UNKNOWN_PROFILE", "IP_MALFORMED", "IP_MISSING_SET"},
               CheckFails(code)
        PROVE  TypeOK'
    BY <1>3, Zenon DEF CheckFails, TypeOK, inputs, output, Errors, PCs
  <1>4. CASE CheckBegins
    BY <1>4, Zenon DEF CheckBegins, TypeOK, inputs, output, PCs
  <1>5. ASSUME NEW j \in DOMAIN prof.rules, ReadMatch(j) \/ ReadExclude(j) PROVE TypeOK'
    <2>1. j \in Nat /\ 0 \in Nat
      BY ProfileType
    <2>2. \A in \in BOOLEAN, k \in HitKinds : Settle(j, in, k) =>
            pc' \in PCs /\ row' \in Nat /\ by' \in Nat
              /\ where' \in {"error", "white", "black", "none"}
      BY <2>1, ZenonT(30) DEF Settle, TypeOK, PCs
    <2>3. /\ pc' \in PCs /\ row' \in Nat /\ by' \in Nat
          /\ where' \in {"error", "white", "black", "none"}
      <3>1. pc \in PCs /\ row \in Nat /\ by \in Nat /\ hit \in HitKinds /\ "none" \in HitKinds
              /\ where \in {"error", "white", "black", "none"}
        BY Zenon DEF TypeOK, HitKinds
      <3>2. CASE ReadMatch(j)
        BY <3>1, <3>2, <2>2, Zenon DEF ReadMatch
      <3>3. CASE ReadExclude(j)
        BY <3>1, <3>3, <2>2, Zenon DEF ReadExclude
      <3> QED BY <1>5, <3>2, <3>3, Zenon
    <2>4. hit' \in HitKinds
      BY <1>5, Zenon DEF ReadMatch, ReadExclude, HitKinds, Locate
    <2> QED BY <1>5, <2>3, <2>4, ZenonT(30) DEF ReadMatch, ReadExclude, TypeOK, inputs, output
  <1>6. CASE PassEnds
    <2>1. row' \in Nat
      BY <1>6 DEF PassEnds
    <2> QED BY <1>6, <2>1, Zenon DEF PassEnds, TypeOK, inputs, output, PCs
  <1>7. ASSUME NEW j \in DOMAIN prof.rules, SideRow(j) PROVE TypeOK'
    <2>1. j \in Nat
      BY ProfileType
    <2>2. <<"row", j>> \in Marked
      BY <2>1 DEF Marked
    <2>3. Append(actions, <<"row", j>>) \in Seq(Marked) /\ Append(bans, <<"row", j>>) \in Seq(Marked)
      <3>1. actions \in Seq(Marked) /\ bans \in Seq(Marked)
        BY Zenon DEF TypeOK
      <3> QED BY ONLY <3>1, <2>2
    <2> QED BY <1>7, <2>1, <2>3, Zenon DEF SideRow, TypeOK, inputs, output
  <1>8. CASE OutcomeRows
    <2> DEFINE S == {j \in DOMAIN prof.outcomes : Matches(prof.outcomes[j])}
    <2>1. actions' = actions \o Asks(S, "outcome") /\ bans' = bans \o Writes(S, "outcome")
      BY <1>8, Zenon DEF OutcomeRows
    <2>2. S \in SUBSET DOMAIN prof.outcomes
      BY Zenon
    <2> HIDE DEF S
    <2>3. Asks(S, "outcome") \in Seq(Marked) /\ Writes(S, "outcome") \in Seq(Marked)
      BY <2>2, ProfileType, AsksAndWrites, Zenon
    <2>4. actions \in Seq(Marked) /\ bans \in Seq(Marked)
      BY Zenon DEF TypeOK
    <2>5. actions' \in Seq(Marked) /\ bans' \in Seq(Marked)
      BY ONLY <2>1, <2>3, <2>4
    <2> QED BY <1>8, <2>5, Zenon DEF OutcomeRows, TypeOK, inputs, output, PCs
  <1>9. CASE OverloadRows
    <2>1. actions \in Seq(Marked) /\ bans \in Seq(Marked)
      BY Zenon DEF TypeOK
    <2>2. OverloadAsks(FALSE) \in Seq(Marked) /\ OverloadBans(FALSE) \in Seq(Marked)
      BY OverloadTypes, Zenon
    <2>3. /\ actions \o OverloadAsks(FALSE) \in Seq(Marked)
          /\ bans \o OverloadBans(FALSE) \in Seq(Marked)
      BY <2>1, <2>2, ConcatRange, Zenon
    <2> QED BY <1>9, <2>3, Zenon DEF OverloadRows, TypeOK, inputs, output, PCs
  <1>10. ASSUME NEW geo \in {"values", "nothing", "fails"}, WriteList(geo) PROVE TypeOK'
    <2>1. bans \in Seq(Marked) /\ written \in Seq(Marked) /\ tried \in Nat
      BY Zenon DEF TypeOK
    <2>2. tried < Len(bans)
      BY <1>10, Zenon DEF WriteList
    <2>3. bans[tried + 1] \in Marked
      BY ONLY <2>1, <2>2
    <2>4. Append(written, bans[tried + 1]) \in Seq(Marked) /\ tried + 1 \in Nat
      BY ONLY <2>1, <2>3
    <2>5. written' \in Seq(Marked) /\ failed' \in BOOLEAN /\ tried' \in Nat
      BY <1>10, <2>1, <2>4, Zenon DEF WriteList, TypeOK
    <2> QED BY <1>10, <2>5, Zenon DEF WriteList, TypeOK, inputs
  <1>11. CASE Send
    BY <1>11, Zenon DEF Send, TypeOK, inputs, PCs
  <1> QED BY <1>1, <1>2, <1>3, <1>4, <1>5, <1>6, <1>7, <1>8, <1>9, <1>10, <1>11, Zenon DEF Next

-----------------------------------------------------------------------------
(* The search for the verdict.                                             *)

(* A row of the allow or the deny pass is a rule of the profile over a known set. *)
LEMMA TerminalRows ==
  ASSUME TypeOK, NEW act \in {"allow", "deny"}, NEW j \in PassRows(act)
  PROVE  /\ j \in DOMAIN prof.rules /\ j \in Nat /\ j > 0
         /\ prof.rules[j].set \in DOMAIN Sets
  <1>1. j \in DOMAIN prof.rules /\ prof.rules[j].action = act
    BY Zenon DEF PassRows
  <1>2. j \in Nat /\ j > 0
    <2>1. prof.rules \in Seq(Rules)
      BY ProfileType
    <2> QED BY ONLY <1>1, <2>1
  <1>3. prof.rules[j] \in Rules
    BY <1>1, ProfileType
  <1>4. prof.rules[j].set \in DOMAIN Sets
    BY <1>1, <1>3, Zenon DEF Rules
  <1> QED BY <1>1, <1>2, <1>4

(* The shape of a set: its match and exclude blocks and its inverse flag. *)
LEMMA SetType ==
  ASSUME NEW s \in DOMAIN Sets
  PROVE  Sets[s].match \in Blocks /\ Sets[s].exclude \in Blocks /\ Sets[s].inverse \in BOOLEAN
  BY InspectAssumption, Zenon

(* One read of a block, whatever the live sets say later.                  *)
LEMMA LocateSays ==
  ASSUME TypeOK, SeenNow, NEW m \in Blocks
  PROVE  /\ Locate(m) # "none" => MayHit(m)
         /\ Locate(m) = "none" => ~MustHit(m)
  <1> DEFINE found == m.static \cap world.member
  <1>1. \A l \in m.live : l \in Lives
    BY Zenon DEF Blocks
  <1>2. ASSUME NEW l \in m.live, LiveContains(l) PROVE TRUE \in seen[l]
    BY <1>1, <1>2, Zenon DEF SeenNow, LiveContains
  <1>3. ASSUME NEW l \in m.live, ~LiveContains(l) PROVE seen[l] # {TRUE}
    <2>1. FALSE \in seen[l]
      BY <1>1, <1>3, Zenon DEF SeenNow, LiveContains
    <2> QED BY <2>1, Zenon
  <1>4. CASE found # {}
    <2>1. Fixed(m)
      BY <1>4, Zenon DEF Fixed
    <2>2. Locate(m) \in {"list", "asn"}
      <3>1. CASE found \ Asns # {}
        BY <3>1, Zenon DEF Locate
      <3>2. CASE found \subseteq Asns
        BY <1>4, <3>2, Zenon DEF Locate
      <3> QED BY <3>1, <3>2
    <2> QED BY <2>1, <2>2, Zenon DEF MayHit
  <1>5. CASE found = {} /\ (\E l \in m.live : LiveContains(l))
    <2>1. Locate(m) = "live"
      BY <1>5, Zenon DEF Locate
    <2> QED BY <2>1, <1>2, <1>5, Zenon DEF MayHit
  <1>6. CASE found = {} /\ (\A l \in m.live : ~LiveContains(l))
    <2>1. CASE world.country \in m.countries
      <3>1. Locate(m) = "country"
        BY <1>6, <2>1, Zenon DEF Locate
      <3> QED BY <3>1, <2>1, Zenon DEF MayHit, Fixed
    <2>2. CASE world.country \notin m.countries
      <3>1. Locate(m) = "none"
        BY <1>6, <2>2, Zenon DEF Locate
      <3>2. ~MustHit(m)
        BY <1>3, <1>6, <2>2, Zenon DEF MustHit, Fixed
      <3> QED BY <3>1, <3>2
    <2> QED BY <2>1, <2>2
  <1> QED BY <1>4, <1>5, <1>6, Zenon

(* Two reads settle a set.                                                 *)
LEMMA ReadsSettle ==
  ASSUME NEW s \in DOMAIN Sets, NEW in \in BOOLEAN,
         in => MayHit(Sets[s].match) /\ ~MustHit(Sets[s].exclude),
         ~in => ~MustHit(Sets[s].match) \/ MayHit(Sets[s].exclude)
  PROVE  /\ in # Sets[s].inverse => MayBeIn(s)
         /\ in = Sets[s].inverse => ~MustBeIn(s)
  <1>1. Sets[s].inverse \in BOOLEAN
    BY SetType
  <1>2. CASE in
    BY <1>1, <1>2, Zenon DEF MayBeIn, MustBeIn
  <1>3. CASE ~in
    BY <1>1, <1>3, Zenon DEF MayBeIn, MustBeIn
  <1> QED BY <1>2, <1>3

(* What may be only grows, and what must be only shrinks, as live sets     *)
(* change.                                                                 *)
Grows == prof' = prof /\ world' = world /\ \A l \in Lives : seen[l] \subseteq seen'[l]

(* As more answers of the datasets are seen, a block that may hit still may, and one that
   must hit in the end always had to. *)
LEMMA HitsGrow ==
  ASSUME TypeOK, TypeOK', SeenNow, Grows, NEW m \in Blocks
  PROVE  (MayHit(m) => MayHit(m)') /\ (MustHit(m)' => MustHit(m))
  <1>1. \A l \in m.live : l \in Lives
    BY Zenon DEF Blocks
  <1>2. Fixed(m)' <=> Fixed(m)
    BY Zenon DEF Fixed, Grows
  <1>3. ASSUME NEW l \in m.live, TRUE \in seen[l] PROVE TRUE \in seen'[l]
    BY <1>1, <1>3, Zenon DEF Grows
  <1>4. ASSUME NEW l \in m.live, seen'[l] = {TRUE} PROVE seen[l] = {TRUE}
    <2>1. seen[l] \subseteq {TRUE}
      BY <1>1, <1>4, Zenon DEF Grows
    <2>2. (live[l] = "in") \in seen[l]
      BY <1>1, Zenon DEF SeenNow
    <2> QED BY <2>1, <2>2, Zenon
  <1>5. MayHit(m) => MayHit(m)'
    BY <1>2, <1>3, Zenon DEF MayHit
  <1>6. MustHit(m)' => MustHit(m)
    BY <1>2, <1>4, Zenon DEF MustHit
  <1> QED BY <1>5, <1>6

(* The same for membership in a set, with its exclusions and inversion. *)
LEMMA SetsGrow ==
  ASSUME TypeOK, TypeOK', SeenNow, Grows, NEW s \in DOMAIN Sets
  PROVE  (MayBeIn(s) => MayBeIn(s)') /\ (MustBeIn(s)' => MustBeIn(s))
  <1>1. /\ Sets[s].match \in Blocks /\ Sets[s].exclude \in Blocks /\ Sets[s].inverse \in BOOLEAN
    BY SetType
  <1>2. /\ MayHit(Sets[s].match) => MayHit(Sets[s].match)'
        /\ MustHit(Sets[s].match)' => MustHit(Sets[s].match)
    BY <1>1, HitsGrow, Zenon
  <1>3. /\ MayHit(Sets[s].exclude) => MayHit(Sets[s].exclude)'
        /\ MustHit(Sets[s].exclude)' => MustHit(Sets[s].exclude)
    BY <1>1, HitsGrow, Zenon
  <1> QED BY <1>1, <1>2, <1>3, Zenon DEF MayBeIn, MustBeIn

(* The same for the sets that the rows of a pass name; the rows themselves stay. *)
LEMMA RowsGrow ==
  ASSUME TypeOK, TypeOK', SeenNow, Grows, NEW act \in {"allow", "deny"}
  PROVE  /\ PassRows(act)' = PassRows(act)
         /\ \A j \in PassRows(act) : /\ MayBeIn(prof.rules[j].set) => MayBeIn(prof.rules[j].set)'
                                     /\ MustBeIn(prof.rules[j].set)' => MustBeIn(prof.rules[j].set)
  <1>1. prof' = prof
    BY Zenon DEF Grows
  <1>2. ASSUME NEW j \in PassRows(act)
        PROVE  /\ MayBeIn(prof.rules[j].set) => MayBeIn(prof.rules[j].set)'
               /\ MustBeIn(prof.rules[j].set)' => MustBeIn(prof.rules[j].set)
    <2>1. PICK s \in DOMAIN Sets : s = prof.rules[j].set
      BY TerminalRows, Zenon
    <2>2. (MayBeIn(s) => MayBeIn(s)') /\ (MustBeIn(s)' => MustBeIn(s))
      BY SetsGrow, Zenon
    <2> QED BY <1>1, <2>1, <2>2, Zenon
  <1> QED BY <1>1, <1>2, Zenon DEF PassRows, Terminal

(* Rows of which none had to match keep that as more answers are seen. *)
LEMMA NoneMustGrows ==
  ASSUME TypeOK, TypeOK', SeenNow, Grows
  PROVE  \A S \in SUBSET (PassRows("allow") \cup PassRows("deny")) : NoneMust(S) => NoneMust(S)'
  BY RowsGrow, Zenon DEF NoneMust

(* A verdict once found stays explained.                                   *)
LEMMA VerdictStays ==
  ASSUME VerdictInv, TypeOK', Grows, UNCHANGED <<where, by>>
  PROVE  /\ VerdictExplained'
         /\ where' = "white" => by' \in PassRows("allow")'
         /\ where' = "black" => by' \in PassRows("deny")'
  <1> USE DEF VerdictInv
  <1>1. /\ PassRows("allow")' = PassRows("allow") /\ PassRows("deny")' = PassRows("deny")
        /\ prof' = prof /\ by' = by /\ where' = where
    BY RowsGrow, Zenon DEF Grows
  <1>2. /\ where = "white" => by \in PassRows("allow")
        /\ where = "black" => by \in PassRows("deny")
    BY Zenon DEF Searched
  <1>3. \A act : Before(act, by)' = {k \in PassRows(act)' : k < by}
    BY <1>1, Zenon DEF Before
  <1>4. Before("allow", by)' = Before("allow", by) /\ Before("deny", by)' = Before("deny", by)
    BY <1>1, <1>3, Zenon DEF Before
  <1>5. where = "white" => VerdictExplained'
    <2> SUFFICES ASSUME where = "white" PROVE VerdictExplained'
      OBVIOUS
    <2>1. MayBeIn(prof.rules[by].set)'
      BY <1>2, RowsGrow, Zenon DEF VerdictExplained
    <2>2. NoneMust(Before("allow", by))
      BY Zenon DEF VerdictExplained
    <2>3. Before("allow", by) \in SUBSET (PassRows("allow") \cup PassRows("deny"))
      BY Zenon DEF Before
    <2>4. NoneMust(Before("allow", by))'
      BY <2>2, <2>3, <1>4, NoneMustGrows, Zenon
    <2> QED BY <1>1, <2>1, <2>4, Zenon DEF VerdictExplained
  <1>6. where = "black" => VerdictExplained'
    <2> SUFFICES ASSUME where = "black" PROVE VerdictExplained'
      OBVIOUS
    <2>1. MayBeIn(prof.rules[by].set)'
      BY <1>2, RowsGrow, Zenon DEF VerdictExplained
    <2>2. NoneMust(PassRows("allow") \cup Before("deny", by))
      BY Zenon DEF VerdictExplained
    <2>3. PassRows("allow") \cup Before("deny", by)
            \in SUBSET (PassRows("allow") \cup PassRows("deny"))
      BY Zenon DEF Before
    <2>4. NoneMust(PassRows("allow") \cup Before("deny", by))'
      BY <2>2, <2>3, <1>1, <1>4, NoneMustGrows, Zenon
    <2> QED BY <1>1, <2>1, <2>4, Zenon DEF VerdictExplained
  <1>7. where = "none" => VerdictExplained'
    <2> SUFFICES ASSUME where = "none" PROVE VerdictExplained'
      OBVIOUS
    <2>1. NoneMust(PassRows("allow") \cup PassRows("deny"))'
      BY <1>1, NoneMustGrows, Zenon DEF VerdictExplained
    <2> QED BY <1>1, <2>1, Zenon DEF VerdictExplained
  <1>8. where = "error" => VerdictExplained'
    BY <1>1, Zenon DEF VerdictExplained
  <1>9. where \in {"error", "white", "black", "none"}
    BY Zenon DEF TypeOK
  <1> QED BY <1>1, <1>2, <1>5, <1>6, <1>7, <1>8, <1>9, Zenon

Aside ==
  \/ Shed \/ OutcomeRows \/ OverloadRows \/ Send
  \/ \E code \in {"IP_UNKNOWN_PROFILE", "IP_MALFORMED", "IP_MISSING_SET"} : CheckFails(code)
  \/ \E j \in DOMAIN prof.rules : SideRow(j)
  \/ \E geo \in {"values", "nothing", "fails"} : WriteList(geo)

(* The steps after the verdict (side rows, outcomes, overload, writes) leave it alone. *)
LEMMA AsideFrame ==
  ASSUME Aside
  PROVE  /\ UNCHANGED <<prof, req, world, live, seen, where, by, hit>>
         /\ pc' \in {"side", "overload", "write", "done"}
  BY Zenon DEF Aside, Shed, OutcomeRows, OverloadRows, Send, CheckFails, SideRow, WriteList, inputs

(* The invariant behind the verdict holds initially. *)
LEMMA VerdictInit == Init => VerdictInv
  <1> SUFFICES ASSUME Init PROVE VerdictInv
    OBVIOUS
  <1>1. TypeOK
    BY TypeInit
  <1>2. SeenNow
    BY Zenon DEF Init, SeenNow
  <1>3. Searched /\ VerdictExplained
    BY Zenon DEF Init, Searched, VerdictExplained
  <1> QED BY <1>1, <1>2, <1>3 DEF VerdictInv

(* Each step records what the datasets say at that moment and forgets nothing. *)
LEMMA SeenStep ==
  ASSUME TypeOK, SeenNow, Next
  PROVE  SeenNow' /\ Grows
  <1>1. ASSUME NEW l \in Lives, NEW now \in {"in", "out"}, LiveChange(l, now)
        PROVE  SeenNow' /\ Grows
    <2>1. live \in [Lives -> {"loading", "in", "out"}] /\ seen \in [Lives -> SUBSET BOOLEAN]
      BY Zenon DEF TypeOK
    <2>2. /\ live' = [live EXCEPT ![l] = now]
          /\ seen' = [seen EXCEPT ![l] = @ \cup {now = "in"}]
          /\ prof' = prof /\ world' = world
      BY <1>1, Zenon DEF LiveChange
    <2>3. \A x \in Lives : /\ live'[x] = IF x = l THEN now ELSE live[x]
                           /\ seen'[x] = IF x = l THEN seen[x] \cup {now = "in"} ELSE seen[x]
      BY <2>1, <2>2, Zenon
    <2>4. SeenNow'
      <3> SUFFICES ASSUME NEW x \in Lives PROVE (live'[x] = "in") \in seen'[x]
        BY Zenon DEF SeenNow
      <3>1. CASE x = l
        BY <3>1, <2>3, Zenon
      <3>2. CASE x # l
        BY <3>2, <2>3, Zenon DEF SeenNow
      <3> QED BY <3>1, <3>2
    <2>5. \A x \in Lives : seen[x] \subseteq seen'[x]
      <3> TAKE x \in Lives
      <3>1. CASE x = l
        BY <3>1, <2>3, Zenon
      <3>2. CASE x # l
        BY <3>2, <2>3, Zenon
      <3> QED BY <3>1, <3>2
    <2> QED BY <2>2, <2>4, <2>5, Zenon DEF Grows
  <1>2. ASSUME UNCHANGED <<prof, world, live, seen>> PROVE SeenNow' /\ Grows
    BY <1>2, Zenon DEF SeenNow, Grows
  <1>3. ASSUME NEW j \in DOMAIN prof.rules, ReadMatch(j) \/ ReadExclude(j)
        PROVE  UNCHANGED <<prof, world, live, seen>>
    BY <1>3, Zenon DEF ReadMatch, ReadExclude, inputs
  <1>4. CheckBegins \/ PassEnds => UNCHANGED <<prof, world, live, seen>>
    BY Zenon DEF CheckBegins, PassEnds, inputs
  <1>5. Aside => UNCHANGED <<prof, world, live, seen>>
    BY AsideFrame, Zenon
  <1>6. \/ \E l \in Lives, now \in {"in", "out"} : LiveChange(l, now)
        \/ \E j \in DOMAIN prof.rules : ReadMatch(j) \/ ReadExclude(j)
        \/ CheckBegins \/ PassEnds \/ Aside
    BY Zenon DEF Next, Aside
  <1> QED BY <1>1, <1>2, <1>3, <1>4, <1>5, <1>6, Zenon

(* The row a read is about, and what it means for the pass.                *)
LEMMA NextRow ==
  ASSUME VerdictInv, NEW j \in DOMAIN prof.rules, pc \in {"allow", "deny"},
         IsNext(j, PassRows(pc))
  PROVE  /\ j \in PassRows(pc) /\ prof.rules[j].set \in DOMAIN Sets
         /\ Before(pc, j) = UpToRow(pc)
         /\ {k \in PassRows(pc) : k <= j} = UpToRow(pc) \cup {j}
  <1> USE DEF VerdictInv
  <1>1. j \in PassRows(pc) /\ j > row /\ \A k \in PassRows(pc) : k > row => j <= k
    BY Zenon DEF IsNext, Left
  <1>2. \A k \in PassRows(pc) : k \in Nat /\ prof.rules[k].set \in DOMAIN Sets
    BY TerminalRows, Zenon
  <1>3. row \in Nat
    BY Zenon DEF TypeOK
  <1>4. \A k \in PassRows(pc) : (k < j <=> k <= row) /\ (k <= j <=> k <= row \/ k = j)
    BY ONLY <1>1, <1>2, <1>3
  <1> QED BY <1>1, <1>2, <1>4, Zenon DEF Before, UpToRow

(* Settling a row of the allow or deny pass keeps the search and its explanation right. *)
LEMMA SettleStep ==
  ASSUME VerdictInv, TypeOK', Grows, NEW j \in DOMAIN prof.rules, pc \in {"allow", "deny"},
         IsNext(j, PassRows(pc)), NEW in \in BOOLEAN, NEW k, Settle(j, in, k), hit' = "none",
         in # Sets[prof.rules[j].set].inverse => MayBeIn(prof.rules[j].set),
         in = Sets[prof.rules[j].set].inverse => ~MustBeIn(prof.rules[j].set)
  PROVE  Searched' /\ VerdictExplained'
  <1> USE DEF VerdictInv
  <1>0. SeenNow /\ TypeOK
    OBVIOUS
  <1>1. /\ j \in PassRows(pc) /\ prof.rules[j].set \in DOMAIN Sets
        /\ Before(pc, j) = UpToRow(pc)
        /\ {n \in PassRows(pc) : n <= j} = UpToRow(pc) \cup {j}
    BY NextRow, Zenon
  <1>2. /\ PassRows("allow")' = PassRows("allow") /\ PassRows("deny")' = PassRows("deny")
        /\ prof' = prof
    BY <1>0, RowsGrow, Zenon DEF Grows
  <1>3. /\ pc = "allow" => NoneMust(UpToRow("allow"))
        /\ pc = "deny" => NoneMust(PassRows("allow")) /\ NoneMust(UpToRow("deny"))
        /\ where = "error"
    BY Zenon DEF Searched
  <1>4. /\ UpToRow("allow") \in SUBSET (PassRows("allow") \cup PassRows("deny"))
        /\ UpToRow("deny") \in SUBSET (PassRows("allow") \cup PassRows("deny"))
        /\ PassRows("allow") \in SUBSET (PassRows("allow") \cup PassRows("deny"))
    BY Zenon DEF UpToRow
  <1>5. CASE in # Sets[prof.rules[j].set].inverse
    <2>1. /\ where' = IF pc = "allow" THEN "white" ELSE "black"
          /\ by' = j /\ pc' = "side"
      BY <1>5, Zenon DEF Settle
    <2>2. MayBeIn(prof.rules[j].set)'
      BY <1>0, <1>1, <1>5, RowsGrow, Zenon
    <2>3. \A act : Before(act, by)' = {n \in PassRows(act)' : n < by'}
      BY Zenon DEF Before
    <2>4. Before(pc, j) = {n \in PassRows(pc) : n < j}
      BY Zenon DEF Before
    <2>5. CASE pc = "allow"
      <3>1. NoneMust(Before("allow", by))'
        <4>1. Before("allow", by)' = UpToRow("allow")
          BY <1>1, <1>2, <2>1, <2>3, <2>4, <2>5, ZenonT(30)
        <4> QED BY <1>0, <1>3, <1>4, <2>5, <4>1, NoneMustGrows, Zenon
      <3> QED BY <1>1, <1>2, <2>1, <2>2, <2>5, <3>1, Zenon DEF Searched, VerdictExplained
    <2>6. CASE pc = "deny"
      <3>1. Before("deny", by)' = UpToRow("deny")
        <4>1. UpToRow("deny") = {n \in PassRows("deny") : n < j}
          BY <1>1, <2>4, <2>6, Zenon
        <4> QED BY <1>2, <2>1, <2>3, <4>1, Zenon
      <3>2. NoneMust(PassRows("allow") \cup UpToRow("deny"))
        BY <1>3, <2>6, Zenon DEF NoneMust
      <3>3. NoneMust(PassRows("allow") \cup Before("deny", by))'
        <4>1. PassRows("allow") \cup UpToRow("deny")
                \in SUBSET (PassRows("allow") \cup PassRows("deny"))
          BY <1>4, Zenon
        <4> QED BY <1>0, <1>2, <3>1, <3>2, <4>1, NoneMustGrows, Zenon
      <3> QED BY <1>1, <1>2, <2>1, <2>2, <2>6, <3>3, Zenon DEF Searched, VerdictExplained
    <2> QED BY <2>5, <2>6
  <1>6. CASE in = Sets[prof.rules[j].set].inverse
    <2>1. row' = j /\ pc' = pc /\ where' = where /\ by' = by
      BY <1>6, Zenon DEF Settle
    <2>2. \A act : UpToRow(act)' = {n \in PassRows(act)' : n <= j}
      BY <2>1, Zenon DEF UpToRow
    <2>3. UpToRow(pc)' = UpToRow(pc) \cup {j}
      BY <1>1, <1>2, <2>1, <2>2, Zenon
    <2>4. NoneMust(UpToRow(pc) \cup {j})
      BY <1>3, <1>6, Zenon DEF NoneMust
    <2>5. UpToRow(pc) \cup {j} \in SUBSET (PassRows("allow") \cup PassRows("deny"))
      BY <1>1, <1>4, Zenon
    <2>6. NoneMust(UpToRow(pc))'
      BY <1>0, <2>3, <2>4, <2>5, NoneMustGrows, Zenon
    <2>7. pc = "deny" => NoneMust(PassRows("allow"))'
      BY <1>0, <1>2, <1>3, <1>4, NoneMustGrows, Zenon
    <2>8. Searched'
      BY <1>3, <2>1, <2>6, <2>7, Zenon DEF Searched
    <2> QED BY <1>3, <2>1, <2>8, Zenon DEF VerdictExplained
  <1> QED BY <1>5, <1>6

(* A step that leaves the search where it is keeps it right as answers accumulate. *)
LEMMA SearchPauses ==
  ASSUME VerdictInv, TypeOK', Grows, UNCHANGED <<pc, row, hit, where, by>>
  PROVE  Searched' /\ VerdictExplained'
  <1> USE DEF VerdictInv
  <1>0. TypeOK /\ SeenNow
    OBVIOUS
  <1>1. /\ PassRows("allow")' = PassRows("allow") /\ PassRows("deny")' = PassRows("deny")
        /\ prof' = prof
    BY <1>0, RowsGrow, Zenon DEF Grows
  <1>2. /\ VerdictExplained'
        /\ where' = "white" => by' \in PassRows("allow")'
        /\ where' = "black" => by' \in PassRows("deny")'
    BY VerdictStays, Zenon
  <1>3. UpToRow("allow")' = UpToRow("allow") /\ UpToRow("deny")' = UpToRow("deny")
    BY <1>1, Zenon DEF UpToRow
  <1>4. /\ UpToRow("allow") \in SUBSET (PassRows("allow") \cup PassRows("deny"))
        /\ UpToRow("deny") \in SUBSET (PassRows("allow") \cup PassRows("deny"))
        /\ PassRows("allow") \in SUBSET (PassRows("allow") \cup PassRows("deny"))
    BY Zenon DEF UpToRow
  <1>5. /\ NoneMust(UpToRow("allow")) => NoneMust(UpToRow("allow"))'
        /\ NoneMust(UpToRow("deny")) => NoneMust(UpToRow("deny"))'
        /\ NoneMust(PassRows("allow")) => NoneMust(PassRows("allow"))'
    BY <1>0, <1>1, <1>3, <1>4, NoneMustGrows, Zenon
  <1>6. ASSUME pc' \in {"allow", "deny"}, hit' # "none", NEW j \in DOMAIN prof'.rules,
               IsNext(j, PassRows(pc))'
        PROVE  MayHit(Sets[prof.rules[j].set].match)'
    <2>1. pc \in {"allow", "deny"} /\ hit # "none" /\ j \in DOMAIN prof.rules
      BY <1>1, <1>6, Zenon
    <2>2. IsNext(j, PassRows(pc))
      BY <1>1, <1>6, Zenon DEF IsNext, Left, PassRows, Terminal
    <2>3. MayHit(Sets[prof.rules[j].set].match)
      BY <2>1, <2>2, Zenon DEF Searched
    <2>4. PICK m \in Blocks : m = Sets[prof.rules[j].set].match
      BY <2>1, <2>2, NextRow, SetType, Zenon
    <2>5. MayHit(m)'
      BY <1>0, <2>3, <2>4, HitsGrow, Zenon
    <2> QED BY <1>1, <2>4, <2>5, Zenon
  <1>7. /\ pc' \in {"evaluate", "allow", "deny"} => where' = "error"
        /\ pc' = "evaluate" => row' = 0 /\ hit' = "none"
        /\ pc' = "allow" => NoneMust(UpToRow("allow"))'
        /\ pc' = "deny" => NoneMust(PassRows("allow"))' /\ NoneMust(UpToRow("deny"))'
    BY <1>5, Zenon DEF Searched
  <1> QED BY <1>2, <1>6, <1>7, Zenon DEF Searched

(* Every step keeps the invariant behind the verdict. *)
LEMMA VerdictStep == VerdictInv /\ [Next]_vars => VerdictInv'
  <1> SUFFICES ASSUME VerdictInv, [Next]_vars PROVE VerdictInv'
    OBVIOUS
  <1>1. CASE UNCHANGED vars
    <2>1. TypeOK' /\ SeenNow'
      BY <1>1, Zenon DEF VerdictInv, vars, TypeOK, SeenNow
    <2>2. Grows /\ UNCHANGED <<pc, row, hit, where, by>>
      BY <1>1, Zenon DEF vars, Grows
    <2>3. Searched' /\ VerdictExplained'
      BY <2>1, <2>2, SearchPauses, Zenon
    <2> QED BY <2>1, <2>3, Zenon DEF VerdictInv
  <1>2. CASE Next
    <2> USE DEF VerdictInv
    <2>0. TypeOK /\ SeenNow
      OBVIOUS
    <2>1. TypeOK' /\ SeenNow' /\ Grows
      BY <1>2, <2>0, TypeStep, SeenStep, Zenon
    <2>2. /\ PassRows("allow")' = PassRows("allow") /\ PassRows("deny")' = PassRows("deny")
          /\ prof' = prof
      BY <2>0, <2>1, RowsGrow, Zenon DEF Grows
    <2> SUFFICES Searched' /\ VerdictExplained'
      BY <2>1, Zenon
    <2>3. CASE Aside
      BY <2>1, <2>3, AsideFrame, VerdictStays, Zenon DEF Searched
    <2>4. ASSUME NEW l \in Lives, NEW now \in {"in", "out"}, LiveChange(l, now)
          PROVE  Searched' /\ VerdictExplained'
      <3>1. UNCHANGED <<pc, row, hit, where, by>>
        BY <2>4, Zenon DEF LiveChange
      <3> QED BY <2>1, <3>1, SearchPauses, Zenon
    <2>5. CASE CheckBegins
      <3>1. pc' = "allow" /\ UNCHANGED <<row, hit, where, by>> /\ pc = "evaluate"
        BY <2>5, Zenon DEF CheckBegins
      <3>2. row = 0 /\ hit = "none" /\ where = "error"
        BY <3>1, Zenon DEF Searched
      <3>3. UpToRow("allow")' = {k \in PassRows("allow") : k <= 0}
        BY <2>2, <3>1, <3>2, Zenon DEF UpToRow
      <3>4. \A k \in PassRows("allow") : ~(k <= 0)
        <4>1. \A k \in PassRows("allow") : k \in Nat /\ k > 0
          BY <2>0, TerminalRows, Zenon
        <4> QED BY ONLY <4>1
      <3>5. NoneMust(UpToRow("allow"))'
        BY <3>3, <3>4, Zenon DEF NoneMust
      <3> QED BY <3>1, <3>2, <3>5, Zenon DEF Searched, VerdictExplained
    <2>6. CASE PassEnds
      <3>1. /\ pc \in {"allow", "deny"} /\ hit = "none" /\ Left(PassRows(pc)) = {}
            /\ row' = 0 /\ hit' = hit /\ by' = by
            /\ pc = "allow" => pc' = "deny" /\ where' = where
            /\ pc = "deny" => pc' = "side" /\ where' = "none"
        BY <2>6, Zenon DEF PassEnds
      <3>2. where = "error"
        BY <3>1, Zenon DEF Searched
      <3>3. UpToRow(pc) = PassRows(pc)
        <4>1. \A k \in PassRows(pc) : k \in Nat
          BY <2>0, <3>1, TerminalRows, Zenon
        <4>2. \A k \in PassRows(pc) : ~(k > row)
          BY <3>1, Zenon DEF Left
        <4>3. row \in Nat
          BY <2>0, Zenon DEF TypeOK
        <4>4. \A k \in PassRows(pc) : k <= row
          BY ONLY <4>1, <4>2, <4>3
        <4> QED BY <4>4, Zenon DEF UpToRow
      <3>4. CASE pc = "allow"
        <4>1. NoneMust(PassRows("allow"))
          BY <3>3, <3>4, Zenon DEF Searched
        <4>2. PassRows("allow") \in SUBSET (PassRows("allow") \cup PassRows("deny"))
          BY Zenon
        <4>3. NoneMust(PassRows("allow"))'
          BY <2>0, <2>1, <2>2, <4>1, <4>2, NoneMustGrows, Zenon
        <4>4. UpToRow("deny")' = {k \in PassRows("deny") : k <= 0}
          BY <2>2, <3>1, Zenon DEF UpToRow
        <4>5. \A k \in PassRows("deny") : ~(k <= 0)
          <5>1. \A k \in PassRows("deny") : k \in Nat /\ k > 0
            BY <2>0, TerminalRows, Zenon
          <5> QED BY ONLY <5>1
        <4>6. NoneMust(UpToRow("deny"))'
          BY <4>4, <4>5, Zenon DEF NoneMust
        <4> QED BY <3>1, <3>2, <3>4, <4>3, <4>6, Zenon DEF Searched, VerdictExplained
      <3>5. CASE pc = "deny"
        <4>1. NoneMust(PassRows("allow") \cup PassRows("deny"))
          BY <3>3, <3>5, Zenon DEF Searched, NoneMust
        <4>2. NoneMust(PassRows("allow") \cup PassRows("deny"))'
          BY <2>0, <2>1, <2>2, <4>1, NoneMustGrows, Zenon
        <4> QED BY <3>1, <3>5, <4>2, Zenon DEF Searched, VerdictExplained
      <3> QED BY <3>1, <3>4, <3>5
    <2>7. ASSUME NEW j \in DOMAIN prof.rules, ReadMatch(j) PROVE Searched' /\ VerdictExplained'
      <3> DEFINE s == prof.rules[j].set
      <3>1. /\ pc \in {"allow", "deny"} /\ IsNext(j, PassRows(pc))
            /\ hit' = Locate(Sets[s].match) /\ hit = "none"
        BY <2>7, Zenon DEF ReadMatch
      <3>2. s \in DOMAIN Sets /\ Sets[s].match \in Blocks
        BY <3>1, NextRow, SetType, Zenon
      <3>3. CASE hit' = "none"
        <4>1. Settle(j, FALSE, "none")
          BY <2>7, <3>3, Zenon DEF ReadMatch
        <4>2. ~MustHit(Sets[s].match)
          BY <2>0, <3>1, <3>2, <3>3, LocateSays, Zenon
        <4>3. /\ FALSE # Sets[s].inverse => MayBeIn(s)
              /\ FALSE = Sets[s].inverse => ~MustBeIn(s)
          BY <3>2, <4>2, ReadsSettle, Zenon
        <4> QED BY <2>1, <3>1, <3>3, <4>1, <4>3, SettleStep, Zenon
      <3>4. CASE hit' # "none"
        <4>1. UNCHANGED <<pc, row, where, by>>
          BY <2>7, <3>4, Zenon DEF ReadMatch
        <4>2. MayHit(Sets[s].match)
          BY <2>0, <3>1, <3>2, <3>4, LocateSays, Zenon
        <4>3. /\ VerdictExplained'
              /\ where' = "white" => by' \in PassRows("allow")'
              /\ where' = "black" => by' \in PassRows("deny")'
          BY <2>1, <4>1, VerdictStays, Zenon
        <4>4. UpToRow("allow")' = UpToRow("allow") /\ UpToRow("deny")' = UpToRow("deny")
          BY <2>2, <4>1, Zenon DEF UpToRow
        <4>5. UNCHANGED <<prof, world, seen>>
          BY <2>7, Zenon DEF ReadMatch, inputs
        <4>6. \A S : NoneMust(S)' <=> NoneMust(S)
          BY <4>5, Zenon DEF NoneMust, MustBeIn, MayHit, MustHit, Fixed
        <4>7. ASSUME NEW i \in DOMAIN prof'.rules, IsNext(i, PassRows(pc))'
              PROVE  MayHit(Sets[prof.rules[i].set].match)'
          <5>1. i \in DOMAIN prof.rules /\ IsNext(i, PassRows(pc))
            BY <4>1, <4>5, <4>7, Zenon DEF IsNext, Left, PassRows, Terminal
          <5>2. i = j
            <6>1. i <= j /\ j <= i /\ i \in PassRows(pc) /\ j \in PassRows(pc)
              BY <3>1, <5>1, Zenon DEF IsNext, Left
            <6>2. i \in Nat /\ j \in Nat
              BY <2>0, <3>1, <6>1, TerminalRows, Zenon
            <6> QED BY ONLY <6>1, <6>2
          <5> QED BY <4>2, <4>5, <5>2, Zenon DEF MayHit, Fixed
        <4>8. /\ pc' \in {"evaluate", "allow", "deny"} => where' = "error"
              /\ pc' # "evaluate"
              /\ pc' = "allow" => NoneMust(UpToRow("allow"))'
              /\ pc' = "deny" => NoneMust(PassRows("allow"))' /\ NoneMust(UpToRow("deny"))'
          BY <2>2, <3>1, <4>1, <4>4, <4>6, Zenon DEF Searched
        <4> QED BY <4>3, <4>7, <4>8, Zenon DEF Searched
      <3> QED BY <3>3, <3>4
    <2>8. ASSUME NEW j \in DOMAIN prof.rules, ReadExclude(j) PROVE Searched' /\ VerdictExplained'
      <3> DEFINE s == prof.rules[j].set
                 in == Locate(Sets[s].exclude) = "none"
      <3>1. /\ pc \in {"allow", "deny"} /\ hit # "none" /\ IsNext(j, PassRows(pc))
            /\ Settle(j, in, hit) /\ hit' = "none"
        BY <2>8, Zenon DEF ReadExclude
      <3>2. s \in DOMAIN Sets /\ Sets[s].match \in Blocks /\ Sets[s].exclude \in Blocks
        BY <3>1, NextRow, SetType, Zenon
      <3>3. MayHit(Sets[s].match)
        BY <3>1, Zenon DEF Searched
      <3>4. /\ in => ~MustHit(Sets[s].exclude)
            /\ ~in => MayHit(Sets[s].exclude)
        BY <2>0, <3>2, LocateSays, Zenon
      <3>5. in \in BOOLEAN
        BY Zenon
      <3> HIDE DEF in
      <3>6. /\ in # Sets[s].inverse => MayBeIn(s)
            /\ in = Sets[s].inverse => ~MustBeIn(s)
        BY <3>2, <3>3, <3>4, <3>5, ReadsSettle, Zenon
      <3> QED BY <2>1, <3>1, <3>5, <3>6, SettleStep, Zenon
    <2> QED BY <1>2, <2>3, <2>4, <2>5, <2>6, <2>7, <2>8, Zenon DEF Next, Aside
  <1> QED BY <1>1, <1>2

(* The verdict is the documented one for every profile, whatever the live  *)
(* sets do while Check reads them: exceptions first, then the first deny   *)
(* row, then the default (Check, Set.Explain, Match.locate).               *)
THEOREM VerdictIsExplained == Spec => []VerdictExplained
  <1>1. VerdictInv => VerdictExplained
    BY Zenon DEF VerdictInv
  <1> QED BY VerdictInit, VerdictStep, <1>1, PTL DEF Spec

-----------------------------------------------------------------------------
(* What is collected.                                                      *)

(* Membership in a set of marks with one source. *)
LEMMA TaggedIs ==
  ASSUME NEW src, NEW S
  PROVE  \A t, k : <<t, k>> \in Tagged(src, S) <=> t = src /\ k \in S
  BY DEF Tagged

(* What is collected is what stands in the request and the ban lists. *)
LEMMA CollectedIs == Collected = Rng(actions) \cup Rng(bans)
  BY Zenon DEF Collected, Rng

(* Appending marks of a source that a list does not have yet adds exactly those. *)
LEMMA JoinTagged ==
  ASSUME NEW src, NEW s \in Seq(Marked), NEW t \in Seq(Marked), NEW S, Distinct(s), Distinct(t),
         Rng(t) = Tagged(src, S), \A k : <<src, k>> \notin Rng(s)
  PROVE  Rng(s \o t) = Rng(s) \cup Tagged(src, S) /\ Distinct(s \o t)
  <1>1. \A e \in Tagged(src, S) : e \notin Rng(s)
    BY ONLY \A k : <<src, k>> \notin Rng(s) DEF Tagged
  <1>2. Rng(s) \cap Rng(t) = {}
    BY ONLY <1>1, Rng(t) = Tagged(src, S), Zenon
  <1> QED
    BY ONLY <1>2, ConcatRange, s \in Seq(Marked), t \in Seq(Marked), Distinct(s), Distinct(t),
       Rng(t) = Tagged(src, S)

(* What a dataset has been seen to say is never forgotten. *)
LEMMA SaidGrows ==
  ASSUME Grows
  PROVE  \A d : Said(d) \subseteq Said(d)'
  BY Zenon DEF Grows, Said

(* A row of the side pass is a request or a list rule over a known dataset. *)
LEMMA SideRows ==
  ASSUME TypeOK, NEW j \in PassRows("side")
  PROVE  /\ j \in DOMAIN prof.rules /\ j \in Nat /\ j > 0
         /\ prof.rules[j].action \in {"request", "list"} /\ prof.rules[j].not \in BOOLEAN
         /\ prof.rules[j].dataset \in Statics \cup Lives
  <1>1. j \in DOMAIN prof.rules /\ ~(prof.rules[j].action \in {"allow", "deny"})
    BY Zenon DEF PassRows, Terminal
  <1>2. j \in Nat /\ j > 0
    <2>1. prof.rules \in Seq(Rules)
      BY ProfileType
    <2> QED BY ONLY <1>1, <2>1
  <1>3. prof.rules[j] \in Rules
    BY <1>1, ProfileType
  <1> QED BY <1>1, <1>2, <1>3, Zenon DEF Rules

(* The absent error code is none of the codes a reply can carry. *)
LEMMA NoCodeIs == NoCode # "IP_QUEUE_LIMIT" /\ NoCode # "IP_DEADLINE_EXCEEDED"
                  /\ NoCode # "IP_GEO_UNAVAILABLE"
  BY Zenon DEF NoCode

(* The overload rows a shed or late request collects are exactly the applicable ones, once
   each. *)
LEMMA OverloadsTake ==
  ASSUME TypeOK, NEW shed \in BOOLEAN
  PROVE  \E SA, SB \in SUBSET DOMAIN prof.outcomes :
           /\ Rng(OverloadAsks(shed)) = Tagged("overload", SA) /\ Distinct(OverloadAsks(shed))
           /\ Rng(OverloadBans(shed)) = Tagged("overload", SB) /\ Distinct(OverloadBans(shed))
           /\ \A j \in SA : prof.outcomes[j].do = "ask"
           /\ \A j \in SB : prof.outcomes[j].do = "list"
           /\ \A j : j \in SA \cup SB <=>
                /\ j \in Overloaded(shed) /\ req.known
                /\ prof.outcomes[j].do = "list" => req.valid
  <1> DEFINE O == Overloaded(shed)
             SA == {j \in O : req.known /\ prof.outcomes[j].do = "ask"}
             SB == {j \in O : req.known /\ req.valid /\ prof.outcomes[j].do = "list"}
  <1>1. O \in SUBSET DOMAIN prof.outcomes
    BY Zenon DEF Overloaded
  <1>2. \A j \in O : prof.outcomes[j].do \in {"ask", "list"}
    BY <1>1, ProfileType, Zenon DEF Outcomes
  <1>3. /\ Rng(Asks(O, "overload")) = Tagged("overload", {j \in O : prof.outcomes[j].do = "ask"})
        /\ Distinct(Asks(O, "overload"))
        /\ Rng(Writes(O, "overload")) = Tagged("overload", {j \in O : prof.outcomes[j].do = "list"})
        /\ Distinct(Writes(O, "overload"))
    BY <1>1, ProfileType, AsksAndWrites, Zenon
  <1>4. Rng(<<>>) = {} /\ Distinct(<<>>) /\ Tagged("overload", {}) = {}
    BY DEF Rng, Distinct, Tagged
  <1>5. Rng(OverloadAsks(shed)) = Tagged("overload", SA) /\ Distinct(OverloadAsks(shed))
    <2>1. CASE req.known
      <3>1. SA = {j \in O : prof.outcomes[j].do = "ask"}
        BY <2>1, Zenon
      <3> QED BY <2>1, <3>1, <1>3, Zenon DEF OverloadAsks
    <2>2. CASE ~req.known
      <3>1. SA = {}
        BY <2>2, Zenon
      <3> QED BY <2>2, <3>1, <1>4, Zenon DEF OverloadAsks
    <2> QED BY <2>1, <2>2
  <1>6. Rng(OverloadBans(shed)) = Tagged("overload", SB) /\ Distinct(OverloadBans(shed))
    <2>1. CASE req.known /\ req.valid
      <3>1. SB = {j \in O : prof.outcomes[j].do = "list"}
        BY <2>1, Zenon
      <3> QED BY <2>1, <3>1, <1>3, Zenon DEF OverloadBans
    <2>2. CASE ~(req.known /\ req.valid)
      <3>1. SB = {}
        BY <2>2, Zenon
      <3> QED BY <2>2, <3>1, <1>4, Zenon DEF OverloadBans
    <2> QED BY <2>1, <2>2
  <1>7. \A j : j \in SA \cup SB <=> /\ j \in O /\ req.known
                                    /\ prof.outcomes[j].do = "list" => req.valid
    BY <1>2, Zenon
  <1>8. SA \in SUBSET DOMAIN prof.outcomes /\ SB \in SUBSET DOMAIN prof.outcomes
    BY <1>1, Zenon
  <1>9. (\A j \in SA : prof.outcomes[j].do = "ask") /\ (\A j \in SB : prof.outcomes[j].do = "list")
    BY Zenon
  <1> HIDE DEF SA, SB
  <1> QED BY <1>5, <1>6, <1>7, <1>8, <1>9, Zenon

(* The invariant behind the collected actions holds initially. *)
LEMMA CollectInit == Init => CollectInv
  <1> SUFFICES ASSUME Init PROVE CollectInv
    OBVIOUS
  <1>1. TypeOK
    BY TypeInit
  <1>2. SeenNow
    BY Zenon DEF Init, SeenNow
  <1>3. /\ pc = "evaluate" /\ where = "error" /\ err = NoCode /\ actions = <<>> /\ bans = <<>>
    BY Zenon DEF Init
  <1>4. Rng(actions) = {} /\ Rng(bans) = {} /\ Distinct(actions) /\ Distinct(bans)
    BY <1>3 DEF Rng, Distinct
  <1>5. Collected = {}
    BY <1>4, CollectedIs, Zenon
  <1> QED BY <1>1, <1>2, <1>3, <1>4, <1>5, Zenon DEF CollectInv, Stage, RowsCollected, OutcomesCollected,
        OverloadsCollected, Apart, OutcomeDue

(* Steps that collect nothing.                                             *)
LEMMA CollectKeeps ==
  ASSUME CollectInv, Grows, UNCHANGED <<req, where, actions, bans>>,
         pc' = pc \/ (pc \in {"evaluate", "allow", "deny"} /\ pc' \in {"allow", "deny"})
           \/ (pc = "write" /\ pc' = "done"),
         pc' = "side" => row' = row
  PROVE  RowsCollected' /\ OutcomesCollected' /\ OverloadsCollected' /\ Apart'
  <1>1. prof' = prof /\ Collected' = Collected /\ PassRows("side")' = PassRows("side")
    BY Zenon DEF Grows, Collected, PassRows, Terminal
  <1>2. \A j : SideFired(j) => SideFired(j)'
    BY <1>1, SaidGrows, Zenon DEF SideFired
  <1>3. RowsCollected'
    BY <1>1, <1>2, SaidGrows, Zenon DEF CollectInv, RowsCollected
  <1>4. \A j : OutcomeDue(j)' <=> OutcomeDue(j)
    BY <1>1, Zenon DEF OutcomeDue
  <1>5. \A j : OverloadDue(j)' <=> OverloadDue(j)
    BY <1>1, Zenon DEF OverloadDue
  <1>6. OutcomesCollected' /\ OverloadsCollected'
    BY <1>1, <1>4, <1>5, Zenon DEF CollectInv, OutcomesCollected, OverloadsCollected
  <1>7. Apart'
    BY <1>1, Zenon DEF CollectInv, Apart, Rng, Distinct, IsAsk, IsBan
  <1> QED BY <1>3, <1>6, <1>7

(* Steps that append the rows SA and SB of src to the asks and the writes. *)
LEMMA CollectAppends ==
  ASSUME CollectInv, Grows, UNCHANGED <<req, where>>, NEW src \in {"outcome", "overload"},
         NEW A \in Seq(Marked), NEW B \in Seq(Marked),
         NEW SA \in SUBSET DOMAIN prof.outcomes, NEW SB \in SUBSET DOMAIN prof.outcomes,
         Distinct(A), Distinct(B), Rng(A) = Tagged(src, SA), Rng(B) = Tagged(src, SB),
         actions' = actions \o A, bans' = bans \o B,
         \A j \in SA : prof.outcomes[j].do = "ask", \A j \in SB : prof.outcomes[j].do = "list",
         \A k : <<src, k>> \notin Collected
  PROVE  /\ Apart'
         /\ \A t, k : <<t, k>> \in Collected' <=>
                        (<<t, k>> \in Collected \/ (t = src /\ k \in SA \cup SB))
  <1>1. actions \in Seq(Marked) /\ bans \in Seq(Marked) /\ Distinct(actions) /\ Distinct(bans)
    BY Zenon DEF CollectInv, TypeOK, Apart
  <1>2. /\ Collected' = Collected \cup Tagged(src, SA \cup SB)
        /\ Distinct(actions)' /\ Distinct(bans)'
        /\ Rng(actions)' = Rng(actions) \cup Tagged(src, SA)
        /\ Rng(bans)' = Rng(bans) \cup Tagged(src, SB)
    <2>1. \A k : <<src, k>> \notin Rng(actions) /\ <<src, k>> \notin Rng(bans)
      BY CollectedIs, Zenon
    <2>2. Rng(actions \o A) = Rng(actions) \cup Tagged(src, SA) /\ Distinct(actions \o A)
      BY ONLY <1>1, <2>1, JoinTagged, A \in Seq(Marked), Distinct(A), Rng(A) = Tagged(src, SA), Zenon
    <2>3. Rng(bans \o B) = Rng(bans) \cup Tagged(src, SB) /\ Distinct(bans \o B)
      BY ONLY <1>1, <2>1, JoinTagged, B \in Seq(Marked), Distinct(B), Rng(B) = Tagged(src, SB), Zenon
    <2>4. Rng(actions)' = Rng(actions \o A) /\ (Distinct(actions)' <=> Distinct(actions \o A))
      BY ONLY actions' = actions \o A, Zenon DEF Rng, Distinct
    <2>5. Rng(bans)' = Rng(bans \o B) /\ (Distinct(bans)' <=> Distinct(bans \o B))
      BY ONLY bans' = bans \o B, Zenon DEF Rng, Distinct
    <2>6. Collected' = Rng(actions)' \cup Rng(bans)'
      BY Zenon DEF Collected, Rng
    <2>7. Tagged(src, SA) \cup Tagged(src, SB) = Tagged(src, SA \cup SB)
      BY Zenon DEF Tagged
    <2> QED BY <2>2, <2>3, <2>4, <2>5, <2>6, <2>7, CollectedIs, Zenon
  <1>3. \A t, k : <<t, k>> \in Tagged(src, SA \cup SB) <=> t = src /\ k \in SA \cup SB
    BY ONLY TaggedIs
  <1>4. prof' = prof
    BY Zenon DEF Grows
  <1>5. \A e \in Tagged(src, SA) : IsAsk(e)
    <2> SUFFICES ASSUME NEW k \in SA PROVE IsAsk(<<src, k>>)
      BY Zenon DEF Tagged
    <2>1. <<src, k>>[1] = src /\ <<src, k>>[2] = k /\ src # "row"
      OBVIOUS
    <2> QED BY <2>1, Zenon DEF IsAsk
  <1>6. \A e \in Tagged(src, SB) : IsBan(e)
    <2> SUFFICES ASSUME NEW k \in SB PROVE IsBan(<<src, k>>)
      BY Zenon DEF Tagged
    <2>1. <<src, k>>[1] = src /\ <<src, k>>[2] = k /\ src # "row"
      OBVIOUS
    <2> QED BY <2>1, Zenon DEF IsBan
  <1>7. \A e : (IsAsk(e)' <=> IsAsk(e)) /\ (IsBan(e)' <=> IsBan(e))
    BY <1>4, Zenon DEF IsAsk, IsBan
  <1>8. (\A e \in Rng(actions) : IsAsk(e)) /\ (\A e \in Rng(bans) : IsBan(e))
    BY Zenon DEF CollectInv, Apart
  <1>9. (\A e \in Rng(actions)' : IsAsk(e)') /\ (\A e \in Rng(bans)' : IsBan(e)')
    BY <1>2, <1>5, <1>6, <1>7, <1>8, Zenon
  <1> QED BY <1>2, <1>3, <1>9, Zenon DEF Apart

(* What a dataset holds now is among the answers it has been seen to give. *)
LEMMA HoldsIsSaid ==
  ASSUME SeenNow, NEW d
  PROVE  (Holds(d) = TRUE /\ TRUE \in Said(d)) \/ (Holds(d) = FALSE /\ FALSE \in Said(d))
  <1>1. CASE d \in Lives
    <2>1. Holds(d) = LiveContains(d) /\ Said(d) = seen[d]
      BY <1>1, Zenon DEF Holds, Said
    <2>2. CASE LiveContains(d)
      <3>1. TRUE \in seen[d]
        BY <1>1, <2>2, Zenon DEF SeenNow, LiveContains
      <3>2. LiveContains(d) = TRUE
        BY <2>2, Zenon DEF LiveContains
      <3> QED BY <2>1, <3>1, <3>2, Zenon
    <2>3. CASE ~LiveContains(d)
      <3>1. FALSE \in seen[d]
        BY <1>1, <2>3, Zenon DEF SeenNow, LiveContains
      <3>2. LiveContains(d) = FALSE
        BY <2>3, Zenon DEF LiveContains
      <3> QED BY <2>1, <3>1, <3>2, Zenon
    <2> QED BY <2>2, <2>3
  <1>2. CASE d \notin Lives
    <2>1. Holds(d) = (d \in world.member)
      BY ONLY <1>2 DEF Holds
    <2>2. Said(d) = {b \in BOOLEAN : b <=> d \in world.member}
      BY <1>2, Zenon DEF Said
    <2>3. CASE d \in world.member
      <3>1. (d \in world.member) = TRUE
        BY <2>3
      <3> QED BY <2>1, <2>2, <2>3, <3>1, Zenon
    <2>4. CASE d \notin world.member
      <3>1. (d \in world.member) = FALSE
        BY <2>4
      <3> QED BY <2>1, <2>2, <2>4, <3>1, Zenon
    <2> QED BY <2>3, <2>4
  <1> QED BY <1>1, <1>2

(* Evaluating a side row keeps the invariant of the collected actions. *)
LEMMA SideRowStep ==
  ASSUME CollectInv, TypeOK', Grows, NEW j \in DOMAIN prof.rules, SideRow(j)
  PROVE  RowsCollected' /\ OutcomesCollected' /\ OverloadsCollected' /\ Apart'
  <1> DEFINE e == <<"row", j>>
             rule == prof.rules[j]
  <1>0. TypeOK /\ SeenNow
    BY Zenon DEF CollectInv
  <1>1. /\ pc = "side" /\ pc' = "side" /\ row' = j /\ UNCHANGED <<req, where, live, seen, world>>
        /\ prof' = prof
        /\ j \in PassRows("side") /\ j > row /\ \A k \in PassRows("side") : k > row => j <= k
    BY Zenon DEF SideRow, inputs, IsNext, Left
  <1>2. /\ actions' = IF RowFires(rule) /\ rule.action = "request" THEN Append(actions, e)
                      ELSE actions
        /\ bans' = IF RowFires(rule) /\ rule.action = "list" THEN Append(bans, e) ELSE bans
    BY Zenon DEF SideRow
  <1>3. /\ j \in Nat /\ rule.action \in {"request", "list"} /\ rule.not \in BOOLEAN
        /\ \A k \in PassRows("side") : k \in Nat
    BY <1>0, <1>1, SideRows, Zenon
  <1>4. row \in Nat /\ actions \in Seq(Marked) /\ bans \in Seq(Marked) /\ where # "error"
    BY <1>0, <1>1, Zenon DEF TypeOK, CollectInv, Stage
  <1>5. \A k \in PassRows("side") : (k <= j <=> k <= row \/ k = j) /\ (k <= row => k # j)
    BY ONLY <1>1, <1>3, <1>4
  <1>6. \A k \in Nat : <<"row", k>> \in Collected => k \in PassRows("side") /\ k <= row
    BY <1>1, Zenon DEF CollectInv, RowsCollected, SideFired
  <1>7. e \notin Collected
    BY <1>3, <1>5, <1>6, Zenon
  <1>8. (RowFires(rule) => (~rule.not) \in Said(rule.dataset))
        /\ (~RowFires(rule) => rule.not \in Said(rule.dataset))
    <2>1. RowFires(rule) <=> Holds(rule.dataset) # rule.not
      BY Zenon DEF RowFires
    <2>2. CASE Holds(rule.dataset) = TRUE /\ TRUE \in Said(rule.dataset)
      BY <1>3, <2>1, <2>2, Zenon
    <2>3. CASE Holds(rule.dataset) = FALSE /\ FALSE \in Said(rule.dataset)
      BY <1>3, <2>1, <2>3, Zenon
    <2> QED BY <1>0, <2>2, <2>3, HoldsIsSaid, Zenon
  <1>9. e \in Marked /\ e[1] = "row" /\ e[2] = j
    BY <1>3 DEF Marked
  <1> HIDE DEF e
  <1>10. e \notin Rng(actions) /\ e \notin Rng(bans)
    BY <1>7, CollectedIs, Zenon
  <1>11. /\ Rng(actions)' = Rng(actions) \cup (IF RowFires(rule) /\ rule.action = "request" THEN {e} ELSE {})
         /\ Distinct(actions)'
    <2>1. Rng(Append(actions, e)) = Rng(actions) \cup {e} /\ Distinct(Append(actions, e))
      <3>1. Distinct(actions)
        BY Zenon DEF CollectInv, Apart
      <3> QED BY ONLY <1>4, <1>9, <1>10, <3>1, AppendRange
    <2>2. Distinct(actions) /\ \A s : actions' = s => Rng(actions)' = Rng(s) /\ (Distinct(actions)' <=> Distinct(s))
      BY Zenon DEF CollectInv, Apart, Rng, Distinct
    <2>3. CASE RowFires(rule) /\ rule.action = "request"
      BY <1>2, <2>1, <2>2, <2>3, Zenon
    <2>4. CASE ~(RowFires(rule) /\ rule.action = "request")
      BY <1>2, <2>2, <2>4, Zenon
    <2> QED BY <2>3, <2>4
  <1>12. /\ Rng(bans)' = Rng(bans) \cup (IF RowFires(rule) /\ rule.action = "list" THEN {e} ELSE {})
         /\ Distinct(bans)'
    <2>1. Rng(Append(bans, e)) = Rng(bans) \cup {e} /\ Distinct(Append(bans, e))
      <3>1. Distinct(bans)
        BY Zenon DEF CollectInv, Apart
      <3> QED BY ONLY <1>4, <1>9, <1>10, <3>1, AppendRange
    <2>2. Distinct(bans) /\ \A s : bans' = s => Rng(bans)' = Rng(s) /\ (Distinct(bans)' <=> Distinct(s))
      BY Zenon DEF CollectInv, Apart, Rng, Distinct
    <2>3. CASE RowFires(rule) /\ rule.action = "list"
      BY <1>2, <2>1, <2>2, <2>3, Zenon
    <2>4. CASE ~(RowFires(rule) /\ rule.action = "list")
      BY <1>2, <2>2, <2>4, Zenon
    <2> QED BY <2>3, <2>4
  <1>13. Collected' = Collected \cup (IF RowFires(rule) THEN {e} ELSE {})
    <2>1. Collected' = Rng(actions)' \cup Rng(bans)'
      BY Zenon DEF Collected, Rng
    <2> QED BY <1>3, <1>11, <1>12, <2>1, CollectedIs, Zenon
  <1>14. /\ \A k : <<"row", k>> \in Collected' <=> (<<"row", k>> \in Collected \/ (RowFires(rule) /\ k = j))
         /\ \A k : <<"outcome", k>> \in Collected' <=> <<"outcome", k>> \in Collected
         /\ \A k : <<"overload", k>> \in Collected' <=> <<"overload", k>> \in Collected
    <2>1. \A k : /\ <<"row", k>> = <<"row", j>> <=> k = j
                 /\ <<"outcome", k>> # <<"row", j>> /\ <<"overload", k>> # <<"row", j>>
      OBVIOUS
    <2> QED BY <1>13, <2>1, Zenon DEF e
  <1>15. /\ PassRows("side")' = PassRows("side") /\ \A d : Said(d)' = Said(d)
    BY <1>1, Zenon DEF PassRows, Terminal, Said
  <1>16. RowsCollected'
    <2>1. ASSUME NEW k \in Nat, <<"row", k>> \in Collected' PROVE SideFired(k)'
      <3>1. CASE k = j /\ RowFires(rule)
        <4>1. j <= j
          BY ONLY <1>3
        <4> QED BY <1>1, <1>4, <1>8, <1>15, <3>1, <4>1, Zenon DEF SideFired
      <3>2. CASE <<"row", k>> \in Collected
        <4>1. SideFired(k)
          BY <3>2, Zenon DEF CollectInv, RowsCollected
        <4>2. k <= j
          BY <1>1, <1>5, <4>1, Zenon DEF SideFired
        <4> QED BY <1>1, <1>15, <4>1, <4>2, Zenon DEF SideFired
      <3> QED BY <1>14, <2>1, <3>1, <3>2, Zenon
    <2>2. ASSUME NEW k \in PassRows("side"), k <= j, <<"row", k>> \notin Collected'
          PROVE  prof.rules[k].not \in Said(prof.rules[k].dataset)
      <3>1. <<"row", k>> \notin Collected /\ ~(RowFires(rule) /\ k = j)
        BY <1>14, <2>2, Zenon
      <3>2. CASE k = j
        BY <1>8, <3>1, <3>2, Zenon
      <3>3. CASE k <= row
        BY <1>1, <1>4, <3>1, <3>3, Zenon DEF CollectInv, RowsCollected
      <3> QED BY <1>5, <2>2, <3>2, <3>3, Zenon
    <2> QED BY <1>1, <1>15, <2>1, <2>2, Zenon DEF RowsCollected
  <1>17. OutcomesCollected' /\ OverloadsCollected'
    <2>1. (\A k : OutcomeDue(k)' <=> OutcomeDue(k)) /\ (\A k : OverloadDue(k)' <=> OverloadDue(k))
      BY <1>1, Zenon DEF OutcomeDue, OverloadDue
    <2> QED BY <1>1, <1>14, <2>1, Zenon DEF CollectInv, OutcomesCollected, OverloadsCollected
  <1>18. Apart'
    <2>1. \A x : (IsAsk(x)' <=> IsAsk(x)) /\ (IsBan(x)' <=> IsBan(x))
      BY <1>1, Zenon DEF IsAsk, IsBan
    <2>2. (rule.action = "request" => IsAsk(e)) /\ (rule.action = "list" => IsBan(e))
      BY <1>9, Zenon DEF IsAsk, IsBan
    <2>3. (\A x \in Rng(actions) : IsAsk(x)) /\ (\A x \in Rng(bans) : IsBan(x))
      BY Zenon DEF CollectInv, Apart
    <2>4. (\A x \in Rng(actions)' : IsAsk(x)') /\ (\A x \in Rng(bans)' : IsBan(x)')
      BY <1>11, <1>12, <2>1, <2>2, <2>3, Zenon
    <2> QED BY <1>11, <1>12, <2>4, Zenon DEF Apart
  <1> QED BY <1>16, <1>17, <1>18

(* A step that collects no side row, after the side pass, keeps the account of those rows. *)
LEMMA RowsStay ==
  ASSUME CollectInv, Grows, UNCHANGED where, pc' # "side",
         pc = "side" => \A j \in PassRows("side") : j <= row,
         \A j : <<"row", j>> \in Collected' <=> <<"row", j>> \in Collected
  PROVE  RowsCollected'
  <1>1. prof' = prof /\ PassRows("side")' = PassRows("side")
    BY Zenon DEF Grows, PassRows, Terminal
  <1>2. ASSUME NEW j \in Nat, <<"row", j>> \in Collected' PROVE SideFired(j)'
    <2>1. SideFired(j)
      BY <1>2, Zenon DEF CollectInv, RowsCollected
    <2> QED BY <1>1, <2>1, SaidGrows, Zenon DEF SideFired
  <1>3. ASSUME where' # "error", NEW j \in PassRows("side"), <<"row", j>> \notin Collected'
        PROVE  prof.rules[j].not \in Said(prof.rules[j].dataset)'
    <2>1. prof.rules[j].not \in Said(prof.rules[j].dataset)
      BY <1>3, Zenon DEF CollectInv, RowsCollected
    <2> QED BY <1>1, <2>1, SaidGrows, Zenon
  <1> QED BY <1>1, <1>2, <1>3, Zenon DEF RowsCollected

(* Collecting the outcome rows keeps the invariant of the collected actions. *)
LEMMA OutcomeRowsStep ==
  ASSUME CollectInv, Grows, OutcomeRows
  PROVE  RowsCollected' /\ OutcomesCollected' /\ OverloadsCollected' /\ Apart'
  <1> DEFINE S == {j \in DOMAIN prof.outcomes : Matches(prof.outcomes[j])}
             A == Asks(S, "outcome")
             B == Writes(S, "outcome")
             SA == {j \in S : prof.outcomes[j].do = "ask"}
             SB == {j \in S : prof.outcomes[j].do = "list"}
  <1>0. TypeOK
    BY Zenon DEF CollectInv
  <1>1. /\ pc = "side" /\ Left(PassRows("side")) = {} /\ pc' = "overload"
        /\ actions' = actions \o A /\ bans' = bans \o B
        /\ UNCHANGED <<req, where, prof>>
    BY Zenon DEF OutcomeRows, inputs
  <1>2. S \in SUBSET DOMAIN prof.outcomes /\ \A j : j \in S <=> (j \in DOMAIN prof.outcomes /\ prof.outcomes[j].on = where)
    BY Zenon DEF Matches
  <1>3. SA \cup SB = S
    <2>1. \A j \in S : prof.outcomes[j].do \in {"ask", "list"}
      BY <1>0, <1>2, ProfileType, Zenon DEF Outcomes
    <2> QED BY <2>1, Zenon
  <1>4. SA \in SUBSET DOMAIN prof.outcomes /\ SB \in SUBSET DOMAIN prof.outcomes
    BY <1>2, Zenon
  <1>5. (\A j \in SA : prof.outcomes[j].do = "ask") /\ (\A j \in SB : prof.outcomes[j].do = "list")
    BY Zenon
  <1> HIDE DEF S
  <1>6. /\ A \in Seq(Marked) /\ Distinct(A) /\ Rng(A) = Tagged("outcome", SA)
        /\ B \in Seq(Marked) /\ Distinct(B) /\ Rng(B) = Tagged("outcome", SB)
    BY <1>0, <1>2, ProfileType, AsksAndWrites, Zenon
  <1> HIDE DEF A, B, SA, SB
  <1>7. \A k : <<"outcome", k>> \notin Collected
    <2> SUFFICES ASSUME NEW k, <<"outcome", k>> \in Collected PROVE FALSE
      BY Zenon
    <2>1. <<"outcome", k>> \in Marked
      <3>1. actions \in Seq(Marked) /\ bans \in Seq(Marked)
        BY <1>0, Zenon DEF TypeOK
      <3>2. \A n \in DOMAIN actions : actions[n] \in Marked
        BY ONLY <3>1
      <3>3. \A n \in DOMAIN bans : bans[n] \in Marked
        BY ONLY <3>1
      <3> QED BY <3>2, <3>3, Zenon DEF Collected
    <2>2. k \in Nat
      BY <2>1 DEF Marked
    <2> QED BY <1>1, <2>2, Zenon DEF CollectInv, OutcomesCollected, OutcomeDue
  <1>8. /\ Apart'
        /\ \A t, k : <<t, k>> \in Collected' <=>
                       (<<t, k>> \in Collected \/ (t = "outcome" /\ k \in SA \cup SB))
    <2>1. PICK a, b, sa, sb : a = A /\ b = B /\ sa = SA /\ sb = SB
      BY Zenon
    <2> QED BY <1>1, <1>4, <1>5, <1>6, <1>7, <2>1, CollectAppends, ZenonT(30)
  <1>9. \A j \in PassRows("side") : j <= row
    <2>1. \A j \in PassRows("side") : j \in Nat /\ ~(j > row)
      BY <1>0, <1>1, SideRows, Zenon DEF Left
    <2>2. row \in Nat
      BY <1>0, Zenon DEF TypeOK
    <2> QED BY ONLY <2>1, <2>2
  <1>a. /\ \A k : <<"row", k>> \in Collected' <=> <<"row", k>> \in Collected
        /\ \A k : <<"overload", k>> \in Collected' <=> <<"overload", k>> \in Collected
    BY ONLY <1>8
  <1>10. RowsCollected'
    BY <1>1, <1>a, <1>9, RowsStay, Zenon
  <1>11. OutcomesCollected'
    BY <1>1, <1>2, <1>3, <1>7, <1>8, Zenon DEF OutcomesCollected, OutcomeDue
  <1>12. OverloadsCollected'
    BY <1>1, <1>a, Zenon DEF CollectInv, OverloadsCollected
  <1> QED BY <1>8, <1>10, <1>11, <1>12

(* The index in a collected mark is a number. *)
LEMMA MarksAreMarked ==
  ASSUME TypeOK, NEW t, NEW k, <<t, k>> \in Collected
  PROVE  k \in Nat
  <1>1. actions \in Seq(Marked) /\ bans \in Seq(Marked)
    BY Zenon DEF TypeOK
  <1>2. \A n \in DOMAIN actions : actions[n] \in Marked
    BY ONLY <1>1
  <1>3. \A n \in DOMAIN bans : bans[n] \in Marked
    BY ONLY <1>1
  <1>4. <<t, k>> \in Marked
    BY <1>2, <1>3, Zenon DEF Collected
  <1> QED BY ONLY <1>4 DEF Marked

(* FireOverload, after Check and for a request that was shed.              *)
LEMMA OverloadStep ==
  ASSUME CollectInv, Grows, UNCHANGED <<req, where>>, NEW shed \in BOOLEAN, pc' = "write",
         \A k : <<"overload", k>> \notin Collected,
         pc = "evaluate" \/ pc = "overload",
         actions' = actions \o OverloadAsks(shed), bans' = bans \o OverloadBans(shed),
         \A j : OverloadDue(j) <=> /\ j \in Overloaded(shed) /\ req.known
                                   /\ prof.outcomes[j].do = "list" => req.valid
  PROVE  RowsCollected' /\ OutcomesCollected' /\ OverloadsCollected' /\ Apart'
  <1>0. TypeOK
    BY Zenon DEF CollectInv
  <1>1. PICK SA \in SUBSET DOMAIN prof.outcomes, SB \in SUBSET DOMAIN prof.outcomes :
           /\ Rng(OverloadAsks(shed)) = Tagged("overload", SA) /\ Distinct(OverloadAsks(shed))
           /\ Rng(OverloadBans(shed)) = Tagged("overload", SB) /\ Distinct(OverloadBans(shed))
           /\ \A j \in SA : prof.outcomes[j].do = "ask"
           /\ \A j \in SB : prof.outcomes[j].do = "list"
           /\ \A j : j \in SA \cup SB <=>
                /\ j \in Overloaded(shed) /\ req.known
                /\ prof.outcomes[j].do = "list" => req.valid
    BY <1>0, OverloadsTake, Zenon
  <1>2. PICK A \in Seq(Marked), B \in Seq(Marked) : A = OverloadAsks(shed) /\ B = OverloadBans(shed)
    BY <1>0, OverloadTypes, Zenon
  <1>3. /\ Apart'
        /\ \A t, k : <<t, k>> \in Collected' <=>
                       (<<t, k>> \in Collected \/ (t = "overload" /\ k \in SA \cup SB))
    BY <1>1, <1>2, CollectAppends, Zenon
  <1>4. /\ \A k : <<"row", k>> \in Collected' <=> <<"row", k>> \in Collected
        /\ \A k : <<"outcome", k>> \in Collected' <=> <<"outcome", k>> \in Collected
        /\ \A k : <<"overload", k>> \in Collected' <=> k \in SA \cup SB
    <2>1. \A k : <<"overload", k>> \notin Collected
      OBVIOUS
    <2> QED BY ONLY <1>3, <2>1
  <1>5. RowsCollected'
    BY <1>4, RowsStay, Zenon
  <1>6. prof' = prof /\ req' = req /\ where' = where
    BY Zenon DEF Grows
  <1>7. OutcomesCollected'
    <2>1. \A j \in Nat : OutcomeDue(j)' <=> OutcomeDue(j)
      <3>1. CASE pc = "overload"
        BY <1>6, <3>1, Zenon DEF OutcomeDue
      <3>2. CASE pc = "evaluate"
        <4>1. where = "error"
          BY <3>2, Zenon DEF CollectInv, Stage
        <4>2. \A j \in DOMAIN prof.outcomes : prof.outcomes[j].on # "error"
          BY <1>0, ProfileType, Zenon DEF Outcomes
        <4> QED BY <1>6, <4>1, <4>2, Zenon DEF OutcomeDue
      <3> QED BY <3>1, <3>2
    <2> QED BY <1>4, <2>1, Zenon DEF CollectInv, OutcomesCollected
  <1>8. OverloadsCollected'
    <2>1. \A j : OverloadDue(j)' <=> OverloadDue(j)
      BY <1>6, Zenon DEF OverloadDue
    <2> QED BY <1>1, <1>4, <2>1, Zenon DEF OverloadsCollected
  <1> QED BY <1>3, <1>5, <1>7, <1>8

(* Collecting the overload rows of a late request keeps that invariant. *)
LEMMA OverloadRowsStep ==
  ASSUME CollectInv, Grows, OverloadRows
  PROVE  RowsCollected' /\ OutcomesCollected' /\ OverloadsCollected' /\ Apart'
  <1>0. TypeOK
    BY Zenon DEF CollectInv
  <1>1. /\ pc = "overload" /\ pc' = "write" /\ UNCHANGED <<req, where>>
        /\ actions' = actions \o OverloadAsks(FALSE) /\ bans' = bans \o OverloadBans(FALSE)
    BY Zenon DEF OverloadRows, inputs
  <1>2. req.shed = NoCode
    BY <1>1, Zenon DEF CollectInv, Stage
  <1>3. \A j : OverloadDue(j) <=> /\ j \in Overloaded(FALSE) /\ req.known
                                  /\ prof.outcomes[j].do = "list" => req.valid
    BY <1>2, NoCodeIs, Zenon DEF OverloadDue, Overloaded, Fires
  <1>4. \A k : <<"overload", k>> \notin Collected
    BY <1>0, <1>1, MarksAreMarked, Zenon DEF CollectInv, OverloadsCollected
  <1> QED BY <1>1, <1>3, <1>4, OverloadStep, Zenon

(* Answering a shed request with its overload rows keeps that invariant. *)
LEMMA ShedStep ==
  ASSUME CollectInv, Grows, Shed
  PROVE  RowsCollected' /\ OutcomesCollected' /\ OverloadsCollected' /\ Apart'
  <1>0. TypeOK
    BY Zenon DEF CollectInv
  <1>1. /\ pc = "evaluate" /\ pc' = "write" /\ UNCHANGED <<req, where>> /\ req.shed # NoCode
        /\ actions' = IF FiresOnShed THEN OverloadAsks(TRUE) ELSE <<>>
        /\ bans' = IF FiresOnShed THEN OverloadBans(TRUE) ELSE <<>>
    BY Zenon DEF Shed, inputs
  <1>2. actions = <<>> /\ bans = <<>> /\ where = "error"
    BY <1>1, Zenon DEF CollectInv, Stage
  <1>3. Collected = {}
    BY <1>2 DEF Collected
  <1>4. CASE FiresOnShed
    <2>1. OverloadAsks(TRUE) \in Seq(Marked) /\ OverloadBans(TRUE) \in Seq(Marked)
      BY <1>0, OverloadTypes, Zenon
    <2>2. \A s \in Seq(Marked) : <<>> \o s = s
      OBVIOUS
    <2>3. actions' = actions \o OverloadAsks(TRUE) /\ bans' = bans \o OverloadBans(TRUE)
      BY <1>1, <1>2, <1>4, <2>1, <2>2, Zenon
    <2>4. \A j : OverloadDue(j) <=> /\ j \in Overloaded(TRUE) /\ req.known
                                    /\ prof.outcomes[j].do = "list" => req.valid
      BY <1>4, Zenon DEF OverloadDue, Overloaded, Fires, FiresOnShed
    <2> QED BY <1>1, <1>3, <2>3, <2>4, OverloadStep, Zenon
  <1>5. CASE ~FiresOnShed
    <2>1. UNCHANGED <<req, where, actions, bans>>
      BY <1>1, <1>2, <1>5, Zenon
    <2>2. Collected' = {} /\ prof' = prof
      BY <1>3, <2>1, Zenon DEF Collected, Grows
    <2>3. \A j : ~OverloadDue(j)'
      BY <1>1, <1>5, <2>1, Zenon DEF OverloadDue, FiresOnShed
    <2>4. \A j : ~OutcomeDue(j)'
      <3>1. \A j \in DOMAIN prof.outcomes : prof.outcomes[j].on # "error"
        BY <1>0, ProfileType, Zenon DEF Outcomes
      <3> QED BY <1>2, <2>1, <2>2, <3>1, Zenon DEF OutcomeDue
    <2>5. RowsCollected' /\ OutcomesCollected' /\ OverloadsCollected'
      BY <1>2, <2>1, <2>2, <2>3, <2>4, Zenon DEF RowsCollected, OutcomesCollected, OverloadsCollected
    <2>6. Apart'
      BY <2>1, <2>2, Zenon DEF CollectInv, Apart, Rng, Distinct, IsAsk, IsBan
    <2> QED BY <2>5, <2>6
  <1> QED BY <1>4, <1>5

(* Each step keeps verdict, error code and lists as its stage of the inspection requires. *)
LEMMA StageStep ==
  ASSUME CollectInv, Next
  PROVE  Stage'
  <1>0. TypeOK /\ Stage
    BY Zenon DEF CollectInv
  <1>1. where \in {"error", "white", "black", "none"}
    BY <1>0, Zenon DEF TypeOK
  <1>2. ASSUME NEW l \in Lives, NEW now \in {"in", "out"}, LiveChange(l, now) PROVE Stage'
    BY <1>0, <1>2, Zenon DEF LiveChange, Stage
  <1>3. CASE Shed
    <2>1. /\ pc = "evaluate" /\ pc' = "write" /\ req' = req /\ where' = where /\ err' = req.shed
          /\ req.shed # NoCode
      BY <1>3, Zenon DEF Shed, inputs
    <2> QED BY <1>0, <2>1, Zenon DEF Stage
  <1>4. ASSUME NEW code \in {"IP_UNKNOWN_PROFILE", "IP_MALFORMED", "IP_MISSING_SET"},
               CheckFails(code)
        PROVE  Stage'
    <2>1. /\ pc = "evaluate" /\ pc' = "overload" /\ req' = req /\ where' = where /\ err' = code
          /\ req.shed = NoCode /\ code # NoCode
      BY <1>4, Zenon DEF CheckFails, inputs
    <2> QED BY <1>0, <2>1, Zenon DEF Stage
  <1>5. CASE CheckBegins
    BY <1>0, <1>5, Zenon DEF CheckBegins, Stage, inputs
  <1>6. ASSUME NEW j \in DOMAIN prof.rules, ReadMatch(j) \/ ReadExclude(j) PROVE Stage'
    <2>1. /\ pc \in {"allow", "deny"} /\ UNCHANGED <<req, err, actions, bans>>
      BY <1>6, Zenon DEF ReadMatch, ReadExclude, inputs
    <2>2. \/ pc' = pc /\ where' = where
          \/ pc' = "side" /\ where' \in {"white", "black"}
      BY <1>6, Zenon DEF ReadMatch, ReadExclude, Settle
    <2> QED BY <1>0, <2>1, <2>2, Zenon DEF Stage
  <1>7. CASE PassEnds
    <2>1. /\ pc \in {"allow", "deny"} /\ UNCHANGED <<req, err, actions, bans>>
          /\ (pc' = "deny" /\ where' = where) \/ (pc' = "side" /\ where' = "none")
      BY <1>7, Zenon DEF PassEnds, inputs
    <2> QED BY <1>0, <2>1, Zenon DEF Stage
  <1>8. ASSUME NEW j \in DOMAIN prof.rules, SideRow(j) PROVE Stage'
    <2>1. pc = "side" /\ UNCHANGED <<pc, req, err, where>>
      BY <1>8, Zenon DEF SideRow, inputs
    <2> QED BY <1>0, <2>1, Zenon DEF Stage
  <1>9. CASE OutcomeRows
    <2>1. pc = "side" /\ pc' = "overload" /\ UNCHANGED <<req, err, where>>
      BY <1>9, Zenon DEF OutcomeRows, inputs
    <2> QED BY <1>0, <2>1, Zenon DEF Stage
  <1>10. CASE OverloadRows
    <2>1. pc = "overload" /\ pc' = "write" /\ UNCHANGED <<req, err, where>>
      BY <1>10, Zenon DEF OverloadRows, inputs
    <2> QED BY <1>0, <2>1, Zenon DEF Stage
  <1>11. ASSUME NEW geo \in {"values", "nothing", "fails"}, WriteList(geo) PROVE Stage'
    <2>1. pc = "write" /\ UNCHANGED <<pc, req, err, where>>
      BY <1>11, Zenon DEF WriteList, inputs
    <2> QED BY <1>0, <2>1, Zenon DEF Stage
  <1>12. CASE Send
    <2>1. pc = "write" /\ pc' = "done" /\ UNCHANGED <<req, err, where>>
      BY <1>12, Zenon DEF Send, inputs
    <2> QED BY <1>0, <2>1, Zenon DEF Stage
  <1> QED BY <1>2, <1>3, <1>4, <1>5, <1>6, <1>7, <1>8, <1>9, <1>10, <1>11, <1>12, Zenon DEF Next

(* Check that fails, and reads that do not change what was collected.      *)
LEMMA CollectSearch ==
  ASSUME CollectInv, Grows, UNCHANGED <<req, actions, bans>>,
         pc \in {"evaluate", "allow", "deny"}, pc' \in {"allow", "deny", "side", "overload"},
         pc' = "side" => row' = 0,
         pc' # "side" => where' = "error"
  PROVE  RowsCollected' /\ OutcomesCollected' /\ OverloadsCollected' /\ Apart'
  <1>0. TypeOK
    BY Zenon DEF CollectInv
  <1>1. actions = <<>> /\ bans = <<>>
    BY Zenon DEF CollectInv, Stage
  <1>2. Collected = {}
    BY <1>1 DEF Collected
  <1>3. Collected' = {} /\ prof' = prof /\ PassRows("side")' = PassRows("side")
    BY <1>2, Zenon DEF Collected, Grows, PassRows, Terminal
  <1>4. \A j : ~OutcomeDue(j)'
    <2>1. \A j \in DOMAIN prof.outcomes : prof.outcomes[j].on # "error"
      BY <1>0, ProfileType, Zenon DEF Outcomes
    <2> QED BY <1>3, <2>1, Zenon DEF OutcomeDue
  <1>5. \A j \in PassRows("side") : ~(j <= 0)
    <2>1. \A j \in PassRows("side") : j \in Nat /\ j > 0
      BY <1>0, SideRows, Zenon
    <2> QED BY ONLY <2>1
  <1>6. RowsCollected'
    <2>1. CASE pc' = "side"
      BY <1>3, <1>5, <2>1, Zenon DEF RowsCollected
    <2>2. CASE pc' # "side"
      BY <1>3, <2>2, Zenon DEF RowsCollected
    <2> QED BY <2>1, <2>2
  <1>7. OutcomesCollected' /\ OverloadsCollected'
    BY <1>3, <1>4, Zenon DEF OutcomesCollected, OverloadsCollected
  <1>8. Apart'
    BY <1>3, Zenon DEF CollectInv, Apart, Rng, Distinct, IsAsk, IsBan
  <1> QED BY <1>6, <1>7, <1>8

(* Every step keeps the invariant of the collected actions. *)
LEMMA CollectStep == CollectInv /\ [Next]_vars => CollectInv'
  <1> SUFFICES ASSUME CollectInv, [Next]_vars PROVE CollectInv'
    OBVIOUS
  <1>0. TypeOK /\ SeenNow /\ Stage
    BY Zenon DEF CollectInv
  <1>1. CASE UNCHANGED vars
    <2>1. TypeOK' /\ SeenNow' /\ Stage'
      BY <1>0, <1>1, ZenonT(30) DEF vars, TypeOK, SeenNow, Stage
    <2>2. Grows /\ UNCHANGED <<req, where, actions, bans, pc, row>>
      BY <1>1, Zenon DEF vars, Grows
    <2> QED BY <2>1, <2>2, CollectKeeps, Zenon DEF CollectInv
  <1>2. CASE Next
    <2>1. TypeOK' /\ SeenNow' /\ Grows /\ Stage'
      BY <1>0, <1>2, TypeStep, SeenStep, StageStep, Zenon
    <2> SUFFICES RowsCollected' /\ OutcomesCollected' /\ OverloadsCollected' /\ Apart'
      BY <2>1, Zenon DEF CollectInv
    <2>2. ASSUME NEW l \in Lives, NEW now \in {"in", "out"}, LiveChange(l, now)
          PROVE  UNCHANGED <<req, where, actions, bans, pc, row>>
      BY <2>2, Zenon DEF LiveChange
    <2>3. ASSUME NEW code \in {"IP_UNKNOWN_PROFILE", "IP_MALFORMED", "IP_MISSING_SET"},
                 CheckFails(code)
          PROVE  RowsCollected' /\ OutcomesCollected' /\ OverloadsCollected' /\ Apart'
      <3>1. pc = "evaluate" /\ pc' = "overload" /\ UNCHANGED <<req, actions, bans, where>>
        BY <2>3, Zenon DEF CheckFails, inputs
      <3>2. where' = "error"
        BY <1>0, <3>1, Zenon DEF Stage
      <3> QED BY <2>1, <3>1, <3>2, CollectSearch, Zenon
    <2>4. CASE CheckBegins
      <3>1. pc = "evaluate" /\ pc' = "allow" /\ UNCHANGED <<req, actions, bans, where>>
        BY <2>4, Zenon DEF CheckBegins, inputs
      <3>2. where' = "error"
        BY <1>0, <3>1, Zenon DEF Stage
      <3> QED BY <2>1, <3>1, <3>2, CollectSearch, Zenon
    <2>5. ASSUME NEW j \in DOMAIN prof.rules, ReadMatch(j) \/ ReadExclude(j)
          PROVE  RowsCollected' /\ OutcomesCollected' /\ OverloadsCollected' /\ Apart'
      <3>1. pc \in {"allow", "deny"} /\ UNCHANGED <<req, actions, bans>>
        BY <2>5, Zenon DEF ReadMatch, ReadExclude, inputs
      <3>2. (pc' = pc /\ where' = where) \/ (pc' = "side" /\ row' = 0)
        BY <2>5, Zenon DEF ReadMatch, ReadExclude, Settle
      <3>3. where = "error"
        BY <1>0, <3>1, Zenon DEF Stage
      <3> QED BY <2>1, <3>1, <3>2, <3>3, CollectSearch, Zenon
    <2>6. CASE PassEnds
      <3>1. /\ pc \in {"allow", "deny"} /\ UNCHANGED <<req, actions, bans>> /\ row' = 0
            /\ (pc' = "deny" /\ where' = where) \/ pc' = "side"
        BY <2>6, Zenon DEF PassEnds, inputs
      <3>2. where = "error"
        BY <1>0, <3>1, Zenon DEF Stage
      <3> QED BY <2>1, <3>1, <3>2, CollectSearch, Zenon
    <2>7. ASSUME NEW geo \in {"values", "nothing", "fails"}, WriteList(geo)
          PROVE  UNCHANGED <<req, where, actions, bans, pc, row>>
      BY <2>7, Zenon DEF WriteList, inputs
    <2>8. CASE Send
      <3>1. pc = "write" /\ pc' = "done" /\ UNCHANGED <<req, where, actions, bans>>
        BY <2>8, Zenon DEF Send, inputs
      <3> QED BY <2>1, <3>1, CollectKeeps, Zenon
    <2>9. ASSUME UNCHANGED <<req, where, actions, bans, pc, row>>
          PROVE  RowsCollected' /\ OutcomesCollected' /\ OverloadsCollected' /\ Apart'
      BY <2>1, <2>9, CollectKeeps, Zenon
    <2>10. ASSUME NEW j \in DOMAIN prof.rules, SideRow(j)
           PROVE  RowsCollected' /\ OutcomesCollected' /\ OverloadsCollected' /\ Apart'
      BY <2>1, <2>10, SideRowStep, Zenon
    <2>11. CASE Shed
      BY <2>1, <2>11, ShedStep, Zenon
    <2>12. CASE OutcomeRows
      BY <2>1, <2>12, OutcomeRowsStep, Zenon
    <2>13. CASE OverloadRows
      BY <2>1, <2>13, OverloadRowsStep, Zenon
    <2> QED BY <1>2, <2>2, <2>3, <2>4, <2>5, <2>6, <2>7, <2>8, <2>9, <2>10, <2>11, <2>12, <2>13,
          Zenon DEF Next
  <1> QED BY <1>1, <1>2

(* No row is both a request and a write.                                   *)
LEMMA CollectedApart ==
  ASSUME CollectInv
  PROVE  \A m \in DOMAIN actions, n \in DOMAIN bans : actions[m] # bans[n]
  <1>1. \A e : ~(IsAsk(e) /\ IsBan(e))
    BY Zenon DEF IsAsk, IsBan
  <1> QED BY <1>1, Zenon DEF CollectInv, Apart, Rng

(* Request and list rows fire on their dataset alone, once each, and not   *)
(* at all when the inspection failed (the second loop of Check).           *)
THEOREM SideRowsFireRight == Spec => []SideRowsFire
  <1>1. CollectInv => SideRowsFire
    <2> SUFFICES ASSUME CollectInv PROVE SideRowsFire
      OBVIOUS
    <2>1. /\ \A m, n \in DOMAIN actions : actions[m] = actions[n] => m = n
          /\ \A m, n \in DOMAIN bans : bans[m] = bans[n] => m = n
      BY Zenon DEF CollectInv, Apart, Distinct
    <2>4. \A m \in DOMAIN actions, n \in DOMAIN bans : actions[m] # bans[n]
      BY CollectedApart, Zenon
    <2>2. ASSUME where = "error" PROVE Collected \cap Marks("row", prof.rules) = {}
      <3>1. \A j \in DOMAIN prof.rules : j \in Nat
        BY ProfileType, Zenon DEF CollectInv
      <3>2. \A j \in DOMAIN prof.rules : <<"row", j>> \notin Collected
        BY <2>2, <3>1, Zenon DEF CollectInv, RowsCollected, SideFired
      <3> QED BY <3>2, Zenon DEF Marks
    <2>3. ASSUME where # "error", pc \notin {"allow", "deny", "side"}, NEW j \in PassRows("side")
          PROVE  LET d == prof.rules[j].dataset IN
                 /\ <<"row", j>> \in Collected => (~prof.rules[j].not) \in Said(d)
                 /\ <<"row", j>> \notin Collected => prof.rules[j].not \in Said(d)
      <3>1. j \in Nat
        BY SideRows, Zenon DEF CollectInv
      <3> QED BY <2>3, <3>1, Zenon DEF CollectInv, RowsCollected, SideFired
    <2> QED BY <2>1, <2>2, <2>3, <2>4, Zenon DEF SideRowsFire
  <1> QED BY CollectInit, CollectStep, <1>1, PTL DEF Spec

(* Outcome rows fire for where the address ended up, and overload rows     *)
(* when they are documented to, but for the row marked 100 on a request    *)
(* that waited at a full queue (Check, FireOverload, overloadOnShed).      *)
THEOREM OutcomeRowsAgree == Spec => []OutcomesAgree
  <1>1. CollectInv => OutcomesAgree
    <2> SUFFICES ASSUME CollectInv, pc = "done", NEW j \in DOMAIN prof.outcomes
                 PROVE  /\ <<"outcome", j>> \in Collected <=> prof.outcomes[j].on = where
                        /\ ~WaitedAtFull(prof.outcomes[j]) =>
                             (<<"overload", j>> \in Collected <=> OverloadMeant(prof.outcomes[j]))
      BY Zenon DEF OutcomesAgree
    <2>1. j \in Nat
      BY ProfileType, Zenon DEF CollectInv
    <2>2. <<"outcome", j>> \in Collected <=> OutcomeDue(j)
      BY <2>1, Zenon DEF CollectInv, OutcomesCollected
    <2>3. <<"overload", j>> \in Collected <=> OverloadDue(j)
      BY <2>1, Zenon DEF CollectInv, OverloadsCollected
    <2>4. PICK o : o = prof.outcomes[j] /\ o \in Outcomes
      BY ProfileType, Zenon DEF CollectInv
    <2>5. ASSUME req.shed = NoCode, ~WaitedAtFull(o)
          PROVE  At(o.at) < AtMax /\ req.fill >= At(o.at) <=> o.at # NoMark /\ req.fill >= o.at
      <3>1. o.at \in {NoMark} \cup AtMin .. AtMax
        BY ONLY <2>4 DEF Outcomes
      <3>2. req.fill \in 0 .. AtMax
        BY ONLY CollectInv DEF CollectInv, TypeOK, Requests
      <3>3. ~(o.at = AtMax /\ req.fill = AtMax)
        BY ONLY <2>5, Zenon DEF WaitedAtFull
      <3> QED BY ONLY <3>1, <3>2, <3>3 DEF At, NoMark, AtMin, AtMax
    <2>6. ~WaitedAtFull(o) => (OverloadDue(j) <=> OverloadMeant(o))
      BY ONLY <2>4, <2>5, j \in DOMAIN prof.outcomes, Zenon DEF OverloadDue, OverloadMeant
    <2> QED BY ONLY <2>2, <2>3, <2>4, <2>6, pc = "done", j \in DOMAIN prof.outcomes, Zenon
              DEF OutcomeDue
  <1> QED BY CollectInit, CollectStep, <1>1, PTL DEF Spec

-----------------------------------------------------------------------------
(* What is written and answered.                                           *)

Opening ==
  \/ Shed \/ CheckBegins \/ PassEnds \/ OutcomeRows \/ OverloadRows
  \/ \E code \in {"IP_UNKNOWN_PROFILE", "IP_MALFORMED", "IP_MISSING_SET"} : CheckFails(code)
  \/ \E j \in DOMAIN prof.rules : ReadMatch(j) \/ ReadExclude(j) \/ SideRow(j)

(* The steps before the writes neither write nor answer. *)
LEMMA OpeningFrame ==
  ASSUME TypeOK, Opening
  PROVE  /\ pc \notin {"write", "done"} /\ pc' # "done"
         /\ UNCHANGED <<tried, failed, written, reply>>
  <1>1. CASE Shed
    BY <1>1, Zenon DEF Shed, output
  <1>2. CASE CheckBegins \/ PassEnds
    BY <1>2, Zenon DEF CheckBegins, PassEnds, output
  <1>3. CASE OutcomeRows \/ OverloadRows
    BY <1>3, Zenon DEF OutcomeRows, OverloadRows, output
  <1>4. ASSUME NEW code \in {"IP_UNKNOWN_PROFILE", "IP_MALFORMED", "IP_MISSING_SET"},
               CheckFails(code)
        PROVE  /\ pc \notin {"write", "done"} /\ pc' # "done"
               /\ UNCHANGED <<tried, failed, written, reply>>
    BY <1>4, Zenon DEF CheckFails, output
  <1>5. ASSUME NEW j \in DOMAIN prof.rules, ReadMatch(j) \/ ReadExclude(j)
        PROVE  /\ pc \notin {"write", "done"} /\ pc' # "done"
               /\ UNCHANGED <<tried, failed, written, reply>>
    BY <1>5, Zenon DEF ReadMatch, ReadExclude, Settle, output
  <1>6. ASSUME NEW j \in DOMAIN prof.rules, SideRow(j)
        PROVE  /\ pc \notin {"write", "done"} /\ pc' # "done"
               /\ UNCHANGED <<tried, failed, written, reply>>
    BY <1>6, Zenon DEF SideRow, output
  <1> QED BY <1>1, <1>2, <1>3, <1>4, <1>5, <1>6, Zenon DEF Opening

(* Before the first write there is nothing to account for. *)
LEMMA NothingTried ==
  ASSUME TypeOK, tried = 0, written = <<>>, failed = FALSE, pc # "done"
  PROVE  WritesTried
  <1>1. bans \in Seq(Marked)
    BY Zenon DEF TypeOK
  <1>2. 0 <= Len(bans) /\ 1 .. 0 = {} /\ DOMAIN <<>> = {}
    BY ONLY <1>1
  <1>3. AddressesSent(0, <<>>) /\ SentAmong(0, <<>>) /\ SentInOrder(0, <<>>)
    BY ONLY <1>2, Zenon DEF AddressesSent, SentAmong, SentInOrder
  <1> QED BY <1>2, <1>3, Zenon DEF WritesTried

(* The account of the writes depends only on the ban list and the profile. *)
LEMMA TriedFrame ==
  ASSUME bans' = bans, prof' = prof
  PROVE  \A k, w : /\ AddressesSent(k, w)' <=> AddressesSent(k, w)
                   /\ SentAmong(k, w)' <=> SentAmong(k, w)
                   /\ SentInOrder(k, w)' <=> SentInOrder(k, w)
                   /\ GivenUp(k, w)' <=> GivenUp(k, w)
  <1>1. \A x : WriteOf(x)' = WriteOf(x)
    BY Zenon DEF WriteOf
  <1> TAKE k, w
  <1>2. AddressesSent(k, w)' <=> AddressesSent(k, w)
    BY <1>1, Zenon DEF AddressesSent
  <1>3. SentAmong(k, w)' <=> SentAmong(k, w)
    BY Zenon DEF SentAmong
  <1>4. SentInOrder(k, w)' <=> SentInOrder(k, w)
    BY DEF SentInOrder
  <1>5. GivenUp(k, w)' <=> GivenUp(k, w)
    BY <1>1, Zenon DEF GivenUp
  <1> QED BY <1>2, <1>3, <1>4, <1>5

(* One list write, whether the geo lookup finds values, nothing, or fails, keeps the account
   of the writes. *)
LEMMA WriteListStep ==
  ASSUME WriteInv, TypeOK', Grows, NEW geo \in {"values", "nothing", "fails"}, WriteList(geo)
  PROVE  WritesTried'
  <1> DEFINE e == bans[tried + 1]
             k == tried
  <1>0. /\ bans \in Seq(Marked) /\ written \in Seq(Marked) /\ k \in Nat /\ Distinct(bans)
        /\ failed \in BOOLEAN /\ prof' = prof
    BY Zenon DEF WriteInv, CollectInv, TypeOK, Apart, Grows
  <1>1. /\ pc = "write" /\ pc' = "write" /\ k < Len(bans) /\ tried' = k + 1
        /\ WriteOf(e) = "addr" => geo = "values"
        /\ written' = IF geo = "values" THEN Append(written, e) ELSE written
        /\ failed' = (failed \/ geo = "fails")
        /\ bans' = bans
    BY Zenon DEF WriteList, inputs
  <1>2. /\ AddressesSent(k, written) /\ SentAmong(k, written) /\ SentInOrder(k, written)
        /\ failed => GivenUp(k, written)
    BY Zenon DEF WriteInv, WritesTried
  <1>3. /\ k + 1 \in DOMAIN bans /\ k + 1 <= Len(bans) /\ k + 1 # 0
        /\ \A n \in 1 .. k : n \in DOMAIN bans /\ n # k + 1 /\ n < k + 1 /\ n \in 1 .. (k + 1)
        /\ k + 1 \in 1 .. (k + 1) /\ \A n \in 1 .. (k + 1) : n \in 1 .. k \/ n = k + 1
    BY ONLY <1>0, <1>1
  <1>4. e \in Marked /\ bans[k + 1] = e
    BY ONLY <1>0, <1>3
  <1>5. \A n \in 1 .. k : bans[n] # e
    BY <1>0, <1>3, Zenon DEF Distinct
  <1> HIDE DEF e, k
  <1>6. \A m \in DOMAIN written : written[m] # e
    BY ONLY <1>2, <1>5, Zenon DEF SentAmong
  <1>7. \A x, y \in 1 .. k : x < y => x \in 1 .. (k + 1) /\ y \in 1 .. (k + 1)
    BY <1>3, Zenon
  <1>8. SentInOrder(k + 1, written)
    <2> SUFFICES ASSUME NEW m \in DOMAIN written, NEW n \in DOMAIN written, m < n
                 PROVE  \E i, j \in 1 .. (k + 1) :
                          i < j /\ bans[i] = written[m] /\ bans[j] = written[n]
      BY Zenon DEF SentInOrder
    <2>1. PICK i \in 1 .. k, j \in 1 .. k : i < j /\ bans[i] = written[m] /\ bans[j] = written[n]
      BY <1>2, Zenon DEF SentInOrder
    <2> QED BY ONLY <1>7, <2>1
  <1>9. CASE geo = "values"
    <2> DEFINE w == Append(written, e)
    <2>1. /\ \A m \in DOMAIN w : (m \in DOMAIN written /\ w[m] = written[m])
                                   \/ (m = Len(written) + 1 /\ w[m] = e)
          /\ Len(written) + 1 \in DOMAIN w /\ w[Len(written) + 1] = e
          /\ \A m \in DOMAIN written : m \in DOMAIN w /\ w[m] = written[m]
          /\ \A m, n \in DOMAIN w : m < n => m \in DOMAIN written
      BY ONLY <1>0, <1>4
    <2>2. w = written' /\ (failed' => failed)
      BY <1>1, <1>9, Zenon
    <2> HIDE DEF w
    <2>3. AddressesSent(k + 1, w)
      BY ONLY <1>2, <1>3, <1>4, <2>1, Zenon DEF AddressesSent
    <2>4. SentAmong(k + 1, w)
      BY ONLY <1>2, <1>3, <1>4, <2>1, Zenon DEF SentAmong
    <2>5. SentInOrder(k + 1, w)
      <3> SUFFICES ASSUME NEW m \in DOMAIN w, NEW n \in DOMAIN w, m < n
                   PROVE  \E i, j \in 1 .. (k + 1) : i < j /\ bans[i] = w[m] /\ bans[j] = w[n]
        BY Zenon DEF SentInOrder
      <3>1. m \in DOMAIN written /\ w[m] = written[m]
        BY <2>1, Zenon
      <3>2. CASE n \in DOMAIN written /\ w[n] = written[n]
        BY <1>8, <3>1, <3>2 DEF SentInOrder
      <3>3. CASE w[n] = e
        <4>1. PICK i \in 1 .. k : bans[i] = written[m]
          BY <1>2, <3>1, Zenon DEF SentAmong
        <4> QED BY ONLY <1>3, <1>4, <3>1, <3>3, <4>1
      <3> QED BY <2>1, <3>2, <3>3, Zenon
    <2>6. failed => GivenUp(k + 1, w)
      BY ONLY <1>2, <1>3, <1>5, <2>1, Zenon DEF GivenUp
    <2> QED BY <1>0, <1>1, <1>3, <2>2, <2>3, <2>4, <2>5, <2>6, TriedFrame, Zenon DEF WritesTried
  <1>10. CASE geo # "values"
    <2>1. written' = written /\ WriteOf(e) # "addr"
      BY <1>1, <1>10, Zenon
    <2>2. AddressesSent(k + 1, written)
      BY ONLY <1>2, <1>3, <1>4, <2>1, Zenon DEF AddressesSent
    <2>3. SentAmong(k + 1, written)
      BY ONLY <1>2, <1>3, Zenon DEF SentAmong
    <2>4. GivenUp(k + 1, written)
      BY ONLY <1>3, <1>4, <1>6, <2>1, Zenon DEF GivenUp
    <2> QED BY <1>0, <1>1, <1>3, <1>8, <2>1, <2>2, <2>3, <2>4, TriedFrame, Zenon DEF WritesTried
  <1> QED BY <1>9, <1>10

(* The invariant behind the writes holds initially. *)
LEMMA WritesInit == Init => WriteInv
  <1> SUFFICES ASSUME Init PROVE WriteInv
    OBVIOUS
  <1>1. CollectInv /\ TypeOK
    BY CollectInit, TypeInit
  <1>2. /\ tried = 0 /\ written = <<>> /\ failed = FALSE /\ pc = "evaluate" /\ reply = NoReply
    BY Zenon DEF Init
  <1>3. WritesTried
    BY <1>1, <1>2, NothingTried, Zenon
  <1>4. NoReply.verdict = "none" /\ NoReply.code = NoCode
    BY Zenon DEF NoReply
  <1> QED BY <1>1, <1>2, <1>3, <1>4, NoCodeIs, Zenon DEF WriteInv, Answered, ErrorsAskNothing

(* An error answer carries overload asks only.                             *)
LEMMA ErrorAsks ==
  ASSUME CollectInv, where = "error", NEW n \in DOMAIN actions
  PROVE  actions[n][1] = "overload"
  <1>1. actions \in Seq(Marked) /\ TypeOK
    BY Zenon DEF CollectInv, TypeOK
  <1>2. actions[n] \in Marked
    BY ONLY <1>1
  <1>3. PICK t \in {"row", "outcome", "overload"}, k \in Nat : actions[n] = <<t, k>>
    BY ONLY <1>2 DEF Marked
  <1>4. <<t, k>> \in Collected
    BY <1>3, Zenon DEF Collected
  <1>5. t # "row"
    BY <1>4, Zenon DEF CollectInv, RowsCollected, SideFired
  <1>6. t # "outcome"
    <2>1. \A j \in DOMAIN prof.outcomes : prof.outcomes[j].on # "error"
      BY <1>1, ProfileType, Zenon DEF Outcomes
    <2> QED BY <1>4, <2>1, Zenon DEF CollectInv, OutcomesCollected, OutcomeDue
  <1> QED BY ONLY <1>3, <1>5, <1>6

(* Sending the reply keeps the account of the writes and answers accordingly. *)
LEMMA SendStep ==
  ASSUME WriteInv, Grows, Send
  PROVE  WritesTried' /\ Answered'
  <1>0. /\ TypeOK /\ Stage /\ CollectInv /\ prof' = prof
    BY Zenon DEF WriteInv, CollectInv, Grows
  <1>1. /\ pc = "write" /\ tried = Len(bans) /\ pc' = "done"
        /\ UNCHANGED <<req, where, err, actions, bans, tried, failed, written>>
        /\ reply' = IF failed /\ req.shed = NoCode THEN GeoFailure
                    ELSE [verdict |-> Verdict, code |-> Code, scope |-> Scope, actions |-> actions]
    BY Zenon DEF Send, inputs
  <1>2. /\ tried <= Len(bans) /\ (tried = 0 => written = <<>>)
        /\ AddressesSent(tried, written) /\ SentAmong(tried, written) /\ SentInOrder(tried, written)
        /\ failed => GivenUp(tried, written)
    BY Zenon DEF WriteInv, WritesTried
  <1>3. WritesTried'
    BY <1>0, <1>1, <1>2, TriedFrame, Zenon DEF WritesTried
  <1>4. CASE failed /\ req.shed = NoCode
    <2>1. reply'.actions = <<>>
      BY <1>1, <1>4, Zenon DEF GeoFailure, NoReply
    <2>2. DOMAIN <<>> = {}
      OBVIOUS
    <2>3. bans \in Seq(Marked)
      BY <1>0, Zenon DEF TypeOK
    <2>4. DOMAIN bans = 1 .. Len(bans)
      BY ONLY <2>3
    <2>5. PICK n \in DOMAIN bans : WriteOf(bans[n]) # "addr" /\ \A m \in DOMAIN written : written[m] # bans[n]
      BY <1>1, <1>2, <1>4, <2>4, Zenon DEF GivenUp
    <2>6. WriteOf(bans[n])' = WriteOf(bans[n])
      BY <1>0, <1>1, Zenon DEF WriteOf
    <2> QED BY <1>1, <1>3, <1>4, <2>1, <2>2, <2>5, <2>6, Zenon DEF Answered, ErrorsAskNothing
  <1>5. CASE ~(failed /\ req.shed = NoCode)
    <2>1. reply'.verdict = Verdict /\ reply'.code = Code /\ reply'.actions = actions
      BY <1>1, <1>5, Zenon
    <2>2. Verdict = "error" => err # NoCode
      <3>1. prof.default # "error"
        BY <1>0, ProfileType
      <3>2. CASE err = NoCode /\ where = "white"
        BY <3>2, Zenon DEF Verdict
      <3>3. CASE err = NoCode /\ where = "black"
        BY <3>3, Zenon DEF Verdict
      <3>4. CASE err = NoCode /\ where # "white" /\ where # "black"
        <4>1. Verdict = prof.default
          BY <3>4, Zenon DEF Verdict
        <4> QED BY <3>1, <4>1
      <3> QED BY <3>2, <3>3, <3>4
    <2>3. Verdict = "error" => \A n \in DOMAIN actions : actions[n][1] = "overload"
      BY <1>0, <2>2, ErrorAsks, Zenon DEF Stage
    <2>4. Code # "IP_GEO_UNAVAILABLE"
      <3>1. CASE err # NoCode
        <4>1. Code = err
          BY <3>1, Zenon DEF Code
        <4>2. err # "IP_GEO_UNAVAILABLE"
          BY <1>0, NoCodeIs, Zenon DEF TypeOK, Errors
        <4> QED BY <4>1, <4>2
      <3>2. CASE err = NoCode
        <4>1. Code \in {"IP_ALLOWLIST", "IP_GEO", "IP_LIST", "IP_OK"}
          <5>1. CASE where = "white"
            BY <3>2, <5>1, Zenon DEF Code
          <5>2. CASE where # "white" /\ Verdict = "deny"
            BY <3>2, <5>2, Zenon DEF Code
          <5>3. CASE where # "white" /\ Verdict # "deny"
            BY <3>2, <5>3, Zenon DEF Code
          <5> QED BY <5>1, <5>2, <5>3
        <4> QED BY <4>1
      <3> QED BY <3>1, <3>2
    <2> QED BY <1>1, <1>3, <2>1, <2>3, <2>4, Zenon DEF Answered, ErrorsAskNothing
  <1> QED BY <1>4, <1>5

(* Every step keeps the invariant behind the writes. *)
LEMMA WritesStep == WriteInv /\ [Next]_vars => WriteInv'
  <1> SUFFICES ASSUME WriteInv, [Next]_vars PROVE WriteInv'
    OBVIOUS
  <1>0. CollectInv /\ TypeOK /\ SeenNow
    BY Zenon DEF WriteInv, CollectInv
  <1>1. CollectInv' /\ TypeOK'
    <2>1. CollectInv'
      BY <1>0, CollectStep, Zenon
    <2> QED BY <2>1, Zenon DEF CollectInv
  <1> SUFFICES WritesTried' /\ Answered'
    BY <1>1, Zenon DEF WriteInv
  <1>2. NoReply.verdict = "none" /\ NoReply.code = NoCode
    BY Zenon DEF NoReply
  <1>3. ASSUME reply' = NoReply, pc' # "done" PROVE Answered'
    BY <1>2, <1>3, NoCodeIs, Zenon DEF Answered, ErrorsAskNothing
  <1>4. ASSUME UNCHANGED <<pc, bans, tried, written, failed, prof>> PROVE WritesTried'
    <2>1. WritesTried
      BY Zenon DEF WriteInv
    <2> QED BY <1>4, <2>1, TriedFrame, Zenon DEF WritesTried
  <1>5. CASE UNCHANGED vars
    <2>1. UNCHANGED <<pc, bans, tried, written, failed, prof, req, reply>>
      BY <1>5, Zenon DEF vars
    <2>2. \A x : WriteOf(x)' = WriteOf(x)
      BY <2>1, Zenon DEF WriteOf
    <2>3. Answered
      BY Zenon DEF WriteInv
    <2>4. Answered'
      BY <2>1, <2>2, <2>3, Zenon DEF Answered, ErrorsAskNothing
    <2> QED BY <1>4, <2>1, <2>4, Zenon
  <1>6. CASE Next
    <2>0. Grows
      BY <1>0, <1>6, SeenStep, Zenon
    <2>1. ASSUME NEW l \in Lives, NEW now \in {"in", "out"}, LiveChange(l, now)
          PROVE  WritesTried' /\ Answered'
      <3>1. UNCHANGED <<pc, bans, tried, written, failed, prof, reply>> /\ pc # "done"
        BY <2>1, Zenon DEF LiveChange
      <3>2. reply = NoReply
        BY <3>1, Zenon DEF WriteInv, Answered
      <3> QED BY <1>3, <1>4, <3>1, <3>2, Zenon
    <2>2. CASE Opening
      <3>1. /\ pc \notin {"write", "done"} /\ pc' # "done"
            /\ UNCHANGED <<tried, failed, written, reply>>
        BY <1>0, <2>2, OpeningFrame, Zenon
      <3>2. reply = NoReply /\ tried = 0 /\ written = <<>>
        BY <3>1, Zenon DEF WriteInv, Answered, WritesTried
      <3>3. failed = FALSE
        <4>1. 1 .. 0 = {}
          OBVIOUS
        <4>2. ~GivenUp(0, <<>>)
          BY <4>1, Zenon DEF GivenUp
        <4>3. failed \in BOOLEAN /\ ~failed
          BY <1>0, <3>2, <4>2, Zenon DEF TypeOK, WriteInv, WritesTried
        <4> QED BY <4>3, Zenon
      <3>4. tried' = 0 /\ written' = <<>> /\ failed' = FALSE
        BY <3>1, <3>2, <3>3, Zenon
      <3>5. WritesTried'
        <4>1. bans' \in Seq(Marked)
          BY <1>1, Zenon DEF TypeOK
        <4>2. 0 <= Len(bans') /\ 1 .. 0 = {} /\ DOMAIN <<>> = {}
          BY ONLY <4>1
        <4>3. AddressesSent(0, <<>>)' /\ SentAmong(0, <<>>)' /\ SentInOrder(0, <<>>)'
          BY ONLY <4>2, Zenon DEF AddressesSent, SentAmong, SentInOrder
        <4> QED BY <3>1, <3>4, <4>2, <4>3, Zenon DEF WritesTried
      <3> QED BY <1>3, <3>1, <3>2, <3>5, Zenon
    <2>3. ASSUME NEW geo \in {"values", "nothing", "fails"}, WriteList(geo)
          PROVE  WritesTried' /\ Answered'
      <3>1. pc = "write" /\ pc' = "write" /\ reply' = reply
        BY <2>3, Zenon DEF WriteList
      <3>2. reply = NoReply
        BY <3>1, Zenon DEF WriteInv, Answered
      <3>3. WritesTried'
        BY <1>1, <2>0, <2>3, WriteListStep, Zenon
      <3> QED BY <1>3, <3>1, <3>2, <3>3, Zenon
    <2>4. CASE Send
      BY <2>0, <2>4, SendStep, Zenon
    <2> QED BY <1>6, <2>1, <2>2, <2>3, <2>4, Zenon DEF Next, Opening
  <1> QED BY <1>5, <1>6

(* A directory that fails costs only the writes that needed it, and what   *)
(* is sent is sent in order (writeLists).                                  *)
THEOREM AddressWritesAlwaysSurvive == Spec => []AddressWritesSurvive
  <1>1. WriteInv => AddressWritesSurvive
    <2> SUFFICES ASSUME WriteInv, pc = "done" PROVE AddressWritesSurvive
      BY Zenon DEF AddressWritesSurvive
    <2>1. bans \in Seq(Marked)
      BY Zenon DEF WriteInv, CollectInv, TypeOK
    <2>2. DOMAIN bans = 1 .. Len(bans)
      BY ONLY <2>1
    <2>3. AddressesSent(Len(bans), written) /\ SentInOrder(Len(bans), written)
      BY Zenon DEF WriteInv, WritesTried
    <2>4. \A n \in DOMAIN bans : WriteOf(bans[n]) = "addr" =>
            \E m \in DOMAIN written : written[m] = bans[n]
      BY <2>2, <2>3, Zenon DEF AddressesSent
    <2>5. \A m, n \in DOMAIN written : m < n =>
            \E i, k \in DOMAIN bans : i < k /\ bans[i] = written[m] /\ bans[k] = written[n]
      BY ONLY <2>2, <2>3 DEF SentInOrder
    <2> QED BY <2>4, <2>5, Zenon DEF AddressWritesSurvive
  <1> QED BY WritesInit, WritesStep, <1>1, PTL DEF Spec

(* An error answer asks nothing on behalf of rules that were not evaluated *)
(* or whose writes failed, and blames the directory only for a write that  *)
(* was given up (inspect, send).                                           *)
THEOREM ErrorsNeverAsk == Spec => []ErrorsAskNothing
  <1>1. WriteInv => ErrorsAskNothing
    BY Zenon DEF WriteInv, Answered
  <1> QED BY WritesInit, WritesStep, <1>1, PTL DEF Spec
=============================================================================
