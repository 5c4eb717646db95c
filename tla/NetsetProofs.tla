---------------------------- MODULE NetsetProofs ----------------------------
(***************************************************************************)
(* Proofs about Netset, for addresses of any width and any file: the table *)
(* is the union of what the lines mean, its intervals are in order and     *)
(* apart, and the prefix named for an interval is that interval.           *)
(*                                                                         *)
(* An address is turned into the number it is (Value).  Masking and        *)
(* filling a prefix, the next address and the order of addresses become    *)
(* arithmetic on numbers; merging and searching are then about intervals   *)
(* of numbers, and go by induction on the sorted intervals.                *)
(***************************************************************************)
EXTENDS Netset, FiniteSetTheorems, WellFoundedInduction, TLAPS

(* A set of numbers that has 0 and the next of each is all of them.        *)
LEMMA NatInd ==
  ASSUME NEW T \in SUBSET Nat, 0 \in T, \A n \in T : n + 1 \in T
  PROVE  T = Nat
  <1> SUFFICES ASSUME T # Nat PROVE FALSE
    BY Zenon
  <1> DEFINE M == Nat \ T
             R == OpToRel(<, Nat)
  <1>1. M \subseteq Nat /\ M # {}
    BY Zenon
  <1>2. \A x, y \in Nat : y < x => <<y, x>> \in R
    BY Zenon DEF OpToRel
  <1>3. IsWellFoundedOn(R, Nat)
    BY NatLessThanWellFounded, Zenon
  <1> HIDE DEF R, M
  <1>4. PICK x \in M : \A y \in M : ~(<<y, x>> \in R)
    BY ONLY <1>1, <1>3, WFMin, Zenon
  <1>5. x \in Nat /\ x # 0 /\ x \notin T
    BY DEF M
  <1>6. x - 1 \in Nat /\ x - 1 < x
    BY ONLY <1>5
  <1>7. x - 1 \in M \/ (x - 1) + 1 \in T
    BY ONLY <1>6, \A n \in T : n + 1 \in T, M = Nat \ T DEF M
  <1>8. (x - 1) + 1 = x
    BY ONLY <1>5
  <1> QED BY <1>2, <1>4, <1>5, <1>6, <1>7, <1>8, Zenon

(* A set of numbers that is not empty has a least one.                     *)
LEMMA LeastNat ==
  ASSUME NEW T \in SUBSET Nat, T # {}
  PROVE  \E n \in T : \A m \in T : n =< m
  <1> DEFINE R == OpToRel(<, Nat)
  <1>2. \A x, y \in Nat : y < x => <<y, x>> \in R
    BY Zenon DEF OpToRel
  <1>3. IsWellFoundedOn(R, Nat)
    BY NatLessThanWellFounded, Zenon
  <1> HIDE DEF R
  <1>4. PICK x \in T : \A y \in T : ~(<<y, x>> \in R)
    BY ONLY <1>3, T \in SUBSET Nat, T # {}, WFMin, Zenon
  <1>5. \A y \in T : ~(y < x)
    BY ONLY <1>2, <1>4, T \in SUBSET Nat, Zenon
  <1>6. \A y \in T : x =< y
    BY <1>5
  <1> QED BY <1>6, Zenon

-----------------------------------------------------------------------------
(* Powers of two.                                                          *)

(* g is Pow2 up to m.                                                      *)
Step(g, n) == IF n = 0 THEN 1 ELSE 2 * g[n - 1]
UpTo(g, m) == \A n \in 0 .. m : g[n] = Step(g, n)

(* The powers of two up to any length exist.                               *)
LEMMA PowersExist ==
  ASSUME NEW m \in Nat
  PROVE  \E g : UpTo(g, m)
  <1> DEFINE T == {k \in Nat : \E g : UpTo(g, k)}
  <1>1. 0 \in T
    <2> DEFINE g == [n \in 0 .. 0 |-> 1]
    <2>1. g[0] = 1
      OBVIOUS
    <2> HIDE DEF g
    <2>2. UpTo(g, 0)
      BY <2>1 DEF UpTo, Step
    <2> QED BY <2>2, Zenon
  <1>2. ASSUME NEW k \in T PROVE k + 1 \in T
    <2>1. PICK g : UpTo(g, k)
      BY Zenon
    <2> DEFINE h == [n \in 0 .. k + 1 |-> IF n = k + 1 THEN 2 * g[k] ELSE g[n]]
    <2>2. k \in Nat
      OBVIOUS
    <2>3. (\A n \in 0 .. k : h[n] = g[n]) /\ h[k + 1] = 2 * g[k]
      BY <2>2
    <2> HIDE DEF h, T
    <2>4. ASSUME NEW n \in 0 .. k + 1 PROVE h[n] = Step(h, n)
      <3>1. CASE n = 0
        BY <2>1, <2>2, <2>3, <3>1 DEF UpTo, Step
      <3>2. CASE n \in 1 .. k
        BY <2>1, <2>2, <2>3, <3>2 DEF UpTo, Step
      <3>3. CASE n = k + 1
        BY <2>2, <2>3, <3>3 DEF Step
      <3> QED BY <2>2, <3>1, <3>2, <3>3
    <2>5. UpTo(h, k + 1)
      BY ONLY <2>4 DEF UpTo
    <2> QED BY <2>2, <2>5 DEF T
  <1> HIDE DEF T
  <1>3. T \in SUBSET Nat
    BY DEF T
  <1>4. T = Nat
    BY ONLY <1>1, <1>2, <1>3, NatInd, Zenon
  <1> QED BY ONLY <1>4, m \in Nat, Zenon DEF T

(* Two such functions agree.                                               *)
LEMMA PowersAgree ==
  ASSUME NEW g, NEW h, NEW m \in Nat, NEW l \in Nat, UpTo(g, m), UpTo(h, l)
  PROVE  \A n \in Nat : n =< m /\ n =< l => g[n] = h[n]
  <1> DEFINE T == {n \in Nat : n =< m /\ n =< l => g[n] = h[n]}
  <1>1. 0 \in T
    BY DEF UpTo, Step
  <1>2. ASSUME NEW n \in T PROVE n + 1 \in T
    BY DEF UpTo, Step
  <1> HIDE DEF T
  <1>3. T \in SUBSET Nat
    BY DEF T
  <1>4. T = Nat
    BY ONLY <1>1, <1>2, <1>3, NatInd, Zenon
  <1> QED BY ONLY <1>4, Zenon DEF T

(* Pow2 is what its definition says.                                       *)
LEMMA Pow2Is ==
  /\ Pow2[0] = 1
  /\ \A n \in Nat : Pow2[n + 1] = 2 * Pow2[n]
  <1> DEFINE G(m) == CHOOSE g : UpTo(g, m)
             F == [n \in Nat |-> G(n)[n]]
             P(f) == f = [n \in Nat |-> IF n = 0 THEN 1 ELSE 2 * f[n - 1]]
  <1>1. \A m \in Nat : UpTo(G(m), m)
    BY PowersExist, Zenon
  <1> HIDE DEF G
  <1>2. \A n \in Nat : F[n] = G(n)[n]
    BY Zenon
  <1>3. F = [n \in Nat |-> F[n]]
    BY Zenon
  <1> HIDE DEF F
  <1>4. ASSUME NEW n \in Nat PROVE F[n] = IF n = 0 THEN 1 ELSE 2 * F[n - 1]
    <2>1. CASE n = 0
      <3>1. G(0)[0] = 1
        BY <1>1 DEF UpTo, Step
      <3> QED BY <1>2, <2>1, <3>1
    <2>2. CASE n # 0
      <3>1. n - 1 \in Nat /\ n - 1 =< n
        BY <2>2
      <3>2. G(n)[n - 1] = G(n - 1)[n - 1]
        BY <1>1, <3>1, PowersAgree
      <3>3. G(n)[n] = 2 * G(n)[n - 1]
        <4>1. UpTo(G(n), n)
          BY <1>1
        <4> QED BY ONLY <2>2, <4>1, n \in Nat DEF UpTo, Step
      <3> QED BY ONLY <1>2, <2>2, <3>1, <3>2, <3>3, n \in Nat
    <2> QED BY <2>1, <2>2
  <1>5. P(F)
    BY ONLY <1>3, <1>4, Zenon
  <1> DEFINE Q == CHOOSE f : P(f)
  <1>6. Pow2 = Q
    BY Zenon DEF Pow2
  <1> HIDE DEF P
  <1>7. P(Q)
    BY <1>5, Zenon
  <1> HIDE DEF Q
  <1>8. Pow2 = [n \in Nat |-> IF n = 0 THEN 1 ELSE 2 * Pow2[n - 1]]
    BY ONLY <1>6, <1>7, Zenon DEF P
  <1>9. \A n \in Nat : Pow2[n] = IF n = 0 THEN 1 ELSE 2 * Pow2[n - 1]
    BY ONLY <1>8, Zenon
  <1>10. Pow2[0] = 1
    BY ONLY <1>9
  <1>11. ASSUME NEW n \in Nat PROVE Pow2[n + 1] = 2 * Pow2[n]
    <2>1. n + 1 \in Nat /\ n + 1 # 0 /\ (n + 1) - 1 = n
      OBVIOUS
    <2>2. Pow2[n + 1] = 2 * Pow2[(n + 1) - 1]
      BY ONLY <1>9, <2>1, Zenon
    <2> QED BY ONLY <2>1, <2>2, Zenon
  <1> QED BY ONLY <1>10, <1>11, Zenon

(* A power of two is a positive number.                                    *)
LEMMA Pow2Type == \A n \in Nat : Pow2[n] \in Nat \ {0}
  <1> DEFINE T == {n \in Nat : Pow2[n] \in Nat \ {0}}
  <1>1. 0 \in T
    BY Pow2Is
  <1>2. ASSUME NEW n \in T PROVE n + 1 \in T
    BY Pow2Is
  <1> HIDE DEF T
  <1>3. T \in SUBSET Nat
    BY DEF T
  <1>4. T = Nat
    BY ONLY <1>1, <1>2, <1>3, NatInd, Zenon
  <1> QED BY ONLY <1>4, Zenon DEF T

(* The power of a sum is the product of the powers.                        *)
LEMMA Pow2Sum ==
  ASSUME NEW m \in Nat, NEW n \in Nat
  PROVE  Pow2[m + n] = Pow2[m] * Pow2[n]
  <1> DEFINE T == {k \in Nat : Pow2[m + k] = Pow2[m] * Pow2[k]}
  <1>1. 0 \in T
    BY Pow2Is, Pow2Type
  <1>2. ASSUME NEW k \in T PROVE k + 1 \in T
    <2>1. k \in Nat /\ Pow2[m + k] = Pow2[m] * Pow2[k]
      OBVIOUS
    <2>2. m + (k + 1) = (m + k) + 1 /\ m + k \in Nat
      BY <2>1
    <2>3. Pow2[m + (k + 1)] = 2 * (Pow2[m] * Pow2[k])
      BY ONLY <2>1, <2>2, Pow2Is
    <2>4. Pow2[k + 1] = 2 * Pow2[k]
      BY ONLY <2>1, Pow2Is
    <2>5. Pow2[m] \in Nat /\ Pow2[k] \in Nat
      BY ONLY <2>1, m \in Nat, Pow2Type
    <2>6. \A x, y \in Nat : 2 * (x * y) = x * (2 * y)
      OBVIOUS
    <2> QED BY ONLY <2>1, <2>3, <2>4, <2>5, <2>6
  <1> HIDE DEF T
  <1>3. T \in SUBSET Nat
    BY DEF T
  <1>4. T = Nat
    BY ONLY <1>1, <1>2, <1>3, NatInd, Zenon
  <1> QED BY ONLY <1>4, n \in Nat, Zenon DEF T

(* More bits make a larger power.                                          *)
LEMMA Pow2Less ==
  ASSUME NEW m \in Nat, NEW n \in Nat, m < n
  PROVE  Pow2[m] < Pow2[n]
  <1> DEFINE T == {k \in Nat : Pow2[m] < Pow2[m + k + 1]}
  <1>1. 0 \in T
    BY Pow2Is, Pow2Type
  <1>2. ASSUME NEW k \in T PROVE k + 1 \in T
    <2>1. k \in Nat /\ Pow2[m] < Pow2[m + k + 1]
      OBVIOUS
    <2>2. m + (k + 1) + 1 = (m + k + 1) + 1 /\ m + k + 1 \in Nat
      BY <2>1
    <2>3. Pow2[m + (k + 1) + 1] = 2 * Pow2[m + k + 1]
      BY ONLY <2>2, Pow2Is
    <2>4. Pow2[m + k + 1] \in Nat /\ Pow2[m] \in Nat
      BY ONLY <2>2, m \in Nat, Pow2Type
    <2> QED BY ONLY <2>1, <2>3, <2>4
  <1> HIDE DEF T
  <1>3. T \in SUBSET Nat
    BY DEF T
  <1>4. T = Nat
    BY ONLY <1>1, <1>2, <1>3, NatInd, Zenon
  <1>5. n - m - 1 \in T
    BY <1>4
  <1>6. m + (n - m - 1) + 1 = n
    OBVIOUS
  <1>7. Pow2[m] < Pow2[m + (n - m - 1) + 1]
    BY ONLY <1>5, Zenon DEF T
  <1> QED BY ONLY <1>6, <1>7

-----------------------------------------------------------------------------
(* Quotients and remainders.                                               *)

(* What division with a remainder gives.                                   *)
LEMMA DivMod ==
  ASSUME NEW n \in Nat, NEW P \in Nat \ {0}
  PROVE  /\ n \div P \in Nat /\ (n % P) \in Nat /\ (n % P) < P /\ (n % P) =< n
         /\ n = P * (n \div P) + (n % P)
  OBVIOUS

(* The quotient and the remainder are the only ones.                       *)
LEMMA DivUnique ==
  ASSUME NEW n \in Nat, NEW P \in Nat \ {0}, NEW q \in Nat, NEW r \in Nat, r < P, n = P * q + r
  PROVE  n \div P = q /\ (n % P) = r
  <1>1. PICK d \in Nat : d = n \div P
    BY DivMod
  <1>2. PICK e \in Nat : e = (n % P)
    BY DivMod
  <1>3. n = P * d + e /\ e < P
    BY <1>1, <1>2, DivMod
  <1>4. ~(d < q)
    <2> SUFFICES ASSUME d < q PROVE FALSE
      OBVIOUS
    <2>1. P * d + P =< P * q
      <3>1. PICK k \in Nat : q = d + 1 + k
        <4>1. q - d - 1 \in Nat /\ q = d + 1 + (q - d - 1)
          OBVIOUS
        <4> QED BY <4>1
      <3>2. P * q = P * d + P + P * k /\ P * k >= 0
        BY <3>1
      <3>3. P * d \in Nat /\ P * k \in Nat
        BY <3>1
      <3> QED BY <3>2, <3>3
    <2>2. P * d \in Nat /\ P * q \in Nat
      OBVIOUS
    <2> QED BY <1>3, <2>1, <2>2
  <1>5. ~(q < d)
    <2> SUFFICES ASSUME q < d PROVE FALSE
      OBVIOUS
    <2>1. P * q + P =< P * d
      <3>1. PICK k \in Nat : d = q + 1 + k
        <4>1. d - q - 1 \in Nat /\ d = q + 1 + (d - q - 1)
          OBVIOUS
        <4> QED BY <4>1
      <3>2. P * d = P * q + P + P * k /\ P * k >= 0
        BY <3>1
      <3>3. P * q \in Nat /\ P * k \in Nat
        BY <3>1
      <3> QED BY <3>2, <3>3
    <2>2. P * d \in Nat /\ P * q \in Nat
      OBVIOUS
    <2> QED BY <1>3, <2>1, <2>2
  <1>6. d = q
    BY <1>4, <1>5
  <1>7. P * q \in Nat
    OBVIOUS
  <1>8. e = r
    BY <1>3, <1>6, <1>7
  <1> QED BY <1>1, <1>2, <1>6, <1>8

(* Products grow with their factors.                                       *)
LEMMA Multiples ==
  ASSUME NEW x \in Nat, NEW y \in Nat, NEW P \in Nat, x < y
  PROVE  P * x + P =< P * y
  <1>1. PICK k \in Nat : y = x + 1 + k
    <2>1. y - x - 1 \in Nat /\ y = x + 1 + (y - x - 1)
      OBVIOUS
    <2> QED BY <2>1
  <1>2. P * y = P * x + P + P * k
    BY <1>1
  <1>3. P * k \in Nat /\ P * x \in Nat
    BY <1>1
  <1> QED BY <1>2, <1>3

(* The multiple of P below n, and the number before the one above.         *)
LEMMA Block ==
  ASSUME NEW n \in Nat, NEW m \in Nat, NEW P \in Nat \ {0}
  PROVE  (n \div P = m \div P) <=> (n - (n % P) =< m /\ m =< n - (n % P) + P - 1)
  <1>1. PICK q \in Nat, r \in Nat : q = n \div P /\ r = (n % P)
    BY DivMod, SMTT(30)
  <1>2. PICK d \in Nat, e \in Nat : d = m \div P /\ e = (m % P)
    BY DivMod
  <1>3. n = P * q + r /\ r < P /\ m = P * d + e /\ e < P
    BY <1>1, <1>2, DivMod
  <1>4. P * q \in Nat /\ P * d \in Nat
    OBVIOUS
  <1>5. CASE q = d
    BY <1>1, <1>2, <1>3, <1>4, <1>5
  <1>6. CASE q < d
    <2>1. P * q + P =< P * d
      BY ONLY <1>6, Multiples, q \in Nat, d \in Nat, P \in Nat \ {0}
    <2> QED BY <1>1, <1>2, <1>3, <1>4, <1>6, <2>1
  <1>7. CASE d < q
    <2>1. P * d + P =< P * q
      BY ONLY <1>7, Multiples, q \in Nat, d \in Nat, P \in Nat \ {0}
    <2> QED BY <1>1, <1>2, <1>3, <1>4, <1>7, <2>1
  <1> QED BY <1>5, <1>6, <1>7

(* Filling the low bits of a number stays below a multiple of P above it.  *)
LEMMA BlockBelow ==
  ASSUME NEW n \in Nat, NEW P \in Nat \ {0}, NEW Q \in Nat, n < Q * P
  PROVE  n - (n % P) + P - 1 < Q * P /\ n - (n % P) \in Nat /\ n - (n % P) =< n
  <1>1. PICK q \in Nat, r \in Nat : q = n \div P /\ r = (n % P)
    BY DivMod
  <1>2. n = P * q + r /\ r < P
    BY <1>1, DivMod
  <1>3. P * q \in Nat /\ Q * P = P * Q /\ P * Q \in Nat
    OBVIOUS
  <1>4. q < Q
    <2> SUFFICES ASSUME Q =< q PROVE FALSE
      OBVIOUS
    <2>1. P * Q =< P * q
      <3>1. CASE Q = q
        BY <3>1
      <3>2. CASE Q < q
        <4>1. P * Q + P =< P * q
          BY ONLY <3>2, Multiples, q \in Nat, Q \in Nat, P \in Nat \ {0}
        <4> QED BY <1>3, <4>1
      <3> QED BY <3>1, <3>2
    <2> QED BY <1>2, <1>3, <2>1
  <1>5. P * q + P =< P * Q
    BY ONLY <1>4, Multiples, q \in Nat, Q \in Nat, P \in Nat \ {0}
  <1> QED BY <1>1, <1>2, <1>3, <1>5

-----------------------------------------------------------------------------
(* Addresses as numbers.                                                   *)

(* The widths of the two families and their powers.                        *)
LEMMA Widths ==
  /\ W4 \in Nat /\ D \in Nat /\ W4 < D
  /\ Pow2[W4] \in Nat /\ Pow2[D] \in Nat /\ 0 < Pow2[W4] /\ Pow2[W4] < Pow2[D]
  <1>1. W4 \in Nat /\ D \in Nat /\ W4 < D
    BY NetsetAssumption
  <1>2. Pow2[W4] \in Nat \ {0} /\ Pow2[D] \in Nat \ {0}
    BY <1>1, Pow2Type
  <1>3. Pow2[W4] < Pow2[D]
    BY <1>1, Pow2Less
  <1> QED BY <1>1, <1>2, <1>3

(* What an address is: its family and its words, in range.                 *)
LEMMA AddrIs ==
  ASSUME NEW a \in Addresses
  PROVE  /\ a.fam = 4 \/ a.fam = 6
         /\ a.hi \in Nat /\ a.hi < Pow2[D] /\ a.lo \in Nat /\ a.lo < Pow2[D]
         /\ a.fam = 4 => a.hi = 0 /\ a.lo < Pow2[W4]
         /\ a = [fam |-> a.fam, hi |-> a.hi, lo |-> a.lo]
  <1>1. CASE \E n \in 0 .. Pow2[W4] - 1 : a = V4(n)
    BY <1>1, Widths DEF V4
  <1>2. CASE \E h, l \in 0 .. Pow2[D] - 1 : a = V6(h, l)
    BY <1>2, Widths DEF V6
  <1> QED BY <1>1, <1>2 DEF Addresses

(* V4 and V6 of words in range are addresses.                              *)
LEMMA IsAddr ==
  /\ \A n \in Nat : n < Pow2[W4] => V4(n) \in Addresses /\ V4(n).fam = 4 /\ V4(n).hi = 0 /\ V4(n).lo = n
  /\ \A h, l \in Nat : h < Pow2[D] /\ l < Pow2[D] =>
       V6(h, l) \in Addresses /\ V6(h, l).fam = 6 /\ V6(h, l).hi = h /\ V6(h, l).lo = l
  <1>1. ASSUME NEW n \in Nat, n < Pow2[W4]
        PROVE  V4(n) \in Addresses /\ V4(n).fam = 4 /\ V4(n).hi = 0 /\ V4(n).lo = n
    <2>1. n \in 0 .. Pow2[W4] - 1
      BY <1>1, Widths
    <2>2. V4(n) \in Addresses
      BY <2>1 DEF Addresses
    <2> QED BY <2>2 DEF V4
  <1>2. ASSUME NEW h \in Nat, NEW l \in Nat, h < Pow2[D], l < Pow2[D]
        PROVE  V6(h, l) \in Addresses /\ V6(h, l).fam = 6 /\ V6(h, l).hi = h /\ V6(h, l).lo = l
    <2>1. h \in 0 .. Pow2[D] - 1 /\ l \in 0 .. Pow2[D] - 1
      BY <1>2, Widths
    <2>2. V6(h, l) \in Addresses
      BY <2>1 DEF Addresses
    <2> QED BY <2>2 DEF V6
  <1> QED BY <1>1, <1>2, Zenon

(* The number of an address.                                               *)
LEMMA ValueType ==
  ASSUME NEW a \in Addresses
  PROVE  /\ Value(a) \in Nat
         /\ a.fam = 4 => Value(a) = a.lo
         /\ a.fam = 6 => Value(a) = a.hi * Pow2[D] + a.lo
  <1>1. a.hi \in Nat /\ a.lo \in Nat /\ (a.fam = 4 \/ a.fam = 6) /\ Pow2[D] \in Nat
    BY AddrIs, Widths
  <1>2. a.hi * Pow2[D] \in Nat
    BY <1>1
  <1> QED BY <1>1, <1>2 DEF Value

(* The order of addresses is the order of their numbers (netip.Compare).   *)
LEMMA ValueOrder ==
  ASSUME NEW a \in Addresses, NEW b \in Addresses, a.fam = b.fam
  PROVE  /\ Less(a, b) <=> Value(a) < Value(b)
         /\ a = b <=> Value(a) = Value(b)
  <1>0. PICK T \in Nat : T = Pow2[D] /\ T > 0
    BY Widths
  <1>1. /\ a.fam = 4 \/ a.fam = 6
        /\ a.hi \in Nat /\ a.hi < T /\ a.lo \in Nat /\ a.lo < T
        /\ a.fam = 4 => a.hi = 0
        /\ a = [fam |-> a.fam, hi |-> a.hi, lo |-> a.lo]
    BY <1>0, AddrIs
  <1>2. /\ b.hi \in Nat /\ b.hi < T /\ b.lo \in Nat /\ b.lo < T
        /\ b.fam = 4 => b.hi = 0
        /\ b = [fam |-> b.fam, hi |-> b.hi, lo |-> b.lo]
    BY <1>0, AddrIs
  <1>3. a = b <=> a.hi = b.hi /\ a.lo = b.lo
    BY ONLY <1>1, <1>2, a.fam = b.fam
  <1>4. Less(a, b) <=> a.hi < b.hi \/ (a.hi = b.hi /\ a.lo < b.lo)
    BY ONLY <1>1, <1>2, a.fam = b.fam DEF Less
  <1>5. CASE a.fam = 4
    BY <1>1, <1>2, <1>3, <1>4, <1>5, ValueType
  <1>6. CASE a.fam = 6
    <2>1. PICK x \in Nat, y \in Nat : x = a.hi /\ y = b.hi
      BY <1>1, <1>2
    <2>2. PICK u \in Nat, v \in Nat : u = a.lo /\ v = b.lo /\ u < T /\ v < T
      BY <1>1, <1>2
    <2>3. Value(a) = T * x + u /\ Value(b) = T * y + v
      <3>1. Value(a) = x * T + u /\ Value(b) = y * T + v
        BY <1>0, <1>6, <2>1, <2>2, ValueType, Zenon
      <3>2. x * T = T * x /\ y * T = T * y
        OBVIOUS
      <3> QED BY <3>1, <3>2
    <2>4. T * x \in Nat /\ T * y \in Nat
      OBVIOUS
    <2>5. CASE x = y
      BY <1>3, <1>4, <2>1, <2>2, <2>3, <2>4, <2>5
    <2>6. CASE x < y
      <3>1. T * x + T =< T * y
        BY ONLY <2>6, Multiples, x \in Nat, y \in Nat, T \in Nat
      <3> QED BY <1>3, <1>4, <2>1, <2>2, <2>3, <2>4, <2>6, <3>1
    <2>7. CASE y < x
      <3>1. T * y + T =< T * x
        BY ONLY <2>7, Multiples, x \in Nat, y \in Nat, T \in Nat
      <3> QED BY <1>3, <1>4, <2>1, <2>2, <2>3, <2>4, <2>7, <3>1
    <2> QED BY <2>5, <2>6, <2>7
  <1> QED BY <1>1, <1>5, <1>6

(* netip.Addr.Unmap gives an address that is no IPv4-mapped one.           *)
LEMMA UnmapType ==
  ASSUME NEW a \in Addresses
  PROVE  /\ Unmap(a) \in Addresses /\ ~Is4In6(Unmap(a))
         /\ Is4In6(a) => a.fam = 6 /\ Unmap(a).fam = 4
         /\ ~Is4In6(a) => Unmap(a) = a
  <1>1. CASE Is4In6(a)
    <2>1. PICK n \in Nat : n = a.lo % Pow2[W4] /\ n < Pow2[W4]
      BY AddrIs, Widths, DivMod
    <2>2. Unmap(a) = V4(n)
      BY <1>1, <2>1, Zenon DEF Unmap
    <2>3. V4(n) \in Addresses /\ V4(n).fam = 4
      BY <2>1, IsAddr
    <2> QED BY <1>1, <2>2, <2>3 DEF Is4In6
  <1>2. CASE ~Is4In6(a)
    BY <1>2, Zenon DEF Unmap
  <1> QED BY <1>1, <1>2, Zenon

(* The next address is the next number, and there is none in another       *)
(* family; after an IPv4-mapped address there is none in its own           *)
(* (nextAddr).                                                             *)
LEMMA NextIs ==
  ASSUME NEW a \in Addresses, NEW b \in Addresses, a.fam = b.fam
  PROVE  /\ nextAddr(a) = b => ~Is4In6(a) /\ Value(b) = Value(a) + 1
         /\ ~Is4In6(a) /\ Less(a, b) =>
              nextAddr(a) # NoAddr /\ (nextAddr(a) = b \/ Less(nextAddr(a), b))
  <1>0. PICK T \in Nat, U \in Nat : T = Pow2[D] /\ U = Pow2[W4] /\ U < T /\ U > 0
    BY Widths
  <1>1. /\ a.fam = 4 \/ a.fam = 6
        /\ a.hi \in Nat /\ a.hi < T /\ a.lo \in Nat /\ a.lo < T
        /\ a.fam = 4 => a.hi = 0 /\ a.lo < U
        /\ a = [fam |-> a.fam, hi |-> a.hi, lo |-> a.lo]
    BY <1>0, AddrIs
  <1>2. /\ b.hi \in Nat /\ b.hi < T /\ b.lo \in Nat /\ b.lo < T
        /\ b.fam = 4 => b.hi = 0 /\ b.lo < U
        /\ b = [fam |-> b.fam, hi |-> b.hi, lo |-> b.lo]
    BY <1>0, AddrIs
  <1>3. CASE Is4In6(a)
    <2>1. Unmap(a).fam = 4 /\ a.fam = 6
      BY <1>3, UnmapType
    <2>2. nextAddr(a).fam # 6
      BY <2>1 DEF nextAddr, NoAddr
    <2> QED BY <1>3, <2>1, <2>2, Zenon
  <1>4. CASE ~Is4In6(a)
    <2>1. Unmap(a) = a
      BY <1>4, UnmapType
    <2> DEFINE top == IF a.fam = 4 THEN U - 1 ELSE T - 1
    <2>2. nextAddr(a) = CASE a.lo # top -> [fam |-> a.fam, hi |-> a.hi, lo |-> a.lo + 1]
                          [] a.lo = top /\ a.fam = 6 /\ a.hi # top -> V6(a.hi + 1, 0)
                          [] OTHER -> NoAddr
      BY ONLY <1>0, <2>1 DEF nextAddr
    <2>3. a.fam = b.fam /\ (Less(a, b) <=> a.hi < b.hi \/ (a.hi = b.hi /\ a.lo < b.lo))
      BY ONLY <1>1, <1>2, a.fam = b.fam DEF Less
    <2>4. CASE a.lo # top
      <3>1. nextAddr(a) = [fam |-> a.fam, hi |-> a.hi, lo |-> a.lo + 1]
        BY <2>2, <2>4
      <3>2. nextAddr(a) = b <=> b.hi = a.hi /\ b.lo = a.lo + 1
        BY ONLY <3>1, <1>1, <1>2, a.fam = b.fam
      <3>3. nextAddr(a) = b => Value(b) = Value(a) + 1
        <4>1. SUFFICES ASSUME b.hi = a.hi, b.lo = a.lo + 1 PROVE Value(b) = Value(a) + 1
          BY <3>2
        <4>2. CASE a.fam = 4
          BY <1>1, <4>1, <4>2, ValueType, Zenon
        <4>3. CASE a.fam = 6
          <5>1. Value(a) = a.hi * T + a.lo /\ Value(b) = a.hi * T + b.lo
            BY <1>0, <4>1, <4>3, ValueType, Zenon
          <5>2. a.hi * T \in Nat
            BY <1>1
          <5> QED BY <1>1, <4>1, <5>1, <5>2
        <4> QED BY <1>1, <4>2, <4>3
      <3>4. nextAddr(a) # NoAddr
        BY <1>1, <3>1 DEF NoAddr
      <3>5. Less(a, b) => nextAddr(a) = b \/ Less(nextAddr(a), b)
        BY ONLY <1>1, <1>2, <2>3, <3>1, <3>2 DEF Less
      <3> QED BY <1>4, <3>3, <3>4, <3>5
    <2>5. CASE a.lo = top /\ a.fam = 6 /\ a.hi # top
      <3>1. nextAddr(a) = [fam |-> 6, hi |-> a.hi + 1, lo |-> 0] /\ a.lo = T - 1
        BY <2>2, <2>5 DEF V6
      <3>2. nextAddr(a) = b <=> b.hi = a.hi + 1 /\ b.lo = 0
        BY ONLY <3>1, <1>1, <1>2, <2>5, a.fam = b.fam
      <3>3. nextAddr(a) = b => Value(b) = Value(a) + 1
        <4>1. SUFFICES ASSUME b.hi = a.hi + 1, b.lo = 0 PROVE Value(b) = Value(a) + 1
          BY <3>2
        <4>2. Value(a) = a.hi * T + a.lo /\ Value(b) = b.hi * T + b.lo
          BY <1>0, <2>5, ValueType, Zenon
        <4>3. PICK x \in Nat : x = a.hi
          BY <1>1
        <4>4. (x + 1) * T = x * T + T /\ x * T \in Nat
          OBVIOUS
        <4> QED BY <3>1, <4>1, <4>2, <4>3, <4>4
      <3>4. nextAddr(a) # NoAddr
        BY <3>1 DEF NoAddr
      <3>5. Less(a, b) => nextAddr(a) = b \/ Less(nextAddr(a), b)
        BY ONLY <1>1, <1>2, <2>3, <2>5, <3>1, <3>2 DEF Less
      <3> QED BY <1>4, <3>3, <3>4, <3>5
    <2>6. CASE a.lo = top /\ ~(a.fam = 6 /\ a.hi # top)
      <3>1. nextAddr(a) = NoAddr
        BY <2>2, <2>6
      <3>2. nextAddr(a) # b
        BY <1>1, <3>1 DEF NoAddr
      <3>3. ~Less(a, b)
        BY ONLY <1>0, <1>1, <1>2, <2>3, <2>6
      <3> QED BY <3>2, <3>3
    <2> QED BY <2>4, <2>5, <2>6
  <1> QED BY <1>3, <1>4

-----------------------------------------------------------------------------
(* Prefixes as blocks of numbers.                                          *)

(* Clearing the low bits twice is clearing them once.                      *)
LEMMA ClearTwice ==
  ASSUME NEW n \in Nat, NEW P \in Nat \ {0}
  PROVE  n - (n % P) \in Nat /\ (n - (n % P)) % P = 0
  <1>1. PICK q \in Nat, r \in Nat : q = n \div P /\ r = n % P
    BY DivMod
  <1>2. n = P * q + r
    BY <1>1, DivMod
  <1>3. P * q \in Nat /\ P * q = P * q + 0
    OBVIOUS
  <1>4. n - (n % P) = P * q
    BY ONLY <1>1, <1>2, <1>3, r \in Nat
  <1>5. (P * q) % P = 0
    BY ONLY <1>3, DivUnique, q \in Nat, P \in Nat \ {0}
  <1> QED BY ONLY <1>3, <1>4, <1>5

(* The remainder of an address of two words, for a number of host bits     *)
(* that stays in the low word.                                             *)
LEMMA LowWord ==
  ASSUME NEW h \in Nat, NEW l \in Nat, NEW P \in Nat \ {0}, NEW Q \in Nat
  PROVE  (h * (Q * P) + l) % P = l % P
  <1>1. PICK q \in Nat, r \in Nat : q = l \div P /\ r = l % P
    BY DivMod
  <1>2. l = P * q + r /\ r < P
    BY <1>1, DivMod
  <1>3. PICK k \in Nat : k = h * Q
    OBVIOUS
  <1>4. h * (Q * P) = P * k
    BY <1>3
  <1>5. P * k + P * q = P * (k + q) /\ P * k \in Nat /\ P * q \in Nat /\ k + q \in Nat
    OBVIOUS
  <1>6. h * (Q * P) + l = P * (k + q) + r
    BY ONLY <1>2, <1>4, <1>5, r \in Nat
  <1>7. P * (k + q) + r \in Nat
    BY <1>5
  <1>8. (P * (k + q) + r) % P = r
    BY ONLY <1>2, <1>5, <1>7, DivUnique, r \in Nat, P \in Nat \ {0}
  <1> QED BY ONLY <1>1, <1>6, <1>8

(* And for one that reaches into the high word.                            *)
High(h, l, T, R) == (h * T + l) % (R * T) = (h % R) * T + l
(* The remainder of a two-word number keeps its low word.                  *)
LEMMA HighWord ==
  ASSUME NEW h \in Nat, NEW l \in Nat, NEW T \in Nat, NEW R \in Nat \ {0}, l < T
  PROVE  High(h, l, T, R)
  <1>1. PICK q \in Nat, r \in Nat : q = h \div R /\ r = h % R
    BY DivMod, Zenon
  <1>2. h = R * q + r /\ r < R
    BY <1>1, DivMod
  <1>3. (R * q + r) * T = (R * T) * q + r * T
    OBVIOUS
  <1>4. R * T \in Nat \ {0} /\ r * T \in Nat /\ (R * T) * q \in Nat
    <2>1. T > 0
      OBVIOUS
    <2> QED BY <2>1
  <1>5. r * T + l < R * T
    <2>1. T * r + T =< T * R
      BY ONLY <1>2, Multiples, r \in Nat, R \in Nat \ {0}, T \in Nat
    <2>2. T * r = r * T /\ T * R = R * T
      OBVIOUS
    <2> QED BY <1>4, <2>1, <2>2
  <1>6. h * T + l = (R * T) * q + (r * T + l)
    BY ONLY <1>2, <1>3, <1>4, l \in Nat
  <1>7. PICK n \in Nat, P \in Nat \ {0}, s \in Nat : n = h * T + l /\ P = R * T /\ s = r * T + l
    <2>1. h * T \in Nat
      OBVIOUS
    <2>2. h * T + l \in Nat /\ r * T + l \in Nat
      BY <1>4, <2>1
    <2> QED BY <1>4, <2>2, Zenon
  <1>8. n = P * q + s /\ s < P
    BY ONLY <1>5, <1>6, <1>7
  <1>9. n % P = s
    BY ONLY <1>8, DivUnique, n \in Nat, P \in Nat \ {0}, s \in Nat, q \in Nat
  <1> QED BY ONLY <1>1, <1>7, <1>9, Zenon DEF High

(* A prefix that can be written, whose network is not an IPv4-mapped one.  *)
IsPrefix(p) ==
  /\ p.addr \in Addresses /\ p.bits \in 0 .. BitLen(p.addr)
  /\ ~Is4In6(Masked(p).addr)
Size(p) == Pow2[BitLen(p.addr) - p.bits]

(* How many host bits a prefix has, in either family.                      *)
LEMMA HostIs ==
  ASSUME NEW p, IsPrefix(p)
  PROVE  /\ BitLen(p.addr) - p.bits \in Nat
         /\ p.addr.fam = 4 => BitLen(p.addr) = W4 /\ BitLen(p.addr) - p.bits =< W4
         /\ p.addr.fam = 6 => BitLen(p.addr) = 2 * D /\ BitLen(p.addr) - p.bits =< 2 * D
         /\ Size(p) \in Nat \ {0}
  <1>1. p.addr.fam = 4 \/ p.addr.fam = 6
    BY AddrIs DEF IsPrefix
  <1>2. /\ p.addr.fam = 4 => BitLen(p.addr) = W4
        /\ p.addr.fam = 6 => BitLen(p.addr) = 2 * D
    BY DEF BitLen
  <1>3. BitLen(p.addr) \in Nat /\ p.bits \in 0 .. BitLen(p.addr)
    BY <1>1, <1>2, Widths DEF IsPrefix
  <1>4. BitLen(p.addr) - p.bits \in Nat /\ BitLen(p.addr) - p.bits =< BitLen(p.addr)
    BY <1>3
  <1> QED BY <1>1, <1>2, <1>4, Pow2Type DEF Size

(* f and l are the first and the last address of the block of P addresses  *)
(* that a is in.                                                           *)
BlockOf(f, l, a, P) ==
  /\ f \in Addresses /\ f.fam = a.fam /\ Value(f) = Value(a) - (Value(a) % P)
  /\ l \in Addresses /\ l.fam = a.fam /\ Value(l) = Value(f) + P - 1

(* An IPv4 prefix is masked to the first address of its block, and         *)
(* lastAddr gives the last one.                                            *)
LEMMA Block4 ==
  ASSUME NEW p, IsPrefix(p), p.addr.fam = 4
  PROVE  BlockOf(Masked(p).addr, lastAddr(p), p.addr, Size(p))
  <1>1. PICK a : a = p.addr
    BY Zenon
  <1>2. PICK host \in Nat : host = W4 - p.bits /\ host =< W4 /\ host =< D /\ host = BitLen(p.addr) - p.bits
    BY HostIs, Widths
  <1>3. PICK P \in Nat \ {0} : P = Pow2[host]
    BY Pow2Type
  <1>4. a \in Addresses /\ a.fam = 4 /\ a.hi = 0 /\ a.lo \in Nat /\ a.lo < Pow2[W4] /\ Value(a) = a.lo
    BY <1>1, AddrIs, ValueType DEF IsPrefix
  <1>5. PICK n \in Nat : n = a.lo - (a.lo % P)
    BY <1>4, ClearTwice
  <1>6. n + P - 1 < Pow2[W4] /\ n =< a.lo
    <2>1. PICK Q \in Nat : Q = Pow2[W4 - host]
      BY <1>2, Pow2Type, Widths
    <2>2. Pow2[W4] = Q * P
      <3>1. W4 - host \in Nat /\ (W4 - host) + host = W4
        BY <1>2, Widths
      <3> QED BY ONLY <1>3, <2>1, <3>1, Pow2Sum, host \in Nat, Zenon
    <2> QED BY ONLY <1>4, <1>5, <2>2, BlockBelow, P \in Nat \ {0}, Q \in Nat, ZenonT(30)
  <1>7. Masked(p).addr = V4(n) /\ Masked(p).bits = p.bits
    BY ONLY <1>1, <1>2, <1>3, <1>4, <1>5 DEF Masked, Clear, V4
  <1>8. V4(n) \in Addresses /\ V4(n).fam = 4 /\ V4(n).lo = n /\ Value(V4(n)) = n
    BY <1>4, <1>6, IsAddr, ValueType, Widths
  <1>9. Unmap(V4(n)) = V4(n)
    BY <1>7, <1>8, UnmapType DEF IsPrefix
  <1>10. n % P = 0
    BY ONLY <1>4, <1>5, ClearTwice, P \in Nat \ {0}
  <1>11. lastAddr(p) = V4(n + P - 1)
    <2>1. lastAddr(p) = IF p.bits < W4 THEN V4(Ones(n, host)) ELSE V4(n)
      <3>1. BitLen(V4(n)) - p.bits = host
        BY ONLY <1>2, <1>8 DEF BitLen
      <3> QED BY ONLY <1>7, <1>8, <1>9, <3>1 DEF lastAddr
    <2>2. Ones(n, host) = n + P - 1
      BY ONLY <1>3, <1>10, n \in Nat, P \in Nat \ {0} DEF Ones, Clear
    <2>3. p.bits \in Int /\ (~(p.bits < W4) => host = 0)
      BY <1>2, Widths DEF IsPrefix
    <2>4. host = 0 => P = 1
      BY ONLY <1>3, Pow2Is
    <2> QED BY ONLY <2>1, <2>2, <2>3, <2>4, n \in Nat, P \in Nat \ {0}
  <1>12. PICK k \in Nat : k = n + P - 1
    OBVIOUS
  <1>13. V4(k) \in Addresses /\ V4(k).fam = 4 /\ V4(k).lo = k /\ Value(V4(k)) = k
    BY ONLY <1>6, <1>12, IsAddr, ValueType, k \in Nat
  <1>14. Size(p) = P
    BY ONLY <1>2, <1>3 DEF Size
  <1> QED BY ONLY <1>1, <1>4, <1>5, <1>7, <1>8, <1>11, <1>12, <1>13, <1>14 DEF BlockOf

(* The same for an IPv6 prefix whose host bits are in the low word.        *)
LEMMA Block6Low ==
  ASSUME NEW p, IsPrefix(p), p.addr.fam = 6, BitLen(p.addr) - p.bits =< D
  PROVE  BlockOf(Masked(p).addr, lastAddr(p), p.addr, Size(p))
  <1>1. PICK a : a = p.addr
    BY Zenon
  <1>2. PICK host \in Nat : host = 2 * D - p.bits /\ host =< D /\ host = BitLen(p.addr) - p.bits
    BY HostIs, Widths
  <1>3. PICK P \in Nat \ {0}, T \in Nat : P = Pow2[host] /\ T = Pow2[D]
    BY Pow2Type, Widths
  <1>4. /\ a \in Addresses /\ a.fam = 6 /\ a.hi \in Nat /\ a.hi < T /\ a.lo \in Nat /\ a.lo < T
        /\ Value(a) = a.hi * T + a.lo
    BY <1>1, <1>3, AddrIs, ValueType DEF IsPrefix
  <1>5. PICK n \in Nat : n = a.lo - (a.lo % P)
    BY <1>4, ClearTwice
  <1>6. PICK Q \in Nat : T = Q * P
    <2>1. D - host \in Nat /\ (D - host) + host = D
      BY <1>2, Widths
    <2>2. T = Pow2[D - host] * P
      BY ONLY <1>3, <2>1, Pow2Sum, host \in Nat, Zenon
    <2>3. Pow2[D - host] \in Nat
      BY ONLY <2>1, Pow2Type
    <2> QED BY ONLY <2>2, <2>3, Zenon
  <1>7. n + P - 1 < T /\ n =< a.lo
    BY ONLY <1>4, <1>5, <1>6, BlockBelow, P \in Nat \ {0}, Q \in Nat, ZenonT(30)
  <1>8. Masked(p).addr = V6(a.hi, n) /\ Masked(p).bits = p.bits
    BY ONLY <1>1, <1>2, <1>3, <1>4, <1>5 DEF Masked, Clear, V6
  <1>9. PICK h \in Nat : h = a.hi /\ h < T
    BY <1>4
  <1>10. /\ V6(h, n) \in Addresses /\ V6(h, n).fam = 6 /\ V6(h, n).hi = h /\ V6(h, n).lo = n
         /\ Value(V6(h, n)) = h * T + n
    <2>1. V6(h, n) \in Addresses /\ V6(h, n).fam = 6 /\ V6(h, n).hi = h /\ V6(h, n).lo = n
      BY <1>3, <1>4, <1>7, <1>9, IsAddr
    <2> QED BY <1>3, <2>1, ValueType
  <1>11. Unmap(V6(h, n)) = V6(h, n)
    BY <1>8, <1>9, <1>10, UnmapType DEF IsPrefix
  <1>12. n % P = 0
    BY ONLY <1>4, <1>5, ClearTwice, P \in Nat \ {0}
  <1>13. lastAddr(p) = V6(h, n + P - 1)
    <2>1. BitLen(V6(h, n)) - p.bits = host
      BY ONLY <1>2, <1>10 DEF BitLen
    <2>2. lastAddr(p) = IF host < D THEN V6(h, Ones(n, host)) ELSE V6(h, T - 1)
      BY ONLY <1>2, <1>3, <1>8, <1>9, <1>10, <1>11, <2>1, Widths DEF lastAddr
    <2>3. Ones(n, host) = n + P - 1
      BY ONLY <1>3, <1>12, n \in Nat, P \in Nat \ {0} DEF Ones, Clear
    <2>4. host = D => n = 0 /\ P = T
      <3>1. SUFFICES ASSUME host = D PROVE n = 0 /\ P = T
        OBVIOUS
      <3>2. P = T
        BY <1>3, <3>1
      <3> QED BY <1>7, <3>2
    <2>5. host < D \/ host = D
      BY <1>2, Widths
    <2> QED BY ONLY <2>2, <2>3, <2>4, <2>5, T \in Nat
  <1>14. PICK k \in Nat : k = n + P - 1
    OBVIOUS
  <1>15. V6(h, k) \in Addresses /\ V6(h, k).fam = 6 /\ Value(V6(h, k)) = h * T + k
    <2>1. V6(h, k) \in Addresses /\ V6(h, k).fam = 6 /\ V6(h, k).hi = h /\ V6(h, k).lo = k
      BY <1>3, <1>7, <1>9, <1>14, IsAddr
    <2> QED BY <1>3, <2>1, ValueType
  <1>16. Value(a) % P = a.lo % P
    BY ONLY <1>4, <1>6, LowWord, P \in Nat \ {0}, Q \in Nat
  <1>17. Size(p) = P
    BY ONLY <1>2, <1>3 DEF Size
  <1>18. h * T \in Nat /\ (a.lo % P) \in Nat
    BY <1>4, DivMod
  <1>19. Value(V6(h, n)) = Value(a) - (Value(a) % P) /\ Value(V6(h, k)) = Value(V6(h, n)) + P - 1
    BY ONLY <1>4, <1>5, <1>9, <1>10, <1>14, <1>15, <1>16, <1>18, P \in Nat \ {0}
  <1>20. lastAddr(p) = V6(h, k) /\ Masked(p).addr = V6(h, n)
    BY ONLY <1>8, <1>9, <1>13, <1>14
  <1> QED BY ONLY <1>1, <1>4, <1>10, <1>15, <1>17, <1>19, <1>20, Zenon DEF BlockOf

(* The same for an IPv6 prefix whose host bits reach into the high word.   *)
LEMMA Block6High ==
  ASSUME NEW p, IsPrefix(p), p.addr.fam = 6, BitLen(p.addr) - p.bits > D
  PROVE  BlockOf(Masked(p).addr, lastAddr(p), p.addr, Size(p))
  <1>1. PICK a : a = p.addr
    BY Zenon
  <1>2. PICK host \in Nat : host = 2 * D - p.bits /\ host > D /\ host =< 2 * D /\ host = BitLen(p.addr) - p.bits
    BY HostIs, Widths
  <1>3. PICK R \in Nat \ {0}, T \in Nat : R = Pow2[host - D] /\ T = Pow2[D] /\ T > 0
    BY <1>2, Pow2Type, Widths
  <1>4. /\ a \in Addresses /\ a.fam = 6 /\ a.hi \in Nat /\ a.hi < T /\ a.lo \in Nat /\ a.lo < T
        /\ Value(a) = a.hi * T + a.lo
    BY <1>1, <1>3, AddrIs, ValueType DEF IsPrefix
  <1>5. PICK n \in Nat : n = a.hi - (a.hi % R)
    BY <1>4, ClearTwice
  <1>6. PICK Q \in Nat : T = Q * R
    <2>1. host - D \in Nat /\ 2 * D - host \in Nat /\ (2 * D - host) + (host - D) = D
      BY <1>2, Widths
    <2>2. T = Pow2[2 * D - host] * R
      <3>1. Pow2[(2 * D - host) + (host - D)] = Pow2[2 * D - host] * Pow2[host - D]
        BY ONLY <2>1, Pow2Sum, Zenon
      <3> QED BY ONLY <1>3, <2>1, <3>1, Zenon
    <2>3. Pow2[2 * D - host] \in Nat
      BY ONLY <2>1, Pow2Type
    <2> QED BY ONLY <2>2, <2>3, Zenon
  <1>7. n + R - 1 < T /\ n =< a.hi
    BY ONLY <1>4, <1>5, <1>6, BlockBelow, R \in Nat \ {0}, Q \in Nat, Zenon
  <1>8. Masked(p).addr = V6(n, 0) /\ Masked(p).bits = p.bits
    <2>1. ~(host =< D)
      BY <1>2, Widths
    <2> QED BY ONLY <1>1, <1>2, <1>3, <1>5, <2>1 DEF Masked, Clear
  <1>9. /\ V6(n, 0) \in Addresses /\ V6(n, 0).fam = 6 /\ V6(n, 0).hi = n /\ V6(n, 0).lo = 0
        /\ Value(V6(n, 0)) = n * T + 0
    <2>1. V6(n, 0) \in Addresses /\ V6(n, 0).fam = 6 /\ V6(n, 0).hi = n /\ V6(n, 0).lo = 0
      BY <1>3, <1>4, <1>7, IsAddr
    <2> QED BY <1>3, <2>1, ValueType
  <1>10. Unmap(V6(n, 0)) = V6(n, 0)
    BY <1>8, <1>9, UnmapType DEF IsPrefix
  <1>11. n % R = 0
    BY ONLY <1>4, <1>5, ClearTwice, R \in Nat \ {0}
  <1>12. PICK k \in Nat, t \in Nat : k = n + R - 1 /\ t = T - 1
    BY <1>3
  <1>13. lastAddr(p) = V6(k, t)
    <2>1. BitLen(V6(n, 0)) - p.bits = host
      BY ONLY <1>2, <1>9 DEF BitLen
    <2>2. ~(host < D) /\ host # D
      BY <1>2, Widths
    <2>3. lastAddr(p) = V6(Ones(n, host - D), T - 1)
      BY ONLY <1>3, <1>8, <1>9, <1>10, <2>1, <2>2 DEF lastAddr
    <2>4. Ones(n, host - D) = n + R - 1
      BY ONLY <1>3, <1>11, n \in Nat, R \in Nat \ {0} DEF Ones, Clear
    <2> QED BY ONLY <1>12, <2>3, <2>4
  <1>14. V6(k, t) \in Addresses /\ V6(k, t).fam = 6 /\ Value(V6(k, t)) = k * T + t
    <2>1. V6(k, t) \in Addresses /\ V6(k, t).fam = 6 /\ V6(k, t).hi = k /\ V6(k, t).lo = t
      BY <1>3, <1>7, <1>12, IsAddr
    <2> QED BY <1>3, <2>1, ValueType
  <1>15. PICK r \in Nat : r = a.hi % R
    BY <1>4, DivMod
  <1>16. Value(a) % (R * T) = r * T + a.lo
    <2>1. PICK h \in Nat, l \in Nat : h = a.hi /\ l = a.lo
      BY <1>4
    <2>2. l < T
      BY <1>4, <2>1
    <2>3. High(h, l, T, R)
      BY ONLY <2>2, HighWord, h \in Nat, l \in Nat, R \in Nat \ {0}, T \in Nat, Zenon
    <2> QED BY ONLY <1>4, <1>15, <2>1, <2>3, Zenon DEF High
  <1>17. Size(p) = R * T
    <2>1. host - D \in Nat /\ (host - D) + D = host /\ D \in Nat
      BY <1>2, Widths
    <2>2. Pow2[(host - D) + D] = Pow2[host - D] * Pow2[D]
      BY ONLY <2>1, Pow2Sum, Zenon
    <2> QED BY ONLY <1>2, <1>3, <2>1, <2>2, Zenon DEF Size
  <1>18. a.hi = n + r
    BY ONLY <1>4, <1>5, <1>15, n \in Nat, r \in Nat
  <1>19. (n + r) * T = n * T + r * T /\ (n + R - 1) * T = n * T + R * T - T
    OBVIOUS
  <1>20. n * T \in Nat /\ r * T \in Nat /\ R * T \in Nat
    OBVIOUS
  <1>21. Value(V6(n, 0)) = Value(a) - (Value(a) % (R * T))
    BY ONLY <1>4, <1>9, <1>16, <1>18, <1>19, <1>20
  <1>22. Value(V6(k, t)) = Value(V6(n, 0)) + R * T - 1
    BY ONLY <1>9, <1>12, <1>14, <1>19, <1>20, T \in Nat
  <1> QED BY ONLY <1>1, <1>4, <1>8, <1>9, <1>13, <1>14, <1>17, <1>21, <1>22, Zenon DEF BlockOf

(* Masking a prefix and filling it give the first and the last address of  *)
(* its block (netip.Masked, lastAddr).                                     *)
LEMMA PrefixBlock ==
  ASSUME NEW p, IsPrefix(p)
  PROVE  BlockOf(Masked(p).addr, lastAddr(p), p.addr, Size(p))
  <1>1. p.addr.fam = 4 \/ p.addr.fam = 6
    BY AddrIs DEF IsPrefix
  <1>2. BitLen(p.addr) - p.bits =< D \/ BitLen(p.addr) - p.bits > D
    BY HostIs, Widths
  <1> QED BY ONLY <1>1, <1>2, IsPrefix(p), Block4, Block6Low, Block6High, Zenon

(* a is among the addresses of iv.                                         *)
In(a, iv) == ~Less(a, iv.Start) /\ ~Less(iv.End, a)

(* An address is in the block exactly when it agrees with the prefix in    *)
(* its first bits.                                                         *)
LEMMA BlockAgrees ==
  ASSUME NEW p, IsPrefix(p), NEW a \in Addresses, a.fam = p.addr.fam,
         NEW iv, iv.Start = Masked(p).addr, iv.End = lastAddr(p)
  PROVE  Agree(p.addr, a, p.bits) <=> In(a, iv)
  <1>1. PICK P \in Nat \ {0} : P = Size(p)
    BY HostIs
  <1>2. PICK f \in Addresses, l \in Addresses : f = iv.Start /\ l = iv.End
    BY PrefixBlock DEF BlockOf
  <1>3. /\ f.fam = a.fam /\ l.fam = a.fam
        /\ Value(f) = Value(p.addr) - (Value(p.addr) % P) /\ Value(l) = Value(f) + P - 1
    BY <1>1, <1>2, PrefixBlock DEF BlockOf
  <1>4. p.addr \in Addresses
    BY DEF IsPrefix
  <1>5. PICK n \in Nat, m \in Nat : n = Value(p.addr) /\ m = Value(a)
    BY <1>4, ValueType
  <1>6. Agree(p.addr, a, p.bits) <=> n \div P = m \div P
    BY ONLY <1>1, <1>5, a.fam = p.addr.fam DEF Agree, Size
  <1>7. (n \div P = m \div P) <=> (n - (n % P) =< m /\ m =< n - (n % P) + P - 1)
    BY ONLY Block, n \in Nat, m \in Nat, P \in Nat \ {0}, Zenon
  <1>8. In(a, iv) <=> ~(Value(a) < Value(f)) /\ ~(Value(l) < Value(a))
    BY <1>2, <1>3, ValueOrder DEF In
  <1>9. n - (n % P) \in Nat
    BY ClearTwice
  <1> QED BY ONLY <1>3, <1>5, <1>6, <1>7, <1>8, <1>9, P \in Nat \ {0}

(* What a line is parsed to is a prefix that masking leaves alone.         *)
IsMasked(p) == IsPrefix(p) /\ Masked(p) = p

(* Masking twice is masking once.                                          *)
LEMMA MaskedIsMasked ==
  ASSUME NEW p, IsPrefix(p)
  PROVE  /\ IsMasked(Masked(p)) /\ Masked(p).bits = p.bits /\ Masked(p).addr.fam = p.addr.fam
         /\ lastAddr(Masked(p)) = lastAddr(p)
  <1>1. PICK q : q = Masked(p)
    BY Zenon
  <1>2. PICK a \in Addresses : a = p.addr
    BY DEF IsPrefix
  <1>3. PICK host \in Nat : host = BitLen(p.addr) - p.bits
    BY HostIs
  <1>4. q.addr \in Addresses /\ q.addr.fam = a.fam
    BY <1>1, <1>2, PrefixBlock DEF BlockOf
  <1>5. q.bits = p.bits /\ q = [addr |-> q.addr, bits |-> q.bits]
    BY <1>1 DEF Masked
  <1>6. BitLen(q.addr) - q.bits = host /\ BitLen(q.addr) = BitLen(p.addr)
    BY ONLY <1>2, <1>3, <1>4, <1>5 DEF BitLen
  <1>7. a.hi \in Nat /\ a.lo \in Nat
    BY AddrIs
  <1>8. Masked(q).addr = q.addr
    <2>1. CASE host =< D
      <3>1. q.addr = [fam |-> a.fam, hi |-> a.hi, lo |-> Clear(a.lo, host)]
        BY ONLY <1>1, <1>2, <1>3, <2>1 DEF Masked
      <3>2. Masked(q).addr = [fam |-> q.addr.fam, hi |-> q.addr.hi, lo |-> Clear(q.addr.lo, host)]
        BY ONLY <1>6, <2>1 DEF Masked
      <3>3. Clear(Clear(a.lo, host), host) = Clear(a.lo, host)
        BY <1>7, ClearTwice, Pow2Type DEF Clear
      <3> QED BY ONLY <3>1, <3>2, <3>3
    <2>2. CASE ~(host =< D)
      <3>1. q.addr = V6(Clear(a.hi, host - D), 0)
        BY ONLY <1>1, <1>2, <1>3, <2>2 DEF Masked
      <3>2. Masked(q).addr = V6(Clear(q.addr.hi, host - D), 0)
        BY ONLY <1>6, <2>2 DEF Masked
      <3>3. host - D \in Nat
        BY <2>2, Widths
      <3>4. Clear(Clear(a.hi, host - D), host - D) = Clear(a.hi, host - D)
        BY <1>7, <3>3, ClearTwice, Pow2Type DEF Clear
      <3>5. q.addr.hi = Clear(a.hi, host - D)
        BY ONLY <3>1 DEF V6
      <3> QED BY ONLY <3>1, <3>2, <3>4, <3>5, Zenon
    <2> QED BY ONLY <2>1, <2>2
  <1>9. Masked(q) = q
    <2>1. Masked(q) = [addr |-> Masked(q).addr, bits |-> q.bits]
      BY ONLY DEF Masked
    <2> QED BY ONLY <1>5, <1>8, <2>1, Zenon
  <1>10. IsPrefix(q)
    <2>1. p.bits \in 0 .. BitLen(p.addr) /\ ~Is4In6(q.addr)
      BY <1>1, Zenon DEF IsPrefix
    <2> QED BY ONLY <1>4, <1>5, <1>6, <1>8, <2>1, Zenon DEF IsPrefix
  <1>11. lastAddr(q) = lastAddr(p)
    BY ONLY <1>1, <1>9, Zenon DEF lastAddr
  <1> QED BY ONLY <1>1, <1>2, <1>4, <1>5, <1>9, <1>10, <1>11, Zenon DEF IsMasked

-----------------------------------------------------------------------------
(* Sorting.                                                                *)

(* An interval of a family: it starts at an address that is no IPv4-mapped *)
(* one and does not end before it.                                         *)
IsIv(iv, fam) ==
  /\ iv.Start \in Addresses /\ iv.Start.fam = fam /\ ~Is4In6(iv.Start)
  /\ iv.End \in Addresses /\ iv.End.fam = fam
  /\ Value(iv.Start) =< Value(iv.End)
  /\ iv = [Start |-> iv.Start, End |-> iv.End]

(* The order merge sorts by, on the numbers of the addresses.              *)
LEMMA IvOrder ==
  ASSUME NEW fam, NEW x, NEW y, IsIv(x, fam), IsIv(y, fam)
  PROVE  /\ Value(x.Start) \in Nat /\ Value(x.End) \in Nat
         /\ Value(y.Start) \in Nat /\ Value(y.End) \in Nat
         /\ IntervalLess(x, y) <=>
              \/ Value(x.Start) < Value(y.Start)
              \/ Value(x.Start) = Value(y.Start) /\ Value(x.End) < Value(y.End)
         /\ x = y <=> Value(x.Start) = Value(y.Start) /\ Value(x.End) = Value(y.End)
  <1>1. /\ x.Start \in Addresses /\ x.End \in Addresses /\ y.Start \in Addresses /\ y.End \in Addresses
        /\ x.Start.fam = fam /\ x.End.fam = fam /\ y.Start.fam = fam /\ y.End.fam = fam
        /\ x = [Start |-> x.Start, End |-> x.End] /\ y = [Start |-> y.Start, End |-> y.End]
    BY DEF IsIv
  <1>2. /\ Value(x.Start) \in Nat /\ Value(x.End) \in Nat
        /\ Value(y.Start) \in Nat /\ Value(y.End) \in Nat
    BY ONLY <1>1, ValueType
  <1>3. /\ Less(x.Start, y.Start) <=> Value(x.Start) < Value(y.Start)
        /\ x.Start = y.Start <=> Value(x.Start) = Value(y.Start)
    BY ONLY <1>1, ValueOrder
  <1>4. /\ Less(x.End, y.End) <=> Value(x.End) < Value(y.End)
        /\ x.End = y.End <=> Value(x.End) = Value(y.End)
    BY ONLY <1>1, ValueOrder
  <1>5. x = y <=> x.Start = y.Start /\ x.End = y.End
    BY ONLY <1>1
  <1> QED BY ONLY <1>2, <1>3, <1>4, <1>5, Zenon DEF IntervalLess

(* The order is total and transitive.                                      *)
LEMMA IvTotal ==
  ASSUME NEW fam, NEW x, NEW y, IsIv(x, fam), IsIv(y, fam)
  PROVE  x = y \/ IntervalLess(x, y) \/ IntervalLess(y, x)
  <1>1. /\ Value(x.Start) \in Nat /\ Value(x.End) \in Nat
        /\ Value(y.Start) \in Nat /\ Value(y.End) \in Nat
        /\ IntervalLess(x, y) <=>
             \/ Value(x.Start) < Value(y.Start)
             \/ Value(x.Start) = Value(y.Start) /\ Value(x.End) < Value(y.End)
        /\ x = y <=> Value(x.Start) = Value(y.Start) /\ Value(x.End) = Value(y.End)
    BY IvOrder, ZenonT(30)
  <1>2. IntervalLess(y, x) <=>
             \/ Value(y.Start) < Value(x.Start)
             \/ Value(y.Start) = Value(x.Start) /\ Value(y.End) < Value(x.End)
    BY IvOrder, Zenon
  <1> QED BY ONLY <1>1, <1>2

(* No interval is before itself.                                           *)
LEMMA IvIrreflexive ==
  ASSUME NEW fam, NEW x, IsIv(x, fam)
  PROVE  ~IntervalLess(x, x)
  <1>1. /\ Value(x.Start) \in Nat /\ Value(x.End) \in Nat
        /\ IntervalLess(x, x) <=>
             \/ Value(x.Start) < Value(x.Start)
             \/ Value(x.Start) = Value(x.Start) /\ Value(x.End) < Value(x.End)
    BY IvOrder, Zenon
  <1> QED BY ONLY <1>1

(* The order of intervals is transitive.                                   *)
LEMMA IvTransitive ==
  ASSUME NEW fam, NEW x, NEW y, NEW z, IsIv(x, fam), IsIv(y, fam), IsIv(z, fam),
         IntervalLess(x, y), IntervalLess(y, z)
  PROVE  IntervalLess(x, z)
  <1>1. /\ Value(x.Start) \in Nat /\ Value(x.End) \in Nat
        /\ \/ Value(x.Start) < Value(y.Start)
           \/ Value(x.Start) = Value(y.Start) /\ Value(x.End) < Value(y.End)
    BY IvOrder, Zenon
  <1>2. /\ Value(y.Start) \in Nat /\ Value(y.End) \in Nat
        /\ Value(z.Start) \in Nat /\ Value(z.End) \in Nat
        /\ \/ Value(y.Start) < Value(z.Start)
           \/ Value(y.Start) = Value(z.Start) /\ Value(y.End) < Value(z.End)
    BY IvOrder, Zenon
  <1>3. \/ Value(x.Start) < Value(z.Start)
        \/ Value(x.Start) = Value(z.Start) /\ Value(x.End) < Value(z.End)
    BY ONLY <1>1, <1>2
  <1> QED BY ONLY <1>3, IsIv(x, fam), IsIv(z, fam), IvOrder, Zenon

(* s lists the n intervals of S in order.                                  *)
Lists(s, S, n) ==
  /\ s \in [1 .. n -> S]
  /\ \A i, j \in 1 .. n : i < j => IntervalLess(s[i], s[j])

(* A list with room made for one more interval.                            *)
LEMMA Insert ==
  ASSUME NEW fam, NEW S, \A iv \in S : IsIv(iv, fam), NEW n \in Nat,
         NEW x \in S, NEW s, Lists(s, S \ {x}, n)
  PROVE  \E t : Lists(t, S, n + 1)
  <1>1. /\ s \in [1 .. n -> S \ {x}]
        /\ \A i, j \in 1 .. n : i < j => IntervalLess(s[i], s[j])
    BY DEF Lists
  <1>2. \A i \in 1 .. n : s[i] \in S /\ s[i] # x /\ IsIv(s[i], fam)
    BY <1>1
  <1> DEFINE K == {k \in 0 .. n : k = n \/ ~IntervalLess(s[k + 1], x)}
  <1>3. K \in SUBSET Nat /\ K # {}
    <2>1. n \in K
      OBVIOUS
    <2> QED BY <2>1
  <1>4. PICK k \in K : \A m \in K : k =< m
    <2> HIDE DEF K
    <2> QED BY ONLY <1>3, LeastNat, Zenon
  <1>5. k \in 0 .. n /\ (k = n \/ ~IntervalLess(s[k + 1], x))
    OBVIOUS
  <1>6. \A i \in 1 .. k : IntervalLess(s[i], x)
    <2> SUFFICES ASSUME NEW i \in 1 .. k PROVE IntervalLess(s[i], x)
      BY Zenon
    <2>1. i - 1 \in 0 .. n /\ i - 1 # n /\ (i - 1) + 1 = i /\ ~(k =< i - 1)
      BY <1>5
    <2>2. i - 1 \notin K
      BY ONLY <1>4, <2>1, Zenon
    <2> QED BY ONLY <2>1, <2>2, Zenon DEF K
  <1> HIDE DEF K
  <1>7. \A i \in k + 1 .. n : IntervalLess(x, s[i])
    <2> SUFFICES ASSUME NEW i \in k + 1 .. n PROVE IntervalLess(x, s[i])
      BY Zenon
    <2>1. i \in 1 .. n /\ k + 1 \in 1 .. n /\ k # n /\ (i = k + 1 \/ k + 1 < i)
      BY <1>5
    <2>2. IntervalLess(x, s[k + 1])
      <3>1. s[k + 1] # x /\ IsIv(s[k + 1], fam) /\ ~IntervalLess(s[k + 1], x) /\ IsIv(x, fam)
        BY <1>2, <1>5, <2>1, Zenon
      <3> QED BY ONLY <3>1, IvTotal, Zenon
    <2>3. CASE i = k + 1
      BY ONLY <2>2, <2>3, Zenon
    <2>4. CASE k + 1 < i
      <3>1. IntervalLess(s[k + 1], s[i])
        BY ONLY <1>1, <2>1, <2>4, Zenon
      <3>2. IsIv(x, fam) /\ IsIv(s[k + 1], fam) /\ IsIv(s[i], fam)
        BY <1>2, <2>1, Zenon
      <3> QED BY ONLY <2>2, <3>1, <3>2, IvTransitive, Zenon
    <2> QED BY ONLY <2>1, <2>3, <2>4, Zenon
  <1> DEFINE t == [i \in 1 .. n + 1 |-> IF i =< k THEN s[i] ELSE IF i = k + 1 THEN x ELSE s[i - 1]]
  <1>8. \A i \in 1 .. n + 1 : t[i] = IF i =< k THEN s[i] ELSE IF i = k + 1 THEN x ELSE s[i - 1]
    BY Zenon
  <1>9. t \in [1 .. n + 1 -> S]
    <2>1. \A i \in 1 .. n + 1 : (i =< k => i \in 1 .. n) /\ (~(i =< k) /\ i # k + 1 => i - 1 \in 1 .. n)
      BY <1>5
    <2>2. \A i \in 1 .. n + 1 : (IF i =< k THEN s[i] ELSE IF i = k + 1 THEN x ELSE s[i - 1]) \in S
      BY ONLY <1>2, <2>1, x \in S, Zenon
    <2> QED BY ONLY <2>2, Zenon
  <1> HIDE DEF t
  <1>10. ASSUME NEW i \in 1 .. n + 1, NEW j \in 1 .. n + 1, i < j
         PROVE  IntervalLess(t[i], t[j])
    <2>1. CASE j =< k
      <3>1. i =< k /\ i \in 1 .. n /\ j \in 1 .. n
        BY <1>5, <1>10, <2>1
      <3> QED BY ONLY <1>1, <1>8, <1>10, <2>1, <3>1, Zenon
    <2>2. CASE j = k + 1
      <3>1. i =< k /\ i \in 1 .. k /\ ~(j =< k)
        BY <1>5, <1>10, <2>2
      <3> QED BY ONLY <1>6, <1>8, <1>10, <2>2, <3>1, Zenon
    <2>3. CASE j > k + 1
      <3>0. ~(j =< k) /\ j # k + 1 /\ j - 1 \in k + 1 .. n /\ j - 1 \in 1 .. n
        BY <1>5, <2>3
      <3>1. CASE i =< k
        <4>1. i \in 1 .. n /\ i < j - 1
          BY <1>5, <2>3, <3>1
        <4> QED BY ONLY <1>1, <1>8, <1>10, <3>0, <3>1, <4>1, Zenon
      <3>2. CASE i = k + 1
        <4>1. ~(i =< k)
          BY <1>5, <3>2
        <4> QED BY ONLY <1>7, <1>8, <1>10, <3>0, <3>2, <4>1, Zenon
      <3>3. CASE i > k + 1
        <4>1. ~(i =< k) /\ i # k + 1 /\ i - 1 \in 1 .. n /\ i - 1 < j - 1
          BY <1>5, <1>10, <3>3
        <4> QED BY ONLY <1>1, <1>8, <1>10, <3>0, <4>1, Zenon
      <3> QED BY <1>5, <3>1, <3>2, <3>3
    <2> QED BY <1>5, <2>1, <2>2, <2>3
  <1>11. Lists(t, S, n + 1)
    BY ONLY <1>9, <1>10, Zenon DEF Lists
  <1> QED BY <1>11, Zenon

(* A finite set of intervals can be sorted.                                *)
LEMMA ListExists ==
  ASSUME NEW fam, NEW S, IsFiniteSet(S), \A iv \in S : IsIv(iv, fam)
  PROVE  \E s : Lists(s, S, Cardinality(S))
  <1> DEFINE Goal(U, n) == IsFiniteSet(U) /\ Cardinality(U) = n /\ (\A iv \in U : IsIv(iv, fam))
                             => \E s : Lists(s, U, n)
             T == {n \in Nat : \A U : Goal(U, n)}
  <1>1. 0 \in T
    <2> SUFFICES ASSUME NEW U PROVE Goal(U, 0)
      OBVIOUS
    <2> DEFINE s == [i \in 1 .. 0 |-> i]
    <2>1. 1 .. 0 = {}
      OBVIOUS
    <2>2. s \in [1 .. 0 -> U]
      BY <2>1
    <2>3. Lists(s, U, 0)
      BY ONLY <2>1, <2>2, Zenon DEF Lists
    <2> QED BY <2>3, Zenon
  <1>2. ASSUME NEW n \in T PROVE n + 1 \in T
    <2>0. n \in Nat /\ \A U : Goal(U, n)
      BY Zenon
    <2> SUFFICES ASSUME NEW U, IsFiniteSet(U), Cardinality(U) = n + 1, \A iv \in U : IsIv(iv, fam)
                 PROVE  \E s : Lists(s, U, n + 1)
      BY <2>0
    <2>1. U # {}
      BY <2>0, FS_EmptySet
    <2>2. PICK x \in U : TRUE
      BY <2>1, Zenon
    <2>3. IsFiniteSet(U \ {x}) /\ Cardinality(U \ {x}) = n
      <3>1. IsFiniteSet(U \ {x}) /\ Cardinality(U \ {x}) = Cardinality(U) - 1
        BY FS_RemoveElement, Zenon
      <3> QED BY <2>0, <3>1
    <2>4. \A iv \in U \ {x} : IsIv(iv, fam)
      BY Zenon
    <2>5. PICK s : Lists(s, U \ {x}, n)
      BY ONLY <2>0, <2>3, <2>4, Zenon
    <2> QED BY ONLY <2>0, <2>2, <2>5, Insert, \A iv \in U : IsIv(iv, fam), Zenon
  <1> HIDE DEF T
  <1>3. T \in SUBSET Nat
    BY DEF T
  <1>4. T = Nat
    BY ONLY <1>1, <1>2, <1>3, NatInd, Zenon
  <1>5. Cardinality(S) \in T
    BY <1>4, FS_CardinalityType
  <1>6. Goal(S, Cardinality(S))
    BY ONLY <1>5, Zenon DEF T
  <1> QED BY <1>6

(* What sorting gives: every interval of the set, in order (sort.Slice).   *)
LEMMA SortedIs ==
  ASSUME NEW fam, NEW S, IsFiniteSet(S), \A iv \in S : IsIv(iv, fam)
  PROVE  /\ Cardinality(S) \in Nat
         /\ Lists(Sorted(S), S, Cardinality(S))
         /\ \A iv \in S : \E i \in 1 .. Cardinality(S) : Sorted(S)[i] = iv
  <1>0. PICK n \in Nat : n = Cardinality(S)
    BY FS_CardinalityType
  <1>1. PICK s : Lists(s, S, n)
    BY <1>0, ListExists, Zenon
  <1> DEFINE t == Sorted(S)
  <1>2. Lists(t, S, n)
    BY <1>0, <1>1, Zenon DEF Sorted, Lists
  <1> HIDE DEF t
  <1>3. /\ t \in [1 .. n -> S]
        /\ \A i, j \in 1 .. n : i < j => IntervalLess(t[i], t[j])
    BY <1>2, Zenon DEF Lists
  <1>4. \A i, j \in 1 .. n : t[i] = t[j] => i = j
    <2> SUFFICES ASSUME NEW i \in 1 .. n, NEW j \in 1 .. n, t[i] = t[j] PROVE i = j
      BY Zenon
    <2>1. IsIv(t[i], fam) /\ ~IntervalLess(t[i], t[i])
      BY <1>3, IvIrreflexive
    <2>2. ~(i < j) /\ ~(j < i)
      BY ONLY <1>3, <2>1, t[i] = t[j], i \in 1 .. n, j \in 1 .. n, Zenon
    <2> QED BY ONLY <2>2, i \in 1 .. n, j \in 1 .. n
  <1>5. t \in Injection(1 .. n, S)
    BY ONLY <1>3, <1>4, Zenon DEF Injection, IsInjective
  <1>6. Cardinality(1 .. n) = n
    BY FS_Interval
  <1>7. t \in Surjection(1 .. n, S)
    BY <1>0, <1>5, <1>6, FS_Injection, Zenon
  <1>8. \A iv \in S : \E i \in 1 .. n : t[i] = iv
    BY ONLY <1>7, Zenon DEF Surjection
  <1> QED BY ONLY <1>0, <1>2, <1>8, Zenon DEF t

-----------------------------------------------------------------------------
(* Merging.                                                                *)

Ivs(fam) == {iv \in [Start : Addresses, End : Addresses] : IsIv(iv, fam)}

(* The set of the intervals of a family.                                   *)
LEMMA IvsIs ==
  ASSUME NEW fam, NEW iv
  PROVE  iv \in Ivs(fam) <=> IsIv(iv, fam)
  BY DEF Ivs, IsIv

(* The numbers of an interval.                                             *)
Has(iv, v) == Value(iv.Start) =< v /\ v =< Value(iv.End)

(* What absorb does with an interval: it adds it to the result, or widens  *)
(* the last one of it.                                                     *)
Adds(out, next, new) ==
  /\ Len(new) = Len(out) + 1 /\ new[Len(out) + 1] = next
  /\ \A i \in 1 .. Len(out) : new[i] = out[i]
Widens(out, next, new) ==
  /\ Len(out) > 0 /\ Len(new) = Len(out)
  /\ \A i \in 1 .. Len(out) - 1 : new[i] = out[i]
  /\ new[Len(out)].Start = out[Len(out)].Start
  /\ new[Len(out)].End = IF Value(out[Len(out)].End) < Value(next.End) THEN next.End
                                                                      ELSE out[Len(out)].End

(* absorb does one or the other, and widens exactly when the two overlap   *)
(* or touch.                                                               *)
LEMMA AbsorbIs ==
  ASSUME NEW fam, NEW out \in Seq(Ivs(fam)), NEW next \in Ivs(fam),
         Len(out) > 0 => Value(out[Len(out)].Start) =< Value(next.Start)
  PROVE  /\ absorb(out, next) \in Seq(Ivs(fam))
         /\ \/ Adds(out, next, absorb(out, next)) /\ Len(out) = 0
            \/ /\ Adds(out, next, absorb(out, next)) /\ Len(out) > 0
               /\ ~overlapsOrTouches(out[Len(out)], next)
            \/ Widens(out, next, absorb(out, next)) /\ overlapsOrTouches(out[Len(out)], next)
  <1>1. PICK n \in Nat : n = Len(out)
    OBVIOUS
  <1>2. CASE n = 0
    <2>1. absorb(out, next) = <<next>>
      BY <1>1, <1>2 DEF absorb
    <2> QED BY <1>1, <1>2, <2>1 DEF Adds
  <1>3. CASE n > 0 /\ ~overlapsOrTouches(out[n], next)
    <2>1. absorb(out, next) = Append(out, next)
      BY <1>1, <1>3 DEF absorb
    <2> QED BY <1>1, <1>3, <2>1 DEF Adds
  <1>4. CASE n > 0 /\ overlapsOrTouches(out[n], next)
    <2>1. PICK cur : cur = out[n]
      BY Zenon
    <2>2. cur \in Ivs(fam) /\ IsIv(cur, fam) /\ IsIv(next, fam)
      BY <1>1, <1>4, <2>1, IvsIs
    <2>3. /\ Value(cur.Start) \in Nat /\ Value(cur.End) \in Nat
          /\ Value(next.Start) \in Nat /\ Value(next.End) \in Nat
      BY <2>2, IvOrder
    <2>4. Less(cur.End, next.End) <=> Value(cur.End) < Value(next.End)
      BY <2>2, ValueOrder DEF IsIv
    <2>5. CASE Less(cur.End, next.End)
      <3>1. PICK w : w = [Start |-> cur.Start, End |-> next.End]
        BY Zenon
      <3>2. w.Start = cur.Start /\ w.End = next.End /\ w = [Start |-> w.Start, End |-> w.End]
        BY <3>1
      <3>3. IsIv(w, fam)
        BY ONLY <2>2, <2>3, <2>4, <2>5, <3>2 DEF IsIv
      <3>4. w \in Ivs(fam)
        BY <3>3, IvsIs
      <3>5. absorb(out, next) = [out EXCEPT ![n] = w]
        BY ONLY <1>1, <1>4, <2>1, <2>5, <3>1 DEF absorb
      <3>6. [out EXCEPT ![n] = w] \in Seq(Ivs(fam)) /\ Len([out EXCEPT ![n] = w]) = n
        BY <1>1, <1>4, <3>4
      <3>7. [out EXCEPT ![n] = w][n] = w /\ \A i \in 1 .. n - 1 : [out EXCEPT ![n] = w][i] = out[i]
        BY <1>1, <1>4
      <3>8. Widens(out, next, absorb(out, next))
        BY ONLY <1>1, <1>4, <2>1, <2>4, <2>5, <3>2, <3>5, <3>6, <3>7 DEF Widens
      <3> QED BY ONLY <1>1, <1>4, <3>5, <3>6, <3>8, Zenon
    <2>6. CASE ~Less(cur.End, next.End)
      <3>1. absorb(out, next) = out
        BY ONLY <1>1, <1>4, <2>1, <2>6 DEF absorb
      <3>2. Widens(out, next, out)
        BY ONLY <1>1, <1>4, <2>1, <2>4, <2>6 DEF Widens
      <3> QED BY ONLY <1>1, <1>4, <3>1, <3>2, out \in Seq(Ivs(fam)), Zenon
    <2> QED BY <2>5, <2>6
  <1> QED BY <1>1, <1>2, <1>3, <1>4

(* Two intervals that overlap or touch are one interval of numbers.        *)
LEMMA Touching ==
  ASSUME NEW fam, NEW x, NEW y, IsIv(x, fam), IsIv(y, fam)
  PROVE  /\ overlapsOrTouches(x, y) => Value(y.Start) =< Value(x.End) + 1
         /\ ~overlapsOrTouches(x, y) => Value(x.End) < Value(y.Start) /\ nextAddr(x.End) # y.Start
  <1>1. /\ Value(x.Start) \in Nat /\ Value(x.End) \in Nat
        /\ Value(y.Start) \in Nat /\ Value(y.End) \in Nat
    BY IvOrder
  <1>2. x.End \in Addresses /\ y.Start \in Addresses /\ x.End.fam = y.Start.fam
    BY DEF IsIv
  <1>3. Less(x.End, y.Start) <=> Value(x.End) < Value(y.Start)
    BY ONLY <1>2, ValueOrder
  <1>4. nextAddr(x.End) = y.Start => Value(y.Start) = Value(x.End) + 1
    BY ONLY <1>2, NextIs
  <1> QED BY ONLY <1>1, <1>3, <1>4 DEF overlapsOrTouches

(* The intervals of out are apart, as Canonical says.                      *)
Apart(out) ==
  \A i \in 1 .. Len(out) - 1 :
    Value(out[i].End) < Value(out[i + 1].Start) /\ nextAddr(out[i].End) # out[i + 1].Start

(* out is what the pass over in has made of the first k intervals.         *)
Covers(out, in, k) ==
  \A v \in Nat : (\E i \in 1 .. Len(out) : Has(out[i], v)) <=> (\E j \in 1 .. k : Has(in[j], v))
PassInv(out, in, k, fam) ==
  /\ out \in Seq(Ivs(fam)) /\ Apart(out) /\ Covers(out, in, k)
  /\ k > 0 => Len(out) > 0 /\ Value(out[Len(out)].Start) =< Value(in[k].Start)
  /\ k = 0 => Len(out) = 0

(* A turn of merge's loop keeps the invariant of the pass.                 *)
LEMMA PassStep ==
  ASSUME NEW fam, NEW in, NEW k \in Nat, NEW out, PassInv(out, in, k, fam),
         NEW next, next = in[k + 1], IsIv(next, fam),
         k > 0 => IsIv(in[k], fam) /\ Value(in[k].Start) =< Value(next.Start)
  PROVE  PassInv(absorb(out, next), in, k + 1, fam)
  <1>1. out \in Seq(Ivs(fam)) /\ Apart(out) /\ Covers(out, in, k)
    BY DEF PassInv
  <1>2. PICK n \in Nat : n = Len(out)
    BY <1>1
  <1>3. k > 0 => n > 0 /\ Value(out[n].Start) =< Value(in[k].Start)
    BY <1>2, Zenon DEF PassInv
  <1>4. k = 0 => n = 0
    BY <1>2, Zenon DEF PassInv
  <1>5. \A i \in 1 .. n : IsIv(out[i], fam)
    BY <1>1, <1>2, IvsIs
  <1>6. Value(next.Start) \in Nat /\ Value(next.End) \in Nat /\ Value(next.Start) =< Value(next.End)
    BY IvOrder DEF IsIv
  <1>7. \A i \in 1 .. n : Value(out[i].Start) \in Nat /\ Value(out[i].End) \in Nat
                          /\ Value(out[i].Start) =< Value(out[i].End)
    <2> SUFFICES ASSUME NEW i \in 1 .. n
                 PROVE  Value(out[i].Start) \in Nat /\ Value(out[i].End) \in Nat
                          /\ Value(out[i].Start) =< Value(out[i].End)
      BY Zenon
    <2>1. IsIv(out[i], fam)
      BY <1>5
    <2> QED BY ONLY <2>1, IvOrder DEF IsIv
  <1>8. n > 0 => k > 0 /\ Value(out[n].Start) =< Value(next.Start)
    <2>1. k > 0 => Value(in[k].Start) \in Nat
      BY IvOrder
    <2>2. n > 0 => Value(out[n].Start) \in Nat
      BY <1>7
    <2> QED BY <1>3, <1>4, <1>6, <2>1, <2>2
  <1>9. next \in Ivs(fam)
    BY IvsIs
  <1>10. PICK new : new = absorb(out, next)
    BY Zenon
  <1>11. /\ new \in Seq(Ivs(fam))
         /\ \/ Adds(out, next, new) /\ n = 0
            \/ Adds(out, next, new) /\ n > 0 /\ ~overlapsOrTouches(out[n], next)
            \/ Widens(out, next, new) /\ overlapsOrTouches(out[n], next)
    BY ONLY <1>1, <1>2, <1>8, <1>9, <1>10, AbsorbIs
  <1>12. \A i \in 1 .. n - 1 : Value(out[i].End) < Value(out[i + 1].Start) /\ nextAddr(out[i].End) # out[i + 1].Start
    BY <1>1, <1>2, Zenon DEF Apart
  <1>13. \A v \in Nat : (\E i \in 1 .. n : Has(out[i], v)) <=> (\E j \in 1 .. k : Has(in[j], v))
    BY <1>1, <1>2, Zenon DEF Covers
  <1>14. \A v : (\E j \in 1 .. k + 1 : Has(in[j], v)) <=> (\E j \in 1 .. k : Has(in[j], v)) \/ Has(next, v)
    <2>1. \A j \in 1 .. k + 1 : j \in 1 .. k \/ j = k + 1
      OBVIOUS
    <2>2. (\A j \in 1 .. k : j \in 1 .. k + 1) /\ k + 1 \in 1 .. k + 1
      OBVIOUS
    <2> QED BY ONLY <2>1, <2>2, next = in[k + 1], Zenon
  <1>15. CASE Adds(out, next, new) /\ (n = 0 \/ (n > 0 /\ ~overlapsOrTouches(out[n], next)))
    <2>1. Len(new) = n + 1 /\ new[n + 1] = next /\ \A i \in 1 .. n : new[i] = out[i]
      BY ONLY <1>2, <1>15, Zenon DEF Adds
    <2>2. n > 0 => Value(out[n].End) < Value(next.Start) /\ nextAddr(out[n].End) # next.Start
      <3>1. n > 0 => IsIv(out[n], fam)
        BY <1>5
      <3> QED BY ONLY <1>15, <3>1, IsIv(next, fam), Touching, n \in Nat
    <2>3. Apart(new)
      <3> SUFFICES ASSUME NEW i \in 1 .. n
                   PROVE  Value(new[i].End) < Value(new[i + 1].Start) /\ nextAddr(new[i].End) # new[i + 1].Start
        BY <2>1 DEF Apart
      <3>1. CASE i = n
        BY ONLY <2>1, <2>2, <3>1, i \in 1 .. n, n \in Nat
      <3>2. CASE i \in 1 .. n - 1
        <4>1. i + 1 \in 1 .. n
          BY <3>2
        <4> QED BY ONLY <1>12, <2>1, <3>2, <4>1, i \in 1 .. n, Zenon
      <3> QED BY <3>1, <3>2
    <2>4. \A v : (\E i \in 1 .. n + 1 : Has(new[i], v)) <=> (\E i \in 1 .. n : Has(out[i], v)) \/ Has(next, v)
      <3>1. \A i \in 1 .. n + 1 : i \in 1 .. n \/ i = n + 1
        OBVIOUS
      <3>2. (\A i \in 1 .. n : i \in 1 .. n + 1) /\ n + 1 \in 1 .. n + 1
        OBVIOUS
      <3> QED BY ONLY <2>1, <3>1, <3>2, Zenon
    <2>5. Covers(new, in, k + 1)
      BY ONLY <1>13, <1>14, <2>1, <2>4, Zenon DEF Covers
    <2>6. Len(new) > 0 /\ Value(new[Len(new)].Start) =< Value(in[k + 1].Start)
      BY ONLY <1>6, <2>1, next = in[k + 1], n \in Nat
    <2>7. k + 1 # 0
      OBVIOUS
    <2> QED BY ONLY <1>10, <1>11, <2>3, <2>5, <2>6, <2>7, Zenon DEF PassInv
  <1>16. CASE Widens(out, next, new) /\ overlapsOrTouches(out[n], next)
    <2>1. /\ n > 0 /\ Len(new) = n /\ \A i \in 1 .. n - 1 : new[i] = out[i]
          /\ new[n].Start = out[n].Start
          /\ new[n].End = IF Value(out[n].End) < Value(next.End) THEN next.End ELSE out[n].End
      BY ONLY <1>2, <1>16, Zenon DEF Widens
    <2>2. n \in 1 .. n
      BY <2>1
    <2>3. Value(next.Start) =< Value(out[n].End) + 1
      BY ONLY <1>5, <1>16, <2>2, IsIv(next, fam), Touching
    <2>4. Value(out[n].Start) \in Nat /\ Value(out[n].End) \in Nat /\ Value(out[n].Start) =< Value(out[n].End)
      BY ONLY <1>7, <2>2, Zenon
    <2>5. Value(out[n].Start) =< Value(next.Start)
      BY ONLY <1>8, <2>1
    <2>6. \A v \in Nat : Has(new[n], v) <=> Has(out[n], v) \/ Has(next, v)
      <3>1. CASE Value(out[n].End) < Value(next.End)
        <4>1. new[n].End = next.End
          BY ONLY <2>1, <3>1, Zenon
        <4> QED BY ONLY <1>6, <2>1, <2>3, <2>4, <2>5, <3>1, <4>1 DEF Has
      <3>2. CASE ~(Value(out[n].End) < Value(next.End))
        <4>1. new[n].End = out[n].End
          BY ONLY <2>1, <3>2, Zenon
        <4> QED BY ONLY <1>6, <2>1, <2>3, <2>4, <2>5, <3>2, <4>1 DEF Has
      <3> QED BY ONLY <3>1, <3>2, Zenon
    <2>7. Apart(new)
      <3> SUFFICES ASSUME NEW i \in 1 .. n - 1
                   PROVE  Value(new[i].End) < Value(new[i + 1].Start) /\ nextAddr(new[i].End) # new[i + 1].Start
        BY <2>1 DEF Apart
      <3>1. new[i + 1].Start = out[i + 1].Start
        <4>1. CASE i + 1 = n
          BY ONLY <2>1, <4>1, Zenon
        <4>2. CASE i + 1 \in 1 .. n - 1
          BY ONLY <2>1, <4>2, Zenon
        <4> QED BY <4>1, <4>2
      <3> QED BY ONLY <1>12, <2>1, <3>1, i \in 1 .. n - 1, Zenon
    <2>8. \A v \in Nat : (\E i \in 1 .. n : Has(new[i], v)) <=> (\E i \in 1 .. n : Has(out[i], v)) \/ Has(next, v)
      <3>1. \A i \in 1 .. n : i \in 1 .. n - 1 \/ i = n
        OBVIOUS
      <3>2. \A i \in 1 .. n - 1 : i \in 1 .. n
        OBVIOUS
      <3>3. \A v \in Nat, i \in 1 .. n - 1 : Has(new[i], v) <=> Has(out[i], v)
        BY ONLY <2>1, Zenon
      <3> HIDE DEF Has
      <3> QED BY ONLY <2>2, <2>6, <3>1, <3>2, <3>3, Zenon
    <2>9. Covers(new, in, k + 1)
      BY ONLY <1>13, <1>14, <2>1, <2>8, Zenon DEF Covers
    <2>10. Len(new) > 0 /\ Value(new[Len(new)].Start) =< Value(in[k + 1].Start)
      BY ONLY <2>1, <2>5, next = in[k + 1], Zenon
    <2>11. k + 1 # 0
      OBVIOUS
    <2> QED BY ONLY <1>10, <1>11, <2>7, <2>9, <2>10, <2>11, Zenon DEF PassInv
  <1> QED BY ONLY <1>11, <1>15, <1>16, Zenon

(* The pass itself, step by step.                                          *)
Made(f, in, k) == IF k = 0 THEN <<>> ELSE absorb(f[k - 1], in[k])
Pass(f, in, n) == DOMAIN f = 0 .. n /\ \A k \in 0 .. n : f[k] = Made(f, in, k)

(* The results of the turns of the pass exist.                             *)
LEMMA PassExists ==
  ASSUME NEW in, NEW n \in Nat
  PROVE  \E f : f = [k \in 0 .. n |-> Made(f, in, k)]
  <1> DEFINE Is(f, m) == f = [k \in 0 .. m |-> Made(f, in, k)]
             T == {m \in Nat : \E f : Is(f, m)}
  <1>1. 0 \in T
    <2> DEFINE f == [k \in 0 .. 0 |-> <<>>]
    <2>1. f = [k \in 0 .. 0 |-> Made(f, in, k)]
      BY DEF Made
    <2> HIDE DEF f
    <2> QED BY <2>1, Zenon
  <1>2. ASSUME NEW m \in T PROVE m + 1 \in T
    <2>1. m \in Nat
      BY Zenon
    <2>2. PICK g : Is(g, m)
      BY Zenon
    <2> DEFINE h == [k \in 0 .. m + 1 |-> IF k = m + 1 THEN Made(g, in, k) ELSE g[k]]
    <2>3. \A k \in 0 .. m : g[k] = Made(g, in, k)
      BY <2>2, Zenon
    <2>4. /\ \A k \in 0 .. m : h[k] = g[k]
          /\ h[m + 1] = Made(g, in, m + 1)
          /\ DOMAIN h = 0 .. m + 1 /\ h = [k \in 0 .. m + 1 |-> h[k]]
      BY <2>1
    <2> HIDE DEF h
    <2>5. \A k \in 1 .. m + 1 : h[k - 1] = g[k - 1]
      <3>1. \A k \in 1 .. m + 1 : k - 1 \in 0 .. m
        BY <2>1
      <3> QED BY ONLY <2>4, <3>1, Zenon
    <2>6. \A k \in 0 .. m + 1 : Made(h, in, k) = Made(g, in, k)
      <3>1. \A k \in 0 .. m + 1 : k = 0 \/ k \in 1 .. m + 1
        BY <2>1
      <3> QED BY <2>5, <3>1, Zenon DEF Made
    <2>7. \A k \in 0 .. m + 1 : k \in 0 .. m \/ k = m + 1
      BY <2>1
    <2>8. \A k \in 0 .. m + 1 : h[k] = Made(h, in, k)
      BY ONLY <2>3, <2>4, <2>6, <2>7, Zenon
    <2>9. Is(h, m + 1)
      BY ONLY <2>4, <2>8, Zenon
    <2>10. m + 1 \in Nat
      BY <2>1
    <2> QED BY ONLY <2>9, <2>10, Zenon
  <1> HIDE DEF T
  <1>3. T \in SUBSET Nat
    BY Zenon DEF T
  <1>4. T = Nat
    BY ONLY <1>1, <1>2, <1>3, NatInd, Zenon
  <1> QED BY ONLY <1>4, n \in Nat, Zenon DEF T

(* merge gives the result of the last turn.                                *)
LEMMA MergeIs ==
  ASSUME NEW S, Cardinality(S) \in Nat
  PROVE  \E f : Pass(f, Sorted(S), Cardinality(S)) /\ merge(S) = f[Cardinality(S)]
  <1> DEFINE n == Cardinality(S)
             in == Sorted(S)
             P(f) == f = [k \in 0 .. n |-> Made(f, in, k)]
             Q == CHOOSE f : P(f)
  <1>1. \E f : P(f)
    BY PassExists, Zenon
  <1>2. merge(S) = Q[n]
    BY Zenon DEF merge, Made
  <1> HIDE DEF P
  <1>3. P(Q)
    BY <1>1, Zenon
  <1> HIDE DEF Q
  <1>4. Q = [k \in 0 .. n |-> Made(Q, in, k)]
    BY <1>3, Zenon DEF P
  <1>5. Pass(Q, in, n)
    BY ONLY <1>4, Zenon DEF Pass
  <1> QED BY ONLY <1>2, <1>5, Zenon

(* merge gives intervals that are apart and hold what the given ones hold. *)
LEMMA MergeInv ==
  ASSUME NEW fam, NEW S, IsFiniteSet(S), \A iv \in S : IsIv(iv, fam)
  PROVE  /\ merge(S) \in Seq(Ivs(fam)) /\ Apart(merge(S))
         /\ \A v \in Nat : (\E i \in 1 .. Len(merge(S)) : Has(merge(S)[i], v)) <=> \E iv \in S : Has(iv, v)
  <1>1. PICK n \in Nat : n = Cardinality(S)
    BY FS_CardinalityType, Zenon
  <1>a. PICK in : in = Sorted(S)
    BY Zenon
  <1>2. Lists(in, S, n) /\ \A iv \in S : \E i \in 1 .. n : in[i] = iv
    BY <1>1, <1>a, SortedIs, Zenon
  <1>3. \A i \in 1 .. n : in[i] \in S /\ IsIv(in[i], fam)
    BY <1>2 DEF Lists
  <1>4. PICK f : Pass(f, in, n) /\ merge(S) = f[n]
    BY <1>1, <1>a, MergeIs, Zenon
  <1> DEFINE T == {k \in Nat : k =< n => PassInv(f[k], in, k, fam)}
  <1>5. 0 \in T
    <2>1. f[0] = <<>>
      BY <1>4 DEF Pass, Made
    <2>2. PassInv(<<>>, in, 0, fam)
      BY DEF PassInv, Apart, Covers
    <2> QED BY <2>1, <2>2, Zenon
  <1>6. ASSUME NEW k \in T PROVE k + 1 \in T
    <2>1. k \in Nat /\ (k =< n => PassInv(f[k], in, k, fam))
      BY Zenon
    <2>2. SUFFICES ASSUME k + 1 =< n PROVE PassInv(f[k + 1], in, k + 1, fam)
      BY <2>1
    <2>3. k =< n /\ k + 1 \in 1 .. n /\ k + 1 \in 0 .. n /\ k + 1 # 0 /\ (k + 1) - 1 = k
      BY <2>1, <2>2
    <2>4. f[k + 1] = absorb(f[k], in[k + 1])
      BY ONLY <1>4, <2>3, Zenon DEF Pass, Made
    <2>5. ASSUME k > 0 PROVE IsIv(in[k], fam) /\ Value(in[k].Start) =< Value(in[k + 1].Start)
      <3>1. k \in 1 .. n /\ k < k + 1
        BY <2>1, <2>3, <2>5
      <3>2. IntervalLess(in[k], in[k + 1])
        BY ONLY <1>2, <2>3, <3>1, Zenon DEF Lists
      <3>3. IsIv(in[k], fam) /\ IsIv(in[k + 1], fam)
        BY ONLY <1>3, <2>3, <3>1, Zenon
      <3> QED BY ONLY <3>2, <3>3, IvOrder
    <2>6. PICK next : next = in[k + 1]
      BY Zenon
    <2>7. IsIv(next, fam)
      BY ONLY <1>3, <2>3, <2>6, Zenon
    <2>8. PassInv(absorb(f[k], next), in, k + 1, fam)
      BY ONLY <2>1, <2>3, <2>5, <2>6, <2>7, PassStep, Zenon
    <2> QED BY ONLY <2>4, <2>6, <2>8, Zenon
  <1> HIDE DEF T
  <1>7. T \in SUBSET Nat
    BY Zenon DEF T
  <1>8. T = Nat
    BY ONLY <1>5, <1>6, <1>7, NatInd, Zenon
  <1>9. n =< n
    OBVIOUS
  <1>10. PassInv(f[n], in, n, fam)
    BY ONLY <1>8, <1>9, n \in Nat, Zenon DEF T
  <1>11. \A v \in Nat : (\E j \in 1 .. n : Has(in[j], v)) <=> \E iv \in S : Has(iv, v)
    BY ONLY <1>2, <1>3, Zenon
  <1> QED BY ONLY <1>4, <1>10, <1>11, Zenon DEF PassInv, Covers

(* The intervals of a sequence that are apart are in order.                *)
LEMMA Ordered ==
  ASSUME NEW fam, NEW s \in Seq(Ivs(fam)), Apart(s)
  PROVE  /\ \A i \in 1 .. Len(s) : /\ IsIv(s[i], fam) /\ Value(s[i].Start) \in Nat /\ Value(s[i].End) \in Nat
                                   /\ Value(s[i].Start) =< Value(s[i].End)
         /\ \A i, j \in 1 .. Len(s) : i < j => Value(s[i].End) < Value(s[j].Start)
  <1>1. PICK n \in Nat : n = Len(s)
    OBVIOUS
  <1>2. \A i \in 1 .. n : IsIv(s[i], fam)
    BY <1>1, IvsIs
  <1>3. \A i \in 1 .. n : Value(s[i].Start) \in Nat /\ Value(s[i].End) \in Nat
                          /\ Value(s[i].Start) =< Value(s[i].End)
    <2> SUFFICES ASSUME NEW i \in 1 .. n
                 PROVE  Value(s[i].Start) \in Nat /\ Value(s[i].End) \in Nat
                          /\ Value(s[i].Start) =< Value(s[i].End)
      BY Zenon
    <2>1. IsIv(s[i], fam)
      BY <1>2
    <2> QED BY ONLY <2>1, IvOrder DEF IsIv
  <1>4. \A i \in 1 .. n - 1 : Value(s[i].End) < Value(s[i + 1].Start)
    BY <1>1, Zenon DEF Apart
  <1> DEFINE T == {d \in Nat : \A i \in 1 .. n : i + d + 1 \in 1 .. n => Value(s[i].End) < Value(s[i + d + 1].Start)}
  <1>5. 0 \in T
    <2>1. \A i \in 1 .. n : i + 0 + 1 \in 1 .. n => i \in 1 .. n - 1 /\ i + 0 + 1 = i + 1
      OBVIOUS
    <2> QED BY <1>4, <2>1, Zenon
  <1>6. ASSUME NEW d \in T PROVE d + 1 \in T
    <2>1. d \in Nat /\ \A i \in 1 .. n : i + d + 1 \in 1 .. n => Value(s[i].End) < Value(s[i + d + 1].Start)
      BY Zenon
    <2>2. ASSUME NEW i \in 1 .. n, i + (d + 1) + 1 \in 1 .. n
          PROVE  Value(s[i].End) < Value(s[i + (d + 1) + 1].Start)
      <3>1. PICK m \in 1 .. n - 1 : m = i + d + 1 /\ m + 1 = i + (d + 1) + 1 /\ m \in 1 .. n /\ m + 1 \in 1 .. n
        BY <2>1, <2>2
      <3>2. Value(s[i].End) < Value(s[m].Start)
        BY <2>1, <3>1, Zenon
      <3>3. Value(s[m].End) < Value(s[m + 1].Start)
        BY <1>4, <3>1, Zenon
      <3>4. Value(s[i].End) < Value(s[m + 1].Start)
        <4>1. /\ Value(s[i].End) \in Nat /\ Value(s[m].Start) \in Nat /\ Value(s[m].End) \in Nat
              /\ Value(s[m].Start) =< Value(s[m].End) /\ Value(s[m + 1].Start) \in Nat
          BY ONLY <1>3, <3>1, i \in 1 .. n, Zenon
        <4> QED BY ONLY <3>2, <3>3, <4>1
      <3> QED BY ONLY <3>1, <3>4, Zenon
    <2>3. d + 1 \in Nat
      BY <2>1
    <2> QED BY <2>2, <2>3, Zenon
  <1> HIDE DEF T
  <1>7. T \in SUBSET Nat
    BY Zenon DEF T
  <1>8. T = Nat
    BY ONLY <1>5, <1>6, <1>7, NatInd, Zenon
  <1>9. ASSUME NEW i \in 1 .. n, NEW j \in 1 .. n, i < j
        PROVE  Value(s[i].End) < Value(s[j].Start)
    <2>1. PICK d \in Nat : j = i + d + 1 /\ i + d + 1 \in 1 .. n
      <3>1. j - i - 1 \in Nat /\ j = i + (j - i - 1) + 1
        BY <1>9
      <3> QED BY ONLY <3>1, j \in 1 .. n, Zenon
    <2>2. d \in T
      BY <1>8
    <2> QED BY ONLY <2>1, <2>2, i \in 1 .. n, Zenon DEF T
  <1> QED BY ONLY <1>1, <1>2, <1>3, <1>9, Zenon

(* What sort.Search finds: how many of the intervals start at ip or before *)
(* it.                                                                     *)
Found(s, ip, i) ==
  /\ i < Len(s) => Less(ip, s[i + 1].Start)
  /\ \A j \in 1 .. i : ~Less(ip, s[j].Start)

(* The search finds a place, and locate answers from it.                   *)
LEMMA Finds ==
  ASSUME NEW fam, NEW s \in Seq(Ivs(fam)), NEW ip
  PROVE  \E i \in 0 .. Len(s) : /\ Found(s, ip, i)
                                /\ locate(s, ip) = IF i = 0 \/ Less(s[i].End, ip) THEN NoInterval ELSE s[i]
  <1>1. PICK n \in Nat : n = Len(s)
    OBVIOUS
  <1> DEFINE T == {m \in Nat : m =< n /\ (m < n => Less(ip, s[m + 1].Start))}
  <1>2. n \in T
    <2>1. n =< n /\ ~(n < n)
      OBVIOUS
    <2> QED BY <2>1, Zenon
  <1>3. T \in SUBSET Nat
    BY Zenon
  <1> HIDE DEF T
  <1>4. PICK i \in T : \A m \in T : i =< m
    BY ONLY <1>2, <1>3, LeastNat, Zenon
  <1>5. i \in Nat /\ i =< n /\ (i < n => Less(ip, s[i + 1].Start))
    BY Zenon DEF T
  <1>6. ASSUME NEW j \in 1 .. i PROVE ~Less(ip, s[j].Start)
    <2>1. j - 1 \in Nat /\ j - 1 =< n /\ ~(i =< j - 1) /\ (j - 1) + 1 = j
      BY <1>5
    <2>2. j - 1 \notin T
      BY <1>4, <2>1, Zenon
    <2> QED BY ONLY <2>1, <2>2, Zenon DEF T
  <1>7. i \in 0 .. n
    BY <1>5
  <1>8. Found(s, ip, i)
    BY ONLY <1>1, <1>5, <1>6, Zenon DEF Found
  <1> DEFINE c == CHOOSE x \in 0 .. Len(s) : Found(s, ip, x)
  <1>9. locate(s, ip) = IF c = 0 \/ Less(s[c].End, ip) THEN NoInterval ELSE s[c]
    BY Zenon DEF locate, Found
  <1>10. c \in 0 .. Len(s) /\ Found(s, ip, c)
    BY ONLY <1>1, <1>7, <1>8, Zenon
  <1> HIDE DEF c
  <1> QED BY ONLY <1>9, <1>10, Zenon

(* Locate's search finds an interval exactly when one holds the address.   *)
LEMMA LocateIs ==
  ASSUME NEW fam, NEW s \in Seq(Ivs(fam)), Apart(s), NEW ip \in Addresses, ip.fam = fam
  PROVE  locate(s, ip) # NoInterval <=> \E i \in 1 .. Len(s) : Has(s[i], Value(ip))
  <1>1. PICK n \in Nat : n = Len(s)
    OBVIOUS
  <1>2. /\ \A i \in 1 .. n : /\ IsIv(s[i], fam) /\ Value(s[i].Start) \in Nat /\ Value(s[i].End) \in Nat
                             /\ Value(s[i].Start) =< Value(s[i].End)
        /\ \A i, j \in 1 .. n : i < j => Value(s[i].End) < Value(s[j].Start)
    BY <1>1, Ordered, Zenon
  <1>3. PICK v \in Nat : v = Value(ip)
    BY ValueType
  <1>4. \A i \in 1 .. n : /\ Less(ip, s[i].Start) <=> v < Value(s[i].Start)
                          /\ Less(s[i].End, ip) <=> Value(s[i].End) < v
    <2> SUFFICES ASSUME NEW i \in 1 .. n
                 PROVE  /\ Less(ip, s[i].Start) <=> v < Value(s[i].Start)
                        /\ Less(s[i].End, ip) <=> Value(s[i].End) < v
      BY Zenon
    <2>1. s[i].Start \in Addresses /\ s[i].End \in Addresses /\ s[i].Start.fam = fam /\ s[i].End.fam = fam
      BY <1>2, Zenon DEF IsIv
    <2> QED BY ONLY <1>3, <2>1, ip \in Addresses, ip.fam = fam, ValueOrder, Zenon
  <1>5. \A i \in 1 .. n : s[i] # NoInterval
    <2> SUFFICES ASSUME NEW i \in 1 .. n PROVE s[i] # NoInterval
      BY Zenon
    <2>1. s[i].Start \in Addresses
      BY <1>2, Zenon DEF IsIv
    <2>2. s[i].Start.fam # 0
      BY ONLY <2>1, AddrIs
    <2>3. NoInterval.Start.fam = 0
      BY DEF NoInterval, NoAddr
    <2> QED BY ONLY <2>2, <2>3, Zenon
  <1>6. PICK i \in 0 .. n : /\ Found(s, ip, i)
                            /\ locate(s, ip) = IF i = 0 \/ Less(s[i].End, ip) THEN NoInterval ELSE s[i]
    BY ONLY <1>1, s \in Seq(Ivs(fam)), Finds, Zenon
  <1>7. ASSUME NEW j \in 1 .. n, i < j PROVE ~Has(s[j], v)
    <2>1. i < n /\ i + 1 \in 1 .. n
      BY <1>7
    <2>2. v < Value(s[i + 1].Start)
      BY ONLY <1>1, <1>4, <1>6, <2>1, Zenon DEF Found
    <2>3. j = i + 1 \/ i + 1 < j
      BY <1>7
    <2>4. v < Value(s[j].Start)
      BY ONLY <1>2, <2>1, <2>2, <2>3, v \in Nat, j \in 1 .. n
    <2> QED BY ONLY <1>2, <2>4, v \in Nat, j \in 1 .. n DEF Has
  <1>8. CASE i = 0
    <2>1. locate(s, ip) = NoInterval
      BY ONLY <1>6, <1>8, Zenon
    <2>2. \A j \in 1 .. n : i < j
      BY <1>8
    <2> QED BY ONLY <1>1, <1>3, <1>7, <2>1, <2>2, Zenon
  <1>9. CASE i # 0 /\ Less(s[i].End, ip)
    <2>1. locate(s, ip) = NoInterval
      BY ONLY <1>6, <1>9, Zenon
    <2>2. i \in 1 .. n
      BY <1>9
    <2>3. Value(s[i].End) < v
      BY ONLY <1>4, <1>9, <2>2, Zenon
    <2>4. ASSUME NEW j \in 1 .. n, j < i \/ j = i PROVE ~Has(s[j], v)
      <3>1. Value(s[j].End) < v
        BY ONLY <1>2, <2>2, <2>3, <2>4, v \in Nat, j \in 1 .. n
      <3> QED BY ONLY <1>2, <3>1, v \in Nat, j \in 1 .. n DEF Has
    <2>5. \A j \in 1 .. n : j < i \/ j = i \/ i < j
      BY <2>2
    <2> QED BY ONLY <1>1, <1>3, <1>7, <2>1, <2>4, <2>5, Zenon
  <1>10. CASE i # 0 /\ ~Less(s[i].End, ip)
    <2>1. locate(s, ip) = s[i]
      BY ONLY <1>6, <1>10, Zenon
    <2>2. i \in 1 .. n /\ i \in 1 .. i
      BY <1>10
    <2>3. ~Less(ip, s[i].Start)
      BY ONLY <1>6, <2>2, Zenon DEF Found
    <2>4. ~(Value(s[i].End) < v) /\ ~(v < Value(s[i].Start))
      BY ONLY <1>4, <1>10, <2>2, <2>3, Zenon
    <2>5. Has(s[i], v)
      BY ONLY <1>2, <2>2, <2>4, v \in Nat DEF Has
    <2> QED BY ONLY <1>1, <1>3, <1>5, <2>1, <2>2, <2>5, Zenon
  <1> QED BY ONLY <1>8, <1>9, <1>10, Zenon

-----------------------------------------------------------------------------
(* What is read from a file.                                               *)

Masks == {p \in [addr : Addresses, bits : Nat] : IsMasked(p)}

(* The set of the masked prefixes.                                         *)
LEMMA MasksIs ==
  ASSUME NEW p
  PROVE  p \in Masks <=> IsMasked(p)
  <1>1. ASSUME IsMasked(p) PROVE p \in [addr : Addresses, bits : Nat]
    <2>1. p = [addr |-> Masked(p).addr, bits |-> p.bits]
      <3>1. Masked(p) = [addr |-> Masked(p).addr, bits |-> p.bits]
        BY ONLY DEF Masked
      <3> QED BY ONLY <1>1, <3>1, Zenon DEF IsMasked
    <2>2. Masked(p).addr \in Addresses
      BY ONLY <1>1, Zenon DEF IsMasked, IsPrefix
    <2>3. p.bits \in 0 .. BitLen(p.addr)
      BY <1>1, Zenon DEF IsMasked, IsPrefix
    <2>4. p.bits \in Nat
      BY <2>3
    <2> QED BY ONLY <2>1, <2>2, <2>4
  <1> QED BY <1>1, Zenon DEF Masks

(* A prefix of full length stands for its address.                         *)
LEMMA FullLength ==
  ASSUME NEW a \in Addresses, ~Is4In6(a), NEW q, q = [addr |-> a, bits |-> BitLen(a)]
  PROVE  IsMasked(q) /\ \A b \in Addresses : Agree(q.addr, b, q.bits) <=> a = b
  <1>1. BitLen(a) \in Nat /\ BitLen(a) - BitLen(a) = 0 /\ 0 =< D
    BY AddrIs, Widths DEF BitLen
  <1>2. a = [fam |-> a.fam, hi |-> a.hi, lo |-> a.lo] /\ a.lo \in Nat
    BY AddrIs
  <1>3. Clear(a.lo, 0) = a.lo
    <2>1. (a.lo % 1) = 0
      BY <1>2
    <2> QED BY <1>2, <2>1, Pow2Is DEF Clear
  <1>4. q.addr = a /\ q.bits = BitLen(a)
    BY DEF IsPrefix
  <1>5. Masked(q) = q
    BY ONLY <1>1, <1>2, <1>3, <1>4, q = [addr |-> a, bits |-> BitLen(a)] DEF Masked
  <1>6. BitLen(a) \in 0 .. BitLen(a)
    BY <1>1
  <1>7. IsMasked(q)
    BY ONLY <1>4, <1>5, <1>6, a \in Addresses, ~Is4In6(a), Zenon DEF IsMasked, IsPrefix
  <1>8. ASSUME NEW b \in Addresses PROVE Agree(q.addr, b, q.bits) <=> a = b
    <2>1. Value(a) \in Nat /\ Value(b) \in Nat
      BY ValueType
    <2>2. \A n \in Nat : n \div 1 = n
      OBVIOUS
    <2>3. Agree(q.addr, b, q.bits) <=> a.fam = b.fam /\ Value(a) = Value(b)
      <3>1. Agree(q.addr, b, q.bits) <=> Agree(a, b, BitLen(a))
        BY ONLY <1>4, Zenon
      <3>2. Agree(a, b, BitLen(a)) <=> a.fam = b.fam /\ Value(a) \div 1 = Value(b) \div 1
        BY ONLY <1>1, Pow2Is DEF Agree
      <3> QED BY ONLY <2>1, <2>2, <3>1, <3>2, Zenon
    <2> QED BY ONLY <2>3, ValueOrder, a \in Addresses, b \in Addresses, Zenon
  <1> QED BY <1>7, <1>8

(* Masking a prefix does not change what it stands for.                    *)
LEMMA SameMeaning ==
  ASSUME NEW p, IsPrefix(p), NEW a \in Addresses
  PROVE  Agree(p.addr, a, p.bits) <=> Agree(Masked(p).addr, a, Masked(p).bits)
  <1>1. PICK q : q = Masked(p)
    BY Zenon
  <1>2. IsMasked(q) /\ q.bits = p.bits /\ q.addr.fam = p.addr.fam /\ lastAddr(q) = lastAddr(p)
    BY <1>1, MaskedIsMasked, Zenon
  <1>3. PICK iv : iv = [Start |-> q.addr, End |-> lastAddr(p)]
    BY Zenon
  <1>4. iv.Start = q.addr /\ iv.End = lastAddr(p)
    BY <1>3
  <1>5. CASE a.fam = p.addr.fam
    <2>1. Agree(p.addr, a, p.bits) <=> In(a, iv)
      BY ONLY <1>1, <1>4, <1>5, IsPrefix(p), a \in Addresses, BlockAgrees, Zenon
    <2>2. IsPrefix(q) /\ Masked(q) = q
      BY ONLY <1>2, Zenon DEF IsMasked
    <2>3. Agree(q.addr, a, q.bits) <=> In(a, iv)
      BY ONLY <1>2, <1>4, <1>5, <2>2, a \in Addresses, BlockAgrees, Zenon
    <2> QED BY ONLY <1>1, <2>1, <2>3, Zenon
  <1>6. CASE a.fam # p.addr.fam
    BY ONLY <1>1, <1>2, <1>6, Zenon DEF Agree
  <1> QED BY ONLY <1>5, <1>6, Zenon

(* A prefix as ParsePrefix hands it on; its network may be IPv4-mapped.    *)
IsStored(p) ==
  /\ p.addr \in Addresses /\ p.bits \in 0 .. BitLen(p.addr)
  /\ Masked(p) = p
Stored == {p \in [addr : Addresses, bits : Nat] : IsStored(p)}

(* The set of the prefixes handed on.                                      *)
LEMMA StoredIs ==
  ASSUME NEW p
  PROVE  p \in Stored <=> IsStored(p)
  <1>1. ASSUME IsStored(p) PROVE p \in [addr : Addresses, bits : Nat]
    <2>1. p = [addr |-> Masked(p).addr, bits |-> p.bits]
      <3>1. Masked(p) = [addr |-> Masked(p).addr, bits |-> p.bits]
        BY ONLY DEF Masked
      <3> QED BY ONLY <1>1, <3>1, Zenon DEF IsStored
    <2>2. Masked(p).addr \in Addresses
      BY ONLY <1>1, Zenon DEF IsStored
    <2>3. p.bits \in 0 .. BitLen(p.addr)
      BY <1>1, Zenon DEF IsStored
    <2>4. p.bits \in Nat
      BY <2>3
    <2> QED BY ONLY <2>1, <2>2, <2>4
  <1> QED BY <1>1, Zenon DEF Stored

(* A mapped network has its host bits in the low word: with the whole low  *)
(* word cleared the mark would be gone.                                    *)
LEMMA MappedHost ==
  ASSUME NEW p, p.addr \in Addresses, p.bits \in 0 .. BitLen(p.addr), Is4In6(Masked(p).addr)
  PROVE  /\ p.addr.fam = 6 /\ BitLen(p.addr) = 2 * D /\ p.bits \in Nat /\ ~(p.bits < W4)
         /\ 2 * D - p.bits \in Nat /\ 2 * D - p.bits =< D
         /\ Masked(p) = [addr |-> [fam |-> 6, hi |-> p.addr.hi, lo |-> Clear(p.addr.lo, 2 * D - p.bits)],
                         bits |-> p.bits]
  <1>1. PICK a : a = p.addr /\ a \in Addresses
    BY Zenon
  <1>2. a.fam = 4 \/ a.fam = 6
    BY <1>1, AddrIs
  <1>3. a.fam = 6
    <2>1. ASSUME a.fam = 4 PROVE FALSE
      <3>1. BitLen(a) - p.bits =< D
        BY <1>1, <2>1, Widths DEF BitLen
      <3>2. Masked(p).addr.fam = 4
        BY ONLY <1>1, <2>1, <3>1 DEF Masked
      <3> QED BY ONLY <3>2, Is4In6(Masked(p).addr) DEF Is4In6
    <2> QED BY ONLY <1>2, <2>1, Zenon
  <1>4. BitLen(a) = 2 * D /\ p.bits \in 0 .. 2 * D
    BY <1>1, <1>3 DEF BitLen
  <1>5. PICK host \in Nat : host = 2 * D - p.bits /\ host = BitLen(a) - p.bits
    BY <1>4, Widths
  <1>6. host =< D
    <2>1. ASSUME ~(host =< D) PROVE FALSE
      <3>1. Masked(p).addr.lo = 0
        BY ONLY <1>1, <1>5, <2>1 DEF Masked, V6
      <3>2. 0 \div Pow2[W4] = 0
        BY Widths
      <3>3. Mark # 0
        BY NetsetAssumption, Widths
      <3> QED BY ONLY <3>1, <3>2, <3>3, Is4In6(Masked(p).addr) DEF Is4In6
    <2> QED BY <2>1
  <1>7. Masked(p) = [addr |-> [fam |-> 6, hi |-> a.hi, lo |-> Clear(a.lo, host)], bits |-> p.bits]
    BY ONLY <1>1, <1>3, <1>5, <1>6 DEF Masked
  <1>8. p.bits \in Nat /\ ~(p.bits < W4)
    BY <1>4, <1>5, <1>6, Widths
  <1> QED BY ONLY <1>1, <1>3, <1>4, <1>5, <1>6, <1>7, <1>8, Zenon

(* Masking any prefix of a file gives one of these.                        *)
LEMMA MaskedStored ==
  ASSUME NEW p, p.addr \in Addresses, p.bits \in 0 .. BitLen(p.addr)
  PROVE  IsStored(Masked(p))
  <1>1. CASE ~Is4In6(Masked(p).addr)
    <2>1. IsPrefix(p)
      BY <1>1, Zenon DEF IsPrefix
    <2> QED BY ONLY <2>1, MaskedIsMasked, Zenon DEF IsMasked, IsPrefix, IsStored
  <1>2. CASE Is4In6(Masked(p).addr)
    <2>1. PICK a : a = p.addr /\ a \in Addresses
      BY Zenon
    <2>2. PICK host \in Nat : host = 2 * D - p.bits /\ host =< D
      BY <1>2, MappedHost
    <2>3. PICK n : n = Clear(a.lo, host)
      BY Zenon
    <2>4. PICK q : q = Masked(p)
      BY Zenon
    <2>5. /\ BitLen(a) = 2 * D /\ p.bits \in Nat
          /\ q = [addr |-> [fam |-> 6, hi |-> a.hi, lo |-> n], bits |-> p.bits]
      BY ONLY <1>2, <2>1, <2>2, <2>3, <2>4, p.bits \in 0 .. BitLen(p.addr), MappedHost, ZenonT(30)
    <2>6. a.hi \in Nat /\ a.hi < Pow2[D] /\ a.lo \in Nat /\ a.lo < Pow2[D]
      BY ONLY <2>1, AddrIs
    <2>7. PICK P \in Nat \ {0} : P = Pow2[host]
      BY Pow2Type
    <2>8. n \in Nat /\ n % P = 0 /\ n = a.lo - (a.lo % P)
      BY ONLY <2>3, <2>6, <2>7, ClearTwice, P \in Nat \ {0} DEF Clear
    <2>9. n < Pow2[D]
      <3>1. PICK r \in Nat : r = a.lo % P
        BY <2>6, DivMod
      <3>2. Pow2[D] \in Nat
        BY Widths
      <3> QED BY ONLY <2>6, <2>8, <3>1, <3>2, r \in Nat
    <2>10. q.addr = V6(a.hi, n) /\ q.bits = p.bits
      BY ONLY <2>5 DEF V6
    <2>11. q.addr \in Addresses /\ q.addr.fam = 6 /\ q.addr.hi = a.hi /\ q.addr.lo = n
      <3>1. PICK h \in Nat : h = a.hi /\ h < Pow2[D]
        BY ONLY <2>6, Zenon
      <3>2. V6(h, n) \in Addresses /\ V6(h, n).fam = 6 /\ V6(h, n).hi = h /\ V6(h, n).lo = n
        BY ONLY <2>8, <2>9, <3>1, IsAddr
      <3> QED BY ONLY <2>10, <3>1, <3>2
    <2>12. BitLen(q.addr) = 2 * D
      BY ONLY <2>11 DEF BitLen
    <2>13. q.bits \in 0 .. BitLen(q.addr)
      BY ONLY <2>1, <2>5, <2>10, <2>12, p.bits \in 0 .. BitLen(p.addr), Zenon
    <2>14. Clear(n, host) = n
      BY ONLY <2>7, <2>8 DEF Clear
    <2>15. Masked(q) = q
      BY ONLY <2>2, <2>5, <2>10, <2>11, <2>12, <2>14 DEF Masked
    <2> QED BY ONLY <2>4, <2>11, <2>13, <2>15, Zenon DEF IsStored
  <1> QED BY ONLY <1>1, <1>2, Zenon

(* The interval Build makes of a prefix.                                   *)
IvOf(p) == [Start |-> Unmap(Masked(p).addr), End |-> lastAddr(p)]

(* Of a mapped prefix lastAddr keeps the first address: as an interval it  *)
(* is the full-length prefix of that address, and any other prefix is      *)
(* itself.                                                                 *)
LEMMA KeptIs ==
  ASSUME NEW p, IsStored(p)
  PROVE  /\ IsMasked(Kept(p)) /\ IvOf(Kept(p)) = IvOf(p)
         /\ Is4In6(p.addr) => \A b \in Addresses :
              Agree(Kept(p).addr, b, Kept(p).bits) <=> Unmap(p.addr) = b
  <1>1. p.addr \in Addresses /\ p.bits \in 0 .. BitLen(p.addr) /\ Masked(p) = p
    BY Zenon DEF IsStored
  <1>2. CASE ~Is4In6(p.addr)
    <2>1. Kept(p) = p
      BY ONLY <1>2, Zenon DEF Kept
    <2> QED BY ONLY <1>1, <1>2, <2>1, Zenon DEF IsMasked, IsPrefix
  <1>3. CASE Is4In6(p.addr)
    <2>1. PICK a : a = Unmap(p.addr)
      BY Zenon
    <2>2. a \in Addresses /\ ~Is4In6(a) /\ a.fam = 4 /\ Unmap(a) = a
      BY ONLY <1>1, <1>3, <2>1, UnmapType, Zenon
    <2>3. BitLen(a) = W4
      BY ONLY <2>2 DEF BitLen
    <2>4. PICK q : q = Kept(p)
      BY Zenon
    <2>5. q = [addr |-> a, bits |-> BitLen(a)]
      BY ONLY <1>3, <2>1, <2>3, <2>4, Zenon DEF Kept
    <2>6. IsMasked(q) /\ \A b \in Addresses : Agree(q.addr, b, q.bits) <=> a = b
      BY ONLY <2>2, <2>5, FullLength
    <2>7. q.addr = a /\ q.bits = W4 /\ Masked(q) = q
      <3>1. Masked(q) = q
        BY ONLY <2>6, Zenon DEF IsMasked
      <3> QED BY ONLY <2>3, <2>5, <3>1
    <2>8. ~(p.bits < W4)
      <3>1. Is4In6(Masked(p).addr)
        BY ONLY <1>1, <1>3, Zenon
      <3> QED BY ONLY <1>1, <3>1, MappedHost, Zenon
    <2>9. lastAddr(p) = a
      BY ONLY <1>1, <2>1, <2>2, <2>8 DEF lastAddr
    <2>10. lastAddr(q) = a
      <3>1. ~(W4 < W4)
        BY Widths
      <3> QED BY ONLY <2>2, <2>7, <3>1 DEF lastAddr
    <2>11. IvOf(p) = [Start |-> a, End |-> a] /\ IvOf(q) = [Start |-> a, End |-> a]
      BY ONLY <1>1, <2>1, <2>2, <2>7, <2>9, <2>10, Zenon DEF IvOf
    <2> QED BY ONLY <2>1, <2>4, <2>6, <2>11, Zenon
  <1> QED BY ONLY <1>2, <1>3, Zenon

(* A line is parsed to a prefix of which the table keeps what the line     *)
(* stands for.                                                             *)
LEMMA ParsePrefixIs ==
  ASSUME NEW line \in Lines, line.kind \in {"prefix", "addr"}, NEW q, q = ParsePrefix(line)
  PROVE  /\ IsStored(q)
         /\ \A a \in Addresses : Means(line, a) <=> Agree(Kept(q).addr, Unmap(a), Kept(q).bits)
  <1>1. CASE line.kind = "prefix"
    <2>1. "prefix" # "addr" /\ "prefix" # "comment" /\ "prefix" # "garbage"
      OBVIOUS
    <2>2. PICK p : p = line.prefix /\ p.addr \in Addresses /\ p.bits \in 0 .. BitLen(p.addr)
      BY ONLY <1>1, <2>1, LinesAssumption, line \in Lines, Zenon
    <2>3. q = Masked(p)
      BY ONLY <1>1, <2>2, q = ParsePrefix(line), Zenon DEF ParsePrefix
    <2>4. IsStored(q)
      BY ONLY <2>2, <2>3, MaskedStored, Zenon
    <2>5. CASE ~Is4In6(q.addr)
      <3>1. IsPrefix(p)
        BY ONLY <2>2, <2>3, <2>5, Zenon DEF IsPrefix
      <3>2. Kept(q) = q
        BY ONLY <2>5, Zenon DEF Kept
      <3>3. ASSUME NEW a \in Addresses PROVE Means(line, a) <=> Agree(q.addr, Unmap(a), q.bits)
        <4>1. Unmap(a) \in Addresses
          BY UnmapType
        <4>2. Means(line, a) <=> Agree(p.addr, Unmap(a), p.bits)
          BY ONLY <1>1, <2>1, <2>2, <2>3, <2>5, Zenon DEF Means, MappedNet
        <4> QED BY ONLY <2>3, <3>1, <4>1, <4>2, SameMeaning, Zenon
      <3> QED BY ONLY <2>4, <3>2, <3>3, Zenon
    <2>6. CASE Is4In6(q.addr)
      <3>1. ASSUME NEW a \in Addresses PROVE Means(line, a) <=> Agree(Kept(q).addr, Unmap(a), Kept(q).bits)
        <4>1. Unmap(a) \in Addresses
          BY UnmapType
        <4>2. Means(line, a) <=> Unmap(q.addr) = Unmap(a)
          BY ONLY <1>1, <2>1, <2>2, <2>3, <2>6, Zenon DEF Means, MappedNet
        <4> QED BY ONLY <2>4, <2>6, <4>1, <4>2, KeptIs, Zenon
      <3> QED BY ONLY <2>4, <3>1, Zenon
    <2> QED BY ONLY <2>5, <2>6, Zenon
  <1>2. CASE line.kind = "addr"
    <2>1. "addr" # "prefix" /\ "addr" # "comment" /\ "addr" # "garbage"
      OBVIOUS
    <2>2. line.addr \in Addresses
      BY ONLY <1>2, <2>1, LinesAssumption, line \in Lines, Zenon
    <2>3. PICK b : b = Unmap(line.addr)
      BY Zenon
    <2>4. b \in Addresses /\ ~Is4In6(b)
      BY ONLY <2>2, <2>3, UnmapType, Zenon
    <2>5. q = [addr |-> b, bits |-> BitLen(b)]
      BY ONLY <1>2, <2>1, <2>3, q = ParsePrefix(line), Zenon DEF ParsePrefix
    <2>6. IsMasked(q) /\ \A c \in Addresses : Agree(q.addr, c, q.bits) <=> b = c
      BY ONLY <2>4, <2>5, FullLength
    <2>7. IsStored(q)
      BY ONLY <2>6, Zenon DEF IsMasked, IsPrefix, IsStored
    <2>8. Kept(q) = q
      <3>1. q.addr = b
        BY ONLY <2>5
      <3> QED BY ONLY <2>4, <3>1, Zenon DEF Kept
    <2>9. ASSUME NEW a \in Addresses PROVE Means(line, a) <=> Agree(q.addr, Unmap(a), q.bits)
      <3>1. Unmap(a) \in Addresses
        BY UnmapType
      <3>2. Means(line, a) <=> b = Unmap(a)
        BY ONLY <1>2, <2>1, <2>3, Zenon DEF Means
      <3> QED BY ONLY <2>6, <3>1, <3>2, Zenon
    <2> QED BY ONLY <2>7, <2>8, <2>9, Zenon
  <1> QED BY ONLY <1>1, <1>2, line.kind \in {"prefix", "addr"}, Zenon

(* A sequence with one more element at its end.                            *)
Longer(s, x, t) ==
  /\ t[Len(s) + 1] = x /\ Len(s) + 1 \in 1 .. Len(t)
  /\ \A i \in 1 .. Len(s) : t[i] = s[i] /\ i \in 1 .. Len(t)
  /\ \A i \in 1 .. Len(t) : i \in 1 .. Len(s) \/ i = Len(s) + 1

(* Append makes a sequence longer by one.                                  *)
LEMMA OneMore ==
  ASSUME NEW S, NEW s \in Seq(S), NEW x \in S
  PROVE  Append(s, x) \in Seq(S) /\ Longer(s, x, Append(s, x))
  BY DEF Longer

(* The invariant of ReadPrefixes: the prefixes read so far are masked, and *)
(* what the table keeps of them is what the lines of the file stand for.   *)
Reads(a) == \E i \in 1 .. Len(file) : Means(file[i], a)
Names(a) == \E j \in 1 .. Len(prefixes) : Agree(Kept(prefixes[j]).addr, a, Kept(prefixes[j]).bits)
NetInv ==
  /\ file \in Seq(Lines) /\ prefixes \in Seq(Stored)
  /\ \A a \in Addresses : Reads(a) <=> Names(Unmap(a))

(* No line is read and no prefix is there at the start.                    *)
LEMMA NetInit == Init => NetInv
  BY DEF Init, NetInv, Reads, Names

(* Reading a line keeps the invariant.                                     *)
LEMMA NetStep == NetInv /\ [Next]_vars => NetInv'
  <1> SUFFICES ASSUME NetInv, [Next]_vars PROVE NetInv'
    BY Zenon
  <1>1. CASE UNCHANGED vars
    <2>1. file' = file /\ prefixes' = prefixes
      BY <1>1 DEF vars
    <2> QED BY ONLY NetInv, <2>1, Zenon DEF NetInv, Reads, Names
  <1>2. ASSUME NEW line \in Lines, ReadLine(line) PROVE NetInv'
    <2>1. file \in Seq(Lines) /\ prefixes \in Seq(Stored) /\ \A a \in Addresses : Reads(a) <=> Names(Unmap(a))
      BY Zenon DEF NetInv
    <2>2. file' = Append(file, line)
      BY ONLY <1>2, Zenon DEF ReadLine
    <2>3. file' \in Seq(Lines)
      BY ONLY <2>1, <2>2, OneMore, line \in Lines, Zenon
    <2>4. \A a : Reads(a)' <=> Reads(a) \/ Means(line, a)
      <3>1. Longer(file, line, file')
        BY ONLY <2>1, <2>2, OneMore, line \in Lines, Zenon
      <3> QED BY ONLY <3>1, Zenon DEF Reads, Longer
    <2>5. CASE line.kind \in {"prefix", "addr"}
      <3>1. PICK q : q = ParsePrefix(line)
        BY Zenon
      <3>2. IsStored(q) /\ \A a \in Addresses : Means(line, a) <=> Agree(Kept(q).addr, Unmap(a), Kept(q).bits)
        BY ONLY <2>5, <3>1, ParsePrefixIs, line \in Lines, Zenon
      <3>3. q \in Stored
        BY ONLY <3>2, StoredIs, Zenon
      <3>4. prefixes' = Append(prefixes, q)
        BY ONLY <1>2, <2>5, <3>1, Zenon DEF ReadLine
      <3>5. prefixes' \in Seq(Stored)
        BY ONLY <2>1, <3>3, <3>4, OneMore, Zenon
      <3>6. \A a : Names(a)' <=> Names(a) \/ Agree(Kept(q).addr, a, Kept(q).bits)
        <4>1. Longer(prefixes, q, prefixes')
          BY ONLY <2>1, <3>3, <3>4, OneMore, Zenon
        <4> QED BY ONLY <4>1, Zenon DEF Names, Longer
      <3> QED BY ONLY <2>1, <2>3, <2>4, <3>2, <3>5, <3>6, Zenon DEF NetInv
    <2>6. CASE line.kind \notin {"prefix", "addr"}
      <3>1. prefixes' = prefixes
        BY ONLY <1>2, <2>6, Zenon DEF ReadLine
      <3>2. \A a : ~Means(line, a)
        BY ONLY <2>6, Zenon DEF Means
      <3>3. \A a : Names(a)' <=> Names(a)
        BY ONLY <3>1, Zenon DEF Names
      <3> QED BY ONLY <2>1, <2>3, <2>4, <3>1, <3>2, <3>3, Zenon DEF NetInv
    <2> QED BY ONLY <2>5, <2>6, Zenon
  <1> QED BY <1>1, <1>2, Zenon DEF Next

-----------------------------------------------------------------------------
(* The table.                                                              *)

IvsOf(ps, fam) == {iv \in {IvOf(ps[i]) : i \in DOMAIN ps} : iv.Start.fam = fam}

(* A masked prefix makes an interval of its family, which holds what the   *)
(* prefix stands for.                                                      *)
LEMMA IvOfIs ==
  ASSUME NEW p, IsMasked(p), NEW iv, iv = IvOf(p)
  PROVE  /\ IsIv(iv, p.addr.fam) /\ iv.Start = p.addr /\ iv.End = lastAddr(p)
         /\ \A b \in Addresses : b.fam = p.addr.fam => (Agree(p.addr, b, p.bits) <=> Has(iv, Value(b)))
  <1>1. IsPrefix(p) /\ Masked(p) = p
    BY DEF IsMasked
  <1>2. p.addr \in Addresses /\ ~Is4In6(p.addr)
    BY <1>1, Zenon DEF IsPrefix
  <1>3. Unmap(p.addr) = p.addr
    BY <1>2, UnmapType, Zenon
  <1>4. iv.Start = p.addr /\ iv.End = lastAddr(p) /\ iv = [Start |-> iv.Start, End |-> iv.End]
    <2>1. iv = [Start |-> p.addr, End |-> lastAddr(p)]
      BY ONLY <1>1, <1>3, iv = IvOf(p), Zenon DEF IvOf
    <2> QED BY ONLY <2>1
  <1>5. BlockOf(p.addr, lastAddr(p), p.addr, Size(p))
    BY ONLY <1>1, PrefixBlock, Zenon
  <1>6. PICK P \in Nat \ {0} : P = Size(p)
    BY <1>1, HostIs
  <1>7. lastAddr(p) \in Addresses /\ lastAddr(p).fam = p.addr.fam /\ Value(lastAddr(p)) = Value(p.addr) + P - 1
    BY ONLY <1>5, <1>6, Zenon DEF BlockOf
  <1>8. Value(p.addr) \in Nat
    BY <1>2, ValueType
  <1>9. Value(iv.Start) =< Value(iv.End)
    BY ONLY <1>4, <1>6, <1>7, <1>8
  <1>10. IsIv(iv, p.addr.fam)
    BY ONLY <1>2, <1>4, <1>7, <1>9, Zenon DEF IsIv
  <1>11. ASSUME NEW b \in Addresses, b.fam = p.addr.fam
         PROVE  Agree(p.addr, b, p.bits) <=> Has(iv, Value(b))
    <2>1. Agree(p.addr, b, p.bits) <=> In(b, iv)
      BY ONLY <1>1, <1>4, <1>11, BlockAgrees, Zenon
    <2>2. /\ Less(b, iv.Start) <=> Value(b) < Value(iv.Start)
          /\ Less(iv.End, b) <=> Value(iv.End) < Value(b)
      BY ONLY <1>2, <1>4, <1>7, <1>11, ValueOrder, ZenonT(30)
    <2>3. Value(b) \in Nat /\ Value(iv.Start) \in Nat /\ Value(iv.End) \in Nat
      BY ONLY <1>2, <1>4, <1>7, <1>11, ValueType, Zenon
    <2> QED BY ONLY <2>1, <2>2, <2>3 DEF In, Has
  <1> QED BY ONLY <1>4, <1>10, <1>11, Zenon

(* The intervals Build makes for a family hold what the prefixes of the    *)
(* family stand for.                                                       *)
LEMMA IvsOfIs ==
  ASSUME NEW ps \in Seq(Masks), NEW fam
  PROVE  /\ IsFiniteSet(IvsOf(ps, fam)) /\ \A iv \in IvsOf(ps, fam) : IsIv(iv, fam)
         /\ \A b \in Addresses : b.fam = fam =>
              ((\E iv \in IvsOf(ps, fam) : Has(iv, Value(b)))
                 <=> \E j \in 1 .. Len(ps) : Agree(ps[j].addr, b, ps[j].bits))
  <1>1. PICK n \in Nat : n = Len(ps) /\ DOMAIN ps = 1 .. n
    OBVIOUS
  <1>2. \A i \in 1 .. n : IsMasked(ps[i])
    BY <1>1, MasksIs
  <1> DEFINE All == {IvOf(ps[i]) : i \in DOMAIN ps}
  <1>3. IsFiniteSet(All)
    <2>1. IsFiniteSet(1 .. n)
      BY FS_Interval
    <2> DEFINE f == [i \in 1 .. n |-> IvOf(ps[i])]
    <2>2. f \in Surjection(1 .. n, All)
      BY <1>1 DEF Surjection
    <2> HIDE DEF All, f
    <2> QED BY <2>1, <2>2, FS_Surjection
  <1>4. IvsOf(ps, fam) \in SUBSET All
    BY Zenon DEF IvsOf
  <1> HIDE DEF All
  <1>5. IsFiniteSet(IvsOf(ps, fam))
    BY ONLY <1>3, <1>4, FS_Subset, Zenon
  <1>6. ASSUME NEW iv \in IvsOf(ps, fam)
        PROVE  \E i \in 1 .. n : iv = IvOf(ps[i]) /\ ps[i].addr.fam = fam /\ IsIv(iv, fam)
    <2>1. PICK i \in 1 .. n : iv = IvOf(ps[i]) /\ iv.Start.fam = fam
      BY <1>1, Zenon DEF IvsOf
    <2>2. PICK p : p = ps[i] /\ IsMasked(p)
      BY <1>2, <2>1, Zenon
    <2>3. IsIv(iv, p.addr.fam) /\ iv.Start = p.addr
      BY ONLY <2>1, <2>2, IvOfIs, Zenon
    <2> QED BY ONLY <2>1, <2>2, <2>3, Zenon
  <1>7. ASSUME NEW b \in Addresses, b.fam = fam, NEW iv \in IvsOf(ps, fam), Has(iv, Value(b))
        PROVE  \E j \in 1 .. n : Agree(ps[j].addr, b, ps[j].bits)
    <2>1. PICK i \in 1 .. n : iv = IvOf(ps[i]) /\ ps[i].addr.fam = fam /\ IsIv(iv, fam)
      BY <1>6, Zenon
    <2>2. PICK p : p = ps[i] /\ IsMasked(p)
      BY <1>2, <2>1, Zenon
    <2>3. Agree(p.addr, b, p.bits) <=> Has(iv, Value(b))
      BY ONLY <1>7, <2>1, <2>2, IvOfIs, Zenon
    <2> QED BY ONLY <1>7, <2>1, <2>2, <2>3, Zenon
  <1>8. ASSUME NEW b \in Addresses, b.fam = fam, NEW j \in 1 .. n, Agree(ps[j].addr, b, ps[j].bits)
        PROVE  \E iv \in IvsOf(ps, fam) : Has(iv, Value(b))
    <2>1. PICK p : p = ps[j] /\ IsMasked(p)
      BY <1>2, Zenon
    <2>2. p.addr.fam = fam
      BY ONLY <1>8, <2>1, Zenon DEF Agree
    <2>3. PICK iv : iv = IvOf(p)
      BY Zenon
    <2>4. Agree(p.addr, b, p.bits) <=> Has(iv, Value(b))
      BY ONLY <1>8, <2>1, <2>2, <2>3, IvOfIs, Zenon
    <2>5. iv.Start.fam = fam
      BY ONLY <2>1, <2>2, <2>3, IvOfIs, Zenon
    <2>6. iv \in IvsOf(ps, fam)
      BY ONLY <1>1, <2>1, <2>3, <2>5, j \in 1 .. n, Zenon DEF IvsOf
    <2> QED BY ONLY <1>8, <2>1, <2>4, <2>6, Zenon
  <1> QED BY ONLY <1>1, <1>5, <1>6, <1>7, <1>8, Zenon

(* One side of the table: the intervals of a family.                       *)
Side(s, fam, ps) ==
  /\ s \in Seq(Ivs(fam)) /\ Apart(s)
  /\ \A v \in Nat : (\E i \in 1 .. Len(s) : Has(s[i], v)) <=> \E iv \in IvsOf(ps, fam) : Has(iv, v)

(* Build gives both sides of the table.                                    *)
LEMMA TableIs ==
  ASSUME NEW ps \in Seq(Masks)
  PROVE  Side(Build(ps).v4, 4, ps) /\ Side(Build(ps).v6, 6, ps)
  <1>1. Build(ps).v4 = merge(IvsOf(ps, 4)) /\ Build(ps).v6 = merge(IvsOf(ps, 6))
    BY DEF Build, IvsOf, IvOf
  <1>2. \A fam : Side(merge(IvsOf(ps, fam)), fam, ps)
    <2> SUFFICES ASSUME NEW fam PROVE Side(merge(IvsOf(ps, fam)), fam, ps)
      BY Zenon
    <2>1. IsFiniteSet(IvsOf(ps, fam)) /\ \A iv \in IvsOf(ps, fam) : IsIv(iv, fam)
      BY IvsOfIs, Zenon
    <2> QED BY ONLY <2>1, MergeInv, Zenon DEF Side
  <1> QED BY ONLY <1>1, <1>2, Zenon

(* What the table keeps of the prefixes read.                              *)
Keeps == [i \in 1 .. Len(prefixes) |-> Kept(prefixes[i])]

(* The table of the prefixes read is that of what it keeps of them.        *)
LEMMA KeepsIs ==
  ASSUME NetInv
  PROVE  /\ Keeps \in Seq(Masks) /\ Len(Keeps) = Len(prefixes)
         /\ \A i \in 1 .. Len(prefixes) : Keeps[i] = Kept(prefixes[i])
         /\ Side(Table.v4, 4, Keeps) /\ Side(Table.v6, 6, Keeps)
  <1>1. PICK n \in Nat : n = Len(prefixes) /\ DOMAIN prefixes = 1 .. n
    BY DEF NetInv
  <1>2. ASSUME NEW i \in 1 .. n
        PROVE  IsMasked(Kept(prefixes[i])) /\ IvOf(Kept(prefixes[i])) = IvOf(prefixes[i])
    <2>1. prefixes[i] \in Stored
      BY <1>1 DEF NetInv
    <2> QED BY ONLY <2>1, StoredIs, KeptIs, Zenon
  <1>3. \A i \in 1 .. n : Kept(prefixes[i]) \in Masks
    BY ONLY <1>2, MasksIs, Zenon
  <1>4. Keeps \in Seq(Masks) /\ Len(Keeps) = n /\ DOMAIN Keeps = 1 .. n
    BY ONLY <1>1, <1>3 DEF Keeps
  <1>5. \A i \in 1 .. n : Keeps[i] = Kept(prefixes[i])
    BY ONLY <1>1, Zenon DEF Keeps
  <1>6. {IvOf(Keeps[i]) : i \in DOMAIN Keeps} = {IvOf(prefixes[i]) : i \in DOMAIN prefixes}
    BY ONLY <1>1, <1>2, <1>4, <1>5, Zenon
  <1>7. \A fam : IvsOf(Keeps, fam) = IvsOf(prefixes, fam)
    BY ONLY <1>6, Zenon DEF IvsOf
  <1>8. \A ps : Build(ps) = [v4 |-> merge(IvsOf(ps, 4)), v6 |-> merge(IvsOf(ps, 6))]
    BY ONLY Zenon DEF Build, IvsOf, IvOf
  <1>9. Table = Build(Keeps)
    BY ONLY <1>7, <1>8, Zenon DEF Table
  <1> QED BY ONLY <1>1, <1>4, <1>5, <1>9, TableIs, Zenon

(* Canonical, from the invariant.                                          *)
LEMMA SideCanonical ==
  ASSUME NEW fam, NEW ps, NEW s, Side(s, fam, ps)
  PROVE  /\ \A i \in DOMAIN s : ~Less(s[i].End, s[i].Start)
         /\ \A i \in 1 .. Len(s) - 1 :
              /\ Less(s[i].End, s[i + 1].Start)
              /\ ~Is4In6(s[i].End) => /\ nextAddr(s[i].End) # NoAddr
                                      /\ Less(nextAddr(s[i].End), s[i + 1].Start)
  <1>1. s \in Seq(Ivs(fam)) /\ Apart(s)
    BY Zenon DEF Side
  <1>2. PICK n \in Nat : n = Len(s) /\ DOMAIN s = 1 .. n
    BY <1>1
  <1>3. \A i \in 1 .. n : /\ IsIv(s[i], fam) /\ Value(s[i].Start) \in Nat /\ Value(s[i].End) \in Nat
                          /\ Value(s[i].Start) =< Value(s[i].End)
    BY <1>1, <1>2, Ordered, Zenon
  <1>4. ASSUME NEW i \in 1 .. n PROVE ~Less(s[i].End, s[i].Start)
    <2>1. s[i].Start \in Addresses /\ s[i].End \in Addresses /\ s[i].Start.fam = s[i].End.fam
      BY <1>3, Zenon DEF IsIv
    <2>2. Less(s[i].End, s[i].Start) <=> Value(s[i].End) < Value(s[i].Start)
      BY ONLY <2>1, ValueOrder, Zenon
    <2>3. Value(s[i].Start) \in Nat /\ Value(s[i].End) \in Nat /\ Value(s[i].Start) =< Value(s[i].End)
      BY ONLY <1>3, i \in 1 .. n, Zenon
    <2> QED BY ONLY <2>2, <2>3
  <1>5. ASSUME NEW i \in 1 .. n - 1
        PROVE  /\ Less(s[i].End, s[i + 1].Start)
               /\ ~Is4In6(s[i].End) => nextAddr(s[i].End) # NoAddr /\ Less(nextAddr(s[i].End), s[i + 1].Start)
    <2>1. i \in 1 .. n /\ i + 1 \in 1 .. n
      OBVIOUS
    <2>2. PICK e, b : e = s[i].End /\ b = s[i + 1].Start
      BY Zenon
    <2>3. e \in Addresses /\ b \in Addresses /\ e.fam = b.fam
      BY ONLY <1>3, <2>1, <2>2, Zenon DEF IsIv
    <2>4. Value(e) < Value(b) /\ nextAddr(e) # b
      BY ONLY <1>1, <1>2, <2>2, i \in 1 .. n - 1, Zenon DEF Apart
    <2>5. Less(e, b)
      BY ONLY <2>3, <2>4, ValueOrder, Zenon
    <2>6. ~Is4In6(e) => nextAddr(e) # NoAddr /\ (nextAddr(e) = b \/ Less(nextAddr(e), b))
      BY ONLY <2>3, <2>5, NextIs, Zenon
    <2> QED BY ONLY <2>2, <2>4, <2>5, <2>6, Zenon
  <1> QED BY ONLY <1>2, <1>4, <1>5, Zenon

(* So is each side of the table.                                           *)
LEMMA InvCanonical == NetInv => Canonical
  <1> SUFFICES ASSUME NetInv PROVE Canonical
    BY Zenon
  <1>1. PICK t : t = Table
    BY Zenon
  <1>2. Side(t.v4, 4, Keeps) /\ Side(t.v6, 6, Keeps)
    BY <1>1, KeepsIs, Zenon
  <1>3. \A s \in {t.v4, t.v6} : \E fam : Side(s, fam, Keeps)
    BY ONLY <1>2, Zenon
  <1> QED BY ONLY <1>1, <1>3, SideCanonical, Zenon DEF Canonical

(* ContainsIsUnion, from the invariant.                                    *)
LEMMA InvContains == NetInv => ContainsIsUnion
  <1> SUFFICES ASSUME NetInv PROVE ContainsIsUnion
    BY Zenon
  <1>1. PICK t : t = Table
    BY Zenon
  <1>2. Side(t.v4, 4, Keeps) /\ Side(t.v6, 6, Keeps)
    BY <1>1, KeepsIs, Zenon
  <1>3. ASSUME NEW s, NEW fam, NEW ip \in Addresses, ip.fam = fam, Side(s, fam, Keeps)
        PROVE  locate(s, ip) # NoInterval <=> Names(ip)
    <2>1. /\ Keeps \in Seq(Masks) /\ Len(Keeps) = Len(prefixes)
          /\ \A j \in 1 .. Len(prefixes) : Keeps[j] = Kept(prefixes[j])
      BY KeepsIs, Zenon
    <2>2. locate(s, ip) # NoInterval <=> \E i \in 1 .. Len(s) : Has(s[i], Value(ip))
      BY ONLY <1>3, LocateIs, Zenon DEF Side
    <2>3. Value(ip) \in Nat
      BY ValueType
    <2>4. (\E i \in 1 .. Len(s) : Has(s[i], Value(ip))) <=> \E iv \in IvsOf(Keeps, fam) : Has(iv, Value(ip))
      BY ONLY <1>3, <2>3, Zenon DEF Side
    <2>5. (\E iv \in IvsOf(Keeps, fam) : Has(iv, Value(ip))) <=> Names(ip)
      BY ONLY <1>3, <2>1, IvsOfIs, Zenon DEF Names
    <2> QED BY ONLY <2>2, <2>4, <2>5, Zenon
  <1>4. ASSUME NEW a \in Addresses PROVE Holds(t, a) <=> \E i \in DOMAIN file : Means(file[i], a)
    <2>1. PICK ip : ip = Unmap(a)
      BY Zenon
    <2>2. ip \in Addresses
      BY ONLY <1>4, <2>1, UnmapType, Zenon
    <2>3. ip.fam = 4 \/ ip.fam = 6
      BY ONLY <2>2, AddrIs, Zenon
    <2>4. Holds(t, a) <=> locate(IF ip.fam = 4 THEN t.v4 ELSE t.v6, ip) # NoInterval
      BY ONLY <2>1, Zenon DEF Holds, Locate
    <2>5. Holds(t, a) <=> Names(ip)
      <3>1. CASE ip.fam = 4
        BY ONLY <1>2, <1>3, <2>2, <2>4, <3>1, Zenon
      <3>2. CASE ip.fam # 4
        <4>1. ip.fam = 6
          BY ONLY <2>3, <3>2, Zenon
        <4> QED BY ONLY <1>2, <1>3, <2>2, <2>4, <3>2, <4>1, Zenon
      <3> QED BY ONLY <3>1, <3>2, Zenon
    <2>6. DOMAIN file = 1 .. Len(file)
      BY DEF NetInv
    <2> QED BY ONLY NetInv, <2>1, <2>5, <2>6, a \in Addresses, Zenon DEF NetInv, Reads
  <1> QED BY ONLY <1>1, <1>4, Zenon DEF ContainsIsUnion

-----------------------------------------------------------------------------
(* The prefix of an interval.                                              *)

Named(iv, b) == [addr |-> iv.Start, bits |-> b]
Fits(iv, b) == Masked(Named(iv, b)).addr = iv.Start /\ lastAddr(Named(iv, b)) = iv.End

(* A prefix that starts and ends as an interval does stands for the        *)
(* interval, and is as long as the interval has addresses.                 *)
LEMMA FitsIs ==
  ASSUME NEW fam, NEW iv, IsIv(iv, fam), NEW b \in 0 .. BitLen(iv.Start), Fits(iv, b)
  PROVE  /\ BitLen(iv.Start) - b \in Nat
         /\ Value(iv.End) = Value(iv.Start) + Pow2[BitLen(iv.Start) - b] - 1
         /\ \A a \in Addresses : a.fam = fam => (Agree(iv.Start, a, b) <=> In(a, iv))
  <1>1. PICK p : p = Named(iv, b)
    BY Zenon
  <1>2. p.addr = iv.Start /\ p.bits = b
    BY ONLY <1>1 DEF Named
  <1>3. Masked(p).addr = iv.Start /\ lastAddr(p) = iv.End
    BY ONLY <1>1, Fits(iv, b), Zenon DEF Fits
  <1>4. IsPrefix(p)
    BY ONLY <1>2, <1>3, IsIv(iv, fam), b \in 0 .. BitLen(iv.Start), Zenon DEF IsPrefix, IsIv
  <1>5. Value(iv.End) = Value(iv.Start) + Size(p) - 1
    BY ONLY <1>3, <1>4, PrefixBlock, Zenon DEF BlockOf
  <1>6. BitLen(p.addr) - p.bits \in Nat
    BY ONLY <1>4, HostIs, Zenon
  <1>7. ASSUME NEW a \in Addresses, a.fam = fam PROVE Agree(iv.Start, a, b) <=> In(a, iv)
    <2>1. a.fam = p.addr.fam
      BY ONLY <1>2, <1>7, IsIv(iv, fam), Zenon DEF IsIv
    <2>2. Agree(p.addr, a, p.bits) <=> In(a, iv)
      BY ONLY <1>3, <1>4, <1>7, <2>1, BlockAgrees, Zenon
    <2> QED BY ONLY <1>2, <2>2, Zenon
  <1> QED BY ONLY <1>2, <1>5, <1>6, <1>7, Zenon DEF Size

(* So there is at most one.                                                *)
LEMMA FitsOnce ==
  ASSUME NEW fam, NEW iv, IsIv(iv, fam), NEW b \in 0 .. BitLen(iv.Start), Fits(iv, b),
         NEW c \in 0 .. BitLen(iv.Start), Fits(iv, c)
  PROVE  b = c
  <1>1. PICK L : L = BitLen(iv.Start)
    BY Zenon
  <1>2. L - b \in Nat /\ L - c \in Nat
    BY <1>1, FitsIs, Zenon
  <1>3. Value(iv.End) = Value(iv.Start) + Pow2[L - b] - 1 /\ Value(iv.End) = Value(iv.Start) + Pow2[L - c] - 1
    BY <1>1, FitsIs, ZenonT(30)
  <1>4. Value(iv.Start) \in Nat
    BY IvOrder
  <1>5. Pow2[L - b] \in Nat /\ Pow2[L - c] \in Nat
    BY <1>2, Pow2Type
  <1>6. Pow2[L - b] = Pow2[L - c]
    BY ONLY <1>3, <1>4, <1>5
  <1>7. ~(L - b < L - c) /\ ~(L - c < L - b)
    <2>1. \A x \in Nat : ~(x < x)
      OBVIOUS
    <2> QED BY ONLY <1>2, <1>5, <1>6, <2>1, Pow2Less, Zenon
  <1>8. L \in Nat
    <2>1. iv.Start \in Addresses
      BY Zenon DEF IsIv
    <2>2. iv.Start.fam = 4 \/ iv.Start.fam = 6
      BY ONLY <2>1, AddrIs, Zenon
    <2> QED BY ONLY <1>1, <2>2, Widths DEF BitLen
  <1>9. b \in 0 .. L /\ c \in 0 .. L
    BY <1>1, Zenon
  <1> QED BY ONLY <1>7, <1>8, <1>9

(* Interval.Prefix gives the one that fits, when there is one.             *)
LEMMA PrefixOfIs ==
  ASSUME NEW fam, NEW iv, IsIv(iv, fam)
  PROVE  /\ PrefixOf(iv) = NoPrefix \/ \E b \in 0 .. BitLen(iv.Start) : Fits(iv, b) /\ PrefixOf(iv) = Named(iv, b)
         /\ \A b \in 0 .. BitLen(iv.Start) : Fits(iv, b) => PrefixOf(iv) = Named(iv, b)
  <1> DEFINE good == {b \in 0 .. BitLen(iv.Start) : Fits(iv, b)}
             Top(b) == \A c \in good : c =< b
             longest == CHOOSE b \in good : Top(b)
  <1>1. PrefixOf(iv) = IF good = {} THEN NoPrefix ELSE Named(iv, longest)
    BY Zenon DEF PrefixOf, Fits, Named
  <1>2. ASSUME NEW b \in 0 .. BitLen(iv.Start), Fits(iv, b) PROVE good # {} /\ longest = b
    <2>1. b \in good /\ b =< b
      BY <1>2
    <2>2. \A c \in good : c = b
      BY ONLY <1>2, FitsOnce, IsIv(iv, fam), Zenon
    <2>3. Top(b)
      BY ONLY <2>1, <2>2, Zenon
    <2>4. longest \in good
      BY ONLY <2>1, <2>3, Zenon
    <2> QED BY ONLY <2>1, <2>2, <2>4, Zenon
  <1>3. \A b \in 0 .. BitLen(iv.Start) : Fits(iv, b) => PrefixOf(iv) = Named(iv, b)
    BY ONLY <1>1, <1>2, Zenon
  <1>4. CASE good = {}
    BY ONLY <1>1, <1>3, <1>4, Zenon
  <1>5. CASE good # {}
    <2>1. PICK b \in 0 .. BitLen(iv.Start) : Fits(iv, b)
      BY <1>5, Zenon
    <2> HIDE DEF good, longest
    <2> QED BY ONLY <1>3, <2>1, Zenon
  <1> QED BY ONLY <1>4, <1>5, Zenon

(* An interval that holds the addresses of a single masked prefix is named *)
(* by that prefix.                                                         *)
LEMMA OnePrefix ==
  ASSUME NEW ps \in Seq(Masks), Len(ps) = 1, NEW fam, NEW s, Side(s, fam, ps), Len(s) = 1
  PROVE  PrefixOf(s[1]) = ps[1]
  <1>1. PICK p : p = ps[1] /\ IsMasked(p)
    BY MasksIs
  <1>2. PICK iv : iv = IvOf(p)
    BY Zenon
  <1>3. IsIv(iv, p.addr.fam) /\ iv.Start = p.addr /\ iv.End = lastAddr(p)
    BY ONLY <1>1, <1>2, IvOfIs, Zenon
  <1>4. PICK x : x = s[1]
    BY Zenon
  <1>5. IsIv(x, fam)
    <2>1. s \in Seq(Ivs(fam))
      BY Zenon DEF Side
    <2>2. s[1] \in Ivs(fam)
      <3>1. 1 \in 1 .. Len(s)
        BY ONLY Len(s) = 1
      <3> QED BY ONLY <2>1, <3>1
    <2> QED BY ONLY <1>4, <2>2, IvsIs, Zenon
  <1>6. \A y \in IvsOf(ps, fam) : y = iv /\ iv.Start.fam = fam
    <2>1. DOMAIN ps = {1}
      OBVIOUS
    <2> QED BY ONLY <1>1, <1>2, <2>1, Zenon DEF IvsOf
  <1>7. \A v \in Nat : Has(x, v) <=> \E y \in IvsOf(ps, fam) : Has(y, v)
    <2>1. 1 .. Len(s) = {1}
      OBVIOUS
    <2>2. \A v \in Nat : (\E i \in 1 .. Len(s) : Has(s[i], v)) <=> \E y \in IvsOf(ps, fam) : Has(y, v)
      BY Zenon DEF Side
    <2> QED BY ONLY <1>4, <2>1, <2>2, Zenon
  <1>8. Value(x.Start) \in Nat /\ Value(x.End) \in Nat /\ Value(x.Start) =< Value(x.End)
    BY ONLY <1>5, IvOrder DEF IsIv
  <1>9. Has(x, Value(x.Start)) /\ Has(x, Value(x.End))
    BY ONLY <1>8 DEF Has
  <1>10. iv \in IvsOf(ps, fam) /\ iv.Start.fam = fam
    BY ONLY <1>6, <1>7, <1>8, <1>9, Zenon
  <1>11. \A v \in Nat : Has(x, v) <=> Has(iv, v)
    BY ONLY <1>6, <1>7, <1>10, Zenon
  <1>12. IsIv(iv, fam)
    BY ONLY <1>3, <1>10, Zenon
  <1>13. Value(iv.Start) \in Nat /\ Value(iv.End) \in Nat /\ Value(iv.Start) =< Value(iv.End)
    BY ONLY <1>12, IvOrder DEF IsIv
  <1>14. Has(iv, Value(iv.Start)) /\ Has(iv, Value(iv.End))
    BY ONLY <1>13 DEF Has
  <1>15. Has(iv, Value(x.Start)) /\ Has(iv, Value(x.End)) /\ Has(x, Value(iv.Start)) /\ Has(x, Value(iv.End))
    BY ONLY <1>8, <1>9, <1>11, <1>13, <1>14, ZenonT(30)
  <1>16. Value(x.Start) = Value(iv.Start) /\ Value(x.End) = Value(iv.End)
    BY ONLY <1>8, <1>13, <1>15 DEF Has
  <1>17. x = iv
    BY ONLY <1>5, <1>12, <1>16, IvOrder, ZenonT(30)
  <1>18. Named(iv, p.bits) = p
    <2>1. p = [addr |-> Masked(p).addr, bits |-> p.bits]
      <3>1. Masked(p) = [addr |-> Masked(p).addr, bits |-> p.bits]
        BY ONLY DEF Masked
      <3> QED BY ONLY <1>1, <3>1, Zenon DEF IsMasked
    <2>2. Masked(p).addr = iv.Start
      BY ONLY <1>1, <1>3, Zenon DEF IsMasked
    <2> QED BY ONLY <2>1, <2>2, Zenon DEF Named
  <1>19. Fits(iv, p.bits) /\ p.bits \in 0 .. BitLen(iv.Start)
    BY ONLY <1>1, <1>3, <1>18, Zenon DEF Fits, IsMasked, IsPrefix
  <1>20. PrefixOf(iv) = p
    BY ONLY <1>12, <1>18, <1>19, PrefixOfIs, Zenon
  <1> QED BY ONLY <1>1, <1>4, <1>17, <1>20, Zenon

(* PrefixIsInterval, from the invariant.                                   *)
LEMMA InvPrefix == NetInv => PrefixIsInterval
  <1> SUFFICES ASSUME NetInv PROVE PrefixIsInterval
    BY Zenon
  <1>1. PICK t : t = Table
    BY Zenon
  <1>2. /\ Keeps \in Seq(Masks) /\ Len(Keeps) = Len(prefixes)
        /\ \A j \in 1 .. Len(prefixes) : Keeps[j] = Kept(prefixes[j])
    BY KeepsIs, Zenon
  <1>3. Side(t.v4, 4, Keeps) /\ Side(t.v6, 6, Keeps)
    BY <1>1, KeepsIs, Zenon
  <1>4. PICK k : k = Kept(prefixes[1])
    BY Zenon
  <1>5. \A s \in {t.v4, t.v6} : \A i \in DOMAIN s :
          /\ PrefixOf(s[i]) # NoPrefix => \A a \in Addresses : a.fam = s[i].Start.fam =>
                (Agree(PrefixOf(s[i]).addr, a, PrefixOf(s[i]).bits) <=> In(a, s[i]))
          /\ Len(s) = 1 /\ Len(prefixes) = 1 => PrefixOf(s[i]) = k
    <2> SUFFICES ASSUME NEW s \in {t.v4, t.v6}, NEW i \in DOMAIN s
                 PROVE  /\ PrefixOf(s[i]) # NoPrefix => \A a \in Addresses : a.fam = s[i].Start.fam =>
                             (Agree(PrefixOf(s[i]).addr, a, PrefixOf(s[i]).bits) <=> In(a, s[i]))
                        /\ Len(s) = 1 /\ Len(prefixes) = 1 => PrefixOf(s[i]) = k
      BY Zenon
    <2>1. PICK p : p = PrefixOf(s[i]) /\ s \in {t.v4, t.v6} /\ i \in DOMAIN s
      BY Zenon
    <2>2. PICK fam : Side(s, fam, Keeps)
      BY ONLY <1>3, <2>1, Zenon
    <2>3. s \in Seq(Ivs(fam))
      BY <2>2, Zenon DEF Side
    <2>4. IsIv(s[i], fam)
      BY ONLY <2>1, <2>3, IvsIs
    <2>5. ASSUME p # NoPrefix, NEW a \in Addresses, a.fam = s[i].Start.fam
          PROVE  Agree(p.addr, a, p.bits) <=> In(a, s[i])
      <3>1. PICK b \in 0 .. BitLen(s[i].Start) : Fits(s[i], b) /\ p = Named(s[i], b)
        BY ONLY <2>1, <2>4, <2>5, PrefixOfIs, ZenonT(30)
      <3>2. p.addr = s[i].Start /\ p.bits = b
        BY ONLY <3>1 DEF Named
      <3>3. a.fam = fam
        BY ONLY <2>4, <2>5, Zenon DEF IsIv
      <3>4. Agree(s[i].Start, a, b) <=> In(a, s[i])
        BY ONLY <2>4, <2>5, <3>1, <3>3, FitsIs, Zenon
      <3> QED BY ONLY <3>2, <3>4, Zenon
    <2>6. ASSUME Len(s) = 1, Len(prefixes) = 1 PROVE p = k
      <3>1. i = 1
        BY ONLY <2>1, <2>3, <2>6
      <3>2. Len(Keeps) = 1 /\ Keeps[1] = k
        BY ONLY <1>2, <1>4, <2>6
      <3> QED BY ONLY <1>2, <2>1, <2>2, <2>6, <3>1, <3>2, OnePrefix, Zenon
    <2> QED BY ONLY <2>1, <2>5, <2>6, Zenon
  <1> QED BY ONLY <1>1, <1>4, <1>5, Zenon DEF PrefixIsInterval, In

-----------------------------------------------------------------------------
(* The theorems.                                                           *)

(* The invariant of ReadPrefixes holds throughout.                         *)
LEMMA Inductive == Spec => []NetInv
  BY NetInit, NetStep, PTL DEF Spec

(* The intervals Build makes of a list file are in order and apart, so     *)
(* that the halving search of locate may rely on them, for every word      *)
(* width, every file and every order of its lines.                         *)
THEOREM TablesCanonical == Spec => []Canonical
  BY Inductive, InvCanonical, PTL

(* Contains answers for every address of both families what the lines of   *)
(* the file say of it: nothing is lost or added by masking, sorting,       *)
(* merging and searching, but that a prefix written in IPv4-mapped form    *)
(* counts as the first address of its network alone (Means).               *)
THEOREM ContainsExactly == Spec => []ContainsIsUnion
  BY Inductive, InvContains, PTL

(* The prefix Interval.Prefix names covers the interval and nothing else,  *)
(* and the table of a one-prefix file is named by that prefix, or by the   *)
(* one address kept of a prefix in IPv4-mapped form.                       *)
THEOREM PrefixExact == Spec => []PrefixIsInterval
  BY Inductive, InvPrefix, PTL
=============================================================================
