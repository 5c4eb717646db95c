------------------------------- MODULE Netset -------------------------------
(***************************************************************************)
(* internal/netset: the static address tables.  A list file is read line   *)
(* by line into prefixes; Build turns prefixes into two sorted sequences   *)
(* of disjoint intervals, one per family; Contains and Locate search them  *)
(* by halving; Interval.Prefix names an interval that is one prefix.       *)
(*                                                                         *)
(* The widths are parameters: an IPv4 address has W4 bits (32 in the       *)
(* code), an IPv6 address is two words of D bits (64), and the IPv4-mapped *)
(* addresses are those with a high word of 0 and Mark above the W4 low     *)
(* bits of the low word (0xffff).                                          *)
(***************************************************************************)
EXTENDS Integers, Sequences, FiniteSets

CONSTANTS W4, D, Mark,
          Lines,      \* the lines a file may hold
          MaxLines    \* bound on the lines of a file

Pow2[n \in Nat] == IF n = 0 THEN 1 ELSE 2 * Pow2[n - 1]

ASSUME NetsetAssumption ==
    /\ W4 \in Nat \ {0} /\ D \in Nat /\ W4 < D
    /\ Mark \in 1 .. Pow2[D - W4] - 1
    /\ MaxLines \in Nat

VARIABLES file,     \* the lines read so far
          prefixes, \* ReadPrefixes: the prefixes in file order
          skipped   \* ReadPrefixes: lines that are neither prefix nor address

vars == <<file, prefixes, skipped>>

V4(n) == [fam |-> 4, hi |-> 0, lo |-> n]
V6(h, l) == [fam |-> 6, hi |-> h, lo |-> l]
Addresses == {V4(n) : n \in 0 .. Pow2[W4] - 1}
               \cup {V6(h, l) : h, l \in 0 .. Pow2[D] - 1}

BitLen(a) == IF a.fam = 4 THEN W4 ELSE 2 * D

\* netip.Addr.Is4In6, Unmap and Compare.
Is4In6(a) == a.fam = 6 /\ a.hi = 0 /\ a.lo \div Pow2[W4] = Mark
Unmap(a) == IF Is4In6(a) THEN V4(a.lo % Pow2[W4]) ELSE a
Less(a, b) ==
    \/ a.fam < b.fam
    \/ a.fam = b.fam /\ (a.hi < b.hi \/ (a.hi = b.hi /\ a.lo < b.lo))

\* netip.Prefix.Masked: the host bits are cleared in the address as written.
Clear(n, host) == n - (n % Pow2[host])
Masked(p) ==
    LET host == BitLen(p.addr) - p.bits
        a == p.addr
    IN [addr |-> IF host =< D THEN [fam |-> a.fam, hi |-> a.hi, lo |-> Clear(a.lo, host)]
                 ELSE V6(Clear(a.hi, host - D), 0),
        bits |-> p.bits]

Ones(n, host) == Clear(n, host) + Pow2[host] - 1

\* Variant of lastAddr: the high word of an IPv6 address keeps its host bits.
lastAddrLow(p) ==
    LET m == Masked(p)
        a == Unmap(m.addr)
        host == BitLen(a) - m.bits
    IN CASE a.fam = 4 -> IF m.bits < W4 THEN V4(Ones(a.lo, host)) ELSE a
         [] a.fam = 6 /\ host < D -> V6(a.hi, Ones(a.lo, host))
         [] OTHER -> V6(a.hi, Pow2[D] - 1)

\* lastAddr: the host bits are set in the unmapped address, counted from the
\* prefix's own length, word by word.
lastAddr(p) ==
    LET m == Masked(p)
        a == Unmap(m.addr)
        host == BitLen(a) - m.bits
    IN CASE a.fam = 4 -> IF m.bits < W4 THEN V4(Ones(a.lo, host)) ELSE a
         [] a.fam = 6 /\ host < D -> V6(a.hi, Ones(a.lo, host))
         [] a.fam = 6 /\ host = D -> V6(a.hi, Pow2[D] - 1)
         [] OTHER -> V6(Ones(a.hi, host - D), Pow2[D] - 1)

\* nextAddr: the address after a, with the carry between the words; NoAddr
\* after the last one of the family.  An IPv4-mapped address is unmapped
\* first, so that the last of them has none after it.
NoAddr == [fam |-> 0, hi |-> 0, lo |-> 0]
nextAddr(addr) ==
    LET a == Unmap(addr)
        top == IF a.fam = 4 THEN Pow2[W4] - 1 ELSE Pow2[D] - 1
    IN CASE a.lo # top -> [fam |-> a.fam, hi |-> a.hi, lo |-> a.lo + 1]
         [] a.lo = top /\ a.fam = 6 /\ a.hi # top -> V6(a.hi + 1, 0)
         [] OTHER -> NoAddr

\* Variant of overlapsOrTouches: touching is not enough.
overlaps(a, b) == ~Less(a.End, b.Start)

overlapsOrTouches(a, b) == ~Less(a.End, b.Start) \/ nextAddr(a.End) = b.Start

IntervalLess(a, b) ==
    Less(a.Start, b.Start) \/ (a.Start = b.Start /\ Less(a.End, b.End))

\* merge: one pass over the sorted intervals; the last one of the result is
\* the one the pass still widens.  Equal intervals fall together in the set.
Sorted(S) ==
    CHOOSE s \in [1 .. Cardinality(S) -> S] :
      \A i, j \in 1 .. Cardinality(S) : i < j => IntervalLess(s[i], s[j])

absorb(out, next) ==
    LET n == Len(out) IN
    IF n = 0 THEN <<next>>
    ELSE IF ~overlapsOrTouches(out[n], next) THEN Append(out, next)
    ELSE IF Less(out[n].End, next.End)
         THEN [out EXCEPT ![n] = [Start |-> out[n].Start, End |-> next.End]]
    ELSE out

merge(S) ==
    LET in == Sorted(S)
        out[k \in 0 .. Cardinality(S)] == IF k = 0 THEN <<>> ELSE absorb(out[k - 1], in[k])
    IN out[Cardinality(S)]

Build(ps) ==
    LET ivs == {[Start |-> Unmap(Masked(ps[i]).addr), End |-> lastAddr(ps[i])] : i \in DOMAIN ps}
    IN [v4 |-> merge({iv \in ivs : iv.Start.fam = 4}),
        v6 |-> merge({iv \in ivs : iv.Start.fam = 6})]

\* locate: sort.Search finds the first interval that starts after ip; the
\* one before it holds ip or none does.  NoInterval stands for false.
NoInterval == [Start |-> NoAddr, End |-> NoAddr]
locate(s, ip) ==
    LET i == CHOOSE i \in 0 .. Len(s) :
               /\ i < Len(s) => Less(ip, s[i + 1].Start)
               /\ \A j \in 1 .. i : ~Less(ip, s[j].Start)
    IN IF i = 0 \/ Less(s[i].End, ip) THEN NoInterval ELSE s[i]

Locate(t, a) == LET ip == Unmap(a) IN locate(IF ip.fam = 4 THEN t.v4 ELSE t.v6, ip)
Holds(t, a) == Locate(t, a) # NoInterval

\* Interval.Prefix: the longest prefix that starts and ends as iv does.
NoPrefix == [addr |-> NoAddr, bits |-> 0]
\* Variant of PrefixOf: the end of the interval is not compared.
PrefixAtStart(iv) ==
    LET good == {b \in 0 .. BitLen(iv.Start) :
                   Masked([addr |-> iv.Start, bits |-> b]).addr = iv.Start}
    IN [addr |-> iv.Start, bits |-> CHOOSE b \in good : \A c \in good : c >= b]

PrefixOf(iv) ==
    LET fits(b) == LET p == [addr |-> iv.Start, bits |-> b] IN
                   Masked(p).addr = iv.Start /\ lastAddr(p) = iv.End
        good == {b \in 0 .. BitLen(iv.Start) : fits(b)}
    IN IF good = {} THEN NoPrefix
       ELSE [addr |-> iv.Start, bits |-> CHOOSE b \in good : \A c \in good : c =< b]

\* A line is a prefix, an address, a comment or neither.
ASSUME LinesAssumption ==
    \A line \in Lines :
      \/ /\ line.kind = "prefix"
         /\ line.prefix.addr \in Addresses /\ line.prefix.bits \in 0 .. BitLen(line.prefix.addr)
      \/ line.kind = "addr" /\ line.addr \in Addresses
      \/ line.kind \in {"comment", "garbage"}

(***************************************************************************)
(* ReadPrefixes, a line at a time.                                         *)
(***************************************************************************)
Init == file = <<>> /\ prefixes = <<>> /\ skipped = 0

\* ParsePrefix: a prefix is masked, an address is unmapped and takes the
\* full length of its family.
ParsePrefix(line) ==
    IF line.kind = "prefix" THEN Masked(line.prefix)
    ELSE [addr |-> Unmap(line.addr), bits |-> BitLen(Unmap(line.addr))]

ReadLine(line) ==
    /\ Len(file) < MaxLines
    /\ file' = Append(file, line)
    /\ prefixes' = IF line.kind \in {"prefix", "addr"}
                   THEN Append(prefixes, ParsePrefix(line)) ELSE prefixes
    /\ skipped' = IF line.kind = "garbage" THEN skipped + 1 ELSE skipped

Next == \E line \in Lines : ReadLine(line)

Spec == Init /\ [][Next]_vars

Table == Build(prefixes)

----------------------------------------------------------------------------
(***************************************************************************)
(* Properties.                                                             *)
(***************************************************************************)
Value(a) == IF a.fam = 4 THEN a.lo ELSE a.hi * Pow2[D] + a.lo
Agree(a, b, bits) ==
    a.fam = b.fam /\ LET host == BitLen(a) - bits IN
                     Value(a) \div Pow2[host] = Value(b) \div Pow2[host]

\* What a line stands for: an address for itself, and a prefix for the
\* addresses that agree with it in its first bits; an IPv4-mapped address is
\* the IPv4 address it maps.  The exception is a prefix whose network is
\* IPv4-mapped, which lastAddr collapses: it stands for the first address of
\* its network alone.
MappedNet(p) == Is4In6(Masked(p).addr)
Means(line, a) ==
    \/ line.kind = "addr" /\ Unmap(line.addr) = Unmap(a)
    \/ /\ line.kind = "prefix" /\ ~MappedNet(line.prefix)
       /\ Agree(line.prefix.addr, Unmap(a), line.prefix.bits)
    \/ /\ line.kind = "prefix" /\ MappedNet(line.prefix)
       /\ Unmap(Masked(line.prefix).addr) = Unmap(a)

\* The table holds an address exactly when a line of the file stands for it,
\* over both families, at the first and the last address of a family and of
\* a word, and through the merging of nested, touching and repeated
\* prefixes (Build, merge, lastAddr, nextAddr, locate).  The exception is a
\* prefix written in IPv4-mapped form, which should stand for its network
\* and of which the code keeps the first address alone.
ContainsIsUnion ==
    LET t == Table IN
    \A a \in Addresses : Holds(t, a) <=> \E i \in DOMAIN file : Means(file[i], a)

\* The intervals of a family are in order and apart by at least one address,
\* which the halving search relies on; only after the last IPv4-mapped
\* address, which nextAddr takes for the end of IPv4, may the next interval
\* follow at once (merge).
Canonical ==
    LET t == Table IN
    \A s \in {t.v4, t.v6} :
      /\ \A i \in DOMAIN s : ~Less(s[i].End, s[i].Start)
      /\ \A i \in 1 .. Len(s) - 1 :
           /\ Less(s[i].End, s[i + 1].Start)
           /\ ~Is4In6(s[i].End) => /\ nextAddr(s[i].End) # NoAddr
                                   /\ Less(nextAddr(s[i].End), s[i + 1].Start)

\* The prefix named for the interval of an address (the scope a deny tells
\* the client) covers the interval's addresses and no other; an interval
\* that is one line's network is named by that network, and one made of a
\* prefix in IPv4-mapped form by the single address kept of it
\* (Interval.Prefix, lastAddr).
Kept(p) == IF Is4In6(p.addr) THEN [addr |-> Unmap(p.addr), bits |-> W4] ELSE p
PrefixIsInterval ==
    LET t == Table
        Within(a, iv) == ~Less(a, iv.Start) /\ ~Less(iv.End, a)
    IN \A s \in {t.v4, t.v6} : \A i \in DOMAIN s :
         LET p == PrefixOf(s[i]) IN
         /\ p # NoPrefix => \A a \in Addresses : a.fam = s[i].Start.fam =>
                              (Agree(p.addr, a, p.bits) <=> Within(a, s[i]))
         /\ Len(s) = 1 /\ Len(prefixes) = 1 => p = Kept(prefixes[1])
=============================================================================
