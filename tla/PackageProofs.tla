--------------------------- MODULE PackageProofs ---------------------------
(***************************************************************************)
(* Theorems about Composition and Package.  For addresses of any width:    *)
(* what the content of a live set keeps record by record is what its       *)
(* prefixes alone say, and a look-up that skips lengths finds what covers  *)
(* the address.  For any objects, cut at any byte: what comes out of one   *)
(* is what was written, all of it or nothing, and applying it is a         *)
(* behaviour of the composition.                                           *)
(***************************************************************************)
EXTENDS Package, FiniteSetTheorems, SequenceTheorems, WellFoundedInduction, TLAPS

(* The prefixes of one family and length that are present.                 *)
Group(f, b) == {p \in Present : p.fam = f /\ p.bits = b}

(* Inductive: the hash holds the prefixes present, and each counter is the *)
(* size of its group.                                                      *)
Inv ==
  /\ nets \in [Prefixes -> Exps \cup {Absent}]
  /\ IsFiniteSet(Present)
  /\ hash = Present
  /\ lens = [f \in Families |-> [b \in Lengths[f] |-> Cardinality(Group(f, b))]]

(* A prefix has the fields of one, and its length is one its family has    *)
(* (netip.PrefixFrom).                                                     *)
LEMMA PrefixShape ==
  ASSUME NEW p \in Prefixes
  PROVE  /\ p = [fam |-> p.fam, bits |-> p.bits, lead |-> p.lead]
         /\ p.fam \in Families /\ p.bits \in 0 .. Width[p.fam]
  <1>1. PICK ip \in Addrs : \E b \in 0 .. Width[ip.fam] : p = PrefixFrom(ip, b)
    BY DEF Prefixes
  <1>2. ip.fam \in Families
    BY DEF Addrs
  <1> QED BY <1>1, <1>2 DEF PrefixFrom

(* Groups of a finite content are finite.                                  *)
LEMMA GroupFinite ==
  ASSUME IsFiniteSet(Present), NEW f, NEW b
  PROVE  IsFiniteSet(Group(f, b)) /\ Cardinality(Group(f, b)) \in Nat
  BY FS_Subset, FS_CardinalityType DEF Group

(* Nothing is present at first.                                            *)
LEMMA InitInv == Init => Inv
  <1> SUFFICES ASSUME Init PROVE Inv OBVIOUS
  <1>1. Present = {}
    BY DEF Init, Present
  <1>2. \A f, b : Group(f, b) = {}
    BY <1>1 DEF Group
  <1>3. lens = [f \in Families |-> [b \in Lengths[f] |-> Cardinality(Group(f, b))]]
    BY <1>2, FS_EmptySet, Zenon DEF Init
  <1> QED BY <1>1, <1>3, FS_EmptySet, Zenon DEF Init, Inv

(* A record that adds a prefix keeps the invariant (apply, recAdd).        *)
LEMMA AddInv ==
  ASSUME Inv, NEW p \in Prefixes, NEW exp \in Exps, Add(p, exp)
  PROVE  Inv'
  <1>0. nets' \in [Prefixes -> Exps \cup {Absent}] /\ exp # Absent
    BY WidthAssumption, Zenon DEF Inv, Add
  <1>1. Present' = Present \cup {p}
    <2>1. \A t : t \in Present' <=> t \in Present \cup {p}
      BY <1>0 DEF Inv, Add, Present
    <2> QED BY <2>1, Zenon
  <1>2. CASE nets[p] # Absent
    <2>1. p \in Present /\ Present' = Present
      BY <1>1, <1>2 DEF Present
    <2>2. UNCHANGED <<hash, lens>>
      BY <1>2 DEF Add
    <2>3. \A f, b : Group(f, b)' = Group(f, b)
      BY <2>1 DEF Group
    <2> QED BY <1>0, <2>1, <2>2, <2>3 DEF Inv
  <1>3. CASE nets[p] = Absent
    <2>1. p \notin Present
      BY <1>3 DEF Present
    <2>2. IsFiniteSet(Present') /\ hash' = Present'
      BY <1>1, <1>3, <2>1, FS_AddElement DEF Inv, Add, Toggle
    <2>3. ASSUME NEW f \in Families, NEW b \in Lengths[f]
          PROVE  lens'[f][b] = Cardinality(Group(f, b)')
      <3>0. lens[f][b] = Cardinality(Group(f, b)) /\ IsFiniteSet(Group(f, b))
        BY GroupFinite DEF Inv
      <3>1. CASE f = p.fam /\ b = p.bits
        <4>1. Group(f, b)' = Group(f, b) \cup {p} /\ p \notin Group(f, b)
          BY <1>1, <2>1, <3>1 DEF Group
        <4>2. lens'[f][b] = lens[f][b] + 1
          BY <1>3, <3>1 DEF Add, Inv
        <4> QED BY ONLY <3>0, <4>1, <4>2, FS_AddElement, Zenon
      <3>2. CASE ~(f = p.fam /\ b = p.bits)
        <4>1. Group(f, b)' = Group(f, b)
          BY <1>1, <3>2 DEF Group
        <4>2. lens'[f][b] = lens[f][b]
          <5>1. CASE f # p.fam
            BY <1>3, <5>1 DEF Add, Inv
          <5>2. CASE f = p.fam /\ b # p.bits
            BY <1>3, <5>2 DEF Add, Inv
          <5> QED BY <3>2, <5>1, <5>2
        <4> QED BY <3>0, <4>1, <4>2
      <3> QED BY <3>1, <3>2
    <2>4. lens' = [f \in Families |-> [b \in Lengths[f] |-> lens'[f][b]]]
      BY <1>3 DEF Add, Inv
    <2> QED BY <1>0, <2>2, <2>3, <2>4 DEF Inv
  <1> QED BY <1>2, <1>3

(* A record that removes a prefix keeps the invariant (apply).             *)
LEMMA RemoveInv ==
  ASSUME Inv, NEW p \in Prefixes, Remove(p)
  PROVE  Inv'
  <1>0. nets' \in [Prefixes -> Exps \cup {Absent}]
    BY DEF Inv, Remove
  <1>1. Present' = Present \ {p} /\ p \in Present
    <2>1. \A t : t \in Present' <=> t \in Present \ {p}
      BY <1>0 DEF Inv, Remove, Present
    <2> QED BY <2>1 DEF Remove, Present
  <1>2. IsFiniteSet(Present') /\ hash' = Present'
    BY <1>1, FS_RemoveElement DEF Inv, Remove, Toggle
  <1>3. ASSUME NEW f \in Families, NEW b \in Lengths[f]
        PROVE  lens'[f][b] = Cardinality(Group(f, b)')
    <2>0. lens[f][b] = Cardinality(Group(f, b)) /\ IsFiniteSet(Group(f, b))
      BY GroupFinite DEF Inv
    <2>1. CASE f = p.fam /\ b = p.bits
      <3>1. Group(f, b)' = Group(f, b) \ {p} /\ p \in Group(f, b)
        BY <1>1, <2>1 DEF Group
      <3>2. lens'[f][b] = lens[f][b] - 1
        BY <2>1 DEF Remove, Inv
      <3> QED BY ONLY <2>0, <3>1, <3>2, FS_RemoveElement, Zenon
    <2>2. CASE ~(f = p.fam /\ b = p.bits)
      <3>1. Group(f, b)' = Group(f, b)
        BY <1>1, <2>2 DEF Group
      <3>2. lens'[f][b] = lens[f][b]
        BY <2>2 DEF Remove, Inv
      <3> QED BY <2>0, <3>1, <3>2
    <2> QED BY <2>1, <2>2
  <1>4. lens' = [f \in Families |-> [b \in Lengths[f] |-> lens'[f][b]]]
    BY ZenonT(30) DEF Remove, Inv
  <1> QED BY <1>0, <1>2, <1>3, <1>4 DEF Inv

(* The invariant holds in every reachable state.                           *)
LEMMA Invariance == Spec => []Inv
  <1>1. Inv /\ [Next]_vars => Inv'
    <2> SUFFICES ASSUME Inv, [Next]_vars PROVE Inv' OBVIOUS
    <2>1. CASE UNCHANGED vars
      <3>1. Present' = Present
        BY <2>1 DEF vars, Present
      <3>2. \A f, b : Group(f, b)' = Group(f, b)
        BY <3>1 DEF Group
      <3> QED BY <2>1, <3>1, <3>2 DEF vars, Inv
    <2>2. CASE Next
      BY <2>2, AddInv, RemoveInv DEF Next
    <2> QED BY <2>1, <2>2
  <1> QED BY <1>1, InitInv, PTL DEF Spec

(* The hash and the number of addresses are those of the content, for any  *)
(* width, expiries and history of records (apply, size).                   *)
THEOREM Summary == Spec => []SummaryOfContent
  <1>1. Inv => SummaryOfContent
    <2> SUFFICES ASSUME Inv PROVE SummaryOfContent OBVIOUS
    <2> DEFINE Four == Group("v4", Width["v4"])
    <2> DEFINE Six == Group("v6", Width["v6"])
    <2>1. Addresses = Cardinality(Four) + Cardinality(Six)
      BY WidthAssumption DEF Inv, Addresses, Families, Lengths
    <2>2. Four \cap Six = {}
      BY DEF Group
    <2>3. \A p : p \in {q \in Present : q.bits = Width[q.fam]} <=> p \in Four \cup Six
      <3>1. \A q \in Present : q.fam \in Families
        BY PrefixShape DEF Present
      <3> QED BY <3>1 DEF Group, Families
    <2>4. {q \in Present : q.bits = Width[q.fam]} = Four \cup Six
      BY <2>3
    <2>5. IsFiniteSet(Four) /\ IsFiniteSet(Six)
          /\ Cardinality(Four) \in Nat /\ Cardinality(Six) \in Nat
      BY GroupFinite DEF Inv
    <2>6. Cardinality(Four \cup Six) = Cardinality(Four) + Cardinality(Six)
      <3>1. Cardinality(Four \cap Six) = 0
        BY <2>2, FS_EmptySet
      <3>2. Cardinality(Four \cup Six)
              = Cardinality(Four) + Cardinality(Six) - Cardinality(Four \cap Six)
        BY ONLY <2>5, FS_Union, Zenon
      <3> QED BY ONLY <2>5, <3>1, <3>2
    <2> QED BY <2>1, <2>4, <2>6, Zenon DEF Inv, SummaryOfContent
  <1> QED BY <1>1, Invariance, PTL

(* An address is looked up as one of its own space: a mapped one in v4     *)
(* (netip.Addr.Unmap).                                                     *)
LEMMA UnmapStays ==
  ASSUME NEW addr \in Addrs
  PROVE  Unmap(addr) \in Addrs
  <1>1. addr.fam \in Families /\ addr.value \in 0 .. (2 ^ Width[addr.fam] - 1)
    BY DEF Addrs
  <1>2. CASE ~(addr.fam = "v6" /\ addr.value >= MappedFrom)
    BY <1>2 DEF Unmap
  <1>3. CASE addr.fam = "v6" /\ addr.value >= MappedFrom
    <2>1. addr.value - MappedFrom \in 0 .. (2 ^ Width["v4"] - 1)
      BY <1>1, <1>3, WidthAssumption DEF MappedFrom, Families
    <2>2. [fam |-> "v4", value |-> addr.value - MappedFrom] \in Addrs
      BY <2>1 DEF Addrs, Families
    <2> QED BY <1>3, <2>2 DEF Unmap
  <1> QED BY <1>2, <1>3

(* contains finds exactly what covers the address, for any width, expiries *)
(* and history of records: a length is skipped only when no prefix of it   *)
(* is present (contains, lens kept by apply).                              *)
THEOREM Coverage == Spec => []ContainsIsCoverage
  <1>1. Inv => ContainsIsCoverage
    <2> SUFFICES ASSUME Inv, NEW addr \in Addrs, NEW now \in Times
                 PROVE  Contains(addr, now) <=>
                          \E p \in Present : Covers(p, Unmap(addr)) /\ Alive(nets[p], now)
      BY DEF ContainsIsCoverage
    <2> DEFINE ip == Unmap(addr)
    <2>0. ip \in Addrs /\ ip.fam \in Families
      BY UnmapStays DEF Addrs
    <2> HIDE DEF ip
    <2>1. ASSUME Contains(addr, now)
          PROVE  \E p \in Present : Covers(p, ip) /\ Alive(nets[p], now)
      <3>1. PICK bits \in Lengths[ip.fam] : Alive(nets[PrefixFrom(ip, bits)], now)
        BY <2>1 DEF Contains, ip
      <3>2. PrefixFrom(ip, bits) \in Prefixes
        BY <2>0 DEF Prefixes, Lengths
      <3>3. PrefixFrom(ip, bits) \in Present
        BY <3>1, <3>2 DEF Alive, Present
      <3>4. Covers(PrefixFrom(ip, bits), ip)
        BY DEF Covers, PrefixFrom
      <3> QED BY <3>1, <3>3, <3>4
    <2>2. ASSUME NEW p \in Present, Covers(p, ip), Alive(nets[p], now)
          PROVE  Contains(addr, now)
      <3>1. /\ p = [fam |-> p.fam, bits |-> p.bits, lead |-> p.lead]
            /\ p.fam = ip.fam /\ p.bits \in 0 .. Width[p.fam]
        BY <2>2, PrefixShape DEF Present, Covers
      <3>2. p = PrefixFrom(ip, p.bits) /\ p.bits \in Lengths[ip.fam]
        BY <2>0, <2>2, <3>1 DEF PrefixFrom, Covers, Lengths
      <3>3. p \in Group(ip.fam, p.bits)
        BY <3>1 DEF Group
      <3>4. Cardinality(Group(ip.fam, p.bits)) # 0
        BY <3>3, GroupFinite, FS_EmptySet DEF Inv
      <3>5. lens[ip.fam][p.bits] # 0
        BY <2>0, <3>2, <3>4 DEF Inv
      <3> QED BY <2>2, <3>2, <3>5 DEF Contains, ip
    <2> QED BY <2>1, <2>2 DEF ip
  <1> QED BY <1>1, Invariance, PTL
-----------------------------------------------------------------------------
(* Induction, from the least natural outside T.                           *)
LEMMA NatInd ==
  ASSUME NEW T \in SUBSET Nat, 0 \in T, \A n \in T : n + 1 \in T
  PROVE  T = Nat
  <1> SUFFICES ASSUME T # Nat PROVE FALSE
    BY Zenon
  <1> DEFINE M == Nat \ T
             R == OpToRel(<, Nat)
  <1>1. M \subseteq Nat /\ M # {}
    BY Zenon
  <1>2. \A x, y \in Nat : y < x => <<y, x>> \in R
    BY Zenon DEF OpToRel
  <1>3. IsWellFoundedOn(R, Nat)
    BY NatLessThanWellFounded, Zenon
  <1> HIDE DEF R, M
  <1>4. PICK x \in M : \A y \in M : ~(<<y, x>> \in R)
    BY ONLY <1>1, <1>3, WFMin, Zenon
  <1>5. x \in Nat /\ x # 0 /\ x \notin T
    BY DEF M
  <1>6. x - 1 \in Nat /\ x - 1 < x
    BY ONLY <1>5
  <1>7. x - 1 \in M \/ (x - 1) + 1 \in T
    BY ONLY <1>6, \A n \in T : n + 1 \in T, M = Nat \ T DEF M
  <1>8. (x - 1) + 1 = x
    BY ONLY <1>5
  <1> QED BY <1>2, <1>4, <1>5, <1>6, <1>7, <1>8, Zenon
-----------------------------------------------------------------------------
(* Sequences of bytes.                                                     *)

(* Anything that is a sequence over some set is one over its own elements. *)
LEMMA SeqIs ==
  ASSUME NEW X, NEW s \in Seq(X)
  PROVE  IsSeq(s) /\ Len(s) \in Nat /\ DOMAIN s = 1 .. Len(s)
  <1>1. Len(s) \in Nat /\ DOMAIN s = 1 .. Len(s) /\ s = [i \in 1 .. Len(s) |-> s[i]]
    OBVIOUS
  <1> DEFINE Y == {s[i] : i \in DOMAIN s}
  <1>2. s \in [1 .. Len(s) -> Y]
    BY <1>1, Zenon
  <1> HIDE DEF Y
  <1>3. s \in Seq(Y)
    BY ONLY <1>1, <1>2, SeqDef
  <1> QED BY <1>1, <1>3, Zenon DEF IsSeq, Y

(* Two sequences joined, position by position.                             *)
LEMMA Joined ==
  ASSUME NEW s, NEW t, IsSeq(s), IsSeq(t)
  PROVE  /\ IsSeq(s \o t) /\ Len(s) \in Nat /\ Len(t) \in Nat
         /\ Len(s \o t) = Len(s) + Len(t)
         /\ \A i \in 1 .. Len(s) : (s \o t)[i] = s[i]
         /\ \A i \in 1 .. Len(t) : (s \o t)[Len(s) + i] = t[i]
  <1> DEFINE S == {s[i] : i \in DOMAIN s}
             T == {t[i] : i \in DOMAIN t}
  <1>1. s \in Seq(S) /\ t \in Seq(T)
    BY Zenon DEF IsSeq
  <1> HIDE DEF S, T
  <1>2. s \in Seq(S \cup T) /\ t \in Seq(S \cup T)
    BY ONLY <1>1
  <1> DEFINE X == S \cup T
  <1> HIDE DEF X
  <1>3. s \in Seq(X) /\ t \in Seq(X)
    BY <1>2 DEF X
  <1>4. s \o t \in Seq(X)
    BY ONLY <1>3
  <1>5. IsSeq(s \o t)
    BY ONLY <1>4, SeqIs, Zenon
  <1> QED BY ONLY <1>3, <1>5

(* A field is its value and fillers.                                       *)
LEMMA FieldIs ==
  ASSUME NEW v, NEW n \in Nat, n > 0
  PROVE  IsSeq(Field(v, n)) /\ Len(Field(v, n)) = n /\ Field(v, n)[1] = v
  <1> DEFINE f == [i \in 1 .. n - 1 |-> "filler"]
  <1>1. f \in Seq({"filler"}) /\ Len(f) = n - 1
    <2>1. f \in [1 .. n - 1 -> {"filler"}] /\ n - 1 \in Nat
      OBVIOUS
    <2> HIDE DEF f
    <2>2. f \in Seq({"filler"})
      BY ONLY <2>1, SeqDef
    <2>3. DOMAIN f = 1 .. n - 1
      BY ONLY <2>1
    <2> QED BY ONLY <2>1, <2>2, <2>3
  <1> HIDE DEF f
  <1>2. IsSeq(f)
    BY ONLY <1>1, SeqIs, Zenon
  <1>3. <<v>> \in Seq({v}) /\ Len(<<v>>) = 1 /\ <<v>>[1] = v
    OBVIOUS
  <1>4. IsSeq(<<v>>)
    BY ONLY <1>3, SeqIs, Zenon
  <1>5. IsSeq(<<v>> \o f) /\ Len(<<v>> \o f) = n /\ (<<v>> \o f)[1] = v
    <2>1. /\ IsSeq(<<v>> \o f) /\ Len(<<v>> \o f) = Len(<<v>>) + Len(f)
          /\ \A i \in 1 .. Len(<<v>>) : (<<v>> \o f)[i] = <<v>>[i]
      BY ONLY <1>2, <1>4, Joined, Zenon
    <2> QED BY ONLY <2>1, <1>1, <1>3, n \in Nat
  <1>6. Field(v, n) = <<v>> \o f
    BY Zenon DEF Field, f
  <1> QED BY ONLY <1>5, <1>6, Zenon

(* u is s, of length m, followed by t, of length n.                        *)
Placed(u, s, m, t, n) ==
  /\ IsSeq(u) /\ Len(u) = m + n
  /\ \A i \in 1 .. m : u[i] = s[i]
  /\ \A i \in 1 .. n : u[m + i] = t[i]

(* A sequence appended to another is placed after it.                      *)
LEMMA Place ==
  ASSUME NEW s, NEW t, IsSeq(s), IsSeq(t)
  PROVE  Placed(s \o t, s, Len(s), t, Len(t))
  <1>1. /\ IsSeq(s \o t) /\ Len(s) \in Nat /\ Len(t) \in Nat
        /\ Len(s \o t) = Len(s) + Len(t)
        /\ \A i \in 1 .. Len(s) : (s \o t)[i] = s[i]
        /\ \A i \in 1 .. Len(t) : (s \o t)[Len(s) + i] = t[i]
    BY Joined
  <1> QED BY ONLY <1>1, Zenon DEF Placed

(* An address record on the wire: where each of its fields is.             *)
Addressed(r, e, A) ==
  /\ IsSeq(e) /\ Len(e) = 3 + A + 8 /\ A \in {4, 16}
  /\ e[1] = r.op /\ e[2] = r.prefix.fam /\ e[3] = r.prefix.bits /\ e[4] = r.prefix.lead
  /\ e[4 + A] = r.exp

(* The bytes of an address record.                                         *)
LEMMA CIDREncoded ==
  ASSUME NEW o, NEW r, o.typ = "cidr", NEW A, A = AddressSize(r.prefix.fam), NEW e,
         e = EncodeRecord(o, r)
  PROVE  Addressed(r, e, A)
  <1> DEFINE a == Field(r.op, 1)
             b == Field(r.prefix.fam, 1)
             c == Field(r.prefix.bits, 1)
             d == Field(r.prefix.lead, A)
             x == Field(r.exp, 8)
             bc == b \o c
             bcd == bc \o d
             y == a \o bcd
             z == y \o x
  <1>1. A \in {4, 16} /\ A \in Nat /\ A > 0
    BY DEF AddressSize
  <1>2. /\ IsSeq(a) /\ Len(a) = 1 /\ a[1] = r.op
        /\ IsSeq(b) /\ Len(b) = 1 /\ b[1] = r.prefix.fam
        /\ IsSeq(c) /\ Len(c) = 1 /\ c[1] = r.prefix.bits
    <2>1. 1 \in Nat /\ 1 > 0
      OBVIOUS
    <2>2. IsSeq(a) /\ Len(a) = 1 /\ a[1] = r.op
      BY ONLY <2>1, FieldIs, Zenon
    <2>3. IsSeq(b) /\ Len(b) = 1 /\ b[1] = r.prefix.fam
      BY ONLY <2>1, FieldIs, Zenon
    <2>4. IsSeq(c) /\ Len(c) = 1 /\ c[1] = r.prefix.bits
      BY ONLY <2>1, FieldIs, Zenon
    <2> QED BY ONLY <2>2, <2>3, <2>4, Zenon
  <1>3. IsSeq(d) /\ Len(d) = A /\ d[1] = r.prefix.lead
    BY ONLY <1>1, FieldIs, Zenon
  <1>4. IsSeq(x) /\ Len(x) = 8 /\ x[1] = r.exp
    <2>1. 8 \in Nat /\ 8 > 0
      OBVIOUS
    <2> QED BY ONLY <2>1, FieldIs, Zenon
  <1>5. e = z \o <<>>
    BY Zenon DEF EncodeRecord, AddressSize
  <1> HIDE DEF a, b, c, d, x, bc, bcd, y, z
  <1>6. IsSeq(bc) /\ Len(bc) = 2 /\ bc[1] = r.prefix.fam /\ bc[2] = r.prefix.bits
    <2>1. Placed(bc, b, 1, c, 1)
      BY <1>2, Place, Zenon DEF bc
    <2> QED BY ONLY <1>2, <2>1 DEF Placed
  <1>7. IsSeq(bcd) /\ Len(bcd) = 2 + A /\ bcd[1] = r.prefix.fam
        /\ bcd[2] = r.prefix.bits /\ bcd[3] = r.prefix.lead
    <2>1. Placed(bcd, bc, 2, d, A)
      BY <1>3, <1>6, Place, Zenon DEF bcd
    <2> QED BY ONLY <1>1, <1>3, <1>6, <2>1 DEF Placed
  <1>8. IsSeq(y) /\ Len(y) = 3 + A /\ y[1] = r.op /\ y[2] = r.prefix.fam
        /\ y[3] = r.prefix.bits /\ y[4] = r.prefix.lead
    <2>1. Placed(y, a, 1, bcd, 2 + A)
      BY <1>2, <1>7, Place, Zenon DEF y
    <2> QED BY ONLY <1>1, <1>2, <1>7, <2>1 DEF Placed
  <1>9. IsSeq(z) /\ Len(z) = 3 + A + 8 /\ z[1] = r.op /\ z[2] = r.prefix.fam
        /\ z[3] = r.prefix.bits /\ z[4] = r.prefix.lead /\ z[4 + A] = r.exp
    <2>1. Placed(z, y, 3 + A, x, 8)
      BY <1>4, <1>8, Place, Zenon DEF z
    <2> QED BY ONLY <1>1, <1>4, <1>8, <2>1 DEF Placed
  <1>10. z \o <<>> = z
    BY ONLY <1>9 DEF IsSeq
  <1> QED BY ONLY <1>1, <1>5, <1>9, <1>10, Zenon DEF Addressed

(* A text record on the wire: where each of its fields is.                 *)
Worded(o, r, e, L, R) ==
  /\ IsSeq(e) /\ L \in Nat /\ R \in Nat
  /\ Len(e) = IF o.reasons THEN L + R + 13 ELSE L + 11
  /\ e[1] = r.op /\ e[2] = L /\ e[L + 4] = r.exp
  /\ \A i \in 1 .. L : e[3 + i] = r.value[i]
  /\ o.reasons => e[L + 12] = R /\ \A i \in 1 .. R : e[L + 13 + i] = r.reason[i]

(* The bytes of a text record.                                             *)
LEMMA TextEncoded ==
  ASSUME NEW o, NEW r, o.typ = "string", TextRecord(o, r), o.reasons \in BOOLEAN, NEW e,
         e = EncodeRecord(o, r), NEW L, L = Len(r.value), NEW R, R = Len(r.reason)
  PROVE  Worded(o, r, e, L, R)
  <1> DEFINE a == Field(r.op, 1)
             b == Field(L, 2)
             c == r.value
             x == Field(r.exp, 8)
             d == Field(R, 2)
             w == r.reason
             bc == b \o c
             y == a \o bc
             z == y \o x
             dw == d \o w
  <1>1. IsSeq(c) /\ IsSeq(w) /\ L \in Nat /\ R \in Nat /\ Len(c) = L /\ Len(w) = R
    BY DEF TextRecord, IsSeq
  <1>2. IsSeq(a) /\ Len(a) = 1 /\ a[1] = r.op
    <2>1. 1 \in Nat /\ 1 > 0
      OBVIOUS
    <2> QED BY ONLY <2>1, FieldIs, Zenon
  <1>3. IsSeq(b) /\ Len(b) = 2 /\ b[1] = L /\ IsSeq(d) /\ Len(d) = 2 /\ d[1] = R
    <2>1. 2 \in Nat /\ 2 > 0
      OBVIOUS
    <2>2. IsSeq(b) /\ Len(b) = 2 /\ b[1] = L
      BY ONLY <2>1, FieldIs, Zenon
    <2>3. IsSeq(d) /\ Len(d) = 2 /\ d[1] = R
      BY ONLY <2>1, FieldIs, Zenon
    <2> QED BY ONLY <2>2, <2>3, Zenon
  <1>4. IsSeq(x) /\ Len(x) = 8 /\ x[1] = r.exp
    <2>1. 8 \in Nat /\ 8 > 0
      OBVIOUS
    <2> QED BY ONLY <2>1, FieldIs, Zenon
  <1>5. e = z \o (IF o.reasons THEN dw ELSE <<>>)
    <2>1. o.typ # "cidr"
      OBVIOUS
    <2> QED BY <2>1, Zenon DEF EncodeRecord
  <1> HIDE DEF a, b, c, x, d, w, bc, y, z, dw
  <1>6. IsSeq(bc) /\ Len(bc) = L + 2 /\ bc[1] = L /\ \A i \in 1 .. L : bc[2 + i] = c[i]
    <2>1. Placed(bc, b, 2, c, L)
      BY <1>1, <1>3, Place, Zenon DEF bc
    <2> QED BY ONLY <1>1, <1>3, <2>1 DEF Placed
  <1>7. IsSeq(y) /\ Len(y) = L + 3 /\ y[1] = r.op /\ y[2] = L /\ \A i \in 1 .. L : y[3 + i] = c[i]
    <2>1. Placed(y, a, 1, bc, L + 2)
      BY <1>2, <1>6, Place, Zenon DEF y
    <2>2. \A i \in 1 .. L : y[1 + (2 + i)] = bc[2 + i] /\ 1 + (2 + i) = 3 + i
      BY ONLY <1>1, <2>1 DEF Placed
    <2> QED BY ONLY <1>1, <1>2, <1>6, <2>1, <2>2 DEF Placed
  <1>8. /\ IsSeq(z) /\ Len(z) = L + 11 /\ z[1] = r.op /\ z[2] = L /\ z[L + 4] = r.exp
        /\ \A i \in 1 .. L : z[3 + i] = c[i]
    <2>1. Placed(z, y, L + 3, x, 8)
      BY <1>4, <1>7, Place, Zenon DEF z
    <2>2. \A i \in 1 .. L : z[3 + i] = y[3 + i]
      BY ONLY <1>1, <2>1 DEF Placed
    <2>3. z[L + 3 + 1] = x[1] /\ L + 3 + 1 = L + 4
      BY ONLY <1>1, <2>1 DEF Placed
    <2> QED BY ONLY <1>1, <1>4, <1>7, <2>1, <2>2, <2>3 DEF Placed
  <1>9. IsSeq(dw) /\ Len(dw) = R + 2 /\ dw[1] = R /\ \A i \in 1 .. R : dw[2 + i] = w[i]
    <2>1. Placed(dw, d, 2, w, R)
      BY <1>1, <1>3, Place, Zenon DEF dw
    <2> QED BY ONLY <1>1, <1>3, <2>1 DEF Placed
  <1>10. CASE ~o.reasons
    <2>1. z \o <<>> = z
      BY ONLY <1>8 DEF IsSeq
    <2>2. e = z
      BY ONLY <1>5, <1>10, <2>1, Zenon
    <2> QED BY ONLY <1>1, <1>8, <1>10, <2>2, Zenon DEF Worded, c
  <1>11. CASE o.reasons
    <2>0. e = z \o dw
      BY ONLY <1>5, <1>11, Zenon
    <2>1. Placed(e, z, L + 11, dw, R + 2)
      BY ONLY <2>0, <1>8, <1>9, Place, ZenonT(30)
    <2>2. /\ e[1] = z[1] /\ e[2] = z[2] /\ e[L + 4] = z[L + 4]
          /\ \A i \in 1 .. L : e[3 + i] = z[3 + i]
          /\ IsSeq(e) /\ Len(e) = L + R + 13
      BY ONLY <1>1, <2>1 DEF Placed
    <2>3. e[L + 11 + 1] = dw[1] /\ L + 11 + 1 = L + 12
      BY ONLY <1>1, <2>1 DEF Placed
    <2>4. \A i \in 1 .. R : e[L + 11 + (2 + i)] = dw[2 + i] /\ L + 11 + (2 + i) = L + 13 + i
      BY ONLY <1>1, <2>1 DEF Placed
    <2>5. \A i \in 1 .. R : e[L + 13 + i] = w[i]
      BY ONLY <1>9, <2>4
    <2>6. e[L + 12] = R
      BY ONLY <1>9, <2>3
    <2> QED BY ONLY <1>1, <1>8, <1>11, <2>2, <2>5, <2>6, Zenon DEF Worded, c, w
  <1> QED BY ONLY <1>10, <1>11
-----------------------------------------------------------------------------
(* Objects: part n of one is its header and its first n records.           *)
Grown(g, o, n) ==
  IF n = 0 THEN EncodeHeader(o) ELSE g[n - 1] \o EncodeRecord(o, o.recs[n])
Parts(g, m, o) == g = [n \in 0 .. m |-> Grown(g, o, n)]
Part(o) == CHOOSE g : Parts(g, Len(o.recs), o)

(* The recursive function of Encode can always go one record further.      *)
LEMMA PartsExtend ==
  ASSUME NEW m \in Nat, NEW o, NEW g, Parts(g, m, o)
  PROVE  \E h : Parts(h, m + 1, o)
  <1> DEFINE h == [n \in 0 .. m + 1 |-> IF n = m + 1 THEN Grown(g, o, n) ELSE g[n]]
  <1>1. \A n \in 0 .. m : g[n] = Grown(g, o, n)
    BY Zenon DEF Parts
  <1>2. /\ \A n \in 0 .. m : h[n] = g[n]
        /\ h[m + 1] = Grown(g, o, m + 1)
        /\ DOMAIN h = 0 .. m + 1
        /\ h = [n \in DOMAIN h |-> h[n]]
    OBVIOUS
  <1> HIDE DEF h
  <1>3. \A n \in 1 .. m + 1 : h[n - 1] = g[n - 1]
    BY <1>2
  <1>4. \A n \in 0 .. m + 1 : Grown(h, o, n) = Grown(g, o, n)
    <2>1. \A n \in 0 .. m + 1 : n = 0 \/ n \in 1 .. m + 1
      OBVIOUS
    <2> QED BY <1>3, <2>1, Zenon DEF Grown
  <1>5. \A n \in 0 .. m + 1 : n \in 0 .. m \/ n = m + 1
    OBVIOUS
  <1>6. \A n \in 0 .. m + 1 : h[n] = Grown(h, o, n)
    BY ONLY <1>1, <1>2, <1>4, <1>5, Zenon
  <1>7. Parts(h, m + 1, o)
    BY ONLY <1>2, <1>6, Zenon DEF Parts
  <1> QED BY <1>7, Zenon

(* The parts of an object, and the object as the last of them (external:   *)
(* the keeper's encoding).                                                 *)
LEMMA PartIs ==
  ASSUME NEW o, IsSeq(o.recs)
  PROVE  /\ Part(o)[0] = EncodeHeader(o)
         /\ \A n \in 1 .. Len(o.recs) : Part(o)[n] = Part(o)[n - 1] \o EncodeRecord(o, o.recs[n])
         /\ Encode(o) = Part(o)[Len(o.recs)]
  <1> DEFINE N == Len(o.recs)
             T == {m \in Nat : \E g : Parts(g, m, o)}
  <1>0. N \in Nat
    BY DEF IsSeq
  <1>1. 0 \in T
    <2> DEFINE g == [n \in 0 .. 0 |-> EncodeHeader(o)]
    <2>1. \A n \in 0 .. 0 : n = 0
      OBVIOUS
    <2>2. g = [n \in 0 .. 0 |-> Grown(g, o, n)]
      BY <2>1, Zenon DEF Grown
    <2>3. Parts(g, 0, o)
      BY <2>2, Zenon DEF Parts
    <2> QED BY <2>3, Zenon
  <1>2. \A m \in T : m + 1 \in T
    <2> SUFFICES ASSUME NEW m \in T PROVE m + 1 \in T
      BY Zenon
    <2>1. m \in Nat /\ m + 1 \in Nat /\ \E g : Parts(g, m, o)
      OBVIOUS
    <2>2. \E g : Parts(g, m + 1, o)
      BY <2>1, PartsExtend, Zenon
    <2> QED BY <2>1, <2>2, Zenon
  <1>3. T = Nat
    BY <1>1, <1>2, NatInd, Zenon
  <1>4. \E g : Parts(g, N, o)
    BY <1>0, <1>3, Zenon
  <1> HIDE DEF T, N
  <1>5. Parts(Part(o), N, o)
    BY <1>4, Zenon DEF Part, N
  <1>6. \A n \in 0 .. N : Part(o)[n] = Grown(Part(o), o, n)
    BY ONLY <1>5, Zenon DEF Parts
  <1>7. 0 \in 0 .. N /\ \A n \in 1 .. N : n \in 0 .. N /\ n # 0
    BY ONLY <1>0
  <1>8. Encode(o) = Part(o)[N]
    BY Zenon DEF Encode, Part, Parts, Grown, N
  <1> QED BY ONLY <1>6, <1>7, <1>8, Zenon DEF Grown, N

(* A record on the wire is a sequence of bytes, whatever its object.       *)
LEMMA RecordIsSeq ==
  ASSUME NEW o \in Objects, NEW n \in DOMAIN o.recs
  PROVE  IsSeq(EncodeRecord(o, o.recs[n]))
  <1> DEFINE r == o.recs[n]
  <1>1. CASE o.typ = "cidr"
    <2>1. PICK e, A : e = EncodeRecord(o, r) /\ A = AddressSize(r.prefix.fam)
      BY Zenon
    <2>2. Addressed(r, e, A)
      BY ONLY <1>1, <2>1, CIDREncoded, Zenon
    <2> QED BY ONLY <2>1, <2>2, Zenon DEF Addressed
  <1>2. CASE o.typ # "cidr"
    <2>1. IsSeq(r.value) /\ IsSeq(r.reason)
      BY <1>2, ObjectsAssumption, Zenon DEF TextRecord
    <2>2. 1 \in Nat /\ 1 > 0 /\ 2 \in Nat /\ 2 > 0 /\ 8 \in Nat /\ 8 > 0
      OBVIOUS
    <2>3. IsSeq(Field(r.op, 1)) /\ IsSeq(Field(r.exp, 8))
      BY <2>2, FieldIs, Zenon
    <2>4. IsSeq(Field(Len(r.value), 2)) /\ IsSeq(Field(Len(r.reason), 2))
      BY <2>2, FieldIs, Zenon
    <2>5. IsSeq(Field(Len(r.value), 2) \o r.value) /\ IsSeq(Field(Len(r.reason), 2) \o r.reason)
      BY ONLY <2>1, <2>4, Joined, Zenon
    <2>6. IsSeq(Field(r.op, 1) \o (Field(Len(r.value), 2) \o r.value))
      BY ONLY <2>3, <2>5, Joined, Zenon
    <2>7. IsSeq(Field(r.op, 1) \o (Field(Len(r.value), 2) \o r.value) \o Field(r.exp, 8))
      BY ONLY <2>3, <2>6, Joined, Zenon
    <2>8. IsSeq(<<>>)
      <3>1. <<>> \in Seq({})
        OBVIOUS
      <3> QED BY <3>1, SeqIs, Zenon
    <2>9. IsSeq(Field(r.op, 1) \o (Field(Len(r.value), 2) \o r.value) \o Field(r.exp, 8)
                \o (IF o.typ = "string" /\ o.reasons
                    THEN Field(Len(r.reason), 2) \o r.reason ELSE <<>>))
      <3>1. IsSeq(IF o.typ = "string" /\ o.reasons
                  THEN Field(Len(r.reason), 2) \o r.reason ELSE <<>>)
        BY ONLY <2>5, <2>8, Zenon
      <3> QED BY ONLY <2>7, <3>1, Joined, Zenon
    <2> QED BY ONLY <1>2, <2>9, Zenon DEF EncodeRecord
  <1> QED BY ONLY <1>1, <1>2

(* Each part is a sequence no shorter than the header.                     *)
At(o, n) == Len(Part(o)[n])

(* The first records of an object make a sequence that is at least the     *)
(* header long.                                                            *)
LEMMA PartIsSeq ==
  ASSUME NEW o \in Objects, NEW n \in 0 .. Len(o.recs)
  PROVE  IsSeq(Part(o)[n]) /\ At(o, n) \in Nat /\ At(o, n) >= packHeader
  <1> DEFINE N == Len(o.recs)
             Good(k) == IsSeq(Part(o)[k]) /\ At(o, k) \in Nat /\ At(o, k) >= packHeader
             T == {k \in Nat : k <= N => Good(k)}
  <1>0. IsSeq(o.recs) /\ N \in Nat /\ DOMAIN o.recs = 1 .. N
    <2>1. IsSeq(o.recs)
      BY ObjectsAssumption, Zenon
    <2> QED BY ONLY <2>1 DEF IsSeq
  <1>1. /\ Part(o)[0] = EncodeHeader(o)
        /\ \A k \in 1 .. N : Part(o)[k] = Part(o)[k - 1] \o EncodeRecord(o, o.recs[k])
    BY <1>0, PartIs, Zenon
  <1>2. Good(0)
    <2>1. 52 \in Nat /\ 52 > 0 /\ packHeader = 52
      BY DEF packHeader
    <2>2. IsSeq(EncodeHeader(o)) /\ Len(EncodeHeader(o)) = 52
      BY ONLY <2>1, FieldIs, ZenonT(30) DEF EncodeHeader
    <2> QED BY ONLY <1>1, <2>1, <2>2 DEF At
  <1>3. ASSUME NEW k \in T PROVE k + 1 \in T
    <2> SUFFICES ASSUME k + 1 <= N PROVE Good(k + 1)
      BY <1>3
    <2>1. k \in Nat /\ k <= N /\ k + 1 \in 1 .. N /\ (k + 1) - 1 = k
      BY <1>0
    <2>2. Good(k)
      BY <1>3, <2>1
    <2>3. IsSeq(EncodeRecord(o, o.recs[k + 1]))
      BY <1>0, <2>1, RecordIsSeq, Zenon
    <2>4. Part(o)[k + 1] = Part(o)[k] \o EncodeRecord(o, o.recs[k + 1])
      BY ONLY <1>1, <2>1, Zenon
    <2> DEFINE u == Part(o)[k]
               e == EncodeRecord(o, o.recs[k + 1])
    <2>5. IsSeq(u \o e) /\ Len(u) \in Nat /\ Len(e) \in Nat /\ Len(u \o e) = Len(u) + Len(e)
      BY ONLY <2>2, <2>3, Joined, Zenon
    <2> HIDE DEF u, e
    <2>6. IsSeq(u \o e) /\ Len(u \o e) \in Nat /\ Len(u \o e) >= packHeader
      BY ONLY <2>2, <2>5 DEF packHeader, At, u
    <2> QED BY ONLY <2>4, <2>6, Zenon DEF u, e, At
  <1> HIDE DEF Good
  <1>4. T = Nat
    <2>1. T \in SUBSET Nat /\ 0 \in T /\ \A k \in T : k + 1 \in T
      BY <1>2, <1>3
    <2> QED BY ONLY <2>1, NatInd, Zenon
  <1>5. n \in Nat /\ n <= N
    BY <1>0
  <1> QED BY ONLY <1>4, <1>5, Zenon DEF Good

(* t begins with s.                                                        *)
Starts(s, t) == Len(s) <= Len(t) /\ \A i \in 1 .. Len(s) : t[i] = s[i]

(* A later part begins with an earlier one.                                *)
LEMMA PartStarts ==
  ASSUME NEW o \in Objects, NEW m \in 0 .. Len(o.recs)
  PROVE  Starts(Part(o)[m], Encode(o))
  <1> DEFINE N == Len(o.recs)
             u == Part(o)[m]
             T == {k \in Nat : m <= k /\ k <= N => Starts(u, Part(o)[k])}
  <1>0. IsSeq(o.recs) /\ N \in Nat /\ DOMAIN o.recs = 1 .. N
    <2>1. IsSeq(o.recs)
      BY ObjectsAssumption, Zenon
    <2> QED BY ONLY <2>1 DEF IsSeq
  <1>1. /\ \A k \in 1 .. N : Part(o)[k] = Part(o)[k - 1] \o EncodeRecord(o, o.recs[k])
        /\ Encode(o) = Part(o)[N]
    BY <1>0, PartIs, Zenon
  <1>2. Starts(u, u)
    <2>1. Len(u) \in Nat
      BY PartIsSeq, Zenon DEF At
    <2> QED BY ONLY <2>1 DEF Starts
  <1>3. 0 \in T
    <2>1. m <= 0 => m = 0
      OBVIOUS
    <2>2. 0 \in Nat
      OBVIOUS
    <2> QED BY <1>2, <2>1, <2>2, Zenon
  <1>4. ASSUME NEW k \in T PROVE k + 1 \in T
    <2>0. k \in Nat /\ k + 1 \in Nat
      OBVIOUS
    <2> SUFFICES ASSUME m <= k + 1, k + 1 <= N PROVE Starts(u, Part(o)[k + 1])
      BY <2>0, Zenon
    <2>1. CASE m = k + 1
      BY <1>2, <2>1, Zenon
    <2>2. CASE m # k + 1
      <3>1. m <= k /\ k <= N /\ k \in 0 .. N /\ k + 1 \in 1 .. N /\ (k + 1) - 1 = k
        BY <1>0, <2>0, <2>2
      <3> DEFINE v == Part(o)[k]
                 e == EncodeRecord(o, o.recs[k + 1])
      <3>2. Starts(u, v)
        BY <1>4, <3>1, Zenon
      <3>3. IsSeq(v) /\ IsSeq(e)
        BY <1>0, <3>1, PartIsSeq, RecordIsSeq, Zenon
      <3>4. Part(o)[k + 1] = v \o e
        BY ONLY <1>1, <3>1, Zenon
      <3>5. Len(u) \in Nat
        BY PartIsSeq, Zenon DEF At
      <3> HIDE DEF u, v, e
      <3>6. /\ Len(v) \in Nat /\ Len(e) \in Nat /\ Len(v \o e) = Len(v) + Len(e)
            /\ \A i \in 1 .. Len(v) : (v \o e)[i] = v[i]
        BY ONLY <3>3, Joined, Zenon
      <3>7. Starts(u, v \o e)
        BY ONLY <3>2, <3>5, <3>6 DEF Starts
      <3> QED BY ONLY <3>4, <3>7, Zenon
    <2> QED BY ONLY <2>1, <2>2
  <1>5. T = Nat
    <2>1. T \in SUBSET Nat /\ 0 \in T /\ \A k \in T : k + 1 \in T
      BY <1>3, <1>4, Zenon
    <2> QED BY ONLY <2>1, NatInd, Zenon
  <1>6. m <= N /\ N <= N
    BY <1>0
  <1> QED BY ONLY <1>0, <1>1, <1>5, <1>6, Zenon

(* Where the header and record n of an object are, and where the object    *)
(* ends.                                                                   *)
LEMMA Header ==
  ASSUME NEW o \in Objects
  PROVE  /\ IsSeq(Encode(o)) /\ Len(Encode(o)) \in Nat /\ Len(Encode(o)) = At(o, Len(o.recs))
         /\ Encode(o)[1] = <<o.magic, o.version, o.typ, o.reasons, Len(o.recs)>>
         /\ At(o, 0) = packHeader /\ packHeader <= Len(Encode(o)) /\ packHeader = 52
         /\ IsSeq(o.recs) /\ Len(o.recs) \in Nat
  <1> DEFINE N == Len(o.recs)
             v == <<o.magic, o.version, o.typ, o.reasons, N>>
  <1>1. IsSeq(o.recs)
    BY ObjectsAssumption, Zenon
  <1>2. N \in Nat /\ 0 \in 0 .. N /\ N \in 0 .. N
    BY ONLY <1>1 DEF IsSeq
  <1>3. Part(o)[0] = EncodeHeader(o) /\ Encode(o) = Part(o)[N]
    BY <1>1, PartIs, Zenon
  <1>4. IsSeq(Part(o)[N]) /\ At(o, N) \in Nat
    BY <1>2, PartIsSeq, Zenon
  <1>5. packHeader \in Nat /\ packHeader > 0 /\ packHeader = 52
    BY DEF packHeader
  <1>6. Len(EncodeHeader(o)) = packHeader /\ EncodeHeader(o)[1] = v
    BY ONLY <1>5, FieldIs, ZenonT(30) DEF EncodeHeader
  <1>7. Starts(Part(o)[0], Encode(o))
    BY <1>2, PartStarts, Zenon
  <1>8. packHeader <= Len(Encode(o)) /\ Encode(o)[1] = v
    <2>1. Len(Part(o)[0]) = packHeader /\ Part(o)[0][1] = v
      BY ONLY <1>3, <1>6, Zenon
    <2> HIDE DEF v
    <2>2. 1 \in 1 .. Len(Part(o)[0])
      BY ONLY <2>1, <1>5
    <2> QED BY ONLY <1>7, <2>1, <2>2, Zenon DEF Starts
  <1>9. At(o, 0) = packHeader
    BY ONLY <1>3, <1>6, Zenon DEF At
  <1> QED BY ONLY <1>1, <1>2, <1>3, <1>4, <1>5, <1>8, <1>9, Zenon DEF At

LaidOut(o, d, n, e, k) ==
  /\ k \in Nat /\ At(o, n) \in Nat /\ Len(e) \in Nat
  /\ At(o, n) = k + Len(e) /\ At(o, n) <= Len(d)
  /\ \A i \in 1 .. Len(e) : d[k + i] = e[i]

(* A record's bytes are in the object where the ones before it end.        *)
LEMMA Layout ==
  ASSUME NEW o \in Objects, NEW n \in 1 .. Len(o.recs), NEW e, e = EncodeRecord(o, o.recs[n])
  PROVE  LaidOut(o, Encode(o), n, e, At(o, n - 1))
  <1> DEFINE N == Len(o.recs)
             u == Part(o)[n - 1]
             d == Encode(o)
  <1>1. IsSeq(o.recs)
    BY ObjectsAssumption, Zenon
  <1>2. N \in Nat /\ n \in 0 .. N /\ n - 1 \in 0 .. N /\ n \in DOMAIN o.recs
    BY ONLY <1>1, n \in 1 .. N DEF IsSeq
  <1>3. Part(o)[n] = u \o e
    BY <1>1, PartIs, Zenon
  <1>4. IsSeq(u) /\ At(o, n - 1) \in Nat /\ At(o, n) \in Nat
    BY <1>2, PartIsSeq, Zenon
  <1>5. IsSeq(e)
    BY <1>2, RecordIsSeq, Zenon
  <1>6. Starts(u \o e, d)
    BY <1>2, <1>3, PartStarts, Zenon
  <1> HIDE DEF u, d
  <1>7. /\ Len(u) \in Nat /\ Len(e) \in Nat /\ Len(u \o e) = Len(u) + Len(e)
        /\ \A i \in 1 .. Len(e) : (u \o e)[Len(u) + i] = e[i]
    BY ONLY <1>4, <1>5, Joined
  <1>8. Len(u \o e) <= Len(d) /\ \A i \in 1 .. Len(e) : d[Len(u) + i] = e[i]
    <2>1. \A i \in 1 .. Len(e) : Len(u) + i \in 1 .. Len(u \o e)
      BY ONLY <1>7
    <2> QED BY ONLY <1>6, <1>7, <2>1, Zenon DEF Starts
  <1> QED BY ONLY <1>3, <1>4, <1>5, <1>7, <1>8, Zenon DEF At, LaidOut, u, d
-----------------------------------------------------------------------------
(* The reader.                                                             *)

(* What the header says (unpack).                                          *)
LEMMA HeaderRead ==
  ASSUME obj \in Objects
  PROVE  count = Len(obj.recs) /\ typ = obj.typ /\ reasons = obj.reasons
  <1>1. data[1] = <<obj.magic, obj.version, obj.typ, obj.reasons, Len(obj.recs)>>
    BY Header, Zenon DEF data
  <1>2. Byte(0) = data[1]
    BY DEF Byte
  <1>3. Byte(0) = <<obj.magic, obj.version, obj.typ, obj.reasons, Len(obj.recs)>>
    BY ONLY <1>1, <1>2, Zenon
  <1>4. Byte(0)[5] = Len(obj.recs) /\ Byte(0)[3] = obj.typ /\ Byte(0)[4] = obj.reasons
    BY ONLY <1>3
  <1> QED BY ONLY <1>4, Zenon DEF count, typ, reasons

(* What the next bytes are when the next record is one of addresses: each  *)
(* field is where unpack looks for it, and the next record begins where    *)
(* unpack goes on.                                                         *)
LEMMA NextCIDR ==
  ASSUME obj \in Objects, obj.typ = "cidr", NEW n \in 1 .. Len(obj.recs), pos = At(obj, n - 1),
         NEW r, r = obj.recs[n], NEW A, A = AddressSize(r.prefix.fam)
  PROVE  /\ pos \in Nat /\ A \in {4, 16} /\ At(obj, n) = pos + 3 + A + 8 /\ At(obj, n) <= Len(data)
         /\ Byte(pos) = r.op /\ Byte(pos + 1) = r.prefix.fam /\ Byte(pos + 2) = r.prefix.bits
         /\ Byte(pos + 3) = r.prefix.lead /\ Byte(pos + 3 + A) = r.exp
  <1>0. PICK e : e = EncodeRecord(obj, r)
    BY Zenon
  <1>1. Addressed(r, e, A)
    BY ONLY <1>0, obj.typ = "cidr", A = AddressSize(r.prefix.fam), CIDREncoded, Zenon
  <1>2. /\ pos \in Nat /\ At(obj, n) = pos + Len(e) /\ At(obj, n) <= Len(data)
        /\ \A i \in 1 .. Len(e) : data[pos + i] = e[i]
    <2>1. LaidOut(obj, Encode(obj), n, e, At(obj, n - 1))
      BY ONLY <1>0, r = obj.recs[n], obj \in Objects, n \in 1 .. Len(obj.recs), Layout, Zenon
    <2> QED BY <2>1, Zenon DEF data, LaidOut
  <1>3. /\ 1 \in 1 .. Len(e) /\ 2 \in 1 .. Len(e) /\ 3 \in 1 .. Len(e) /\ 4 \in 1 .. Len(e)
        /\ 4 + A \in 1 .. Len(e)
    BY ONLY <1>1 DEF Addressed
  <1>4. /\ data[pos + 1] = r.op /\ data[pos + 2] = r.prefix.fam /\ data[pos + 3] = r.prefix.bits
        /\ data[pos + 4] = r.prefix.lead /\ data[pos + (4 + A)] = r.exp
    BY ONLY <1>1, <1>2, <1>3, Zenon DEF Addressed
  <1>5. /\ pos + 1 + 1 = pos + 2 /\ pos + 2 + 1 = pos + 3 /\ pos + 3 + 1 = pos + 4
        /\ pos + 3 + A + 1 = pos + (4 + A)
    BY ONLY <1>1, <1>2 DEF Addressed
  <1>6. /\ Byte(pos) = r.op /\ Byte(pos + 1) = r.prefix.fam /\ Byte(pos + 2) = r.prefix.bits
        /\ Byte(pos + 3) = r.prefix.lead /\ Byte(pos + 3 + A) = r.exp
    BY ONLY <1>4, <1>5, Zenon DEF Byte
  <1>7. At(obj, n) = pos + 3 + A + 8
    BY ONLY <1>1, <1>2 DEF Addressed
  <1> QED BY ONLY <1>1, <1>2, <1>6, <1>7, Zenon DEF Addressed

(* The bytes of a text, cut out of the object.                             *)
LEMMA TextRead ==
  ASSUME NEW d, IsSeq(d), NEW k \in Nat, NEW v, IsSeq(v), NEW m, m = Len(v), k + m <= Len(d),
         \A i \in 1 .. m : d[k + i] = v[i]
  PROVE  SubSeq(d, k + 1, k + m) = v
  <1> DEFINE X == {d[i] : i \in DOMAIN d}
             Y == {v[i] : i \in DOMAIN v}
  <1>1. d \in Seq(X) /\ v \in Seq(Y)
    BY Zenon DEF IsSeq
  <1> HIDE DEF X, Y
  <1> DEFINE w == SubSeq(d, k + 1, k + m)
  <1>2. m \in Nat /\ Len(d) \in Nat
    BY ONLY <1>1, m = Len(v)
  <1>3. w \in Seq(X) /\ Len(w) = m
    BY ONLY <1>1, <1>2, k \in Nat, k + m <= Len(d)
  <1>4. \A i \in 1 .. m : w[i] = d[k + i]
    BY ONLY <1>1, <1>2, k \in Nat, k + m <= Len(d)
  <1> HIDE DEF w
  <1>5. w = [i \in 1 .. m |-> w[i]] /\ v = [i \in 1 .. m |-> v[i]]
    BY ONLY <1>1, <1>3, m = Len(v)
  <1>6. \A i \in 1 .. m : w[i] = v[i]
    BY <1>4, Zenon
  <1> QED BY ONLY <1>5, <1>6, Zenon DEF w

(* The same when the next record is a text (unpack).                       *)
TextAt(n, r, L, R) ==
  /\ pos \in Nat /\ L \in Nat /\ R \in Nat
  /\ At(obj, n) = IF obj.reasons THEN pos + L + R + 13 ELSE pos + L + 11
  /\ At(obj, n) <= Len(data) /\ TextRecord(obj, r)
  /\ Byte(pos) = r.op /\ Byte(pos + 1) = L /\ Expiry = pos + 3 + L /\ Byte(Expiry) = r.exp
  /\ Bytes(pos + 3, L) = r.value
  /\ obj.reasons => /\ Byte(Expiry + 8) = R /\ Reason = pos + L + 13
                    /\ Bytes(Reason, R) = r.reason

(* At the place of a text record, Next reads its lengths from the bytes of *)
(* the record.                                                             *)
LEMMA NextText ==
  ASSUME obj \in Objects, obj.typ = "string", NEW n \in 1 .. Len(obj.recs), pos = At(obj, n - 1),
         NEW r, r = obj.recs[n], NEW L, L = Len(r.value), NEW R, R = Len(r.reason)
  PROVE  TextAt(n, r, L, R)
  <1>a. PICK e : e = EncodeRecord(obj, r)
    BY Zenon
  <1>0. TextRecord(obj, r) /\ obj.reasons \in BOOLEAN
    <2>1. IsSeq(obj.recs) /\ obj.reasons \in BOOLEAN
      BY ObjectsAssumption, Zenon
    <2>2. n \in DOMAIN obj.recs /\ obj.typ # "cidr"
      BY ONLY <2>1, n \in 1 .. Len(obj.recs), obj.typ = "string" DEF IsSeq
    <2> QED BY <2>1, <2>2, ObjectsAssumption, Zenon
  <1>1. Worded(obj, r, e, L, R)
    BY <1>a, <1>0, TextEncoded, Zenon
  <1>2. /\ pos \in Nat /\ At(obj, n) = pos + Len(e) /\ At(obj, n) <= Len(data)
        /\ \A i \in 1 .. Len(e) : data[pos + i] = e[i]
    <2>1. LaidOut(obj, Encode(obj), n, e, At(obj, n - 1))
      BY ONLY <1>a, r = obj.recs[n], obj \in Objects, n \in 1 .. Len(obj.recs), Layout, Zenon
    <2> QED BY <2>1, Zenon DEF data, LaidOut
  <1>3. IsSeq(data) /\ IsSeq(r.value) /\ IsSeq(r.reason) /\ Len(data) \in Nat
    BY <1>0, Header, Zenon DEF data, TextRecord
  <1>4. /\ L \in Nat /\ R \in Nat /\ Len(e) \in Nat
        /\ 1 \in 1 .. Len(e) /\ 2 \in 1 .. Len(e) /\ L + 4 \in 1 .. Len(e)
        /\ \A i \in 1 .. L : 3 + i \in 1 .. Len(e)
        /\ obj.reasons => L + 12 \in 1 .. Len(e) /\ \A i \in 1 .. R : L + 13 + i \in 1 .. Len(e)
    BY ONLY <1>0, <1>1 DEF Worded
  <1>5. /\ data[pos + 1] = r.op /\ data[pos + 2] = L /\ data[pos + (L + 4)] = r.exp
        /\ \A i \in 1 .. L : data[pos + (3 + i)] = r.value[i]
        /\ obj.reasons => /\ data[pos + (L + 12)] = R
                          /\ \A i \in 1 .. R : data[pos + (L + 13 + i)] = r.reason[i]
    BY ONLY <1>1, <1>2, <1>4, ZenonT(30) DEF Worded
  <1>6. Byte(pos) = r.op /\ Byte(pos + 1) = L /\ Expiry = pos + 3 + L
    <2>1. pos + 1 + 1 = pos + 2
      BY ONLY <1>2
    <2> QED BY ONLY <1>5, <2>1, Zenon DEF Byte, Expiry
  <1>7. Byte(Expiry) = r.exp
    <2>1. pos + 3 + L + 1 = pos + (L + 4)
      BY ONLY <1>2, <1>4
    <2> QED BY ONLY <1>5, <1>6, <2>1, Zenon DEF Byte
  <1>8. At(obj, n) = IF obj.reasons THEN pos + L + R + 13 ELSE pos + L + 11
    BY ONLY <1>0, <1>1, <1>2, <1>4 DEF Worded
  <1>9. Bytes(pos + 3, L) = r.value
    <2>0. At(obj, n) >= pos + L + 11 /\ At(obj, n) \in Nat
      <3>1. At(obj, n) = pos + L + R + 13 \/ At(obj, n) = pos + L + 11
        BY ONLY <1>8, Zenon
      <3>2. pos \in Nat /\ L \in Nat /\ R \in Nat
        BY ONLY <1>2, <1>4, Zenon
      <3> QED BY ONLY <3>1, <3>2
    <2>1. pos + 3 \in Nat /\ pos + 3 + L <= Len(data)
      BY ONLY <2>0, <1>2, <1>3, <1>4, SMTT(30)
    <2>2. \A i \in 1 .. L : pos + (3 + i) = pos + 3 + i
      BY ONLY <1>2, <1>4
    <2>3. \A i \in 1 .. L : data[pos + 3 + i] = r.value[i]
      BY ONLY <1>5, <2>2, Zenon
    <2>4. SubSeq(data, pos + 3 + 1, pos + 3 + L) = r.value
      BY ONLY <1>3, <2>1, <2>3, L = Len(r.value), TextRead, Zenon
    <2> QED BY ONLY <2>4, Zenon DEF Bytes
  <1>10. ASSUME obj.reasons
         PROVE  /\ Byte(Expiry + 8) = R /\ Reason = pos + L + 13
                /\ Bytes(Reason, R) = r.reason
    <2>0. Expiry = pos + 3 + L /\ At(obj, n) = pos + L + R + 13
      BY ONLY <1>6, <1>8, <1>10, Zenon
    <2>1. Expiry + 8 + 1 = pos + (L + 12) /\ Expiry + 8 + 2 = pos + L + 13
      BY ONLY <1>2, <1>4, <2>0
    <2>2. Byte(Expiry + 8) = R /\ Reason = pos + L + 13
      BY ONLY <1>5, <1>10, <2>1, Zenon DEF Byte, Reason
    <2>a. L \in Nat /\ R \in Nat
      BY ONLY <1>4, Zenon
    <2>b. Reason = pos + L + 13
      BY ONLY <2>2, Zenon
    <2>3. Reason \in Nat /\ Reason + R <= Len(data)
      BY ONLY <1>2, <1>3, <2>0, <2>a, <2>b
    <2>4. \A i \in 1 .. R : pos + (L + 13 + i) = Reason + i
      BY ONLY <1>2, <2>a, <2>b
    <2>5. \A i \in 1 .. R : data[Reason + i] = r.reason[i]
      BY ONLY <1>5, <1>10, <2>4, Zenon
    <2>6. Bytes(Reason, R) = r.reason
      BY <1>3, <2>3, <2>5, TextRead, Zenon DEF Bytes
    <2> QED BY ONLY <2>2, <2>6, Zenon
  <1> QED BY ONLY <1>0, <1>2, <1>4, <1>6, <1>7, <1>8, <1>9, <1>10, Zenon DEF TextAt
-----------------------------------------------------------------------------
(* The invariant.                                                          *)

(* The records s read so far are the first of object o, all of families    *)
(* this module knows, and the reader at k is right behind them.            *)
SoFar(o, s, k) ==
  /\ IsSeq(s) /\ Len(s) <= Len(o.recs)
  /\ \A i \in 1 .. Len(s) : s[i] = o.recs[i]
  /\ k = At(o, Len(s))
  /\ Len(s) > 0 => o.typ \in {"cidr", "string"}
  /\ o.typ = "cidr" => \A i \in 1 .. Len(s) : o.recs[i].prefix.fam \in Families

(* The records s still to be applied are the last of object o, which is    *)
(* one of addresses of known families.                                     *)
Due(o, s) ==
  /\ o.typ = "cidr" /\ \A i \in 1 .. Len(o.recs) : o.recs[i].prefix.fam \in Families
  /\ IsSeq(s) /\ Len(s) <= Len(o.recs)
  /\ \A i \in 1 .. Len(s) : s[i] = o.recs[Len(o.recs) - Len(s) + i]

AllLastWords(s, k, content) == \A p \in Prefixes : LastWord(s, k, p, content[p])

ReadInv ==
  /\ obj \in Objects
  /\ length \in Nat /\ length <= Len(data) /\ pos \in Nat /\ pos <= length
  /\ pc \in {"header", "records", "apply", "done", "error"}
  /\ pc = "header" => pos = 0 /\ recs = <<>>
  /\ pc = "records" => SoFar(obj, recs, pos) /\ obj.magic = "WAFS" /\ obj.version = 1
  /\ pc = "error" => length < Len(data) \/ ~Sound(obj)
  /\ pc = "apply" => Due(obj, recs)

(* The object a reader starts on, whole or cut (dyn.go, snapshot).         *)
LEMMA ReadInit == PackageInit => ReadInv
  <1> SUFFICES ASSUME PackageInit PROVE ReadInv OBVIOUS
  <1>1. obj \in Objects /\ pc = "header" /\ pos = 0 /\ recs = <<>>
    BY DEF PackageInit
  <1>2. Len(data) \in Nat
    BY <1>1, Header, Zenon DEF data
  <1>3. length \in 0 .. Len(data)
    <2>1. length \in 0 .. Len(data) \/ length = Len(data)
      BY Zenon DEF PackageInit, data
    <2> QED BY ONLY <1>2, <2>1
  <1> QED BY ONLY <1>1, <1>2, <1>3 DEF ReadInv

(* The header is read (unpack).                                            *)
LEMMA ReadHeaderInv ==
  ASSUME ReadInv, ReadHeader
  PROVE  ReadInv'
  <1>1. /\ obj \in Objects /\ length \in Nat /\ length <= Len(data)
        /\ obj' = obj /\ length' = length /\ recs' = recs /\ pos' = packHeader /\ pc' = "records"
        /\ length >= packHeader /\ obj.magic = "WAFS" /\ obj.version = 1 /\ recs = <<>>
    BY DEF ReadInv, ReadHeader, HeaderOK
  <1>2. At(obj, 0) = packHeader /\ packHeader = 52 /\ Len(obj.recs) \in Nat
    BY <1>1, Header, Zenon
  <1>3. SoFar(obj, <<>>, packHeader)
    <2>1. IsSeq(<<>>) /\ Len(<<>>) = 0 /\ 0 <= Len(obj.recs) /\ 1 .. 0 = {} /\ ~(0 > 0)
      <3>1. <<>> \in Seq({}) /\ Len(<<>>) = 0 /\ 0 <= Len(obj.recs) /\ 1 .. 0 = {} /\ ~(0 > 0)
        BY ONLY <1>2
      <3> QED BY ONLY <3>1, SeqIs, Zenon
    <2> QED BY ONLY <1>2, <2>1, Zenon DEF SoFar
  <1>4. SoFar(obj', recs', pos')
    BY ONLY <1>1, <1>3, Zenon
  <1>5. data' = data
    BY ONLY <1>1, Zenon DEF data
  <1> QED BY ONLY <1>1, <1>2, <1>4, <1>5 DEF ReadInv

(* The next record appended to those read.                                 *)
LEMMA OneMore ==
  ASSUME NEW o \in Objects, NEW s, NEW k, SoFar(o, s, k), Len(s) < Len(o.recs), NEW n, n = Len(s) + 1,
         o.typ \in {"cidr", "string"}, o.typ = "cidr" => o.recs[n].prefix.fam \in Families
  PROVE  SoFar(o, Append(s, o.recs[n]), At(o, n))
  <1> DEFINE X == {s[i] : i \in DOMAIN s} \cup {o.recs[n]}
             r == o.recs[n]
             t == Append(s, r)
  <1>1. s \in Seq({s[i] : i \in DOMAIN s})
    BY Zenon DEF SoFar, IsSeq
  <1>2. s \in Seq(X) /\ r \in X
    BY ONLY <1>1
  <1>3. Len(o.recs) \in Nat
    BY Header, Zenon
  <1> HIDE DEF X, r
  <1>4. /\ t \in Seq(X) /\ Len(t) = n /\ n \in Nat /\ n = Len(s) + 1 /\ Len(s) \in Nat
        /\ \A i \in 1 .. Len(s) : t[i] = s[i]
        /\ t[n] = r
    BY ONLY <1>2, n = Len(s) + 1
  <1> HIDE DEF t
  <1>5. IsSeq(t)
    BY ONLY <1>4, SeqIs, Zenon
  <1>6. \A i \in 1 .. n : i \in 1 .. Len(s) \/ i = n
    BY ONLY <1>4
  <1>7. \A i \in 1 .. n : t[i] = o.recs[i]
    BY <1>4, <1>6, Zenon DEF SoFar, r
  <1>8. o.typ = "cidr" => \A i \in 1 .. n : o.recs[i].prefix.fam \in Families
    BY <1>6, Zenon DEF SoFar
  <1>9. n <= Len(o.recs)
    BY <1>3, <1>4
  <1> QED BY <1>4, <1>5, <1>7, <1>8, <1>9, Zenon DEF SoFar, t, r

(* An address record is read (unpack, setCIDR).                            *)
LEMMA ReadCIDRInv ==
  ASSUME ReadInv, ReadCIDR
  PROVE  ReadInv'
  <1> DEFINE n == Len(recs) + 1
             r == obj.recs[n]
             A == AddressSize(r.prefix.fam)
  <1>1. /\ obj \in Objects /\ length \in Nat /\ length <= Len(data) /\ pos \in Nat
        /\ SoFar(obj, recs, pos) /\ obj.magic = "WAFS" /\ obj.version = 1
        /\ obj' = obj /\ length' = length /\ pc' = pc /\ pc = "records"
    BY DEF ReadInv, ReadCIDR
  <1>2. Len(recs) < count /\ typ = "cidr" /\ CIDRFits
    BY DEF ReadCIDR
  <1>3. count = Len(obj.recs) /\ typ = obj.typ
    BY <1>1, HeaderRead, Zenon
  <1>4. IsSeq(recs) /\ pos = At(obj, Len(recs))
    BY ONLY <1>1, Zenon DEF SoFar
  <1>5. n \in 1 .. Len(obj.recs) /\ n - 1 = Len(recs) /\ Len(recs) \in Nat /\ n \in DOMAIN obj.recs
    <2>1. IsSeq(obj.recs) /\ Len(obj.recs) \in Nat
      BY <1>1, Header, Zenon
    <2> QED BY ONLY <1>2, <1>3, <1>4, <2>1 DEF IsSeq
  <1> HIDE DEF n
  <1>6. /\ A \in {4, 16} /\ At(obj, n) = pos + 3 + A + 8 /\ At(obj, n) <= Len(data)
        /\ Byte(pos) = r.op /\ Byte(pos + 1) = r.prefix.fam /\ Byte(pos + 2) = r.prefix.bits
        /\ Byte(pos + 3) = r.prefix.lead /\ Byte(pos + 3 + A) = r.exp
    <2>1. PICK q, B : q = r /\ B = A
      BY Zenon
    <2>2. pos = At(obj, n - 1) /\ obj.typ = "cidr" /\ q = obj.recs[n] /\ B = AddressSize(q.prefix.fam)
      BY ONLY <1>2, <1>3, <1>4, <1>5, <2>1, Zenon
    <2> QED BY <1>1, <1>5, <2>1, <2>2, NextCIDR, ZenonT(30)
  <1>7. CIDRRecord(r)
    BY <1>1, <1>2, <1>3, <1>5, ObjectsAssumption, Zenon
  <1> HIDE DEF r, A
  <1>8. /\ r.prefix.fam \in Families /\ pos + 3 + A + 8 <= length
        /\ recs' = Append(recs, [op |-> r.op, exp |-> r.exp,
                     prefix |-> [fam |-> r.prefix.fam, bits |-> r.prefix.bits, lead |-> r.prefix.lead]])
        /\ pos' = pos + 3 + A + 8
    <2>1. A = AddressSize(Byte(pos + 1))
      BY ONLY <1>6, Zenon DEF A
    <2> QED BY ONLY ReadCIDR, <1>6, <2>1, Zenon DEF ReadCIDR, CIDRFits
  <1>9. r = [op |-> r.op, exp |-> r.exp,
             prefix |-> [fam |-> r.prefix.fam, bits |-> r.prefix.bits, lead |-> r.prefix.lead]]
    BY ONLY <1>7, Zenon DEF CIDRRecord
  <1>10. recs' = Append(recs, r) /\ pos' = At(obj, n)
    BY ONLY <1>6, <1>8, <1>9, Zenon
  <1>11. SoFar(obj, Append(recs, r), At(obj, n))
    <2>1. Len(recs) < Len(obj.recs) /\ obj.typ \in {"cidr", "string"}
          /\ (obj.typ = "cidr" => obj.recs[n].prefix.fam \in Families)
      BY ONLY <1>2, <1>3, <1>8, Zenon DEF r
    <2> QED BY ONLY <1>1, <2>1, OneMore, Zenon DEF n, r
  <1>12. SoFar(obj', recs', pos')
    BY ONLY <1>1, <1>10, <1>11, Zenon
  <1>13. data' = data
    BY ONLY <1>1, Zenon DEF data
  <1>14. pos' \in Nat /\ pos' <= length'
    BY ONLY <1>1, <1>6, <1>8
  <1> QED BY ONLY <1>1, <1>12, <1>13, <1>14 DEF ReadInv

(* A text record is read, with its reason when the header says there are   *)
(* any (unpack, setString).                                                *)
LEMMA ReadStringInv ==
  ASSUME ReadInv, ReadString
  PROVE  ReadInv'
  <1> DEFINE n == Len(recs) + 1
             r == obj.recs[n]
             L == Len(r.value)
             R == Len(r.reason)
  <1>1. /\ obj \in Objects /\ length \in Nat /\ length <= Len(data) /\ pos \in Nat
        /\ SoFar(obj, recs, pos) /\ obj.magic = "WAFS" /\ obj.version = 1
        /\ obj' = obj /\ length' = length /\ pc' = pc /\ pc = "records"
    BY DEF ReadInv, ReadString
  <1>2. Len(recs) < count /\ typ = "string" /\ StringFits
    BY DEF ReadString
  <1>3. count = Len(obj.recs) /\ typ = obj.typ /\ reasons = obj.reasons
    BY <1>1, HeaderRead, Zenon
  <1>4. IsSeq(recs) /\ pos = At(obj, Len(recs))
    BY ONLY <1>1, Zenon DEF SoFar
  <1>5. n \in 1 .. Len(obj.recs) /\ n - 1 = Len(recs) /\ Len(recs) \in Nat /\ n \in DOMAIN obj.recs
    <2>1. IsSeq(obj.recs) /\ Len(obj.recs) \in Nat
      BY <1>1, Header, Zenon
    <2> QED BY ONLY <1>2, <1>3, <1>4, <2>1 DEF IsSeq
  <1> HIDE DEF n
  <1>6. /\ L \in Nat /\ R \in Nat
        /\ At(obj, n) = IF obj.reasons THEN pos + L + R + 13 ELSE pos + L + 11
        /\ TextRecord(obj, r)
        /\ Byte(pos) = r.op /\ Byte(pos + 1) = L /\ Expiry = pos + 3 + L /\ Byte(Expiry) = r.exp
        /\ Bytes(pos + 3, L) = r.value
        /\ obj.reasons => /\ Byte(Expiry + 8) = R /\ Reason = pos + L + 13
                          /\ Bytes(Reason, R) = r.reason
    <2>1. PICK q, M, N : q = r /\ M = L /\ N = R
      BY Zenon
    <2>2. /\ pos = At(obj, n - 1) /\ obj.typ = "string" /\ q = obj.recs[n]
          /\ M = Len(q.value) /\ N = Len(q.reason)
      BY ONLY <1>2, <1>3, <1>4, <1>5, <2>1, Zenon
    <2>3. TextAt(n, q, M, N)
      BY ONLY <1>1, <1>5, <2>2, NextText, Zenon
    <2>4. TextAt(n, r, L, R)
      BY ONLY <2>1, <2>3, Zenon
    <2> QED BY ONLY <2>4, Zenon DEF TextAt
  <1> HIDE DEF r, L, R
  <1>7. r = [op |-> r.op, exp |-> r.exp, value |-> r.value, reason |-> r.reason]
        /\ (~obj.reasons => r.reason = <<>>) /\ obj.reasons \in BOOLEAN
    BY <1>1, <1>6, ObjectsAssumption, Zenon DEF TextRecord
  <1>8. recs' = Append(recs, r) /\ pos' = At(obj, n) /\ pos' \in Nat /\ pos' <= length
    <2>1. CASE obj.reasons
      <3>1. /\ Reason + R <= length /\ pos' = Reason + R
            /\ recs' = Append(recs, [op |-> r.op, exp |-> r.exp, value |-> r.value,
                                     reason |-> r.reason])
        BY ONLY ReadString, <1>3, <1>6, <2>1, Zenon DEF ReadString, StringFits
      <3>2. /\ Reason = pos + L + 13 /\ At(obj, n) = pos + L + R + 13
            /\ L \in Nat /\ R \in Nat
        BY ONLY <1>6, <2>1, Zenon
      <3>3. Reason + R = At(obj, n) /\ Reason + R \in Nat
        BY ONLY <1>1, <3>2
      <3> QED BY ONLY <1>7, <3>1, <3>3, Zenon
    <2>2. CASE ~obj.reasons
      <3>1. /\ Expiry + 8 <= length /\ pos' = Expiry + 8
            /\ recs' = Append(recs, [op |-> r.op, exp |-> r.exp, value |-> r.value,
                                     reason |-> r.reason])
        BY ONLY ReadString, <1>3, <1>6, <1>7, <2>2, Zenon DEF ReadString, StringFits
      <3>2. Expiry = pos + 3 + L /\ At(obj, n) = pos + L + 11 /\ L \in Nat
        BY ONLY <1>6, <2>2, Zenon
      <3>3. Expiry + 8 = At(obj, n) /\ Expiry + 8 \in Nat
        BY ONLY <1>1, <3>2
      <3> QED BY ONLY <1>7, <3>1, <3>3, Zenon
    <2> QED BY ONLY <2>1, <2>2
  <1>9. SoFar(obj, Append(recs, r), At(obj, n))
    <2>1. Len(recs) < Len(obj.recs) /\ obj.typ \in {"cidr", "string"} /\ obj.typ # "cidr"
      BY ONLY <1>2, <1>3
    <2> QED BY ONLY <1>1, <2>1, OneMore, Zenon DEF n, r
  <1>10. SoFar(obj', recs', pos')
    BY ONLY <1>1, <1>8, <1>9, Zenon
  <1>11. data' = data
    BY ONLY <1>1, Zenon DEF data
  <1> QED BY ONLY <1>1, <1>8, <1>10, <1>11 DEF ReadInv

(* An object is refused only when it is cut short or not a sound one: a    *)
(* whole sound object has room for its next record (unpack).               *)
LEMMA RefuseInv ==
  ASSUME ReadInv, Refuse
  PROVE  ReadInv'
  <1>1. /\ obj \in Objects /\ length \in Nat /\ length <= Len(data) /\ pos \in Nat /\ pos <= length
        /\ obj' = obj /\ length' = length /\ pos' = pos /\ recs' = recs /\ pc' = "error"
    BY DEF ReadInv, Refuse, Fails
  <1>2. /\ packHeader <= Len(data) /\ packHeader = 52 /\ Len(data) \in Nat
        /\ IsSeq(obj.recs) /\ Len(obj.recs) \in Nat
    BY <1>1, Header, Zenon DEF data
  <1>3. length < Len(data) \/ ~Sound(obj)
    <2> SUFFICES ASSUME ~(length < Len(data)), Sound(obj) PROVE FALSE
      OBVIOUS
    <2>1. length = Len(data)
      BY <1>1, <1>2
    <2>2. HeaderOK
      BY <1>2, <2>1 DEF HeaderOK, Sound
    <2>3. /\ pc = "records" /\ Len(recs) < count
          /\ ~(typ = "cidr" /\ CIDRFits) /\ ~(typ = "string" /\ StringFits)
      BY ONLY Refuse, <2>2, Zenon DEF Refuse
    <2>4. count = Len(obj.recs) /\ typ = obj.typ /\ reasons = obj.reasons
      BY <1>1, HeaderRead, Zenon
    <2>5. IsSeq(recs) /\ pos = At(obj, Len(recs))
      BY ONLY ReadInv, <2>3, Zenon DEF ReadInv, SoFar
    <2> DEFINE n == Len(recs) + 1
               r == obj.recs[n]
    <2>6. n \in 1 .. Len(obj.recs) /\ n - 1 = Len(recs) /\ n \in DOMAIN obj.recs
      BY ONLY <1>2, <2>3, <2>4, <2>5 DEF IsSeq
    <2> HIDE DEF n
    <2>7. pos = At(obj, n - 1)
      BY ONLY <2>5, <2>6, Zenon
    <2>8. CASE obj.typ = "cidr"
      <3>1. PICK q, A : q = r /\ A = AddressSize(q.prefix.fam)
        BY Zenon
      <3>2. /\ A \in {4, 16} /\ At(obj, n) = pos + 3 + A + 8 /\ At(obj, n) <= Len(data)
            /\ Byte(pos + 1) = q.prefix.fam
        BY <1>1, <2>6, <2>7, <2>8, <3>1, NextCIDR, ZenonT(30)
      <3>3. q.prefix.fam \in Families
        BY <2>6, <2>8, <3>1, Zenon DEF Sound
      <3>4. pos + 3 <= length /\ pos + 3 + A + 8 <= length
        BY ONLY <1>1, <2>1, <3>2
      <3> QED BY ONLY <2>3, <2>4, <2>8, <3>1, <3>2, <3>3, <3>4, Zenon DEF CIDRFits
    <2>9. CASE obj.typ = "string"
      <3>1. PICK q, L, R : q = r /\ L = Len(q.value) /\ R = Len(q.reason)
        BY Zenon
      <3>2. /\ L \in Nat /\ R \in Nat
            /\ At(obj, n) = IF obj.reasons THEN pos + L + R + 13 ELSE pos + L + 11
            /\ At(obj, n) <= Len(data)
            /\ Expiry = pos + 3 + L
            /\ obj.reasons => Byte(Expiry + 8) = R /\ Reason = pos + L + 13
        <4>1. TextAt(n, q, L, R)
          BY <1>1, <2>6, <2>7, <2>9, <3>1, NextText, Zenon
        <4> QED BY ONLY <4>1, Zenon DEF TextAt
      <3>3. At(obj, n) = pos + L + R + 13 \/ At(obj, n) = pos + L + 11
        BY ONLY <3>2, Zenon
      <3>4. L \in Nat /\ R \in Nat /\ Expiry = pos + 3 + L /\ At(obj, n) <= Len(data)
        BY ONLY <3>2, Zenon
      <3>5. pos + 3 <= length /\ Expiry + 8 <= length
        BY ONLY <1>1, <2>1, <3>3, <3>4
      <3>6. ASSUME obj.reasons
            PROVE  Reason <= length /\ Reason + Byte(Expiry + 8) <= length
        <4>1. Reason = pos + L + 13 /\ Byte(Expiry + 8) = R /\ At(obj, n) = pos + L + R + 13
          BY ONLY <3>2, <3>6, Zenon
        <4> QED BY ONLY <1>1, <2>1, <3>4, <4>1
      <3> QED BY ONLY <2>3, <2>4, <2>9, <3>5, <3>6, Zenon DEF StringFits
    <2> QED BY ONLY Sound(obj), <2>8, <2>9 DEF Sound
  <1>4. data' = data
    BY ONLY <1>1, Zenon DEF data
  <1>5. length' < Len(data') \/ ~Sound(obj')
    BY ONLY <1>1, <1>3, <1>4, Zenon
  <1> QED BY ONLY <1>1, <1>4, <1>5 DEF ReadInv

(* As many records as the header counts: they are the whole object.        *)
LEMMA WholeRead ==
  ASSUME ReadInv, pc = "records", Len(recs) = count
  PROVE  recs = obj.recs /\ length >= Len(data) /\ SoFar(obj, recs, pos) /\ obj \in Objects
  <1>1. obj \in Objects /\ length \in Nat /\ SoFar(obj, recs, pos) /\ pos <= length
    BY DEF ReadInv
  <1>2. count = Len(obj.recs)
    BY <1>1, HeaderRead, Zenon
  <1>3. IsSeq(recs) /\ pos = At(obj, Len(recs)) /\ \A i \in 1 .. Len(recs) : recs[i] = obj.recs[i]
    BY ONLY <1>1, Zenon DEF SoFar
  <1>4. Len(data) = At(obj, Len(obj.recs)) /\ IsSeq(obj.recs) /\ Len(data) \in Nat
    BY <1>1, Header, Zenon DEF data
  <1>5. recs = [i \in 1 .. Len(recs) |-> recs[i]]
        /\ obj.recs = [i \in 1 .. Len(obj.recs) |-> obj.recs[i]]
    <2>1. \A X, t : t \in Seq(X) => t = [i \in 1 .. Len(t) |-> t[i]]
      OBVIOUS
    <2> QED BY ONLY <1>3, <1>4, <2>1, Zenon DEF IsSeq
  <1>6. recs = obj.recs
    BY ONLY <1>2, <1>3, <1>5, Len(recs) = count, Zenon
  <1>7. Len(data) = pos
    BY ONLY <1>3, <1>4, <1>6, Zenon
  <1> QED BY ONLY <1>1, <1>4, <1>6, <1>7

(* Every record is read, and those of addresses are handed on (unpack).    *)
LEMMA UnpackedInv ==
  ASSUME ReadInv, Unpacked
  PROVE  ReadInv'
  <1>1. /\ pc = "records" /\ Len(recs) = count
        /\ obj' = obj /\ length' = length /\ pos' = pos /\ recs' = recs
        /\ pc' = IF typ = "cidr" THEN "apply" ELSE "done"
    BY DEF Unpacked
  <1>2. recs = obj.recs /\ SoFar(obj, recs, pos) /\ obj \in Objects
    BY <1>1, WholeRead, Zenon
  <1>3. typ = obj.typ /\ Len(obj.recs) \in Nat
    BY <1>2, HeaderRead, Header, Zenon
  <1>4. typ = "cidr" => Due(obj, recs)
    <2> SUFFICES ASSUME typ = "cidr" PROVE Due(obj, recs)
      OBVIOUS
    <2>1. Len(recs) <= Len(obj.recs) /\ \A i \in 1 .. Len(recs) : Len(obj.recs) - Len(recs) + i = i
      BY ONLY <1>2, <1>3
    <2> QED BY <1>2, <1>3, <2>1, Zenon DEF Due, SoFar
  <1>5. data' = data
    BY ONLY <1>1, Zenon DEF data
  <1>6. pc' \in {"apply", "done"} /\ (pc' = "apply" => Due(obj', recs'))
    BY ONLY <1>1, <1>4
  <1> QED BY ONLY ReadInv, <1>1, <1>5, <1>6 DEF ReadInv

(* The next record is applied, or none is left (apply).                    *)
LEMMA ApplyInv ==
  ASSUME ReadInv, ApplyRecord \/ Applied
  PROVE  ReadInv'
  <1>1. pc = "apply" /\ obj' = obj /\ length' = length /\ pos' = pos
    BY DEF ApplyRecord, Applied
  <1>2. data' = data
    BY ONLY <1>1, Zenon DEF data
  <1>3. CASE Applied
    BY ONLY ReadInv, <1>1, <1>2, <1>3 DEF ReadInv, Applied
  <1>4. CASE ApplyRecord
    <2>1. pc' = pc /\ recs # <<>> /\ recs' = Tail(recs) /\ Due(obj, recs) /\ obj \in Objects
      BY <1>1, <1>4 DEF ApplyRecord, ReadInv
    <2>2. Len(obj.recs) \in Nat
      BY <2>1, Header, Zenon
    <2>3. Due(obj, Tail(recs))
      <3>1. IsSeq(recs) /\ Len(recs) <= Len(obj.recs)
            /\ \A i \in 1 .. Len(recs) : recs[i] = obj.recs[Len(obj.recs) - Len(recs) + i]
        BY ONLY <2>1, Zenon DEF Due
      <3> DEFINE X == {recs[i] : i \in DOMAIN recs}
                 t == Tail(recs)
      <3>2. recs \in Seq(X)
        BY ONLY <3>1, Zenon DEF IsSeq
      <3> HIDE DEF X
      <3>3. /\ t \in Seq(X) /\ Len(t) = Len(recs) - 1 /\ Len(t) \in Nat
            /\ \A i \in 1 .. Len(t) : t[i] = recs[i + 1] /\ i + 1 \in 1 .. Len(recs)
        BY ONLY <3>2, <2>1
      <3> HIDE DEF t
      <3>4. IsSeq(t)
        BY ONLY <3>3, SeqIs, Zenon
      <3>5. Len(recs) \in Nat
        BY ONLY <3>2
      <3>6. /\ Len(t) <= Len(obj.recs)
            /\ \A i \in 1 .. Len(t) :
                 Len(obj.recs) - Len(recs) + (i + 1) = Len(obj.recs) - Len(t) + i
        <4>1. Len(recs) <= Len(obj.recs) /\ Len(t) = Len(recs) - 1 /\ Len(t) \in Nat
          BY ONLY <3>1, <3>3, Zenon
        <4>2. \A a, b, c \in Nat :
                b <= a /\ c = b - 1 => c <= a /\ \A i \in 1 .. c : a - b + (i + 1) = a - c + i
          OBVIOUS
        <4> QED BY ONLY <2>2, <3>5, <4>1, <4>2, Zenon
      <3>7. \A i \in 1 .. Len(t) : t[i] = obj.recs[Len(obj.recs) - Len(t) + i]
        BY ONLY <3>1, <3>3, <3>6, Zenon
      <3>8. Due(obj, t)
        BY ONLY <2>1, <3>4, <3>6, <3>7, Zenon DEF Due
      <3> QED BY ONLY <3>8, Zenon DEF t
    <2>4. Due(obj', recs')
      BY ONLY <1>1, <2>1, <2>3, Zenon
    <2> QED BY ONLY ReadInv, <1>1, <1>2, <2>1, <2>4 DEF ReadInv
  <1> QED BY <1>3, <1>4

(* The invariant of the reader holds throughout.                           *)
LEMMA ReadInvariance == PackageSpec => []ReadInv
  <1>1. ReadInv /\ [PackageNext]_packVars => ReadInv'
    <2> SUFFICES ASSUME ReadInv, [PackageNext]_packVars PROVE ReadInv' OBVIOUS
    <2>1. CASE UNCHANGED packVars
      <3>1. UNCHANGED <<obj, length, pc, pos, recs>>
        BY <2>1 DEF packVars, readVars
      <3>2. data' = data
        BY ONLY <3>1, Zenon DEF data
      <3> QED BY ONLY ReadInv, <3>1, <3>2 DEF ReadInv
    <2> QED BY <2>1, ReadHeaderInv, ReadCIDRInv, ReadStringInv, RefuseInv, UnpackedInv, ApplyInv
            DEF PackageNext
  <1> QED BY <1>1, ReadInit, PTL DEF PackageSpec

(* What unpack hands on is what the keeper wrote, a sound object read      *)
(* whole is never refused, and no byte past the end is read, for objects   *)
(* of any number of records of any length, cut at any byte (unpack).       *)
THEOREM Exact == PackageSpec => []UnpackIsExact
  <1>1. ReadInv => UnpackIsExact
    BY WholeRead DEF ReadInv, UnpackIsExact
  <1> QED BY <1>1, ReadInvariance, PTL

(* Applying.                                                               *)

(* The record to apply next is one of addresses, for a prefix there can    *)
(* be.                                                                     *)
LEMMA HeadDue ==
  ASSUME ReadInv, pc = "apply", recs # <<>>, NEW k, k = Len(obj.recs) - Len(recs)
  PROVE  /\ k \in Nat /\ k + 1 \in Nat /\ Len(recs) \in Nat /\ Head(recs) = obj.recs[k + 1]
         /\ Head(recs).prefix \in Prefixes /\ Head(recs).exp \in Exps
         /\ Head(recs).op \in {"add", "remove"}
         /\ Len(obj.recs) - Len(Tail(recs)) = k + 1
  <1>1. obj \in Objects /\ Due(obj, recs)
    BY DEF ReadInv
  <1>2. /\ IsSeq(recs) /\ Len(recs) <= Len(obj.recs) /\ obj.typ = "cidr"
        /\ \A i \in 1 .. Len(obj.recs) : obj.recs[i].prefix.fam \in Families
        /\ \A i \in 1 .. Len(recs) : recs[i] = obj.recs[Len(obj.recs) - Len(recs) + i]
    BY ONLY <1>1, Zenon DEF Due
  <1>3. IsSeq(obj.recs) /\ Len(obj.recs) \in Nat
    BY <1>1, Header, Zenon
  <1>4. /\ Len(recs) \in Nat /\ 1 \in 1 .. Len(recs) /\ Head(recs) = recs[1]
        /\ Len(Tail(recs)) = Len(recs) - 1
    BY ONLY <1>2, recs # <<>> DEF IsSeq
  <1>5. \A a, b, c \in Nat : b <= a /\ 1 \in 1 .. b /\ c = b - 1
          => a - b \in Nat /\ a - b + 1 \in 1 .. a /\ a - b + 1 \in Nat /\ a - c = a - b + 1
    OBVIOUS
  <1>6. Len(Tail(recs)) \in Nat
    BY ONLY <1>4
  <1>7. k \in Nat /\ k + 1 \in 1 .. Len(obj.recs) /\ k + 1 \in Nat
        /\ Len(obj.recs) - Len(Tail(recs)) = k + 1
    BY ONLY <1>2, <1>3, <1>4, <1>5, <1>6, k = Len(obj.recs) - Len(recs), Zenon
  <1>8. Head(recs) = obj.recs[k + 1]
    BY ONLY <1>2, <1>4, k = Len(obj.recs) - Len(recs), Zenon
  <1>9. k + 1 \in DOMAIN obj.recs
    BY ONLY <1>3, <1>7 DEF IsSeq
  <1>10. CIDRRecord(obj.recs[k + 1])
    BY <1>1, <1>2, <1>9, ObjectsAssumption, Zenon
  <1> QED BY ONLY <1>2, <1>4, <1>7, <1>8, <1>10, Zenon DEF CIDRRecord

(* Each step of reading and applying is one of the composition, or none.   *)
LEMMA StepOfComposition == ReadInv /\ [PackageNext]_packVars => [Next]_vars
  <1> SUFFICES ASSUME ReadInv, [PackageNext]_packVars PROVE Next \/ UNCHANGED vars
    BY Zenon
  <1>1. CASE ApplyRecord
    <2>1. pc = "apply" /\ recs # <<>>
      BY <1>1 DEF ApplyRecord
    <2>2. /\ Head(recs).prefix \in Prefixes /\ Head(recs).exp \in Exps
          /\ Head(recs).op \in {"add", "remove"}
      BY <2>1, HeadDue, Zenon
    <2>3. \/ Add(Head(recs).prefix, Head(recs).exp)
          \/ Remove(Head(recs).prefix)
          \/ UNCHANGED vars
      BY <1>1, Zenon DEF ApplyRecord
    <2> QED BY ONLY <2>2, <2>3, Zenon DEF Next
  <1>2. CASE UNCHANGED packVars
    BY <1>2, Zenon DEF packVars
  <1>3. CASE ReadHeader \/ ReadCIDR \/ ReadString \/ Refuse \/ Unpacked \/ Applied
    BY <1>3, Zenon DEF ReadHeader, ReadCIDR, ReadString, Refuse, Fails, Unpacked, Applied, vars
  <1> QED BY <1>1, <1>2, <1>3, Zenon DEF PackageNext

(* Reading an object and applying its records is a behaviour of the        *)
(* composition, so all that is proved of Composition holds of what comes   *)
(* out of the blob store (applyPackage, snapshot).                         *)
THEOREM AppliedIsComposition == PackageSpec => Spec
  <1>1. PackageInit => Init
    BY DEF PackageInit
  <1> QED BY <1>1, StepOfComposition, ReadInvariance, PTL DEF PackageSpec, Spec

(* In particular its summaries are those of its content, and look-ups      *)
(* find what covers an address (apply, size, contains).                    *)
THEOREM PackageContent == PackageSpec => [](SummaryOfContent /\ ContainsIsCoverage)
  BY AppliedIsComposition, Summary, Coverage, PTL

(* One more record: it has the last word on its own prefix and leaves the  *)
(* others as they are.                                                     *)
LEMMA OneMoreWord ==
  ASSUME NEW s, NEW k \in Nat, NEW p, NEW entry
  PROVE  /\ s[k + 1].prefix # p /\ LastWord(s, k, p, entry) => LastWord(s, k + 1, p, entry)
         /\ s[k + 1].prefix = p /\ entry = (IF s[k + 1].op = "add" THEN s[k + 1].exp ELSE Absent)
              => LastWord(s, k + 1, p, entry)
  <1>1. \A i \in 1 .. k + 1 : i \in 1 .. k \/ i = k + 1
    OBVIOUS
  <1>2. \A i \in 1 .. k : i \in 1 .. k + 1 /\ \A j \in i + 1 .. k + 1 : j \in i + 1 .. k \/ j = k + 1
    OBVIOUS
  <1>3. k + 1 \in 1 .. k + 1 /\ \A j : ~(j \in (k + 1) + 1 .. k + 1)
    OBVIOUS
  <1>4. ASSUME s[k + 1].prefix # p, LastWord(s, k, p, entry) PROVE LastWord(s, k + 1, p, entry)
    BY ONLY <1>1, <1>2, <1>4, Zenon DEF LastWord
  <1>5. ASSUME s[k + 1].prefix = p, entry = (IF s[k + 1].op = "add" THEN s[k + 1].exp ELSE Absent)
        PROVE  LastWord(s, k + 1, p, entry)
    BY ONLY <1>3, <1>5, Zenon DEF LastWord
  <1> QED BY ONLY <1>4, <1>5, Zenon

(* Nothing before the object is read, then what the records applied so     *)
(* far say.                                                                *)
ContentInv ==
  /\ nets \in [Prefixes -> Exps \cup {Absent}]
  /\ pc \in {"header", "records", "error"} => \A p \in Prefixes : nets[p] = Absent
  /\ pc = "apply" => AllLastWords(obj.recs, Len(obj.recs) - Len(recs), nets)
  /\ pc = "done" /\ obj.typ = "cidr" => AllLastWords(obj.recs, Len(obj.recs), nets)

(* A step of the reader or of the application keeps what the applied       *)
(* records are.                                                            *)
LEMMA ContentStep ==
  ASSUME ReadInv, ContentInv, [PackageNext]_packVars
  PROVE  ContentInv'
  <1>1. CASE ApplyRecord
    <2>1. PICK k : k = Len(obj.recs) - Len(recs)
      BY Zenon
    <2>2. /\ pc = "apply" /\ recs # <<>> /\ obj' = obj /\ pc' = pc /\ recs' = Tail(recs)
          /\ nets \in [Prefixes -> Exps \cup {Absent}]
      BY <1>1 DEF ApplyRecord, ContentInv
    <2>3. /\ k \in Nat /\ Head(recs) = obj.recs[k + 1]
          /\ Head(recs).prefix \in Prefixes /\ Head(recs).exp \in Exps
          /\ Head(recs).op \in {"add", "remove"}
          /\ Len(obj.recs) - Len(Tail(recs)) = k + 1
      BY <2>1, <2>2, HeadDue, Zenon
    <2>4. PICK r : r = Head(recs)
      BY Zenon
    <2>5. AllLastWords(obj.recs, k, nets)
      BY <2>1, <2>2, Zenon DEF ContentInv
    <2>6. /\ nets' \in [Prefixes -> Exps \cup {Absent}]
          /\ nets'[r.prefix] = IF r.op = "add" THEN r.exp ELSE Absent
          /\ \A p \in Prefixes : p # r.prefix => nets'[p] = nets[p]
      <3>1. CASE r.op = "add"
        <4>1. nets' = [nets EXCEPT ![r.prefix] = r.exp]
          BY ONLY ApplyRecord, <1>1, <2>4, <3>1, Zenon DEF ApplyRecord, Add
        <4> QED BY ONLY <2>2, <2>3, <2>4, <3>1, <4>1, Zenon
      <3>2. CASE r.op # "add" /\ nets[r.prefix] # Absent
        <4>1. nets' = [nets EXCEPT ![r.prefix] = Absent]
          BY ONLY ApplyRecord, <1>1, <2>4, <3>2, Zenon DEF ApplyRecord, Remove
        <4> QED BY ONLY <2>2, <2>3, <2>4, <3>2, <4>1, Zenon
      <3>3. CASE r.op # "add" /\ nets[r.prefix] = Absent
        <4>1. nets' = nets
          BY ONLY ApplyRecord, <1>1, <2>4, <3>3, Zenon DEF ApplyRecord, vars
        <4> QED BY ONLY <2>2, <3>3, <4>1, Zenon
      <3> QED BY ONLY <3>1, <3>2, <3>3, Zenon
    <2>7. ASSUME NEW p \in Prefixes PROVE LastWord(obj.recs, k + 1, p, nets'[p])
      <3>1. CASE p = r.prefix
        BY ONLY <2>3, <2>4, <2>6, <3>1, OneMoreWord, Zenon
      <3>2. CASE p # r.prefix
        <4>1. LastWord(obj.recs, k, p, nets[p]) /\ obj.recs[k + 1].prefix # p /\ nets'[p] = nets[p]
          BY ONLY <2>3, <2>4, <2>5, <2>6, <2>7, <3>2, Zenon DEF AllLastWords
        <4> QED BY ONLY <2>3, <4>1, OneMoreWord, Zenon
      <3> QED BY ONLY <3>1, <3>2
    <2>8. AllLastWords(obj'.recs, Len(obj'.recs) - Len(recs'), nets')
      BY ONLY <2>2, <2>3, <2>7, Zenon DEF AllLastWords
    <2> QED BY ONLY <2>2, <2>6, <2>8 DEF ContentInv
  <1>2. CASE Unpacked
    <2>1. /\ pc = "records" /\ Len(recs) = count /\ UNCHANGED <<nets, obj, recs>>
          /\ pc' = IF typ = "cidr" THEN "apply" ELSE "done"
      BY <1>2 DEF Unpacked, vars
    <2>2. recs = obj.recs /\ obj \in Objects
      BY <2>1, WholeRead, Zenon
    <2>3. typ = obj.typ /\ Len(obj.recs) \in Nat
      BY <2>2, HeaderRead, Header, Zenon
    <2>4. \A p \in Prefixes : nets[p] = Absent
      BY <2>1 DEF ContentInv
    <2>5. AllLastWords(obj.recs, Len(obj.recs) - Len(recs), nets)
      <3>1. Len(obj.recs) - Len(recs) = 0 /\ \A i : ~(i \in 1 .. 0)
        BY ONLY <2>2, <2>3
      <3> QED BY ONLY <2>4, <3>1, Zenon DEF AllLastWords, LastWord
    <2>6. AllLastWords(obj'.recs, Len(obj'.recs) - Len(recs'), nets')
      BY ONLY <2>1, <2>5, Zenon
    <2>7. CASE typ = "cidr"
      <3>1. pc' = "apply"
        BY <2>1, <2>7
      <3> QED BY ONLY ContentInv, <2>1, <2>6, <3>1 DEF ContentInv
    <2>8. CASE typ # "cidr"
      <3>1. pc' = "done" /\ obj'.typ # "cidr"
        BY <2>1, <2>3, <2>8
      <3> QED BY ONLY ContentInv, <2>1, <3>1 DEF ContentInv
    <2> QED BY ONLY <2>7, <2>8
  <1>3. CASE Applied
    <2>1. pc = "apply" /\ pc' = "done" /\ recs = <<>> /\ UNCHANGED <<nets, obj>>
      BY <1>3 DEF Applied, vars
    <2>2. obj \in Objects
      BY DEF ReadInv
    <2>3. Len(obj.recs) \in Nat
      BY <2>2, Header, Zenon
    <2>4. Len(obj.recs) - Len(recs) = Len(obj.recs)
      BY ONLY <2>1, <2>3
    <2>5. AllLastWords(obj.recs, Len(obj.recs), nets)
      BY ONLY ContentInv, <2>1, <2>4, Zenon DEF ContentInv
    <2>6. AllLastWords(obj'.recs, Len(obj'.recs), nets')
      BY ONLY <2>1, <2>5, Zenon
    <2> QED BY ONLY ContentInv, <2>1, <2>6 DEF ContentInv
  <1>4. CASE ReadHeader \/ ReadCIDR \/ ReadString \/ Refuse
    <2>1. UNCHANGED <<nets, obj>> /\ pc \in {"header", "records"} /\ pc' \in {"records", "error"}
      <3>1. CASE ReadHeader
        BY <3>1 DEF ReadHeader, vars
      <3>2. CASE ReadCIDR
        BY <3>2 DEF ReadCIDR, vars
      <3>3. CASE ReadString
        BY <3>3 DEF ReadString, vars
      <3>4. CASE Refuse
        BY <3>4 DEF Refuse, Fails, vars
      <3> QED BY ONLY <1>4, <3>1, <3>2, <3>3, <3>4
    <2> QED BY ONLY ContentInv, <2>1 DEF ContentInv
  <1>5. CASE UNCHANGED packVars
    <2>1. UNCHANGED <<nets, obj, pc, recs>>
      BY <1>5 DEF packVars, readVars, vars
    <2> QED BY ONLY ContentInv, <2>1 DEF ContentInv
  <1> QED BY <1>1, <1>2, <1>3, <1>4, <1>5, Zenon DEF PackageNext

(* An object that is refused leaves nothing behind, and one that is not    *)
(* makes the content its records say, the last on a prefix counting, for   *)
(* any objects and widths (unpack before apply, applyPackage, snapshot).   *)
THEOREM WholeOrNothing == PackageSpec => []AllOrNothing
  <1>1. PackageInit => ContentInv
    BY DEF PackageInit, Init, ContentInv
  <1>2. ReadInv /\ ContentInv /\ [PackageNext]_packVars => ContentInv'
    BY ContentStep
  <1>3. ContentInv => AllOrNothing
    BY Zenon DEF ContentInv, AllOrNothing, AllLastWords
  <1> QED BY <1>1, <1>2, <1>3, ReadInvariance, PTL DEF PackageSpec
=============================================================================
