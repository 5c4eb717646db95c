---------------------------- MODULE Composition ----------------------------
(***************************************************************************)
(* The content of one mirrored live set: internal/dyn/dyn.go, type         *)
(* composition.  nets maps a prefix to the time it expires (0: never);     *)
(* beside it the code keeps, record by record, a hash (the XOR of one keyed *)
(* hash per prefix) and how many prefixes of each length there are, which  *)
(* contains uses to skip lengths.  The XOR is modelled as the set of       *)
(* prefixes hashed in an odd number of times: SipHash collisions are left  *)
(* out.  Addresses are Width[fam] bits long.                               *)
(***************************************************************************)
EXTENDS Naturals, FiniteSets

CONSTANTS
  Width,    \* Width[fam]: bits of an address, fam in {"v4", "v6"}
  Exps,     \* expiry times records carry; 0 is "never"
  Times,    \* the clock readings contains is asked about
  Absent    \* marks a prefix that is not a key of nets

Families == {"v4", "v6"}

ASSUME WidthAssumption ==
  /\ Width \in [Families -> Nat] /\ Width["v4"] < Width["v6"]
  /\ \A f \in Families : 2 ^ Width[f] \in Nat
  /\ Exps \subseteq Nat /\ Times \subseteq Nat /\ Absent \notin Nat

Addrs == UNION {[fam : {f}, value : 0 .. (2 ^ Width[f] - 1)] : f \in Families}

(* The leading bits of an address; Masked() clears the rest.               *)
Lead(f, value, bits) == value \div (2 ^ (Width[f] - bits))

PrefixFrom(ip, bits) ==
  [fam |-> ip.fam, bits |-> bits, lead |-> Lead(ip.fam, ip.value, bits)]

Prefixes == UNION {{PrefixFrom(ip, b) : b \in 0 .. Width[ip.fam]} : ip \in Addrs}

(* ip.Unmap(): the top of the v6 space stands for the v4-mapped block.     *)
MappedFrom == 2 ^ Width["v6"] - 2 ^ Width["v4"]

Unmap(ip) ==
  IF ip.fam = "v6" /\ ip.value >= MappedFrom
  THEN [fam |-> "v4", value |-> ip.value - MappedFrom] ELSE ip

VARIABLES nets, hash, lens

vars == <<nets, hash, lens>>

Lengths == [f \in Families |-> 0 .. Width[f]]

Init ==
  /\ nets = [p \in Prefixes |-> Absent]
  /\ hash = {}
  /\ lens = [f \in Families |-> [b \in Lengths[f] |-> 0]]

Toggle(S, p) == (S \ {p}) \cup ({p} \ S)

(* Variants of Add: every add toggles the hash; no length is counted.      *)
AddToggles(p, exp) ==
  /\ nets' = [nets EXCEPT ![p] = exp]
  /\ hash' = Toggle(hash, p)
  /\ lens' = IF nets[p] = Absent THEN [lens EXCEPT ![p.fam][p.bits] = @ + 1] ELSE lens

AddUncounted(p, exp) ==
  /\ nets' = [nets EXCEPT ![p] = exp]
  /\ hash' = IF nets[p] = Absent THEN Toggle(hash, p) ELSE hash
  /\ UNCHANGED lens

(* apply of an add record: a prefix already there only gets a new expiry.  *)
Add(p, exp) ==
  /\ nets' = [nets EXCEPT ![p] = exp]
  /\ IF nets[p] = Absent
     THEN /\ hash' = Toggle(hash, p)
          /\ lens' = [lens EXCEPT ![p.fam][p.bits] = @ + 1]
     ELSE UNCHANGED <<hash, lens>>

(* apply of a remove record; one for a prefix not there changes nothing.   *)
Remove(p) ==
  /\ nets[p] # Absent
  /\ nets' = [nets EXCEPT ![p] = Absent]
  /\ hash' = Toggle(hash, p)
  /\ lens' = [lens EXCEPT ![p.fam][p.bits] = @ - 1]

Next == \E p \in Prefixes : Remove(p) \/ \E exp \in Exps : Add(p, exp)

Spec == Init /\ [][Next]_vars
-----------------------------------------------------------------------------
Alive(entry, now) == entry # Absent /\ (entry = 0 \/ entry > now)

(* contains: from the longest length down, skipping the empty ones.        *)
Contains(addr, now) ==
  LET ip == Unmap(addr)
  IN \E bits \in Lengths[ip.fam] :
       lens[ip.fam][bits] # 0 /\ Alive(nets[PrefixFrom(ip, bits)], now)

(* size: full-length entries are counted as addresses, others as prefixes. *)
Addresses == lens["v4"][Width["v4"]] + lens["v6"][Width["v6"]]

Present == {p \in Prefixes : nets[p] # Absent}

Covers(p, ip) == p.fam = ip.fam /\ p.lead = Lead(ip.fam, ip.value, p.bits)

(* The hash and the number of addresses kept record by record are those of *)
(* the content, whatever adds and removes led to it, repeated adds and     *)
(* renewed expiries included: they depend on the prefixes present and on   *)
(* nothing else (apply, size).                                             *)
SummaryOfContent ==
  /\ hash = Present
  /\ Addresses = Cardinality({p \in Present : p.bits = Width[p.fam]})

(* contains finds an address exactly when an unexpired entry of its own    *)
(* family covers it: skipping lengths never hides one, and a v4-mapped     *)
(* address is looked up as v4 (contains, lens kept by apply).              *)
ContainsIsCoverage ==
  \A addr \in Addrs, now \in Times :
    Contains(addr, now) <=>
      \E p \in Present : Covers(p, Unmap(addr)) /\ Alive(nets[p], now)
=============================================================================
