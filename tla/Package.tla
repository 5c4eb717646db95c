------------------------------ MODULE Package ------------------------------
(***************************************************************************)
(* How the content of a live set comes out of an object of the blob store: *)
(* unpack of internal/dyn/wafs.go reads the object record by record, and   *)
(* its records are then applied to the composition, in order, all of them  *)
(* or none (applyPackage and snapshot of dyn.go).  The keeper writes the   *)
(* objects; what is read may be the beginning of one.                      *)
(*                                                                         *)
(* An object is a sequence of bytes: a field of n bytes is its value       *)
(* followed by n - 1 fillers.  Offsets count from 0 as in the code.        *)
(***************************************************************************)
EXTENDS Composition, Sequences

CONSTANTS
  Objects,   \* what the keeper writes: [magic, version, typ, reasons, recs]
  Cut        \* the objects that may be read in part

IsSeq(s) == s \in Seq({s[i] : i \in DOMAIN s})

(* What the keeper records (external): in a set of addresses, prefixes of  *)
(* the two spaces or of a family this module does not know; in any other,  *)
(* texts, and reasons only under the flag for them.                        *)
CIDRRecord(r) ==
  /\ r = [op |-> r.op, exp |-> r.exp, prefix |-> r.prefix]
  /\ r.prefix = [fam |-> r.prefix.fam, bits |-> r.prefix.bits, lead |-> r.prefix.lead]
  /\ r.op \in {"add", "remove"} /\ r.exp \in Exps
  /\ r.prefix.fam \in Families => r.prefix \in Prefixes

TextRecord(o, r) ==
  /\ r = [op |-> r.op, exp |-> r.exp, value |-> r.value, reason |-> r.reason]
  /\ IsSeq(r.value) /\ IsSeq(r.reason)
  /\ ~o.reasons => r.reason = <<>>

ASSUME ObjectsAssumption ==
  \A o \in Objects :
    /\ IsSeq(o.recs) /\ o.reasons \in BOOLEAN
    /\ \A i \in DOMAIN o.recs :
         IF o.typ = "cidr" THEN CIDRRecord(o.recs[i]) ELSE TextRecord(o, o.recs[i])

VARIABLES
  obj,      \* the object being read
  length,   \* len(data)
  pc,       \* "header", "records", "apply", "done" or "error"
  pos,      \* the next byte to read
  recs      \* the records read so far, then those still to be applied

readVars == <<obj, length, pc, pos, recs>>
packVars == <<vars, readVars>>

packHeader == 52

(* The keeper's encoding (external).                                       *)
Field(v, n) == <<v>> \o [i \in 1 .. n - 1 |-> "filler"]

EncodeRecord(o, r) ==
  Field(r.op, 1)
  \o (IF o.typ = "cidr"
      THEN Field(r.prefix.fam, 1) \o Field(r.prefix.bits, 1)
             \o Field(r.prefix.lead, IF r.prefix.fam = "v4" THEN 4 ELSE 16)
      ELSE Field(Len(r.value), 2) \o r.value)
  \o Field(r.exp, 8)
  \o (IF o.typ = "string" /\ o.reasons
      THEN Field(Len(r.reason), 2) \o r.reason ELSE <<>>)

EncodeHeader(o) ==
  Field(<<o.magic, o.version, o.typ, o.reasons, Len(o.recs)>>, packHeader)

Encode(o) ==
  LET upTo[n \in 0 .. Len(o.recs)] ==
        IF n = 0 THEN EncodeHeader(o) ELSE upTo[n - 1] \o EncodeRecord(o, o.recs[n])
  IN upTo[Len(o.recs)]
-----------------------------------------------------------------------------
PackageInit ==
  /\ Init
  /\ obj \in Objects
  /\ length \in IF obj \in Cut THEN 0 .. Len(Encode(obj)) ELSE {Len(Encode(obj))}
  /\ pc = "header" /\ pos = 0 /\ recs = <<>>

data == Encode(obj)
Byte(k) == data[k + 1]
Bytes(k, n) == SubSeq(data, k + 1, k + n)

Fails ==
  /\ pc' = "error"
  /\ UNCHANGED <<vars, obj, length, pos, recs>>

HeaderOK == length >= packHeader /\ obj.magic = "WAFS" /\ obj.version = 1

ReadHeader ==
  /\ pc = "header" /\ HeaderOK
  /\ pos' = packHeader /\ pc' = "records"
  /\ UNCHANGED <<vars, obj, length, recs>>

count == Byte(0)[5]
typ == Byte(0)[3]
reasons == Byte(0)[4]

(* Bytes an address takes on the wire.                                     *)
AddressSize(fam) == IF fam = "v4" THEN 4 ELSE 16

(* Variant of CIDRFits: there is room for the address but not for the      *)
(* expiry after it.                                                        *)
CIDRFitsBare ==
  /\ pos + 3 <= length /\ Byte(pos + 1) \in Families
  /\ pos + 3 + AddressSize(Byte(pos + 1)) <= length

CIDRFits ==
  /\ pos + 3 <= length /\ Byte(pos + 1) \in Families
  /\ pos + 3 + AddressSize(Byte(pos + 1)) + 8 <= length

ReadCIDR ==
  /\ pc = "records" /\ Len(recs) < count /\ typ = "cidr" /\ CIDRFits
  /\ LET fam == Byte(pos + 1)
         next == pos + 3 + AddressSize(fam)
     IN /\ recs' = Append(recs, [op |-> Byte(pos), exp |-> Byte(next),
                     prefix |-> [fam |-> fam, bits |-> Byte(pos + 2), lead |-> Byte(pos + 3)]])
        /\ pos' = next + 8
  /\ UNCHANGED <<vars, obj, length, pc>>

(* Where the expiry and the reason of a string record begin.               *)
Expiry == pos + 3 + Byte(pos + 1)
Reason == Expiry + 8 + 2

StringFits ==
  /\ pos + 3 <= length /\ Expiry + 8 <= length
  /\ reasons => Reason <= length /\ Reason + Byte(Expiry + 8) <= length

ReadString ==
  /\ pc = "records" /\ Len(recs) < count /\ typ = "string" /\ StringFits
  /\ LET size == Byte(pos + 1)
         about == IF reasons THEN Byte(Expiry + 8) ELSE 0
     IN /\ recs' = Append(recs, [op |-> Byte(pos), exp |-> Byte(Expiry),
                     value |-> Bytes(pos + 3, size),
                     reason |-> IF reasons THEN Bytes(Reason, about) ELSE <<>>])
        /\ pos' = IF reasons THEN Reason + about ELSE Expiry + 8
  /\ UNCHANGED <<vars, obj, length, pc>>

(* Truncated, not a WAFS object, another version, type or family.         *)
Refuse ==
  /\ \/ pc = "header" /\ ~HeaderOK
     \/ /\ pc = "records" /\ Len(recs) < count
        /\ ~(typ = "cidr" /\ CIDRFits) /\ ~(typ = "string" /\ StringFits)
  /\ Fails

(* Every record is read: only addresses make the content of a live set.    *)
Unpacked ==
  /\ pc = "records" /\ Len(recs) = count
  /\ pc' = IF typ = "cidr" THEN "apply" ELSE "done"
  /\ UNCHANGED <<vars, obj, length, pos, recs>>

(* Variant of ApplyRecord: a prefix already there keeps its expiry.        *)
ApplyRecordOnce ==
  /\ pc = "apply" /\ recs # <<>>
  /\ LET r == Head(recs) IN
     IF r.op = "add"
     THEN IF nets[r.prefix] = Absent THEN Add(r.prefix, r.exp) ELSE UNCHANGED vars
     ELSE IF nets[r.prefix] # Absent THEN Remove(r.prefix) ELSE UNCHANGED vars
  /\ recs' = Tail(recs)
  /\ UNCHANGED <<obj, length, pc, pos>>

(* apply: the next record; one that removes what is not there is nothing.  *)
ApplyRecord ==
  /\ pc = "apply" /\ recs # <<>>
  /\ LET r == Head(recs) IN
     IF r.op = "add" THEN Add(r.prefix, r.exp)
     ELSE IF nets[r.prefix] # Absent THEN Remove(r.prefix) ELSE UNCHANGED vars
  /\ recs' = Tail(recs)
  /\ UNCHANGED <<obj, length, pc, pos>>

Applied ==
  /\ pc = "apply" /\ recs = <<>> /\ pc' = "done"
  /\ UNCHANGED <<vars, obj, length, pos, recs>>

PackageNext ==
  ReadHeader \/ ReadCIDR \/ ReadString \/ Refuse \/ Unpacked \/ ApplyRecord \/ Applied

PackageSpec == PackageInit /\ [][PackageNext]_packVars
-----------------------------------------------------------------------------
(* Properties.                                                             *)

Sound(o) ==
  /\ o.magic = "WAFS" /\ o.version = 1 /\ o.typ \in {"cidr", "string"}
  /\ o.typ = "cidr" => \A i \in DOMAIN o.recs : o.recs[i].prefix.fam \in Families

(* What unpack hands on is what the keeper wrote, every record of it in    *)
(* order: an object cut short at any byte is refused as a whole, even      *)
(* between two records, and a sound one never is; and the reader never     *)
(* moves past the end of what it was given, so every byte it read was      *)
(* there (unpack and its bounds checks).                                   *)
UnpackIsExact ==
  /\ pos <= length
  /\ pc = "records" /\ Len(recs) = count => recs = obj.recs /\ length >= Len(data)
  /\ pc = "error" => length < Len(data) \/ ~Sound(obj)

(* What the first k of the records s say last about prefix p.              *)
LastWord(s, k, p, entry) ==
  \/ entry = Absent /\ \A i \in 1 .. k : s[i].prefix # p
  \/ \E i \in 1 .. k :
       /\ s[i].prefix = p /\ \A j \in i + 1 .. k : s[j].prefix # p
       /\ entry = IF s[i].op = "add" THEN s[i].exp ELSE Absent

(* An object that is refused leaves no entry behind, and one that is not   *)
(* makes the content its records say: of several about one prefix the last *)
(* counts, with its own expiry, and a record that removes what is not      *)
(* there is nothing (unpack before apply, applyPackage, snapshot).         *)
AllOrNothing ==
  /\ pc \in {"header", "records", "error"} => \A p \in Prefixes : nets[p] = Absent
  /\ pc = "done" /\ obj.typ = "cidr" =>
       \A p \in Prefixes : LastWord(obj.recs, Len(obj.recs), p, nets[p])
=============================================================================
