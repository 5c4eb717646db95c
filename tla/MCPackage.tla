----------------------------- MODULE MCPackage -----------------------------
(***************************************************************************)
(* Objects for TLC.  A v4 space of one bit and a v6 space of two, upper    *)
(* half v4-mapped.  Objects of up to two records are read whole and cut    *)
(* at every byte; objects of three records, whole.                         *)
(***************************************************************************)
EXTENDS Package

MCWidth == [f \in {"v4", "v6"} |-> IF f = "v4" THEN 1 ELSE 2]

SomePrefixes ==
  {[fam |-> "v4", bits |-> 0, lead |-> 0], [fam |-> "v4", bits |-> 1, lead |-> 1],
   [fam |-> "v6", bits |-> 2, lead |-> 1], [fam |-> "v6", bits |-> 1, lead |-> 0]}

Changes ==
  [op : {"add"}, prefix : SomePrefixes, exp : Exps]
  \cup [op : {"remove"}, prefix : SomePrefixes, exp : {0}]

Strings ==
  [op : {"add", "remove"}, value : {<<>>, <<"x">>}, exp : {2}, reason : {<<>>, <<"r", "r">>}]

UpTo(S, n) == UNION {[1 .. k -> S] : k \in 0 .. n}

Object(typ0, reasons0, recs0) ==
  [magic |-> "WAFS", version |-> 1, typ |-> typ0, reasons |-> reasons0, recs |-> recs0]

NoReason(r) == [r EXCEPT !.reason = <<>>]

Short ==
  {Object("cidr", FALSE, s) : s \in UpTo(Changes, 2)}
  \cup {Object("string", TRUE, s) : s \in UpTo(Strings, 2)}
  \cup {Object("string", FALSE, s) : s \in UpTo({NoReason(r) : r \in Strings}, 2)}

Odd ==
  {Object("other", TRUE, s) : s \in UpTo(Strings, 1)}
  \cup {[Object("cidr", FALSE, s) EXCEPT !.magic = "other"] : s \in UpTo(Changes, 1)}
  \cup {[Object("cidr", FALSE, s) EXCEPT !.version = 2] : s \in UpTo(Changes, 1)}
  \cup {Object("cidr", FALSE, <<r, [r EXCEPT !.prefix.fam = "other"]>>) : r \in Changes}

Long == {Object("cidr", FALSE, s) : s \in [1 .. 3 -> [op : {"add"}, prefix : Prefixes, exp : Exps]
                                               \cup [op : {"remove"}, prefix : Prefixes, exp : {0}]]}

MCObjects == Short \cup Long \cup Odd
MCCut == Short
=============================================================================
