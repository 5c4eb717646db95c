------------------------------ MODULE MCNetset ------------------------------
(***************************************************************************)
(* Instances of Netset: IPv4 of 2 bits, IPv6 of two words of 4 bits, files *)
(* of up to three lines.  Prefixes of IPv6 are taken at the edges of the   *)
(* words, where lastAddr and nextAddr branch.  With the mark of 1 the low  *)
(* words 4 to 7 are mapped; prefixes of 6 and 7 bits there have more than  *)
(* one address.                                                            *)
(***************************************************************************)
EXTENDS Netset

Pfx(a, b) == [kind |-> "prefix", prefix |-> [addr |-> a, bits |-> b]]
Adr(a) == [kind |-> "addr", addr |-> a]

MCV4 == {Pfx(V4(n), 2) : n \in {0, 1, 3}} \cup {Pfx(V4(1), 1), Pfx(V4(3), 1), Pfx(V4(1), 0)}
MCV6 == {Pfx(V6(h, l), b) : h \in {0, 15}, l \in {0, 15}, b \in {5, 8}}
          \cup {Pfx(V6(h, 15), b) : h \in {0, 15}, b \in {3, 4}} \cup {Pfx(V6(15, 15), 0)}
MCAddr == {Adr(V4(2)), Adr(V6(0, 5)), Adr(V6(1, 0)), Adr(V6(14, 15))}
MCOther == {[kind |-> "comment"], [kind |-> "garbage"]}

MCMapped == {Pfx(V6(0, 4), 6), Pfx(V6(0, 7), 7)}

MCLines == MCV4 \cup MCV6 \cup MCMapped \cup MCAddr \cup MCOther
=============================================================================
