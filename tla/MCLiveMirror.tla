---------------------------- MODULE MCLiveMirror ----------------------------
(* A small instance of LiveMirror for TLC: one prefix that is absent or    *)
(* there with either of two expiries.                                      *)
EXTENDS LiveMirror

CONSTANTS p1, e1, e2

MCPrefixes == {p1}
MCExps == {e1, e2}
=============================================================================
