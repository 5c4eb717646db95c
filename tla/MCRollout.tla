----------------------------- MODULE MCRollout -----------------------------
(***************************************************************************)
(* Instances of Rollout: a pack that declares one live set, one that       *)
(* declares a second, one that does not load, one that does not parse.     *)
(***************************************************************************)
EXTENDS Rollout, TLC

CONSTANTS u1, u2

Live1 == u1 :> "n1"
Live2 == (u1 :> "n1") @@ (u2 :> "n2")

Good == [kind |-> "ok", live |-> Live1, used |-> {u1}]
More == [kind |-> "ok", live |-> Live2, used |-> {u2}]
Bad == [kind |-> "bad", live |-> Live1, used |-> {u1}]
Malformed == [kind |-> "malformed", live |-> Live1, used |-> {}]

MCBoot == [kind |-> "ok", live |-> None, used |-> {}]
MCAll == {More, Bad, Malformed}
MCGood == {More}
MCNoBad == {More, Malformed}
MCGoodBad == {Good, Bad}
MCReloaders == {Ticker, "sighup"}
MCTicker == {Ticker}
=============================================================================
