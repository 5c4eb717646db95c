----------------------------- MODULE MCInspect -----------------------------
(* Profiles, sets and requests of Inspect for TLC.                         *)
EXTENDS Inspect

CONSTANTS l1, as1, v1, v2, c1

Nothing == [static |-> {}, live |-> {}, countries |-> {}]
Plain(m) == [match |-> m, exclude |-> Nothing, inverse |-> FALSE]

MCSets ==
  [s \in {"office", "cloud", "tor", "abroad", "strangers"} |->
     CASE s = "office" -> [Plain([Nothing EXCEPT !.static = {l1}])
                             EXCEPT !.exclude.live = {v1}]
       [] s = "cloud" -> Plain([Nothing EXCEPT !.static = {l1, as1}, !.live = {v1}])
       [] s = "tor" -> Plain([Nothing EXCEPT !.live = {v2}, !.countries = {c1}])
       [] s = "abroad" -> [Plain([Nothing EXCEPT !.countries = {c1}])
                             EXCEPT !.inverse = TRUE, !.exclude.static = {as1}]
       [] OTHER -> [match |-> [Nothing EXCEPT !.live = {v2}],
                    exclude |-> [Nothing EXCEPT !.live = {v1}], inverse |-> TRUE]]

Terminals == [action : {"allow", "deny"}, set : DOMAIN MCSets]

(* Verdicts: any two rows over the five sets.                              *)
MCVerdictProfiles ==
  {[rules |-> <<a, b>>, outcomes |-> <<>>, default |-> d] :
     a \in Terminals, b \in Terminals, d \in {"allow", "deny"}}

MCPlainRequest == [known |-> TRUE, valid |-> TRUE, fill |-> 0, shed |-> ""]

(* Side effects: rows over a static and a live dataset around one verdict  *)
(* row, and outcome rows of every kind.                                    *)
Ask(d, n) == [action |-> "request", dataset |-> d, not |-> n, write |-> ""]
List(d, n, w) == [action |-> "list", dataset |-> d, not |-> n, write |-> w]
Outcome(on, do, write, at) == [on |-> on, do |-> do, write |-> write, at |-> at]

MCSidePools ==
  {<<Ask(v1, FALSE), List(l1, TRUE, "net")>>, <<List(v1, TRUE, "addr"), Ask(l1, FALSE)>>,
   <<List(l1, FALSE, "net"), List(v1, FALSE, "addr")>>}

MCOutcomes ==
  {<<Outcome("white", "ask", "", NoMark), Outcome("none", "list", "net", NoMark),
     Outcome("overload", "ask", "", 50)>>,
   <<Outcome("black", "list", "asn", NoMark), Outcome("black", "list", "addr", NoMark),
     Outcome("overload", "list", "addr", 100), Outcome("overload", "ask", "", NoMark)>>}

MCSideProfiles ==
  {[rules |-> <<s[1], t, s[2]>>, outcomes |-> o, default |-> "allow"] :
     s \in MCSidePools, t \in [action : {"allow", "deny"}, set : {"tor", "office"}],
     o \in MCOutcomes}

MCSideRequests ==
  {r \in [known : BOOLEAN, valid : BOOLEAN, fill : {0, 50, 100},
          shed : {"", "IP_QUEUE_LIMIT", "IP_DEADLINE_EXCEEDED"}] :
     r.shed = "IP_QUEUE_LIMIT" => r.fill = 100}

(* Live sets change three times while a verdict is found, and once among   *)
(* side effects, where each dataset is read once.                          *)
VerdictMoves == 3
SideMoves == 1

MCVerdictCases ==
  {[prof |-> p, req |-> MCPlainRequest, moves |-> VerdictMoves] : p \in MCVerdictProfiles}
MCSideCases ==
  {[prof |-> p, req |-> r, moves |-> SideMoves] : p \in MCSideProfiles, r \in MCSideRequests}
MCCases == MCVerdictCases \cup MCSideCases
=============================================================================
