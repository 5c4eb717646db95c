------------------------------ MODULE MCPolicy ------------------------------
(***************************************************************************)
(* Documents for TLC: one sound ask for every verb, a list row and a       *)
(* verdict row, in a pack and in a tree written by hand, and what an edit  *)
(* may put in each field: the other legal values, their bounds, one past   *)
(* them, another spelling, a name that is not there.                       *)
(***************************************************************************)
EXTENDS Policy, TLC

Blank ==
  [do |-> "", to |-> "", apply |-> "", phase |-> "", delta |-> Nil, value |-> Nil,
   counter |-> "", marker |-> "", group |-> "", side |-> "", headers |-> Nil, args |-> Nil,
   body |-> Nil, when |-> <<>>, ttl |-> "", write |-> "", list |-> "", code |-> ""]

Asks ==
  {[Blank EXCEPT !.do = v] : v \in {"challenge", "skip", "reauth"}}
  \cup {[Blank EXCEPT !.do = v, !.to = "x", !.apply = "conn", !.phase = "frame"] :
          v \in {"active", "passive", "off", "vote"}}
  \cup {[Blank EXCEPT !.do = "threshold", !.delta = 900],
        [Blank EXCEPT !.do = "mutate", !.group = "ok", !.side = "on"],
        [Blank EXCEPT !.do = "note", !.apply = "ip", !.counter = "ok"],
        [Blank EXCEPT !.do = "audit", !.side = "on", !.args = "ok"],
        [Blank EXCEPT !.do = "archive", !.side = "on", !.ttl = "5m", !.when = <<"deny", "allow">>],
        [Blank EXCEPT !.do = "mark", !.marker = "ok"],
        [Blank EXCEPT !.do = "score", !.value = -100],
        [Blank EXCEPT !.list = "v", !.ttl = "5m"]}

NoMatch == [lists |-> <<>>, live |-> <<>>, countries |-> <<>>, asns |-> <<>>]
Set1 == [main |-> [NoMatch EXCEPT !.lists = <<"a">>, !.asns = <<1>>, !.countries = <<"c">>],
         exclude |-> [NoMatch EXCEPT !.live = <<"v">>]]

Document(origin, row, ask) ==
  [origin |-> origin, lists |-> {"a"}, live |-> {"v"}, asns |-> {"1"}, countries |-> {"c"},
   sets |-> ("s" :> Set1), row |-> row, end |-> [on |-> "white", at |-> Nil], ask |-> ask]

Verdict == [set |-> "s", dataset |-> "", not |-> FALSE, action |-> "allow"]
Side(a) == [set |-> "", dataset |-> "a", not |-> FALSE, action |-> a]

MCBases ==
  {Document("hand", Side(IF ask.do = "" THEN "list" ELSE "request"), ask) : ask \in Asks}
  \cup {Document("pack", row, [Blank EXCEPT !.list = "v"]) : row \in {Verdict, Side("list")}}
  \cup {Document("pack", Side("request"), [Blank EXCEPT !.do = "skip"])}

MCAskValues ==
  [do |-> {"", "NOTE", "skip", "audit", "archive", "wrong"}, to |-> {"", "*", " ", "x"},
   apply |-> {"", " ", "Request", "session", "conn", "response"},
   phase |-> {"", "request", "frame", "wrong"},
   delta |-> {-101, -100, 901}, value |-> {0, 100, 101},
   counter |-> {" ", "ok", "bad"}, marker |-> {"", "ok", "bad"}, group |-> {"", "ok", "bad"},
   side |-> {"", "ON", "off", "wrong"}, headers |-> {"ok", "bad"}, args |-> {"ok"},
   body |-> {"bad"}, when |-> {<<>>, <<"allow">>, <<"deny", "deny">>, <<"wrong">>},
   ttl |-> {"", " ", "0s", "1h", "wrong"}, write |-> {" ", "Net", "wrong"},
   list |-> {"", "v", "V", "a"}, code |-> {"ok", "bad"}]
MCRowValues ==
  [set |-> {"", "S", "x"}, dataset |-> {"", "A", "v", "x"}, not |-> {TRUE},
   action |-> {"Allow", "deny", "request", "list", "wrong"}]
MCEndValues == [on |-> {"White", "overload", "wrong"}, at |-> {24, 25, 100, 101}]
MCMatchValues ==
  [lists |-> {<<>>, <<"A">>, <<"a", "A">>, <<"x">>}, live |-> {<<>>, <<"v">>, <<"V">>, <<"x">>},
   countries |-> {<<"x">>}, asns |-> {<<>>, <<1, 1>>, <<2>>}]
MCGroupValues ==
  [lists |-> {{}, {"A"}, {"a", "v"}}, live |-> {{}, {"V"}, {"v", "a"}},
   asns |-> {{}, {"1", "2"}}, countries |-> {{}}]
=============================================================================
