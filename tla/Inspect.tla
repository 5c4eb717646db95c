------------------------------ MODULE Inspect ------------------------------
(***************************************************************************)
(* The inspection of one request: evaluate and inspect in cmd/ip/handler.go *)
(* with decide.Check, decide.FireOverload, the set matching of             *)
(* internal/store and writeLists of cmd/ip/lists.go.                       *)
(*                                                                         *)
(* The client address is fixed, so a list, a country range or a live set   *)
(* either holds it or not.  The snapshot is read once (store.Current) and  *)
(* does not change; live sets are read one by one, each under its own      *)
(* lock, and keeper's changes arrive between the reads.  One action is one *)
(* read of a block of a set expression, one row over a dataset, or one     *)
(* list write.  A block names one live set at most here.  Codes, texts and *)
(* findings carry no decision and are left out; every set and dataset a    *)
(* row names exists, since the load fails otherwise (store.loadProfiles).  *)
(***************************************************************************)
EXTENDS Naturals, Sequences, FiniteSets

CONSTANTS
  Statics,     \* static lists and system prefix lists
  Asns,        \* those of Statics that are system prefixes
  Lives,       \* live sets
  Countries, NoCountry,
  Sets,        \* Sets[name]: [match, exclude : blocks, inverse]
  Cases        \* inspections to try: [prof, req, moves], where prof is
               \* [rules, outcomes : sequences, default], req is
               \* [known, valid, fill, shed], and moves bounds the live
               \* set changes during the inspection

AtMin == 25
AtMax == 100
NoMark == 0    \* the row has no `at'
NoCode == ""

(* What policy and store let through: a terminal row has a set, another    *)
(* row a dataset.                                                          *)
Blocks == [static : SUBSET Statics, live : SUBSET Lives, countries : SUBSET Countries]
WriteKinds == {"", "addr", "net", "net_all", "asn"}
Rules ==
  [action : {"allow", "deny"}, set : DOMAIN Sets]
    \cup [action : {"request", "list"}, dataset : Statics \cup Lives, not : BOOLEAN,
          write : WriteKinds]
Outcomes ==
  [on : {"white", "black", "none", "overload"}, do : {"ask", "list"}, write : WriteKinds,
   at : {NoMark} \cup AtMin .. AtMax]

(* What the pool hands over: it sheds for its limit only when it is full.  *)
Requests ==
  {r \in [known : BOOLEAN, valid : BOOLEAN, fill : 0 .. AtMax,
          shed : {NoCode, "IP_QUEUE_LIMIT", "IP_DEADLINE_EXCEEDED"}] :
     r.shed = "IP_QUEUE_LIMIT" => r.fill = AtMax}

ASSUME InspectAssumption ==
  /\ Asns \subseteq Statics /\ NoCountry \notin Countries
  /\ Statics \cap Lives = {}
  /\ \A s \in DOMAIN Sets : Sets[s] \in [match : Blocks, exclude : Blocks, inverse : BOOLEAN]
  /\ \A c \in Cases :
       /\ c.prof \in [rules : Seq(Rules), outcomes : Seq(Outcomes), default : {"allow", "deny"}]
       /\ c.req \in Requests /\ c.moves \in Nat

VARIABLES
  prof,     \* the profile of the snapshot
  req,      \* the request: [known, valid, fill, shed]
  world,    \* what the snapshot says of the address: [member, country, geo]
  live,     \* live[l]: "loading", "in" or "out"
  pc, row,  \* where Check is; the row last dealt with in this pass
  hit,      \* the kind Match.locate found, while exclude is still to be read
  where,    \* white, black, none; "error" before Check went through
  by,       \* the row that decided
  kind,     \* the kind of its hit
  err,      \* the code of an error verdict
  actions,  \* asks collected for the reply, as <<source, index>>
  bans,     \* list writes collected, likewise
  tried,    \* list writes made or given up so far
  failed,   \* writeLists: the network directory did not answer
  written,  \* list writes keeper was sent
  reply,    \* the answer
  seen,     \* history: what each live set said since the start
  moves     \* live set changes still to come

vars == <<prof, req, world, live, pc, row, hit, where, by, kind, err, actions,
          bans, tried, failed, written, reply, seen, moves>>

NoReply == [verdict |-> "none", code |-> NoCode, scope |-> "", actions |-> <<>>]
-----------------------------------------------------------------------------
(* store: what a block, a set and a dataset say of the address.            *)

LiveContains(l) == live[l] = "in"

(* Match.locate: lists, then systems, then live sets, then countries.      *)
Locate(m) ==
  LET found == m.static \cap world.member
  IN CASE found \ Asns # {} -> "list"
       [] found # {} /\ found \subseteq Asns -> "asn"
       [] found = {} /\ (\E l \in m.live : LiveContains(l)) -> "live"
       [] found = {} /\ (\A l \in m.live : ~LiveContains(l)) /\ world.country \in m.countries
            -> "country"
       [] OTHER -> "none"

(* List.Contains.                                                          *)
Holds(d) == IF d \in Lives THEN LiveContains(d) ELSE d \in world.member

UsesCountries(s) == Sets[s].match.countries \cup Sets[s].exclude.countries # {}

Terminal(rule) == rule.action \in {"allow", "deny"}

(* missing: a set over countries while no country ranges are loaded.       *)
Missing ==
  \E j \in DOMAIN prof.rules :
    Terminal(prof.rules[j]) /\ UsesCountries(prof.rules[j].set) /\ ~world.geo

(* overload.At, overload.Fires.                                            *)
At(at) == IF at = NoMark THEN AtMax ELSE at
Fires(at, fill, shed) == shed \/ (at < AtMax /\ fill >= at)

(* The outcome rows in S, in order, as <<src, index>>.                     *)
Chosen(S, src) ==
  LET upTo[n \in 0 .. Len(prof.outcomes)] ==
        IF n = 0 THEN <<>>
        ELSE IF n \in S THEN Append(upTo[n - 1], <<src, n>>) ELSE upTo[n - 1]
  IN upTo[Len(prof.outcomes)]

(* The asks and the list writes among the outcome rows in S.               *)
Asks(S, src) == Chosen({j \in S : prof.outcomes[j].do = "ask"}, src)
Writes(S, src) == Chosen({j \in S : prof.outcomes[j].do = "list"}, src)

Overloaded(shed) ==
  {j \in DOMAIN prof.outcomes : prof.outcomes[j].on = "overload"
                                /\ Fires(At(prof.outcomes[j].at), req.fill, shed)}

(* FireOverload: nothing without the profile, no writes without an address. *)
OverloadAsks(shed) == IF req.known THEN Asks(Overloaded(shed), "overload") ELSE <<>>
OverloadBans(shed) ==
  IF req.known /\ req.valid THEN Writes(Overloaded(shed), "overload") ELSE <<>>
-----------------------------------------------------------------------------
Init ==
  /\ \E c \in Cases : prof = c.prof /\ req = c.req /\ moves = c.moves
  /\ world \in [member : SUBSET Statics, country : Countries \cup {NoCountry}, geo : BOOLEAN]
  /\ world.country # NoCountry => world.geo
  /\ live \in [Lives -> {"loading", "in", "out"}]
  /\ pc = "evaluate" /\ row = 0 /\ hit = "none"
  /\ where = "error" /\ by = 0 /\ kind = "none" /\ err = NoCode
  /\ actions = <<>> /\ bans = <<>> /\ tried = 0 /\ failed = FALSE /\ written = <<>>
  /\ reply = NoReply
  /\ seen = [l \in Lives |-> {live[l] = "in"}]

(* A live set arrives or changes while the request is looked at.           *)
LiveChange(l, now) ==
  /\ pc # "done" /\ moves > 0 /\ live[l] # now
  /\ live' = [live EXCEPT ![l] = now]
  /\ seen' = [seen EXCEPT ![l] = @ \cup {now = "in"}]
  /\ moves' = moves - 1
  /\ UNCHANGED <<prof, req, world, pc, row, hit, where, by, kind, err, actions,
                 bans, tried, failed, written, reply>>

inputs == <<prof, req, world, live, seen, moves>>
output == <<tried, failed, written, reply>>

(* overloadOnShed: only the full queue fires overload rows.                *)
FiresOnShed == req.shed = "IP_QUEUE_LIMIT"

(* evaluate: a request the pool shed is answered without Check.            *)
Shed ==
  /\ pc = "evaluate" /\ req.shed # NoCode
  /\ pc' = "write" /\ err' = req.shed
  /\ actions' = IF FiresOnShed THEN OverloadAsks(TRUE) ELSE <<>>
  /\ bans' = IF FiresOnShed THEN OverloadBans(TRUE) ELSE <<>>
  /\ UNCHANGED <<inputs, output, row, hit, where, by, kind>>

(* Check up to the rules.                                                  *)
CheckFails(code) ==
  /\ pc = "evaluate" /\ req.shed = NoCode
  /\ code = CASE ~req.known -> "IP_UNKNOWN_PROFILE"
              [] req.known /\ ~req.valid -> "IP_MALFORMED"
              [] req.known /\ req.valid /\ Missing -> "IP_MISSING_SET"
              [] OTHER -> NoCode
  /\ code # NoCode
  /\ pc' = "overload" /\ err' = code
  /\ UNCHANGED <<inputs, output, row, hit, where, by, kind, actions, bans>>

CheckBegins ==
  /\ pc = "evaluate" /\ req.shed = NoCode /\ req.known /\ req.valid /\ ~Missing
  /\ pc' = "allow"
  /\ UNCHANGED <<inputs, output, row, hit, where, by, kind, err, actions, bans>>

(* The rows of one pass, in order, from the one after row.                 *)
Left(S) == {j \in S : j > row}
IsNext(j, S) == j \in Left(S) /\ \A k \in Left(S) : j <= k

PassRows(act) ==
  IF act = "side" THEN {j \in DOMAIN prof.rules : ~Terminal(prof.rules[j])}
  ELSE {j \in DOMAIN prof.rules : prof.rules[j].action = act}

(* Set.Explain found whether the address is in match minus exclude: the    *)
(* inverse flips it, and a hit ends the search.                            *)
Settle(j, in, k) ==
  LET inverse == Sets[prof.rules[j].set].inverse
  IN \/ /\ in # inverse
        /\ where' = IF pc = "allow" THEN "white" ELSE "black"
        /\ by' = j /\ kind' = IF inverse THEN "inverse" ELSE k
        /\ pc' = "side" /\ row' = 0
     \/ /\ in = inverse
        /\ row' = j
        /\ UNCHANGED <<pc, where, by, kind>>

ReadMatch(j) ==
  /\ pc \in {"allow", "deny"} /\ hit = "none" /\ IsNext(j, PassRows(pc))
  /\ hit' = Locate(Sets[prof.rules[j].set].match)
  /\ \/ hit' # "none" /\ UNCHANGED <<pc, row, where, by, kind>>
     \/ hit' = "none" /\ Settle(j, FALSE, "none")
  /\ UNCHANGED <<inputs, output, err, actions, bans>>

(* Variant of ReadExclude: the exclusion is not looked at.                 *)
ReadExcludeSkips(j) ==
  /\ pc \in {"allow", "deny"} /\ hit # "none" /\ IsNext(j, PassRows(pc))
  /\ Settle(j, TRUE, hit)
  /\ hit' = "none"
  /\ UNCHANGED <<inputs, output, err, actions, bans>>

ReadExclude(j) ==
  /\ pc \in {"allow", "deny"} /\ hit # "none" /\ IsNext(j, PassRows(pc))
  /\ Settle(j, Locate(Sets[prof.rules[j].set].exclude) = "none", hit)
  /\ hit' = "none"
  /\ UNCHANGED <<inputs, output, err, actions, bans>>

(* No row of the pass is left: deny rows follow allow rows, then fallback. *)
PassEnds ==
  /\ pc \in {"allow", "deny"} /\ hit = "none" /\ Left(PassRows(pc)) = {}
  /\ row' = 0
  /\ IF pc = "allow" THEN pc' = "deny" /\ UNCHANGED where
                     ELSE pc' = "side" /\ where' = "none"
  /\ UNCHANGED <<inputs, output, hit, by, kind, err, actions, bans>>

(* Variant of RowFires: `not' is not looked at.                            *)
RowFiresPlain(rule) == Holds(rule.dataset)

RowFires(rule) == Holds(rule.dataset) # rule.not

(* Request and list rows look at one dataset each, whatever the verdict.   *)
SideRow(j) ==
  /\ pc = "side" /\ IsNext(j, PassRows("side"))
  /\ row' = j
  /\ LET rule == prof.rules[j]
         fires == RowFires(rule)
     IN /\ actions' = IF fires /\ rule.action = "request"
                      THEN Append(actions, <<"row", j>>) ELSE actions
        /\ bans' = IF fires /\ rule.action = "list"
                   THEN Append(bans, <<"row", j>>) ELSE bans
  /\ UNCHANGED <<inputs, output, pc, hit, where, by, kind, err>>

(* Variant of Matches: every row that is not about overload.               *)
MatchesAny(o) == o.on # "overload"

Matches(o) == o.on = where

(* The outcome rows for where the address ended up.                        *)
OutcomeRows ==
  /\ pc = "side" /\ Left(PassRows("side")) = {}
  /\ pc' = "overload"
  /\ LET S == {j \in DOMAIN prof.outcomes : Matches(prof.outcomes[j])}
     IN actions' = actions \o Asks(S, "outcome") /\ bans' = bans \o Writes(S, "outcome")
  /\ UNCHANGED <<inputs, output, row, hit, where, by, kind, err>>

(* inspect fires overload rows for the fill met on arrival, after Check.   *)
OverloadRows ==
  /\ pc = "overload"
  /\ pc' = "write"
  /\ actions' = actions \o OverloadAsks(FALSE)
  /\ bans' = bans \o OverloadBans(FALSE)
  /\ UNCHANGED <<inputs, output, row, hit, where, by, kind, err>>
-----------------------------------------------------------------------------
(* writeLists.  A write of the address itself needs no directory; for the  *)
(* others the directory (external) answers with values, knows nothing, or  *)
(* fails, which is remembered while the loop goes on.  What keeper is sent *)
(* may get lost; the code only logs that.                                  *)
WriteOf(ban) ==
  IF ban[1] = "row" THEN prof.rules[ban[2]].write ELSE prof.outcomes[ban[2]].write

(* Variant of WriteList: nothing is written after a failure.               *)
WriteListStops(geo) ==
  /\ pc = "write" /\ tried < Len(bans)
  /\ LET ban == bans[tried + 1]
     IN /\ WriteOf(ban) = "addr" => geo = "values"
        /\ written' = IF geo = "values" /\ ~failed THEN Append(written, ban) ELSE written
        /\ failed' = (failed \/ geo = "fails")
  /\ tried' = tried + 1
  /\ UNCHANGED <<inputs, pc, row, hit, where, by, kind, err, actions, bans, reply>>

WriteList(geo) ==
  /\ pc = "write" /\ tried < Len(bans)
  /\ LET ban == bans[tried + 1]
     IN /\ WriteOf(ban) = "addr" => geo = "values"
        /\ written' = IF geo = "values" THEN Append(written, ban) ELSE written
        /\ failed' = (failed \/ geo = "fails")
  /\ tried' = tried + 1
  /\ UNCHANGED <<inputs, pc, row, hit, where, by, kind, err, actions, bans, reply>>

Verdict ==
  CASE err # NoCode -> "error"
    [] err = NoCode /\ where = "white" -> "allow"
    [] err = NoCode /\ where = "black" -> "deny"
    [] OTHER -> prof.default

(* publicReason: what a deny tells the client.                             *)
Scope ==
  CASE Verdict # "deny" -> ""
    [] Verdict = "deny" /\ kind = "list" -> "address or network"
    [] Verdict = "deny" /\ kind \in {"asn", "country"} -> kind
    [] OTHER -> ""

Code ==
  CASE err # NoCode -> err
    [] err = NoCode /\ where = "white" -> "IP_ALLOWLIST"
    [] err = NoCode /\ Verdict = "deny" -> IF kind = "country" THEN "IP_GEO" ELSE "IP_LIST"
    [] OTHER -> "IP_OK"

(* Variant of GeoFailure: the asks are kept.                               *)
GeoFailureAsks ==
  [NoReply EXCEPT !.verdict = "error", !.code = "IP_GEO_UNAVAILABLE", !.actions = actions]

GeoFailure == [NoReply EXCEPT !.verdict = "error", !.code = "IP_GEO_UNAVAILABLE"]

(* send.  A directory that failed turns the answer of inspect into an      *)
(* error without asks; the answer to a shed request stays as it is.        *)
Send ==
  /\ pc = "write" /\ tried = Len(bans)
  /\ reply' = IF failed /\ req.shed = NoCode
              THEN GeoFailure
              ELSE [verdict |-> Verdict, code |-> Code, scope |-> Scope, actions |-> actions]
  /\ pc' = "done"
  /\ UNCHANGED <<inputs, row, hit, where, by, kind, err, actions, bans, tried, failed, written>>

Next ==
  \/ \E l \in Lives, now \in {"in", "out"} : LiveChange(l, now)
  \/ Shed \/ CheckBegins
  \/ \E code \in {"IP_UNKNOWN_PROFILE", "IP_MALFORMED", "IP_MISSING_SET"} : CheckFails(code)
  \/ \E j \in DOMAIN prof.rules : ReadMatch(j) \/ ReadExclude(j) \/ SideRow(j)
  \/ PassEnds \/ OutcomeRows \/ OverloadRows
  \/ \E geo \in {"values", "nothing", "fails"} : WriteList(geo)
  \/ Send

Spec == Init /\ [][Next]_vars
-----------------------------------------------------------------------------
(* Properties.                                                             *)

Marks(src, rows) == {<<src, j>> : j \in DOMAIN rows}

(* What a block, a set or a dataset may and must say of the address, given *)
(* what each live set said since the start, read by read.                  *)
Fixed(m) == m.static \cap world.member # {} \/ world.country \in m.countries
MayHit(m) == Fixed(m) \/ \E l \in m.live : TRUE \in seen[l]
MustHit(m) == Fixed(m) \/ \E l \in m.live : seen[l] = {TRUE}

MayBeIn(s) ==
  IF Sets[s].inverse THEN ~(MustHit(Sets[s].match) /\ ~MayHit(Sets[s].exclude))
                     ELSE MayHit(Sets[s].match) /\ ~MustHit(Sets[s].exclude)
MustBeIn(s) ==
  IF Sets[s].inverse THEN ~(MayHit(Sets[s].match) /\ ~MustHit(Sets[s].exclude))
                     ELSE MustHit(Sets[s].match) /\ ~MayHit(Sets[s].exclude)

Before(act, j) == {k \in PassRows(act) : k < j}
NoneMust(S) == \A k \in S : ~MustBeIn(prof.rules[k].set)

(* The verdict is the documented one: exceptions first, wherever they      *)
(* stand, then the first deny row, then the default, where a set is its    *)
(* blocks minus its exclusion, then inverted.  Live sets that change while *)
(* Check reads them block by block can only decide what really depended on *)
(* them: an exception that holds throughout always wins, and a row that    *)
(* never could match never decides (Check, Set.Explain, Match.locate).     *)
VerdictExplained ==
  /\ where = "white" => MayBeIn(prof.rules[by].set) /\ NoneMust(Before("allow", by))
  /\ where = "black" => /\ MayBeIn(prof.rules[by].set)
                        /\ NoneMust(PassRows("allow") \cup Before("deny", by))
  /\ where = "none" => NoneMust(PassRows("allow") \cup PassRows("deny"))

Collected == {actions[n] : n \in DOMAIN actions} \cup {bans[n] : n \in DOMAIN bans}

Said(d) == IF d \in Lives THEN seen[d] ELSE {b \in BOOLEAN : b <=> d \in world.member}

(* Request and list rows fire on their dataset alone, with either verdict: *)
(* a row whose dataset said the same throughout fired exactly when it      *)
(* should, none fired twice, and an inspection that failed fired none      *)
(* (the second loop of Check).                                             *)
SideRowsFire ==
  /\ \A m, n \in DOMAIN actions : actions[m] = actions[n] => m = n
  /\ \A m, n \in DOMAIN bans : bans[m] = bans[n] => m = n
  /\ \A m \in DOMAIN actions, n \in DOMAIN bans : actions[m] # bans[n]
  /\ where = "error" => Collected \cap Marks("row", prof.rules) = {}
  /\ where # "error" /\ pc \notin {"allow", "deny", "side"} =>
       \A j \in PassRows("side") :
         LET d == prof.rules[j].dataset IN
         /\ <<"row", j>> \in Collected => (~prof.rules[j].not) \in Said(d)
         /\ <<"row", j>> \notin Collected => prof.rules[j].not \in Said(d)

(* When an overload row is documented to fire: on a request the full queue *)
(* dropped every row, on one that was evaluated the rows with a mark the   *)
(* fill had reached, on a passed deadline none.                            *)
OverloadMeant(o) ==
  /\ o.on = "overload" /\ req.known /\ (o.do = "list" => req.valid)
  /\ \/ req.shed = "IP_QUEUE_LIMIT"
     \/ req.shed = NoCode /\ o.at # NoMark /\ req.fill >= o.at

(* A row marked 100 on a request that waited for room in a full queue and  *)
(* was evaluated in the end.                                               *)
WaitedAtFull(o) == req.shed = NoCode /\ o.at = AtMax /\ req.fill = AtMax

(* Outcome rows fire for where the address ended up and for nothing else;  *)
(* overload rows fire when they are documented to, whatever the verdict or *)
(* the error.  One case is left out, where code and README differ: a row   *)
(* marked 100 on a request that waited at a full queue should fire and     *)
(* does not, as Fires asks for a mark below 100 (the last loop of Check,   *)
(* FireOverload, overloadOnShed, overload.At and Fires).                   *)
OutcomesAgree ==
  pc = "done" =>
    \A j \in DOMAIN prof.outcomes :
      LET o == prof.outcomes[j] IN
      /\ <<"outcome", j>> \in Collected <=> o.on = where
      /\ ~WaitedAtFull(o) => (<<"overload", j>> \in Collected <=> OverloadMeant(o))

(* A directory that fails, or knows nothing, costs of the writes only      *)
(* those that needed it: every write of the address itself goes out, and   *)
(* in order, although the answer to the request becomes an error           *)
(* (writeLists, Send).                                                     *)
AddressWritesSurvive ==
  pc = "done" =>
    /\ \A n \in DOMAIN bans : WriteOf(bans[n]) = "addr" =>
         \E m \in DOMAIN written : written[m] = bans[n]
    /\ \A m, n \in DOMAIN written : m < n =>
         \E i, k \in DOMAIN bans : i < k /\ bans[i] = written[m] /\ bans[k] = written[n]

(* An error answer asks nothing of the neighbours on behalf of rules that  *)
(* were not evaluated or whose writes failed: it carries overload asks at  *)
(* most.  IP_GEO_UNAVAILABLE is said only when a write that needs the      *)
(* directory was given up, and never to a shed request (inspect, Send).    *)
ErrorsAskNothing ==
  /\ reply.verdict = "error" =>
       \A n \in DOMAIN reply.actions : reply.actions[n][1] = "overload"
  /\ reply.code = "IP_GEO_UNAVAILABLE" =>
       /\ req.shed = NoCode
       /\ \E n \in DOMAIN bans : /\ WriteOf(bans[n]) # "addr"
                                /\ \A m \in DOMAIN written : written[m] # bans[n]
-----------------------------------------------------------------------------
(* What the README says and the code does not do.                          *)

(* The verdict by the documented rules if W were the live sets that hold   *)
(* the address.                                                            *)
HitIn(m, W) == Fixed(m) \/ m.live \cap W # {}
InSet(s, W) ==
  (HitIn(Sets[s].match, W) /\ ~HitIn(Sets[s].exclude, W)) # Sets[s].inverse
DocumentedVerdict(W) ==
  CASE \E j \in PassRows("allow") : InSet(prof.rules[j].set, W) -> "allow"
    [] /\ \A j \in PassRows("allow") : ~InSet(prof.rules[j].set, W)
       /\ \E j \in PassRows("deny") : InSet(prof.rules[j].set, W) -> "deny"
    [] OTHER -> prof.default

(* A live set that is still loading cannot close a route: a deny given     *)
(* while sets were loading, and no set changed its mind meanwhile, would   *)
(* be a deny whatever those sets hold.  It fails where a live set stands   *)
(* in an allow row, an exclusion or an inverse (Set.Explain, LiveContains  *)
(* while not ready).                                                       *)
LoadingCannotClose ==
  reply.verdict = "deny" /\ (\A l \in Lives : Cardinality(seen[l]) = 1) =>
    \A W \in SUBSET {l \in Lives : live[l] = "loading"} :
      DocumentedVerdict(W \cup {l \in Lives : LiveContains(l)}) = "deny"
=============================================================================
