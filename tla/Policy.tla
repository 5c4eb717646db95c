------------------------------ MODULE Policy ------------------------------
(***************************************************************************)
(* A policy tree, from the document somebody wrote to the snapshot that    *)
(* answers requests: what the pack of a generation keeps of it and checks  *)
(* (internal/desired/pack.go), how a tree is written and read back, and    *)
(* how internal/store compiles it.  The author edits the document one      *)
(* field at a time, up to MaxEdits away from a sound one.                  *)
(*                                                                         *)
(* A document holds the names of the static lists, live sets, systems and  *)
(* countries that come with it, the sets, and one profile with one rule    *)
(* and one outcome.  The two share the fields of `ask'.  Bodies of lists   *)
(* are in module Netset, when a tree is read and swapped in Rollout.       *)
(***************************************************************************)
EXTENDS PolicyRow

CONSTANTS
  Bases,         \* the documents the author starts from
  AskValues,     \* field of the ask |-> values an edit may give it
  RowValues,     \* field of the rule alone |-> values
  EndValues,     \* field of the outcome alone |-> values
  MatchValues,   \* field of a match |-> values
  GroupValues,   \* lists, live, asns or countries |-> values
  SetNames,      \* names an edit may give a set
  MaxEdits       \* bound on the edits

Elements(s) == {s[i] : i \in DOMAIN s}

(* The fields of a document, and the AS numbers that have names.           *)
Shaped(d) ==
  /\ DOMAIN d = {"origin", "lists", "live", "asns", "countries", "sets", "row", "end", "ask"}
  /\ DOMAIN d.row = {"set", "dataset", "not", "action"} /\ DOMAIN d.end = {"on", "at"}
  /\ DOMAIN d.ask = {"do", "to", "apply", "phase", "delta", "value", "counter", "marker", "group",
                     "side", "headers", "args", "body", "when", "ttl", "write", "list", "code"}
  /\ \A n \in DOMAIN d.sets :
       /\ DOMAIN d.sets[n] = {"main", "exclude"}
       /\ \A part \in {"main", "exclude"} :
            /\ DOMAIN d.sets[n][part] = {"lists", "live", "countries", "asns"}
            /\ Elements(d.sets[n][part].asns) \subseteq {1, 2}

ASSUME ShapeAssumption ==
  /\ \A d \in Bases : Shaped(d)
  /\ DOMAIN GroupValues \subseteq {"lists", "live", "asns", "countries"}
  /\ \A v \in MatchValues["asns"] : Elements(v) \subseteq {1, 2}

VARIABLES doc, edits

vars == <<doc, edits>>

Init == doc \in Bases /\ edits = 0

Edit(d) ==
  /\ edits < MaxEdits /\ edits' = edits + 1
  /\ doc' = d

EditAsk == \E f \in DOMAIN AskValues : \E v \in AskValues[f] : Edit([doc EXCEPT !.ask[f] = v])
EditRow == \E f \in DOMAIN RowValues : \E v \in RowValues[f] : Edit([doc EXCEPT !.row[f] = v])
EditEnd == \E f \in DOMAIN EndValues : \E v \in EndValues[f] : Edit([doc EXCEPT !.end[f] = v])
EditGroup == \E g \in DOMAIN GroupValues : \E v \in GroupValues[g] : Edit([doc EXCEPT ![g] = v])

EditMatch ==
  \E n \in DOMAIN doc.sets, part \in {"main", "exclude"}, f \in DOMAIN MatchValues :
    \E v \in MatchValues[f] : Edit([doc EXCEPT !.sets[n][part][f] = v])

(* A set is added under another name.                                      *)
EditSets ==
  \E n \in SetNames \ DOMAIN doc.sets, m \in DOMAIN doc.sets :
    Edit([doc EXCEPT !.sets = [k \in DOMAIN doc.sets \cup {n} |-> doc.sets[IF k = n THEN m ELSE k]]])

Next == EditAsk \/ EditRow \/ EditEnd \/ EditGroup \/ EditMatch \/ EditSets

Spec == Init /\ [][Next]_vars
-----------------------------------------------------------------------------
(* internal/desired.                                                       *)

(* A tree of files.  A row of a pack has no phase and no group: they are   *)
(* gone when the pack is decoded.                                          *)
Tree == IF doc.origin = "pack" THEN [doc EXCEPT !.ask.phase = "", !.ask.group = ""] ELSE doc

(* A row is its own fields and those of the ask.                           *)
Both(f, g) == [x \in DOMAIN f \cup DOMAIN g |-> IF x \in DOMAIN f THEN f[x] ELSE g[x]]
Rule(t) == Both(t.row, t.ask)
Outcome(t) == Both(t.end, t.ask)

(* fmt.Sprintf("%d", asn).                                                 *)
AsnName == <<"1", "2">>
AsnNames(m) == {AsnName[n] : n \in Elements(m.asns)}

(* Variant of Matches: the exclusion is not looked at.                     *)
MatchesMain(t) == {t.sets[n].main : n \in DOMAIN t.sets}

Matches(t) == {t.sets[n][part] : n \in DOMAIN t.sets, part \in {"main", "exclude"}}

(* Pack.check: references as they are spelled.                             *)
check(t) ==
  /\ \A m \in Matches(t) :
       /\ Elements(m.lists) \subseteq t.lists /\ Elements(m.live) \subseteq t.live
       /\ Elements(m.countries) \subseteq t.countries /\ AsnNames(m) \subseteq t.asns
  /\ IF Terminal(t.row.action)
     THEN t.row.set \in DOMAIN t.sets
     ELSE t.row.dataset \in t.lists \cup t.live
  /\ t.row.action = "list" => t.ask.list \in t.live
  /\ t.ask.list # "" => t.ask.list \in t.live
-----------------------------------------------------------------------------
(* policy.ParseSets.                                                       *)
normalizeNames(s) == [i \in DOMAIN s |-> Lower(s[i])]
namesOK(s) == \A i, j \in DOMAIN s : Lower(s[i]) # "" /\ (Lower(s[i]) = Lower(s[j]) => i = j)

normalizeMatch(m) ==
  [lists |-> normalizeNames(m.lists), live |-> normalizeNames(m.live),
   countries |-> normalizeNames(m.countries), asns |-> m.asns]
matchOK(m) ==
  /\ namesOK(m.lists) /\ namesOK(m.live) /\ namesOK(m.countries)
  /\ \A i, j \in DOMAIN m.asns : m.asns[i] = m.asns[j] => i = j
empty(m) == m.lists = <<>> /\ m.live = <<>> /\ m.countries = <<>> /\ m.asns = <<>>

setsOK(t) ==
  /\ \A n \in DOMAIN t.sets :
       /\ Lower(n) # "" /\ \A m \in DOMAIN t.sets : Lower(n) = Lower(m) => n = m
       /\ matchOK(t.sets[n].main) /\ matchOK(t.sets[n].exclude)
       /\ ~empty(t.sets[n].main)

ParseSets(t) ==
  [k \in {Lower(n) : n \in DOMAIN t.sets} |->
     LET n == CHOOSE x \in DOMAIN t.sets : Lower(x) = k
     IN [main |-> normalizeMatch(t.sets[n].main),
         exclude |-> normalizeMatch(t.sets[n].exclude)]]
-----------------------------------------------------------------------------
(* Store.build: the names of the files, of live.yaml and what refers to    *)
(* them.                                                                   *)
indexFiles(names) == {ToLower(n) : n \in names}
loadLive(t) == {Lower(n) : n \in t.live}

compileMatchOK(m, t) ==
  /\ Elements(m.lists) \subseteq indexFiles(t.lists)
  /\ AsnNames(m) \subseteq indexFiles(t.asns)
  /\ Elements(m.live) \subseteq loadLive(t)

compileSetsOK(t) ==
  \A k \in DOMAIN ParseSets(t) :
    compileMatchOK(ParseSets(t)[k].main, t) /\ compileMatchOK(ParseSets(t)[k].exclude, t)

compileListsOK(t) == indexFiles(t.lists) \cap loadLive(t) = {}
compileLists(t) == indexFiles(t.lists) \cup loadLive(t)

loadProfilesOK(t) ==
  LET rule == normalizeRule(Rule(t))
      outcome == normalizeOutcome(Outcome(t))
  IN /\ IF Terminal(rule.action)
        THEN rule.set \in DOMAIN ParseSets(t)
        ELSE rule.dataset \in compileLists(t)
     /\ rule.action = "list" => rule.list \in loadLive(t)
     /\ outcome.list # "" => outcome.list \in loadLive(t)

RowsParse(t) == ruleOK(Rule(t)) /\ outcomeOK(Outcome(t))

(* build succeeds.                                                         *)
Loads(t) ==
  /\ setsOK(t) /\ compileSetsOK(t) /\ compileListsOK(t)
  /\ RowsParse(t) /\ loadProfilesOK(t)

(* Variant of usedLive: the exclusions are forgotten.                      *)
usedLiveMain(t) ==
  ( (UNION {Elements(ParseSets(t)[k].main.live) : k \in DOMAIN ParseSets(t)})
    \cup {normalizeRule(Rule(t)).dataset, normalizeRule(Rule(t)).list,
          normalizeOutcome(Outcome(t)).list} ) \cap loadLive(t)

(* The live sets the snapshot asks dyn.Store to attach.                    *)
usedLive(t) ==
  ( (UNION {Elements(ParseSets(t)[k].main.live) \cup Elements(ParseSets(t)[k].exclude.live) :
              k \in DOMAIN ParseSets(t)})
    \cup {normalizeRule(Rule(t)).dataset, normalizeRule(Rule(t)).list,
          normalizeOutcome(Outcome(t)).list} ) \cap loadLive(t)

(* decide.missing: what the profile's rule asks for is not in the          *)
(* snapshot.  A set that names countries needs the geo tables.             *)
UsesCountries(set) == set.main.countries # <<>> \/ set.exclude.countries # <<>>
missing(t, geo) ==
  LET rule == normalizeRule(Rule(t))
      sets == ParseSets(t)
  IN \/ /\ rule.set # ""
        /\ rule.set \notin DOMAIN sets \/ (~geo /\ UsesCountries(sets[rule.set]))
     \/ rule.dataset # "" /\ rule.dataset \notin compileLists(t)
-----------------------------------------------------------------------------
(* Properties.                                                             *)

Asked == Both([set |-> "", dataset |-> "a", not |-> FALSE, action |-> "request"], doc.ask)
Written == Both([set |-> "", dataset |-> "a", not |-> FALSE, action |-> "list"], doc.ask)
Ended == Both([on |-> "white", at |-> Nil], doc.ask)

(* "Outcome rows take the same actions" (README): whatever the fields, a   *)
(* request row and an outcome with a verb are both accepted or both        *)
(* refused and send the same action, although two functions validate them; *)
(* and an outcome that writes a live set is one a list row may make        *)
(* (normalizeRule, normalizeOutcome, action, outcomeAction).               *)
RuleAndOutcomeAgree ==
  /\ Trim(doc.ask.list) = "" /\ Lower(doc.ask.do) # "" =>
       /\ ruleOK(Asked) <=> outcomeOK(Ended)
       /\ ruleOK(Asked) => action(Asked) = outcomeAction(Ended)
  /\ Trim(doc.ask.list) # "" => (outcomeOK(Ended) => ruleOK(Written))

(* What an ask may carry besides delta, value and code, and what it must.  *)
Carries ==
  [mutate |-> {"group", "set"}, note |-> {"counter"},
   active |-> {"phase"}, passive |-> {"phase"}, off |-> {"phase"}, vote |-> {"phase"},
   audit |-> {"set", "objects"}, archive |-> {"set", "objects", "ttl", "when"},
   mark |-> {"marker"}]
Needs ==
  [threshold |-> {"delta"}, mutate |-> {"group", "set"}, audit |-> {"set"},
   archive |-> {"set"}, mark |-> {"marker"}, score |-> {"value"}]
Of(table, do) == IF do \in DOMAIN table THEN table[do] ELSE {}

NoObjects == [headers |-> Nil, args |-> Nil, body |-> Nil]
Carried(a) ==
  {f \in {"group", "set", "counter", "phase", "marker"} : a[f] # ""}
    \cup {f \in {"ttl", "delta", "value"} : a[f] # Nil}
    \cup (IF a.objects # NoObjects THEN {"objects"} ELSE {})
    \cup (IF a.when # <<>> THEN {"when"} ELSE {})

(* Every action a profile can send is one the module that executes it      *)
(* understands: the axis is one of the verb's, it carries what the verb    *)
(* needs and nothing that belongs to another verb, it names one neighbour  *)
(* where it switches one and none where the module itself acts, a record   *)
(* that is switched off carries no settings, and numbers are in range      *)
(* (normalizeRule, checkPhaseAsk, checkMutateAsk, checkMarkAsk,            *)
(* checkAuditAsk, action).                                                 *)
ActionsWellFormed ==
  ruleOK(Asked) =>
    LET a == action(Asked) IN
    /\ a.do \in DOMAIN verbs /\ a.apply \in Elements(verbs[a.do])
    /\ Carried(a) \ {"delta", "value"} \subseteq Of(Carries, a.do)
    /\ Of(Needs, a.do) \subseteq Carried(a)
    /\ controlVerb(a.do) => a.to \notin {"", "*"}
    /\ recordVerb(a.do) => a.to \in {"", "*"}
    /\ a.set = "off" /\ auditVerb(a.do) => Carried(a) \cap {"objects", "ttl", "when"} = {}
    /\ a.set \in {"", "on", "off"}
    /\ a.apply = "conn" /\ a.phase # "" => a.phase = "frame"
    /\ a.apply = "response" => a.objects.args = Nil
    /\ a.do = "score" => a.value # 0
    /\ a.delta # Nil => a.delta \in -100 .. 900
    /\ a.value # Nil => a.value \in -100 .. 100

(* A tree that loads has what its document asks for, in whatever case and  *)
(* with whatever blanks it was spelled there.  Every list and every system *)
(* that a set or its exclusion names has a file with its table; every live *)
(* set that one of them, the rule's dataset, a list row or an outcome      *)
(* names is attached; and missing finds nothing to answer IP_MISSING_SET   *)
(* for, except a country: build does not ask for the geo tables, and       *)
(* without them a set that names one is missing (Store.build, compileSets, *)
(* loadProfiles, usedLive, decide.missing).                                *)
SnapshotResolves ==
  LET t == Tree
      rule == normalizeRule(Rule(t))
  IN Loads(t) =>
    /\ \A n \in DOMAIN t.sets, part \in {"main", "exclude"} :
         LET m == t.sets[n][part] IN
         /\ \A i \in DOMAIN m.lists : \E file \in t.lists : ToLower(file) = Lower(m.lists[i])
         /\ \A i \in DOMAIN m.asns : \E file \in t.asns : ToLower(file) = AsnName[m.asns[i]]
         /\ \A i \in DOMAIN m.live : Lower(m.live[i]) \in usedLive(t)
    /\ ~Terminal(rule.action) =>
         (\E file \in t.lists : ToLower(file) = rule.dataset) \/ rule.dataset \in usedLive(t)
    /\ {rule.list, normalizeOutcome(Outcome(t)).list} \ {""} \subseteq usedLive(t)
    /\ ~missing(t, TRUE)

(* Names in the case and without the blanks a controller's uuids come in,  *)
(* no name twice, nothing both a body and a live set.                      *)
Plain(t) ==
  LET names == t.lists \cup t.live \cup t.countries \cup DOMAIN t.sets
                 \cup {t.row.action, t.row.set, t.row.dataset, t.ask.list}
  IN /\ \A n \in names : Lower(n) = n
     /\ "" \notin t.lists \cup t.live \cup DOMAIN t.sets
     /\ \A m \in Matches(t) : matchOK(m) /\ m = normalizeMatch(m)
     /\ \A n \in DOMAIN t.sets : ~empty(t.sets[n].main)
     /\ t.lists \cap t.live = {}

(* Two packages check the references of a generation, one before it is     *)
(* fetched and one when it is loaded.  For plain names they agree: what    *)
(* check lets through loads, if its rows parse, so a generation is not     *)
(* applied only to be thrown away for a reference; and what it refuses     *)
(* would not load, unless for a country (Pack.check, Store.build).         *)
CheckAgreesWithLoad ==
  LET t == Tree IN
  Plain(t) /\ RowsParse(t) =>
    (check(t) <=> /\ Loads(t)
                  /\ \A m \in Matches(t) : Elements(m.countries) \subseteq t.countries)
=============================================================================
