----------------------------- MODULE PolicyRow -----------------------------
(***************************************************************************)
(* The rows of a profile: what internal/policy accepts of a rule           *)
(* (normalizeRule) and of an outcome (normalizeOutcome), what it makes of  *)
(* them, and the action internal/decide sends for them (action,            *)
(* outcomeAction).  The code for a rule and the code for an outcome are    *)
(* separate functions over the same fields; here too each is translated    *)
(* by itself.                                                              *)
(*                                                                         *)
(* Error texts and the order of the checks are left out.  A name is "ok",  *)
(* or "bad" for one that counterNameOK, checkCode or CheckMarker refuses;  *)
(* " " is a text of blanks; an object spec is "ok" or "bad".               *)
(***************************************************************************)
EXTENDS Integers, Sequences

CONSTANT Nil   \* a field that is not there

(* strings.TrimSpace and strings.ToLower on the texts used here.           *)
Trim(s) == IF s = " " THEN "" ELSE s
Capitals == [A |-> "a", S |-> "s", V |-> "v", NOTE |-> "note", ON |-> "on",
             Allow |-> "allow", Request |-> "request", White |-> "white", Net |-> "net"]
ToLower(s) == IF s \in DOMAIN Capitals THEN Capitals[s] ELSE s
Lower(s) == ToLower(Trim(s))

verbs ==
  [challenge |-> <<"request">>, threshold |-> <<"request">>, skip |-> <<"request">>,
   mutate |-> <<"request">>, reauth |-> <<"session">>,
   note |-> <<"request", "ip", "asn", "session">>,
   active |-> <<"request", "conn">>, passive |-> <<"request", "conn">>,
   off |-> <<"request", "conn">>, vote |-> <<"request", "conn">>,
   audit |-> <<"request", "response">>, archive |-> <<"request", "response">>,
   mark |-> <<"request">>, score |-> <<"request">>]

Terminal(a) == a \in {"allow", "deny"}
controlVerb(do) == do \in {"active", "passive", "off", "vote"}
auditVerb(do) == do \in {"audit", "archive"}
recordVerb(do) == auditVerb(do) \/ do \in {"mark", "score"}

NameOK(s) == s \notin {"", "bad"}
CodeOK(s) == s # "bad"

(* parseTTL, in seconds, and parseWrite.                                   *)
ttlTexts == [s \in {"", " ", "0s", "30", "5m", "1h"} |->
               CASE s = "30" -> 30 [] s = "5m" -> 300 [] s = "1h" -> 3600 [] OTHER -> 0]
ttlOK(s) == s \in DOMAIN ttlTexts
writeOK(s) == Lower(s) \in {"", "addr", "net", "net_all", "asn"}
parseWrite(s) == IF Lower(s) = "" THEN "addr" ELSE Lower(s)

checkPhaseAsk(do, phase, apply) ==
  phase # "" => /\ controlVerb(do)
                /\ phase \in {"request", "response", "frame"}
                /\ apply = "conn" => phase = "frame"

(* Variant of checkMutateAsk: a group for any verb.                        *)
checkMutateAskAny(do, group, side) ==
  do = "mutate" => NameOK(group) /\ side \in {"on", "off"}

checkMutateAsk(do, group, side) ==
  IF do = "mutate" THEN NameOK(group) /\ side \in {"on", "off"} ELSE group = ""

checkMarkAsk(do, to, marker) ==
  IF do = "mark" THEN to \in {"", "*"} /\ NameOK(marker) ELSE marker = ""

(* CheckArchiveWhen: known words, none twice; what it returns is in the    *)
(* order of ArchiveWhen.                                                   *)
whenOK(words) ==
  /\ \A i \in DOMAIN words : Lower(words[i]) \in {"allow", "deny"}
  /\ \A i, j \in DOMAIN words : Lower(words[i]) = Lower(words[j]) => i = j
ArchiveWhen(words) ==
  LET named(w) == \E i \in DOMAIN words : Lower(words[i]) = w IN SelectSeq(<<"allow", "deny">>, named)

checkAuditAsk(do, to, apply, set, ttl, objects, when) ==
  LET any == \E o \in DOMAIN objects : objects[o] # Nil IN
  IF ~auditVerb(do)
  THEN when = <<>> /\ ~any /\ (set # "" => do = "mutate")
  ELSE /\ to \in {"", "*"}
       /\ set \in {"on", "off"}
       /\ set = "off" => ttl = 0 /\ when = <<>> /\ ~any
       /\ do = "audit" => ttl = 0 /\ when = <<>>
       /\ whenOK(when)
       /\ apply = "response" => objects.args = Nil
       /\ \A o \in DOMAIN objects : objects[o] # "bad"

recordObjects(src) == [headers |-> src.headers, args |-> src.args, body |-> src.body]
-----------------------------------------------------------------------------
(* Variant of ruleApply: the axis in the case it was written in.           *)
ruleApplyRaw(src) == IF Trim(src.apply) = "" THEN verbs[Lower(src.do)][1] ELSE src.apply

(* normalizeRule.  A row without an axis takes the first one of its verb.  *)
ruleApply(src) == IF Lower(src.apply) = "" THEN verbs[Lower(src.do)][1] ELSE Lower(src.apply)
ruleTTL(src) == ttlTexts[src.ttl]

requestOK(src) ==
  LET do == Lower(src.do)
      axes == verbs[do]
      to == Trim(src.to)
      apply == ruleApply(src)
  IN /\ do \in DOMAIN verbs
     /\ Lower(src.apply) = "" => Len(axes) = 1 \/ recordVerb(do)
     /\ \E i \in DOMAIN axes : axes[i] = apply
     /\ CodeOK(src.code)
     /\ src.delta # Nil => src.delta \in -100 .. 900
     /\ src.value # Nil => src.value \in -100 .. 100
     /\ do = "threshold" => src.delta # Nil
     /\ controlVerb(do) => to \notin {"", "*"}
     /\ do = "score" => to \in {"", "*"} /\ src.value \notin {Nil, 0}
     /\ Trim(src.counter) # "" => do = "note" /\ NameOK(Trim(src.counter))
     /\ src.ttl # "" => do = "archive" /\ ttlOK(src.ttl)
     /\ checkMutateAsk(do, Trim(src.group), Lower(src.side))
     /\ checkPhaseAsk(do, Trim(src.phase), apply)
     /\ checkMarkAsk(do, to, Trim(src.marker))
     /\ checkAuditAsk(do, to, apply, Lower(src.side), ruleTTL(src), recordObjects(src), src.when)

listOK(src) == Trim(src.list) # "" /\ ttlOK(src.ttl) /\ writeOK(src.write)

ruleOK(src) ==
  LET action == Lower(src.action) IN
  /\ action \in {"allow", "deny", "request", "list"}
  /\ IF Terminal(action)
     THEN Lower(src.set) # "" /\ Lower(src.dataset) = "" /\ ~src.not
     ELSE Lower(src.set) = "" /\ Lower(src.dataset) # ""
  /\ action = "request" => requestOK(src)
  /\ action = "list" => listOK(src)
  /\ action # "list" => Trim(src.write) = ""

(* The references of a rule as it is kept.                                 *)
normalizeRule(src) ==
  LET action == Lower(src.action) IN
  [action |-> action, set |-> Lower(src.set), dataset |-> Lower(src.dataset),
   list |-> IF action = "list" THEN Trim(src.list) ELSE ""]
-----------------------------------------------------------------------------
(* normalizeOutcome.                                                       *)
onOK(src) ==
  IF Lower(src.on) = "overload"
  THEN src.at # Nil => src.at \in 25 .. 100
  ELSE Lower(src.on) \in {"white", "black", "none"} /\ src.at = Nil

outcomeApply(src) == IF Lower(src.apply) = "" THEN verbs[Lower(src.do)][1] ELSE Lower(src.apply)
outcomeTTL(src) == IF src.ttl = "" THEN 0 ELSE ttlTexts[src.ttl]

outcomeListOK(src) ==
  /\ src.apply = "" /\ src.delta = Nil /\ src.value = Nil /\ src.counter = ""
  /\ ttlOK(src.ttl) /\ writeOK(src.write)

outcomeDoOK(src) ==
  LET do == Lower(src.do)
      axes == verbs[do]
      to == Trim(src.to)
      apply == outcomeApply(src)
  IN /\ Trim(src.write) = ""
     /\ src.ttl # "" => do = "archive"
     /\ do \in DOMAIN verbs
     /\ Lower(src.apply) = "" => Len(axes) = 1 \/ recordVerb(do)
     /\ \E i \in DOMAIN axes : axes[i] = apply
     /\ src.delta # Nil => src.delta \in -100 .. 900
     /\ src.value # Nil => src.value \in -100 .. 100
     /\ do = "threshold" => src.delta # Nil
     /\ controlVerb(do) => to \notin {"", "*"}
     /\ do = "score" => to \in {"", "*"} /\ src.value \notin {Nil, 0}
     /\ Trim(src.counter) # "" => do = "note" /\ NameOK(Trim(src.counter))
     /\ src.ttl # "" => ttlOK(src.ttl)
     /\ checkMutateAsk(do, Trim(src.group), Lower(src.side))
     /\ checkPhaseAsk(do, Trim(src.phase), apply)
     /\ checkMarkAsk(do, to, Trim(src.marker))
     /\ checkAuditAsk(do, to, apply, Lower(src.side), outcomeTTL(src), recordObjects(src), src.when)

outcomeOK(src) ==
  /\ onOK(src)
  /\ (Lower(src.do) = "") # (Trim(src.list) = "")
  /\ CodeOK(src.code)
  /\ IF Trim(src.list) # "" THEN outcomeListOK(src) ELSE outcomeDoOK(src)

normalizeOutcome(src) == [list |-> Trim(src.list)]
-----------------------------------------------------------------------------
(* decide.action and decide.outcomeAction, separate code too: the action   *)
(* that goes on the wire for a row.                                        *)
action(src) ==
  LET kept == Lower(src.do) = "archive" /\ Lower(src.side) = "on"
      ttl == ruleTTL(src)
  IN [to |-> Trim(src.to), do |-> Lower(src.do), apply |-> ruleApply(src),
      phase |-> Trim(src.phase), code |-> src.code, delta |-> src.delta, value |-> src.value,
      counter |-> Trim(src.counter), marker |-> Trim(src.marker), group |-> Trim(src.group),
      set |-> Lower(src.side), objects |-> recordObjects(src),
      ttl |-> IF kept /\ ttl > 0 THEN ttl ELSE Nil,
      when |-> IF kept THEN ArchiveWhen(src.when) ELSE <<>>]

outcomeAction(src) ==
  LET kept == Lower(src.do) = "archive" /\ Lower(src.side) = "on"
      ttl == outcomeTTL(src)
  IN [to |-> Trim(src.to), do |-> Lower(src.do), apply |-> outcomeApply(src),
      phase |-> Trim(src.phase), code |-> src.code, delta |-> src.delta, value |-> src.value,
      counter |-> Trim(src.counter), marker |-> Trim(src.marker), group |-> Trim(src.group),
      set |-> Lower(src.side), objects |-> recordObjects(src),
      ttl |-> IF kept /\ ttl > 0 THEN ttl ELSE Nil,
      when |-> IF kept THEN ArchiveWhen(src.when) ELSE <<>>]
=============================================================================
