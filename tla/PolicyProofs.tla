---------------------------- MODULE PolicyProofs ----------------------------
(***************************************************************************)
(* Theorems about Policy, for any documents and any edits of them: what a  *)
(* request row and an outcome are made of, what a tree that loads has, and *)
(* that the two checks of references agree.                                *)
(***************************************************************************)
EXTENDS Policy, TLAPS

(* A field of a row, its own or one of the ask.                            *)
LEMMA BothIs ==
  ASSUME NEW f, NEW g
  PROVE /\ \A x \in DOMAIN f : Both(f, g)[x] = f[x]
        /\ \A x \in DOMAIN g : x \notin DOMAIN f => Both(f, g)[x] = g[x]
  BY Zenon DEF Both

(* An edit gives a document other values, never other fields.              *)
DocShaped == Shaped(doc)

(* An edit of the document leaves every field of it what the loader        *)
(* expects there.                                                          *)
LEMMA EditKeepsShape == DocShaped /\ [Next]_vars => DocShaped'
  <1> SUFFICES ASSUME Shaped(doc), [Next]_vars PROVE Shaped(doc')
    BY Zenon DEF DocShaped
  <1> DEFINE Fields == {"origin", "lists", "live", "asns", "countries", "sets", "row", "end", "ask"}
  <1>0. DOMAIN doc = Fields
    BY DEF Shaped
  <1>1. CASE EditAsk
    <2>1. PICK f, v : doc' = [doc EXCEPT !.ask[f] = v]
      BY <1>1, Zenon DEF EditAsk, Edit
    <2>2. /\ DOMAIN doc' = Fields /\ DOMAIN doc'.ask = DOMAIN doc.ask
          /\ doc'.row = doc.row /\ doc'.end = doc.end /\ doc'.sets = doc.sets
      BY ONLY <1>0, <2>1
    <2> QED BY ONLY <2>2, Shaped(doc) DEF Shaped
  <1>2. CASE EditRow
    <2>1. PICK f, v : doc' = [doc EXCEPT !.row[f] = v]
      BY <1>2, Zenon DEF EditRow, Edit
    <2>2. /\ DOMAIN doc' = Fields /\ DOMAIN doc'.row = DOMAIN doc.row
          /\ doc'.ask = doc.ask /\ doc'.end = doc.end /\ doc'.sets = doc.sets
      BY ONLY <1>0, <2>1
    <2> QED BY ONLY <2>2, Shaped(doc) DEF Shaped
  <1>3. CASE EditEnd
    <2>1. PICK f, v : doc' = [doc EXCEPT !.end[f] = v]
      BY <1>3, Zenon DEF EditEnd, Edit
    <2>2. /\ DOMAIN doc' = Fields /\ DOMAIN doc'.end = DOMAIN doc.end
          /\ doc'.row = doc.row /\ doc'.ask = doc.ask /\ doc'.sets = doc.sets
      BY ONLY <1>0, <2>1
    <2> QED BY ONLY <2>2, Shaped(doc) DEF Shaped
  <1>4. CASE EditGroup
    <2>1. PICK g \in {"lists", "live", "asns", "countries"} : \E v : doc' = [doc EXCEPT ![g] = v]
      BY <1>4, ShapeAssumption, Zenon DEF EditGroup, Edit
    <2>2. /\ DOMAIN doc' = Fields /\ doc'.row = doc.row /\ doc'.end = doc.end
          /\ doc'.ask = doc.ask /\ doc'.sets = doc.sets
      BY ONLY <1>0, <2>1
    <2> QED BY ONLY <2>2, Shaped(doc) DEF Shaped
  <1>5. CASE EditMatch
    <2>a. PICK n \in DOMAIN doc.sets, part \in {"main", "exclude"}, f \in DOMAIN MatchValues :
            \E v \in MatchValues[f] : Edit([doc EXCEPT !.sets[n][part][f] = v])
      BY ONLY <1>5, Zenon DEF EditMatch
    <2>b. PICK v \in MatchValues[f] : Edit([doc EXCEPT !.sets[n][part][f] = v])
      BY ONLY <2>a, Zenon
    <2>c. f = "asns" => Elements(v) \subseteq {1, 2}
      BY ONLY <2>b, ShapeAssumption, Zenon
    <2>1. /\ n \in DOMAIN doc.sets /\ part \in {"main", "exclude"}
          /\ doc' = [doc EXCEPT !.sets[n][part][f] = v]
          /\ f = "asns" => Elements(v) \subseteq {1, 2}
      BY ONLY <2>a, <2>b, <2>c, Zenon DEF Edit
    <2> DEFINE s == doc.sets
               m == s[n][part]
               M == [m EXCEPT ![f] = v]
               N == [s[n] EXCEPT ![part] = M]
               S == [s EXCEPT ![n] = N]
    <2>2. /\ DOMAIN doc' = Fields /\ doc'.row = doc.row /\ doc'.end = doc.end
          /\ doc'.ask = doc.ask /\ doc'.sets = S
      BY ONLY <1>0, <2>1
    <2> DEFINE Good(x) == /\ DOMAIN x = {"lists", "live", "countries", "asns"}
                          /\ Elements(x.asns) \subseteq {1, 2}
    <2>3. \A k \in DOMAIN s : DOMAIN s[k] = {"main", "exclude"} /\ \A q \in {"main", "exclude"} : Good(s[k][q])
      BY DEF Shaped
    <2> HIDE DEF s, m, M, N, S, Good
    <2>4. Good(m)
      BY <2>3 DEF s, m
    <2>5. Good(M)
      <3>1. DOMAIN m = {"lists", "live", "countries", "asns"} /\ Elements(m.asns) \subseteq {1, 2}
        BY <2>4 DEF Good
      <3>2. DOMAIN M = DOMAIN m /\ M.asns = IF f = "asns" THEN v ELSE m.asns
        BY ONLY <3>1 DEF M
      <3>3. Elements(M.asns) \subseteq {1, 2}
        BY ONLY <2>1, <3>1, <3>2, Zenon
      <3> QED BY ONLY <3>1, <3>2, <3>3, Zenon DEF Good
    <2>6. DOMAIN N = {"main", "exclude"} /\ \A q \in {"main", "exclude"} : N[q] = IF q = part THEN M ELSE s[n][q]
      BY ONLY <2>1, <2>3 DEF N, s
    <2>7. DOMAIN S = DOMAIN s /\ \A k \in DOMAIN s : S[k] = IF k = n THEN N ELSE s[k]
      BY ONLY <2>1 DEF S, s
    <2>8. n \in DOMAIN s
      BY ONLY <2>1 DEF s
    <2>9. \A q \in {"main", "exclude"} : Good(N[q])
      BY ONLY <2>3, <2>5, <2>6, <2>8, Zenon
    <2>10. \A k \in DOMAIN S : DOMAIN S[k] = {"main", "exclude"} /\ \A q \in {"main", "exclude"} : Good(S[k][q])
      BY ONLY <2>3, <2>6, <2>7, <2>9, Zenon
    <2> QED BY ONLY <2>2, <2>10, Shaped(doc) DEF Shaped, Good
  <1>6. CASE EditSets
    <2>a. PICK n \in SetNames \ DOMAIN doc.sets, m \in DOMAIN doc.sets :
            Edit([doc EXCEPT !.sets =
                    [k \in DOMAIN doc.sets \cup {n} |-> doc.sets[IF k = n THEN m ELSE k]]])
      BY ONLY <1>6, Zenon DEF EditSets
    <2>1. doc' = [doc EXCEPT !.sets =
                    [k \in DOMAIN doc.sets \cup {n} |-> doc.sets[IF k = n THEN m ELSE k]]]
      BY ONLY <2>a, Zenon DEF Edit
    <2> DEFINE s == doc.sets
               S == [k \in DOMAIN s \cup {n} |-> s[IF k = n THEN m ELSE k]]
    <2>2. /\ DOMAIN doc' = Fields /\ doc'.row = doc.row /\ doc'.end = doc.end
          /\ doc'.ask = doc.ask /\ doc'.sets = S
      BY ONLY <1>0, <2>1
    <2>3. \A k \in DOMAIN S : \E j \in DOMAIN s : S[k] = s[j]
      BY ONLY m \in DOMAIN doc.sets, Zenon
    <2> DEFINE Good(x) == /\ DOMAIN x = {"main", "exclude"}
                          /\ \A part \in {"main", "exclude"} :
                               /\ DOMAIN x[part] = {"lists", "live", "countries", "asns"}
                               /\ Elements(x[part].asns) \subseteq {1, 2}
    <2>4. \A j \in DOMAIN s : Good(s[j])
      BY ONLY Shaped(doc), Zenon DEF Shaped
    <2> HIDE DEF S, Good
    <2>5. \A k \in DOMAIN S : Good(S[k])
      BY ONLY <2>3, <2>4, Zenon
    <2>6. \A k \in DOMAIN doc'.sets : Good(doc'.sets[k])
      BY ONLY <2>2, <2>5, Zenon
    <2> QED BY ONLY <2>2, <2>6, Shaped(doc), Zenon DEF Shaped, Good
  <1>7. CASE UNCHANGED vars
    BY ONLY <1>7, Shaped(doc), Zenon DEF vars
  <1> QED BY <1>1, <1>2, <1>3, <1>4, <1>5, <1>6, <1>7, Zenon DEF Next

(* Every document has the fields of one.                                   *)
LEMMA Shape == Spec => []DocShaped
  <1>1. Init => DocShaped
    BY ShapeAssumption, Zenon DEF Init, DocShaped
  <1> QED BY <1>1, EditKeepsShape, PTL DEF Spec

(* A set is found under its name in lower case, with its own names so.     *)
LEMMA ParsedSets ==
  ASSUME NEW t, setsOK(t), NEW n \in DOMAIN t.sets
  PROVE  /\ Lower(n) \in DOMAIN ParseSets(t)
         /\ ParseSets(t)[Lower(n)].main = normalizeMatch(t.sets[n].main)
         /\ ParseSets(t)[Lower(n)].exclude = normalizeMatch(t.sets[n].exclude)
  <1> DEFINE D == {Lower(x) : x \in DOMAIN t.sets}
             At(k) == CHOOSE x \in DOMAIN t.sets : Lower(x) = k
             E(k) == [main |-> normalizeMatch(t.sets[At(k)].main),
                      exclude |-> normalizeMatch(t.sets[At(k)].exclude)]
  <1>1. ParseSets(t) = [k \in D |-> E(k)]
    BY ONLY Zenon DEF ParseSets
  <1>2. Lower(n) \in D
    BY Zenon
  <1>3. At(Lower(n)) = n
    <2>1. \E x \in DOMAIN t.sets : Lower(x) = Lower(n)
      BY Zenon
    <2>2. At(Lower(n)) \in DOMAIN t.sets /\ Lower(At(Lower(n))) = Lower(n)
      BY ONLY <2>1, Zenon
    <2>3. \A x \in DOMAIN t.sets : Lower(x) = Lower(n) => x = n
      BY Zenon DEF setsOK
    <2> QED BY ONLY <2>2, <2>3, Zenon
  <1>4. /\ E(Lower(n)).main = normalizeMatch(t.sets[At(Lower(n))].main)
        /\ E(Lower(n)).exclude = normalizeMatch(t.sets[At(Lower(n))].exclude)
    BY ONLY TRUE
  <1> HIDE DEF D, At, E
  <1>5. Lower(n) \in DOMAIN ParseSets(t) /\ ParseSets(t)[Lower(n)] = E(Lower(n))
    BY ONLY <1>1, <1>2, Zenon
  <1> QED BY ONLY <1>3, <1>4, <1>5, Zenon

(* Every list and every system of a match has a file.                      *)
Tabled(m, t) ==
  /\ \A i \in DOMAIN m.lists : \E file \in t.lists : ToLower(file) = Lower(m.lists[i])
  /\ \A i \in DOMAIN m.asns : \E file \in t.asns : ToLower(file) = AsnName[m.asns[i]]

(* A match that compiles has its tables, and is kept with its live sets in *)
(* lower case.                                                             *)
LEMMA MatchResolves ==
  ASSUME NEW t, NEW m, compileMatchOK(normalizeMatch(m), t)
  PROVE  /\ Tabled(m, t)
         /\ \A i \in DOMAIN m.live : Lower(m.live[i]) \in Elements(normalizeMatch(m).live)
  <1> DEFINE N == normalizeMatch(m)
  <1>1. N.lists = normalizeNames(m.lists) /\ N.live = normalizeNames(m.live) /\ N.asns = m.asns
    BY DEF normalizeMatch
  <1>2. /\ Elements(N.lists) \subseteq indexFiles(t.lists)
        /\ AsnNames(N) \subseteq indexFiles(t.asns)
    BY Zenon DEF compileMatchOK
  <1> HIDE DEF N
  <1>3. \A s : \A i \in DOMAIN s : Lower(s[i]) \in Elements(normalizeNames(s))
    BY ONLY Zenon DEF normalizeNames, Elements
  <1>4. \A i \in DOMAIN m.lists : Lower(m.lists[i]) \in indexFiles(t.lists)
    BY ONLY <1>1, <1>2, <1>3, Zenon
  <1>5. \A i \in DOMAIN m.asns : AsnName[m.asns[i]] \in indexFiles(t.asns)
    <2>1. \A i \in DOMAIN m.asns : AsnName[m.asns[i]] \in AsnNames(N)
      BY ONLY <1>1, Zenon DEF AsnNames, Elements
    <2> QED BY ONLY <1>2, <2>1, Zenon
  <1>6. \A S, x : x \in indexFiles(S) => \E file \in S : ToLower(file) = x
    BY ONLY Zenon DEF indexFiles
  <1>7. Tabled(m, t)
    BY ONLY <1>4, <1>5, <1>6, Zenon DEF Tabled
  <1>8. \A i \in DOMAIN m.live : Lower(m.live[i]) \in Elements(N.live)
    BY ONLY <1>1, <1>3, Zenon
  <1> QED BY ONLY <1>7, <1>8, Zenon DEF N

(* A tree that loads has the tables and the live sets its document names,  *)
(* and nothing but a country can be missing when a request is decided      *)
(* (Store.build, usedLive, decide.missing).                                *)
THEOREM Resolves == Spec => []SnapshotResolves
  <1>1. SnapshotResolves
    <2> DEFINE t == Tree
               rule == normalizeRule(Rule(t))
               end == normalizeOutcome(Outcome(t))
               P == ParseSets(t)
               Reads(m) == \A i \in DOMAIN m.live : Lower(m.live[i]) \in usedLive(t)
    <2> SUFFICES ASSUME Loads(t)
                 PROVE /\ \A n \in DOMAIN t.sets, part \in {"main", "exclude"} :
                            Tabled(t.sets[n][part], t) /\ Reads(t.sets[n][part])
                       /\ ~Terminal(rule.action) =>
                            \/ \E file \in t.lists : ToLower(file) = rule.dataset
                            \/ rule.dataset \in usedLive(t)
                       /\ {rule.list, end.list} \ {""} \subseteq usedLive(t)
                       /\ ~missing(t, TRUE)
      BY Zenon DEF SnapshotResolves, Tabled
    <2>1. IF Terminal(rule.action) THEN rule.set \in DOMAIN P ELSE rule.dataset \in compileLists(t)
      BY Zenon DEF Loads, loadProfilesOK
    <2>2. /\ rule.list # "" => rule.action = "list"
          /\ rule.action = "list" => rule.list \in loadLive(t)
          /\ end.list # "" => end.list \in loadLive(t)
      <3>1. rule.list # "" => rule.action = "list"
        BY Zenon DEF normalizeRule
      <3> QED BY <3>1, Zenon DEF Loads, loadProfilesOK
    <2>3. \A k \in DOMAIN P : /\ Elements(P[k].main.live) \subseteq loadLive(t)
                              /\ Elements(P[k].exclude.live) \subseteq loadLive(t)
      BY Zenon DEF Loads, compileSetsOK, compileMatchOK
    <2>c. /\ rule.set # "" => Terminal(rule.action)
          /\ rule.dataset # "" => ~Terminal(rule.action)
      <3>1. ruleOK(Rule(t))
        BY Zenon DEF Loads, RowsParse
      <3>2. /\ rule.action = Lower(Rule(t).action) /\ rule.set = Lower(Rule(t).set)
            /\ rule.dataset = Lower(Rule(t).dataset)
        BY Zenon DEF normalizeRule
      <3> QED BY ONLY <3>1, <3>2, Zenon DEF ruleOK
    <2>d. ASSUME NEW n \in DOMAIN t.sets
          PROVE  /\ Lower(n) \in DOMAIN P
                 /\ P[Lower(n)].main = normalizeMatch(t.sets[n].main)
                 /\ P[Lower(n)].exclude = normalizeMatch(t.sets[n].exclude)
      <3>1. setsOK(t)
        BY Zenon DEF Loads
      <3> QED BY ONLY <3>1, n \in DOMAIN t.sets, ParsedSets, Zenon
    <2>e. \A k \in DOMAIN P : compileMatchOK(P[k].main, t) /\ compileMatchOK(P[k].exclude, t)
      BY Zenon DEF Loads, compileSetsOK
    <2> HIDE DEF P, rule, end, t, Reads
    <2> DEFINE U == UNION {Elements(P[k].main.live) \cup Elements(P[k].exclude.live) : k \in DOMAIN P}
    <2>a. usedLive(t) = (U \cup {rule.dataset, rule.list, end.list}) \cap loadLive(t)
      BY Zenon DEF usedLive, P, rule, end
    <2>b. ASSUME NEW k \in DOMAIN P, NEW x,
                 x \in Elements(P[k].main.live) \/ x \in Elements(P[k].exclude.live)
          PROVE  x \in U
      <3> DEFINE A(i) == Elements(P[i].main.live) \cup Elements(P[i].exclude.live)
      <3>1. x \in A(k)
        BY <2>b, Zenon
      <3> HIDE DEF A
      <3>2. x \in UNION {A(i) : i \in DOMAIN P}
        BY <3>1, Zenon
      <3> QED BY <3>2, Zenon DEF A
    <2> HIDE DEF U
    <2>4. ASSUME NEW x \in loadLive(t)
          PROVE  /\ \A k \in DOMAIN P :
                      x \in Elements(P[k].main.live) \/ x \in Elements(P[k].exclude.live) => x \in usedLive(t)
                 /\ x = rule.dataset \/ x = rule.list \/ x = end.list => x \in usedLive(t)
      <3>2. x \in U \/ x = rule.dataset \/ x = rule.list \/ x = end.list => x \in usedLive(t)
        BY ONLY <2>a, x \in loadLive(t), Zenon
      <3>3. \A k \in DOMAIN P :
              x \in Elements(P[k].main.live) \/ x \in Elements(P[k].exclude.live) => x \in U
        BY ONLY <2>b, Zenon
      <3> QED BY ONLY <3>2, <3>3, Zenon
    <2>5. ASSUME NEW k \in DOMAIN P, NEW part \in {"main", "exclude"}
          PROVE  Elements(P[k][part].live) \subseteq usedLive(t)
      <3> SUFFICES ASSUME NEW x \in Elements(P[k][part].live) PROVE x \in usedLive(t)
        BY Zenon
      <3>1. CASE part = "main"
        <4>1. x \in Elements(P[k].main.live)
          BY <3>1, Zenon
        <4> QED BY ONLY <4>1, <2>3, <2>4, k \in DOMAIN P, Zenon
      <3>2. CASE part = "exclude"
        <4>1. x \in Elements(P[k].exclude.live)
          BY <3>2, Zenon
        <4> QED BY ONLY <4>1, <2>3, <2>4, k \in DOMAIN P, Zenon
      <3> QED BY <3>1, <3>2, Zenon
    <2>6. ASSUME ~Terminal(rule.action)
          PROVE  \/ \E file \in t.lists : ToLower(file) = rule.dataset
                 \/ rule.dataset \in usedLive(t)
      <3>1. rule.dataset \in indexFiles(t.lists) \/ rule.dataset \in loadLive(t)
        BY <2>1, <2>6, Zenon DEF compileLists
      <3>2. rule.dataset \in indexFiles(t.lists) => \E file \in t.lists : ToLower(file) = rule.dataset
        BY ONLY Zenon DEF indexFiles
      <3> QED BY ONLY <3>1, <3>2, <2>4, Zenon
    <2>7. {rule.list, end.list} \ {""} \subseteq usedLive(t)
      <3>1. rule.list # "" => rule.list \in usedLive(t)
        BY ONLY <2>2, <2>4, Zenon
      <3>2. end.list # "" => end.list \in usedLive(t)
        BY ONLY <2>2, <2>4, Zenon
      <3> SUFFICES ASSUME NEW x \in {rule.list, end.list}, x # "" PROVE x \in usedLive(t)
        BY Zenon
      <3>3. x = rule.list \/ x = end.list
        BY Zenon
      <3>4. CASE x = rule.list
        BY ONLY <3>1, <3>4, x # "", Zenon
      <3>5. CASE x = end.list
        BY ONLY <3>2, <3>5, x # "", Zenon
      <3> QED BY ONLY <3>3, <3>4, <3>5, Zenon
    <2>8. ASSUME NEW n \in DOMAIN t.sets, NEW part \in {"main", "exclude"}
          PROVE  Tabled(t.sets[n][part], t) /\ Reads(t.sets[n][part])
      <3> DEFINE m == t.sets[n][part]
      <3>1. Lower(n) \in DOMAIN P
        BY ONLY <2>d, n \in DOMAIN t.sets, Zenon
      <3>2. P[Lower(n)][part] = normalizeMatch(m)
        <4>1. CASE part = "main"
          BY ONLY <2>d, <4>1, n \in DOMAIN t.sets, Zenon
        <4>2. CASE part = "exclude"
          BY ONLY <2>d, <4>2, n \in DOMAIN t.sets, Zenon
        <4> QED BY ONLY <4>1, <4>2, part \in {"main", "exclude"}, Zenon
      <3>3. compileMatchOK(P[Lower(n)][part], t)
        <4>1. CASE part = "main"
          BY ONLY <2>e, <3>1, <4>1, Zenon
        <4>2. CASE part = "exclude"
          BY ONLY <2>e, <3>1, <4>2, Zenon
        <4> QED BY ONLY <4>1, <4>2, part \in {"main", "exclude"}, Zenon
      <3>4. Elements(P[Lower(n)][part].live) \subseteq usedLive(t)
        BY ONLY <2>5, <3>1, part \in {"main", "exclude"}, Zenon
      <3> HIDE DEF m
      <3>5. compileMatchOK(normalizeMatch(m), t)
        BY ONLY <3>2, <3>3, Zenon
      <3>6. /\ Tabled(m, t)
            /\ \A i \in DOMAIN m.live : Lower(m.live[i]) \in Elements(normalizeMatch(m).live)
        BY ONLY <3>5, MatchResolves, Zenon
      <3>7. Reads(m)
        BY ONLY <3>2, <3>4, <3>6, Zenon DEF Reads
      <3> QED BY ONLY <3>6, <3>7, Zenon DEF m
    <2>9. ~missing(t, TRUE)
      <3>1. rule.set # "" => rule.set \in DOMAIN P
        BY ONLY <2>1, <2>c, Zenon
      <3>2. rule.dataset # "" => rule.dataset \in compileLists(t)
        BY ONLY <2>1, <2>c, Zenon
      <3> QED BY ONLY <3>1, <3>2, Zenon DEF missing, rule, P
    <2> QED BY ONLY <2>6, <2>7, <2>8, <2>9, Zenon
  <1> QED BY <1>1, PTL
-----------------------------------------------------------------------------
(* Names.                                                                  *)

(* A name that normalizing leaves alone has no blanks and no capitals.     *)
LEMMA PlainName ==
  ASSUME NEW n, Lower(n) = n
  PROVE  Trim(n) = n /\ ToLower(n) = n
  <1>1. ToLower("") = ""
    BY Zenon DEF ToLower, Capitals
  <1>2. n # " "
    BY <1>1, Zenon DEF Lower, Trim
  <1>3. Trim(n) = n
    BY <1>2, Zenon DEF Trim
  <1> QED BY <1>3, Zenon DEF Lower

(* Only a number is spelled like one, in whatever case.                    *)
LEMMA DigitName ==
  ASSUME NEW x
  PROVE  (ToLower(x) = "1" <=> x = "1") /\ (ToLower(x) = "2" <=> x = "2")
  <1>1. CASE x \in DOMAIN Capitals
    <2>1. ToLower(x) = Capitals[x]
      BY <1>1, Zenon DEF ToLower
    <2>2. Capitals[x] \in {"a", "s", "v", "note", "on", "allow", "request", "white", "net"}
      BY ONLY <1>1 DEF Capitals
    <2>3. Capitals[x] # "1" /\ Capitals[x] # "2"
      BY <2>2, Zenon
    <2>4. x # "1" /\ x # "2"
      BY <1>1, Zenon DEF Capitals
    <2> QED BY <2>1, <2>3, <2>4, Zenon
  <1>2. CASE x \notin DOMAIN Capitals
    BY <1>2, Zenon DEF ToLower
  <1> QED BY <1>1, <1>2, Zenon

(* The names of the files of AS numbers come out as they are asked for.    *)
LEMMA AsnFiles ==
  ASSUME NEW m, Elements(m.asns) \subseteq {1, 2}, NEW S
  PROVE  AsnNames(m) \subseteq indexFiles(S) <=> AsnNames(m) \subseteq S
  <1>1. \A x \in AsnNames(m) : x = "1" \/ x = "2"
    <2>1. AsnName[1] = "1" /\ AsnName[2] = "2"
      BY DEF AsnName
    <2> QED BY <2>1, Zenon DEF AsnNames
  <1>2. "1" \in indexFiles(S) <=> "1" \in S
    <2>1. ToLower("1") = "1" /\ \A n : ToLower(n) = "1" => n = "1"
      BY DigitName, Zenon
    <2> QED BY ONLY <2>1, Zenon DEF indexFiles
  <1>3. "2" \in indexFiles(S) <=> "2" \in S
    <2>1. ToLower("2") = "2" /\ \A n : ToLower(n) = "2" => n = "2"
      BY DigitName, Zenon
    <2> QED BY ONLY <2>1, Zenon DEF indexFiles
  <1> QED BY ONLY <1>1, <1>2, <1>3, Zenon

(* Plain names are indexed as they are.                                    *)
LEMMA PlainIndex ==
  ASSUME NEW S, \A n \in S : Lower(n) = n
  PROVE  indexFiles(S) = S /\ {Lower(n) : n \in S} = S
  <1>1. \A n \in S : ToLower(n) = n
    BY PlainName, Zenon
  <1>2. \A x : x \in indexFiles(S) <=> x \in S
    BY ONLY <1>1, Zenon DEF indexFiles
  <1>3. \A x : x \in {Lower(n) : n \in S} <=> x \in S
    BY Zenon
  <1> QED BY ONLY <1>2, <1>3, Zenon

(* What a pack loses when it is decoded leaves the fields there are.       *)
LEMMA PackShape ==
  ASSUME NEW d, Shaped(d), NEW a, NEW b
  PROVE  Shaped([d EXCEPT !.ask.phase = a, !.ask.group = b])
  <1> DEFINE e == [d EXCEPT !.ask.phase = a, !.ask.group = b]
  <1>1. DOMAIN d = {"origin", "lists", "live", "asns", "countries", "sets", "row", "end", "ask"}
    BY DEF Shaped
  <1>2. /\ DOMAIN e = DOMAIN d /\ e.row = d.row /\ e.end = d.end /\ e.sets = d.sets
        /\ DOMAIN e.ask = DOMAIN d.ask
    BY ONLY <1>1
  <1> HIDE DEF e
  <1>3. Shaped(e)
    BY <1>2, Zenon DEF Shaped
  <1> QED BY <1>3, Zenon DEF e

(* The tree of a well-formed document is well formed.                      *)
LEMMA TreeShape == DocShaped => Shaped(Tree)
  <1>1. \A a, b : DocShaped => Shaped([doc EXCEPT !.ask.phase = a, !.ask.group = b])
    BY PackShape, Zenon DEF DocShaped
  <1>2. DocShaped => Shaped([doc EXCEPT !.ask.phase = "", !.ask.group = ""])
    BY <1>1, Zenon
  <1> QED BY <1>2, Zenon DEF Tree, DocShaped

(* The fields of a rule and of an outcome that refer to others.            *)
LEMMA References ==
  ASSUME NEW t, Shaped(t)
  PROVE  /\ Rule(t).action = t.row.action /\ Rule(t).set = t.row.set
         /\ Rule(t).dataset = t.row.dataset
         /\ Rule(t).list = t.ask.list /\ Outcome(t).list = t.ask.list
  <1>1. "action" \in DOMAIN t.row /\ "set" \in DOMAIN t.row /\ "dataset" \in DOMAIN t.row
    BY DEF Shaped
  <1>2. "list" \in DOMAIN t.ask /\ "list" \notin DOMAIN t.row /\ "list" \notin DOMAIN t.end
    BY DEF Shaped
  <1>3. /\ Rule(t).action = t.row.action /\ Rule(t).set = t.row.set
        /\ Rule(t).dataset = t.row.dataset
    BY ONLY <1>1, BothIs, ZenonT(30) DEF Rule
  <1>4. Rule(t).list = t.ask.list
    <2>1. \A x \in DOMAIN t.ask : x \notin DOMAIN t.row => Both(t.row, t.ask)[x] = t.ask[x]
      BY ONLY BothIs
    <2> QED BY ONLY <1>2, <2>1, Zenon DEF Rule
  <1>5. Outcome(t).list = t.ask.list
    <2>1. \A x \in DOMAIN t.ask : x \notin DOMAIN t.end => Both(t.end, t.ask)[x] = t.ask[x]
      BY ONLY BothIs
    <2> QED BY ONLY <1>2, <2>1, Zenon DEF Outcome
  <1> QED BY ONLY <1>3, <1>4, <1>5, Zenon

(* The names of a plain tree, in the order Plain has them.                 *)
LEMMA PlainNames ==
  ASSUME NEW t, Plain(t)
  PROVE  /\ \A n \in t.lists : Lower(n) = n
         /\ \A n \in t.live : Lower(n) = n
         /\ \A n \in DOMAIN t.sets : Lower(n) = n
         /\ Lower(t.row.action) = t.row.action /\ Lower(t.row.set) = t.row.set
         /\ Lower(t.row.dataset) = t.row.dataset /\ Lower(t.ask.list) = t.ask.list
  <1> DEFINE names == t.lists \cup t.live \cup t.countries \cup DOMAIN t.sets
                        \cup {t.row.action, t.row.set, t.row.dataset, t.ask.list}
  <1>1. \A n \in names : Lower(n) = n
    BY ONLY Plain(t), Zenon DEF Plain
  <1>2. \A n : n \in t.lists \/ n \in t.live \/ n \in DOMAIN t.sets
                 \/ n \in {t.row.action, t.row.set, t.row.dataset, t.ask.list} => n \in names
    BY Zenon
  <1> HIDE DEF names
  <1> QED BY ONLY <1>1, <1>2, Zenon

(* The two matches of every set.                                           *)
LEMMA MatchesAre ==
  ASSUME NEW t
  PROVE  \A m : m \in Matches(t) <=>
           \E n \in DOMAIN t.sets : m = t.sets[n].main \/ m = t.sets[n].exclude
  BY DEF Matches

(* The sets of a plain tree are parsed into themselves (ParseSets).        *)
LEMMA PlainSets ==
  ASSUME NEW t, Plain(t)
  PROVE  /\ DOMAIN ParseSets(t) = DOMAIN t.sets
         /\ \A k \in DOMAIN t.sets :
              ParseSets(t)[k].main = t.sets[k].main /\ ParseSets(t)[k].exclude = t.sets[k].exclude
  <1> DEFINE D == {Lower(n) : n \in DOMAIN t.sets}
             At(k) == CHOOSE x \in DOMAIN t.sets : Lower(x) = k
             E(k) == [main |-> normalizeMatch(t.sets[At(k)].main),
                      exclude |-> normalizeMatch(t.sets[At(k)].exclude)]
  <1>1. \A n \in DOMAIN t.sets : Lower(n) = n
    BY PlainNames, Zenon
  <1>2. D = DOMAIN t.sets
    BY ONLY <1>1, PlainIndex, Zenon
  <1>3. ParseSets(t) = [k \in D |-> E(k)]
    BY ONLY Zenon DEF ParseSets
  <1>4. ASSUME NEW k \in DOMAIN t.sets PROVE At(k) = k
    <2>1. \E x \in DOMAIN t.sets : Lower(x) = k
      BY <1>1, Zenon
    <2>2. At(k) \in DOMAIN t.sets /\ Lower(At(k)) = k
      BY ONLY <2>1, Zenon
    <2> QED BY ONLY <1>1, <2>2, Zenon
  <1>5. ASSUME NEW k \in DOMAIN t.sets
        PROVE  /\ normalizeMatch(t.sets[k].main) = t.sets[k].main
               /\ normalizeMatch(t.sets[k].exclude) = t.sets[k].exclude
    <2>1. t.sets[k].main \in Matches(t) /\ t.sets[k].exclude \in Matches(t)
      BY MatchesAre, Zenon
    <2>2. \A m \in Matches(t) : m = normalizeMatch(m)
      BY ONLY Plain(t), Zenon DEF Plain
    <2> QED BY ONLY <2>1, <2>2, Zenon
  <1>6. ASSUME NEW k \in DOMAIN t.sets
        PROVE  E(k).main = t.sets[k].main /\ E(k).exclude = t.sets[k].exclude
    <2>1. E(k).main = normalizeMatch(t.sets[At(k)].main)
          /\ E(k).exclude = normalizeMatch(t.sets[At(k)].exclude)
      BY ONLY TRUE
    <2> HIDE DEF At, E
    <2> QED BY ONLY <1>4, <1>5, <2>1, k \in DOMAIN t.sets, Zenon
  <1> HIDE DEF D, E
  <1>7. \A k \in DOMAIN t.sets : ParseSets(t)[k] = E(k)
    BY ONLY <1>2, <1>3, Zenon
  <1> QED BY ONLY <1>2, <1>3, <1>6, <1>7, Zenon

(* What a match refers to, as check and as build read it.                  *)
Refers(m, t) ==
  /\ Elements(m.lists) \subseteq t.lists /\ Elements(m.live) \subseteq t.live
  /\ AsnNames(m) \subseteq t.asns

(* compileSets accepts a plain document exactly when its matches refer to  *)
(* lists it has.                                                           *)
LEMMA PlainMatches ==
  ASSUME NEW t, Plain(t), Shaped(t)
  PROVE  compileSetsOK(t) <=> \A m \in Matches(t) : Refers(m, t)
  <1>1. /\ \A n \in t.lists : Lower(n) = n
        /\ \A n \in t.live : Lower(n) = n
    BY PlainNames, Zenon
  <1>2. indexFiles(t.lists) = t.lists /\ loadLive(t) = t.live
    BY ONLY <1>1, PlainIndex, Zenon DEF loadLive
  <1>3. ASSUME NEW k \in DOMAIN t.sets, NEW part \in {"main", "exclude"}
        PROVE  compileMatchOK(t.sets[k][part], t) <=> Refers(t.sets[k][part], t)
    <2>1. Elements(t.sets[k][part].asns) \subseteq {1, 2}
      BY Zenon DEF Shaped
    <2>2. AsnNames(t.sets[k][part]) \subseteq indexFiles(t.asns) <=> AsnNames(t.sets[k][part]) \subseteq t.asns
      BY ONLY <2>1, AsnFiles, Zenon
    <2> QED BY ONLY <1>2, <2>2, Zenon DEF compileMatchOK, Refers
  <1>4. /\ DOMAIN ParseSets(t) = DOMAIN t.sets
        /\ \A k \in DOMAIN t.sets :
             ParseSets(t)[k].main = t.sets[k].main /\ ParseSets(t)[k].exclude = t.sets[k].exclude
    BY PlainSets, Zenon
  <1>5. compileSetsOK(t) <=>
          \A k \in DOMAIN t.sets : compileMatchOK(t.sets[k].main, t) /\ compileMatchOK(t.sets[k].exclude, t)
    BY ONLY <1>4, Zenon DEF compileSetsOK
  <1>6. (\A m \in Matches(t) : Refers(m, t)) <=>
          \A k \in DOMAIN t.sets : Refers(t.sets[k].main, t) /\ Refers(t.sets[k].exclude, t)
    <2>1. \A k \in DOMAIN t.sets : t.sets[k].main \in Matches(t) /\ t.sets[k].exclude \in Matches(t)
      BY ONLY MatchesAre, Zenon
    <2>2. \A m \in Matches(t) :
            \E n \in DOMAIN t.sets : m = t.sets[n].main \/ m = t.sets[n].exclude
      BY ONLY MatchesAre, Zenon
    <2> QED BY ONLY <2>1, <2>2, Zenon
  <1>7. \A k \in DOMAIN t.sets :
          /\ compileMatchOK(t.sets[k].main, t) <=> Refers(t.sets[k].main, t)
          /\ compileMatchOK(t.sets[k].exclude, t) <=> Refers(t.sets[k].exclude, t)
    BY ONLY <1>3, Zenon
  <1> QED BY ONLY <1>5, <1>6, <1>7, Zenon

(* The sets of a plain tree parse.                                         *)
LEMMA PlainSetsParse ==
  ASSUME NEW t, Plain(t)
  PROVE  setsOK(t) /\ compileListsOK(t)
  <1>1. /\ \A n \in t.lists : Lower(n) = n
        /\ \A n \in t.live : Lower(n) = n
        /\ \A n \in DOMAIN t.sets : Lower(n) = n
    BY PlainNames, Zenon
  <1>2. /\ "" \notin DOMAIN t.sets /\ t.lists \cap t.live = {}
        /\ \A m \in Matches(t) : matchOK(m)
        /\ \A n \in DOMAIN t.sets : ~empty(t.sets[n].main)
    BY ONLY Plain(t), Zenon DEF Plain
  <1>3. \A n \in DOMAIN t.sets : matchOK(t.sets[n].main) /\ matchOK(t.sets[n].exclude)
    BY ONLY <1>2, MatchesAre, Zenon
  <1>4. \A n \in DOMAIN t.sets : Lower(n) # "" /\ \A m \in DOMAIN t.sets : Lower(n) = Lower(m) => n = m
    BY ONLY <1>1, <1>2, Zenon
  <1>5. indexFiles(t.lists) = t.lists /\ loadLive(t) = t.live
    BY ONLY <1>1, PlainIndex, Zenon DEF loadLive
  <1>6. compileListsOK(t)
    BY ONLY <1>2, <1>5, Zenon DEF compileListsOK
  <1> QED BY ONLY <1>2, <1>3, <1>4, <1>6, Zenon DEF setsOK

(* The rows of a plain tree, as check and as build read them.              *)
RowRefers(t) ==
  /\ IF Terminal(t.row.action)
     THEN t.row.set \in DOMAIN t.sets
     ELSE t.row.dataset \in t.lists \cup t.live
  /\ t.row.action = "list" => t.ask.list \in t.live
  /\ t.ask.list # "" => t.ask.list \in t.live

(* loadProfiles accepts a plain document exactly when its row refers to    *)
(* sets it has.                                                            *)
LEMMA PlainRows ==
  ASSUME NEW t, Plain(t), Shaped(t)
  PROVE  loadProfilesOK(t) <=> RowRefers(t)
  <1>1. /\ \A n \in t.lists : Lower(n) = n
        /\ \A n \in t.live : Lower(n) = n
        /\ Lower(t.row.action) = t.row.action /\ Lower(t.row.set) = t.row.set
        /\ Lower(t.row.dataset) = t.row.dataset /\ Lower(t.ask.list) = t.ask.list
    BY PlainNames, Zenon
  <1>2. /\ Rule(t).action = t.row.action /\ Rule(t).set = t.row.set
        /\ Rule(t).dataset = t.row.dataset
        /\ Rule(t).list = t.ask.list /\ Outcome(t).list = t.ask.list
    BY References, Zenon
  <1>3. Trim(t.ask.list) = t.ask.list
    BY ONLY <1>1, PlainName, Zenon
  <1>4. DOMAIN ParseSets(t) = DOMAIN t.sets
    BY PlainSets, Zenon
  <1>5. indexFiles(t.lists) = t.lists /\ loadLive(t) = t.live
    BY ONLY <1>1, PlainIndex, Zenon DEF loadLive
  <1>6. compileLists(t) = t.lists \cup t.live
    BY ONLY <1>5, Zenon DEF compileLists
  <1> DEFINE rule == normalizeRule(Rule(t))
             end == normalizeOutcome(Outcome(t))
  <1>7. /\ rule.action = Lower(Rule(t).action) /\ rule.set = Lower(Rule(t).set)
        /\ rule.dataset = Lower(Rule(t).dataset)
    BY ONLY Zenon DEF normalizeRule
  <1>8. rule.action = "list" => rule.list = Trim(Rule(t).list)
    BY ONLY Zenon DEF normalizeRule
  <1>9. end.list = Trim(Outcome(t).list)
    BY ONLY Zenon DEF normalizeOutcome
  <1>10. loadProfilesOK(t) <=>
           /\ IF Terminal(rule.action)
              THEN rule.set \in DOMAIN ParseSets(t)
              ELSE rule.dataset \in compileLists(t)
           /\ rule.action = "list" => rule.list \in loadLive(t)
           /\ end.list # "" => end.list \in loadLive(t)
    BY ONLY Zenon DEF loadProfilesOK
  <1> HIDE DEF rule, end
  <1>11. /\ rule.action = t.row.action /\ rule.set = t.row.set /\ rule.dataset = t.row.dataset
         /\ rule.action = "list" => rule.list = t.ask.list
         /\ end.list = t.ask.list
    BY ONLY <1>1, <1>2, <1>3, <1>7, <1>8, <1>9, Zenon
  <1>12. (rule.action = "list" => rule.list \in loadLive(t)) <=> (t.row.action = "list" => t.ask.list \in t.live)
    BY ONLY <1>5, <1>11, Zenon
  <1>13. (end.list # "" => end.list \in loadLive(t)) <=> (t.ask.list # "" => t.ask.list \in t.live)
    BY ONLY <1>5, <1>11, Zenon
  <1>14. (IF Terminal(rule.action) THEN rule.set \in DOMAIN ParseSets(t)
                                   ELSE rule.dataset \in compileLists(t))
         <=> (IF Terminal(t.row.action) THEN t.row.set \in DOMAIN t.sets
                                        ELSE t.row.dataset \in t.lists \cup t.live)
    BY ONLY <1>4, <1>6, <1>11, Zenon
  <1> QED BY ONLY <1>10, <1>12, <1>13, <1>14, Zenon DEF RowRefers

(* For plain names the two packages agree on the references of any tree,   *)
(* however it was edited (Pack.check, Store.build).                        *)
THEOREM ChecksAgree == Spec => []CheckAgreesWithLoad
  <1>1. DocShaped => CheckAgreesWithLoad
    <2> DEFINE t == Tree
               Known == \A m \in Matches(t) : Elements(m.countries) \subseteq t.countries
    <2> SUFFICES ASSUME DocShaped, Plain(t), RowsParse(t)
                 PROVE  check(t) <=> Loads(t) /\ Known
      BY Zenon DEF CheckAgreesWithLoad
    <2>1. Shaped(t)
      BY TreeShape, Zenon
    <2> HIDE DEF t
    <2>2. check(t) <=> (\A m \in Matches(t) : Refers(m, t)) /\ Known /\ RowRefers(t)
      BY ONLY Zenon DEF check, Refers, RowRefers
    <2>3. Loads(t) <=> compileSetsOK(t) /\ loadProfilesOK(t)
      BY ONLY Plain(t), RowsParse(t), PlainSetsParse, Zenon DEF Loads
    <2>4. compileSetsOK(t) <=> \A m \in Matches(t) : Refers(m, t)
      BY ONLY <2>1, Plain(t), PlainMatches, Zenon
    <2>5. loadProfilesOK(t) <=> RowRefers(t)
      BY ONLY <2>1, Plain(t), PlainRows, Zenon
    <2> HIDE DEF Known
    <2> QED BY ONLY <2>2, <2>3, <2>4, <2>5, Zenon
  <1> QED BY <1>1, Shape, PTL
-----------------------------------------------------------------------------
(* Rows.                                                                   *)

(* What both validators ask of an ask, on its values as they are kept:     *)
(* given is the axis the row names, apply the one it takes.                *)
AskOK(do, given, apply, to, delta, value, counter, ttl, group, side, phase, marker, objects, when, secs) ==
  /\ do \in DOMAIN verbs
  /\ given = "" => Len(verbs[do]) = 1 \/ recordVerb(do)
  /\ \E i \in DOMAIN verbs[do] : verbs[do][i] = apply
  /\ delta # Nil => delta \in -100 .. 900
  /\ value # Nil => value \in -100 .. 100
  /\ do = "threshold" => delta # Nil
  /\ controlVerb(do) => to \notin {"", "*"}
  /\ do = "score" => to \in {"", "*"} /\ value \notin {Nil, 0}
  /\ counter # "" => do = "note" /\ NameOK(counter)
  /\ ttl # "" => do = "archive" /\ ttlOK(ttl)
  /\ checkMutateAsk(do, group, side)
  /\ checkPhaseAsk(do, phase, apply)
  /\ checkMarkAsk(do, to, marker)
  /\ checkAuditAsk(do, to, apply, side, secs, objects, when)

AskOf(src, secs) ==
  AskOK(Lower(src.do), Lower(src.apply), ruleApply(src), Trim(src.to), src.delta, src.value,
        Trim(src.counter), src.ttl, Trim(src.group), Lower(src.side), Trim(src.phase),
        Trim(src.marker), recordObjects(src), src.when, secs)

(* Each validator, by its own code, asks that and little more.             *)
LEMMA RequestAsks ==
  ASSUME NEW src
  PROVE  requestOK(src) <=> CodeOK(src.code) /\ AskOf(src, ruleTTL(src))
  BY ZenonT(30) DEF requestOK, AskOf, AskOK

(* An outcome's request is accepted on the terms of a rule's request.      *)
LEMMA OutcomeAsks ==
  ASSUME NEW src
  PROVE  outcomeDoOK(src) <=> Trim(src.write) = "" /\ AskOf(src, outcomeTTL(src))
  <1>1. outcomeApply(src) = ruleApply(src)
    BY Zenon DEF outcomeApply, ruleApply
  <1>2. outcomeDoOK(src) => Trim(src.write) = "" /\ AskOf(src, outcomeTTL(src))
    BY ONLY <1>1, ZenonT(30) DEF outcomeDoOK, AskOf, AskOK
  <1>3. Trim(src.write) = "" /\ AskOf(src, outcomeTTL(src)) => outcomeDoOK(src)
    BY ONLY <1>1, ZenonT(30) DEF outcomeDoOK, AskOf, AskOK
  <1> QED BY ONLY <1>2, <1>3, Zenon

(* They read a time the same way: none is zero seconds.                    *)
LEMMA SameTTL ==
  ASSUME NEW src
  PROVE  ruleTTL(src) = outcomeTTL(src)
  <1>1. ttlTexts[""] = 0
    <2> DEFINE secs(s) == CASE s = "30" -> 30 [] s = "5m" -> 300 [] s = "1h" -> 3600 [] OTHER -> 0
    <2>1. \A s : s # "30" /\ s # "5m" /\ s # "1h" => secs(s) = 0
      OBVIOUS
    <2>2. ttlTexts[""] = secs("")
      BY Zenon DEF ttlTexts
    <2> HIDE DEF secs
    <2>3. "" # "30" /\ "" # "5m" /\ "" # "1h"
      BY Zenon
    <2> QED BY ONLY <2>1, <2>2, <2>3, Zenon
  <1> QED BY ONLY <1>1, Zenon DEF ruleTTL, outcomeTTL

(* What both action and outcomeAction make of a row, given its axis and    *)
(* its time to live.                                                       *)
wireAction(src, apply, ttl) ==
  LET kept == Lower(src.do) = "archive" /\ Lower(src.side) = "on"
  IN [to |-> Trim(src.to), do |-> Lower(src.do), apply |-> apply,
      phase |-> Trim(src.phase), code |-> src.code, delta |-> src.delta, value |-> src.value,
      counter |-> Trim(src.counter), marker |-> Trim(src.marker), group |-> Trim(src.group),
      set |-> Lower(src.side), objects |-> recordObjects(src),
      ttl |-> IF kept /\ ttl > 0 THEN ttl ELSE Nil,
      when |-> IF kept THEN ArchiveWhen(src.when) ELSE <<>>]

(* The two functions that make an action, each by its own definition.      *)
LEMMA WireActions ==
  ASSUME NEW src
  PROVE  /\ action(src) = wireAction(src, ruleApply(src), ruleTTL(src))
         /\ outcomeAction(src) = wireAction(src, outcomeApply(src), outcomeTTL(src))
  BY Zenon DEF action, outcomeAction, wireAction

(* Two rows with the same ask.                                             *)
SameAsk(src, a) ==
  /\ src.do = a.do /\ src.to = a.to /\ src.apply = a.apply /\ src.phase = a.phase
  /\ src.delta = a.delta /\ src.value = a.value /\ src.counter = a.counter
  /\ src.marker = a.marker /\ src.group = a.group /\ src.side = a.side
  /\ src.headers = a.headers /\ src.args = a.args /\ src.body = a.body
  /\ src.when = a.when /\ src.ttl = a.ttl /\ src.write = a.write
  /\ src.list = a.list /\ src.code = a.code

(* Two sources with the same request are judged and sent alike.            *)
LEMMA SameAskSame ==
  ASSUME NEW src, NEW a, SameAsk(src, a)
  PROVE  /\ \A secs : AskOf(src, secs) <=> AskOf(a, secs)
         /\ \A apply, ttl : wireAction(src, apply, ttl) = wireAction(a, apply, ttl)
         /\ ruleTTL(src) = ruleTTL(a) /\ ruleApply(src) = ruleApply(a)
  <1>1. ruleTTL(src) = ruleTTL(a) /\ recordObjects(src) = recordObjects(a)
    BY DEF SameAsk, ruleTTL, recordObjects
  <1>2. ruleApply(src) = ruleApply(a)
    <2>1. src.do = a.do /\ src.apply = a.apply
      BY DEF SameAsk
    <2> QED BY ONLY <2>1, Zenon DEF ruleApply
  <1>3. ASSUME NEW secs PROVE AskOf(src, secs) <=> AskOf(a, secs)
    BY ONLY <1>1, <1>2, SameAsk(src, a) DEF SameAsk, AskOf
  <1>4. ASSUME NEW apply, NEW ttl PROVE wireAction(src, apply, ttl) = wireAction(a, apply, ttl)
    BY ONLY <1>1, SameAsk(src, a) DEF SameAsk, wireAction
  <1> QED BY ONLY <1>1, <1>2, <1>3, <1>4, Zenon

(* The rows the properties are about carry the ask of the document.        *)
LEMMA TheAsk ==
  ASSUME NEW f, Shaped(doc), DOMAIN f \cap DOMAIN doc.ask = {}
  PROVE  SameAsk(Both(f, doc.ask), doc.ask)
  <1>1. \A x \in DOMAIN doc.ask : Both(f, doc.ask)[x] = doc.ask[x]
    <2>1. \A x \in DOMAIN doc.ask : x \notin DOMAIN f => Both(f, doc.ask)[x] = doc.ask[x]
      BY ONLY BothIs
    <2>2. \A x \in DOMAIN doc.ask : x \notin DOMAIN f
      BY ONLY DOMAIN f \cap DOMAIN doc.ask = {}, Zenon
    <2> QED BY ONLY <2>1, <2>2, Zenon
  <1>2. DOMAIN doc.ask = {"do", "to", "apply", "phase", "delta", "value", "counter", "marker", "group",
                     "side", "headers", "args", "body", "when", "ttl", "write", "list", "code"}
    BY DEF Shaped
  <1> QED BY ONLY <1>1, <1>2 DEF SameAsk

(* The texts of the three rows are as they are kept.                       *)
LEMMA OwnTexts ==
  /\ Lower("") = "" /\ Lower("a") = "a" /\ Lower("white") = "white"
  /\ Lower("request") = "request" /\ Lower("list") = "list"
  <1>1. \A s : s \notin DOMAIN Capitals => ToLower(s) = s
    BY Zenon DEF ToLower
  <1>2. \A s : s # " " => Trim(s) = s
    BY Zenon DEF Trim
  <1>3. "" \notin DOMAIN Capitals /\ "a" \notin DOMAIN Capitals /\ "white" \notin DOMAIN Capitals
        /\ "request" \notin DOMAIN Capitals /\ "list" \notin DOMAIN Capitals
    BY Zenon DEF Capitals
  <1>4. "" # " " /\ "a" # " " /\ "white" # " " /\ "request" # " " /\ "list" # " "
    BY Zenon
  <1>5. \A s : s \notin DOMAIN Capitals /\ s # " " => Lower(s) = s
    BY ONLY <1>1, <1>2, Zenon DEF Lower
  <1> QED BY ONLY <1>3, <1>4, <1>5, Zenon

(* The rule row that asks carries the request of the document.             *)
LEMMA AskedIs ==
  ASSUME DocShaped
  PROVE  /\ SameAsk(Asked, doc.ask)
         /\ Asked.set = "" /\ Asked.dataset = "a" /\ Asked.not = FALSE /\ Asked.action = "request"
  <1> DEFINE f == [set |-> "", dataset |-> "a", not |-> FALSE, action |-> "request"]
  <1>1. DOMAIN f = {"set", "dataset", "not", "action"}
    BY Zenon
  <1>2. f.set = "" /\ f.dataset = "a" /\ f.not = FALSE /\ f.action = "request"
    BY Zenon
  <1>3. Asked = Both(f, doc.ask)
    BY Zenon DEF Asked
  <1> HIDE DEF f
  <1>4. DOMAIN f \cap DOMAIN doc.ask = {}
    BY <1>1 DEF DocShaped, Shaped
  <1>5. SameAsk(Asked, doc.ask)
    BY <1>3, <1>4, TheAsk, Zenon DEF DocShaped
  <1>6. \A x \in DOMAIN f : Asked[x] = f[x]
    BY ONLY <1>3, BothIs
  <1> QED BY ONLY <1>1, <1>2, <1>5, <1>6, Zenon

(* The rule row that writes carries the request of the document.           *)
LEMMA WrittenIs ==
  ASSUME DocShaped
  PROVE  /\ SameAsk(Written, doc.ask)
         /\ Written.set = "" /\ Written.dataset = "a" /\ Written.not = FALSE /\ Written.action = "list"
  <1> DEFINE f == [set |-> "", dataset |-> "a", not |-> FALSE, action |-> "list"]
  <1>1. DOMAIN f = {"set", "dataset", "not", "action"}
    BY Zenon
  <1>2. f.set = "" /\ f.dataset = "a" /\ f.not = FALSE /\ f.action = "list"
    BY Zenon
  <1>3. Written = Both(f, doc.ask)
    BY Zenon DEF Written
  <1> HIDE DEF f
  <1>4. DOMAIN f \cap DOMAIN doc.ask = {}
    BY <1>1 DEF DocShaped, Shaped
  <1>5. SameAsk(Written, doc.ask)
    BY <1>3, <1>4, TheAsk, Zenon DEF DocShaped
  <1>6. \A x \in DOMAIN f : Written[x] = f[x]
    BY ONLY <1>3, BothIs
  <1> QED BY ONLY <1>1, <1>2, <1>5, <1>6, Zenon

(* The outcome carries the request of the document.                        *)
LEMMA EndedIs ==
  ASSUME DocShaped
  PROVE  SameAsk(Ended, doc.ask) /\ Ended.on = "white" /\ Ended.at = Nil
  <1> DEFINE f == [on |-> "white", at |-> Nil]
  <1>1. DOMAIN f = {"on", "at"} /\ f.on = "white" /\ f.at = Nil
    OBVIOUS
  <1>2. Ended = Both(f, doc.ask)
    BY Zenon DEF Ended
  <1> HIDE DEF f
  <1>3. DOMAIN f \cap DOMAIN doc.ask = {}
    BY <1>1 DEF DocShaped, Shaped
  <1>4. SameAsk(Ended, doc.ask)
    BY <1>2, <1>3, TheAsk, Zenon DEF DocShaped
  <1>5. \A x \in DOMAIN f : Ended[x] = f[x]
    BY ONLY <1>2, BothIs
  <1> QED BY ONLY <1>1, <1>4, <1>5, Zenon

(* A request row is accepted for its ask alone.                            *)
LEMMA AskedOK ==
  ASSUME DocShaped, NEW a, a = doc.ask
  PROVE  /\ ruleOK(Asked) <=>
              Trim(a.write) = "" /\ CodeOK(a.code) /\ AskOf(a, ruleTTL(a))
         /\ action(Asked) = wireAction(a, ruleApply(a), ruleTTL(a))
  <1>1. /\ SameAsk(Asked, a)
        /\ Asked.set = "" /\ Asked.dataset = "a" /\ Asked.not = FALSE /\ Asked.action = "request"
    BY AskedIs, Zenon
  <1>2. /\ \A secs : AskOf(Asked, secs) <=> AskOf(a, secs)
        /\ \A apply, ttl : wireAction(Asked, apply, ttl) = wireAction(a, apply, ttl)
        /\ ruleTTL(Asked) = ruleTTL(a) /\ ruleApply(Asked) = ruleApply(a)
    BY ONLY <1>1, SameAskSame
  <1>3. Asked.write = a.write /\ Asked.code = a.code
    BY ONLY <1>1 DEF SameAsk
  <1>4. requestOK(Asked) <=> CodeOK(a.code) /\ AskOf(a, ruleTTL(a))
    BY ONLY <1>2, <1>3, RequestAsks, Zenon
  <1>5. "request" # "list" /\ ~Terminal("request") /\ "a" # ""
        /\ "request" \in {"allow", "deny", "request", "list"}
    BY ONLY Zenon DEF Terminal
  <1>6. /\ Lower(Asked.action) = "request" /\ Lower(Asked.set) = "" /\ Lower(Asked.dataset) = "a"
    BY ONLY <1>1, OwnTexts, Zenon
  <1>7. ruleOK(Asked) <=> requestOK(Asked) /\ Trim(Asked.write) = ""
    BY ONLY <1>5, <1>6, Zenon DEF ruleOK
  <1>8. action(Asked) = wireAction(a, ruleApply(a), ruleTTL(a))
    BY ONLY <1>2, WireActions, Zenon
  <1> QED BY ONLY <1>3, <1>4, <1>7, <1>8, Zenon

(* And so is an outcome with a verb.                                       *)
LEMMA EndedOK ==
  ASSUME DocShaped, NEW a, a = doc.ask
  PROVE  /\ Trim(a.list) = "" /\ Lower(a.do) # "" =>
              (outcomeOK(Ended) <=> Trim(a.write) = "" /\ CodeOK(a.code) /\ AskOf(a, ruleTTL(a)))
         /\ Trim(a.list) # "" => (outcomeOK(Ended) => ttlOK(a.ttl) /\ writeOK(a.write))
         /\ outcomeAction(Ended) = wireAction(a, ruleApply(a), ruleTTL(a))
  <1>1. SameAsk(Ended, a) /\ Ended.on = "white" /\ Ended.at = Nil
    BY EndedIs, Zenon
  <1>2. /\ \A secs : AskOf(Ended, secs) <=> AskOf(a, secs)
        /\ \A apply, ttl : wireAction(Ended, apply, ttl) = wireAction(a, apply, ttl)
        /\ ruleTTL(Ended) = ruleTTL(a) /\ ruleApply(Ended) = ruleApply(a)
    BY ONLY <1>1, SameAskSame
  <1>3. /\ Ended.write = a.write /\ Ended.code = a.code /\ Ended.do = a.do /\ Ended.list = a.list
        /\ Ended.ttl = a.ttl
    BY ONLY <1>1 DEF SameAsk
  <1>4. outcomeTTL(Ended) = ruleTTL(a)
    BY ONLY <1>2, SameTTL, Zenon
  <1>5. outcomeDoOK(Ended) <=> Trim(a.write) = "" /\ AskOf(a, ruleTTL(a))
    BY ONLY <1>2, <1>3, <1>4, OutcomeAsks, Zenon
  <1>6. onOK(Ended)
    <2>1. Lower(Ended.on) = "white"
      BY ONLY <1>1, OwnTexts, Zenon
    <2>2. "white" # "overload" /\ "white" \in {"white", "black", "none"}
      BY ONLY Zenon
    <2> QED BY ONLY <1>1, <2>1, <2>2, Zenon DEF onOK
  <1>7. outcomeApply(Ended) = ruleApply(a)
    BY ONLY <1>2, Zenon DEF outcomeApply, ruleApply
  <1>8. outcomeAction(Ended) = wireAction(a, ruleApply(a), ruleTTL(a))
    BY ONLY <1>2, <1>4, <1>7, WireActions, Zenon
  <1>9. ASSUME Trim(a.list) = "", Lower(a.do) # ""
        PROVE  outcomeOK(Ended) <=> Trim(a.write) = "" /\ CodeOK(a.code) /\ AskOf(a, ruleTTL(a))
    <2>1. outcomeOK(Ended) <=> CodeOK(Ended.code) /\ outcomeDoOK(Ended)
      BY ONLY <1>3, <1>6, <1>9, Zenon DEF outcomeOK
    <2> QED BY ONLY <1>3, <1>5, <2>1, Zenon
  <1>10. ASSUME Trim(a.list) # "", outcomeOK(Ended)
         PROVE  ttlOK(a.ttl) /\ writeOK(a.write)
    <2>1. outcomeListOK(Ended)
      BY ONLY <1>3, <1>10, Zenon DEF outcomeOK
    <2> QED BY ONLY <1>3, <2>1, Zenon DEF outcomeListOK
  <1> QED BY ONLY <1>8, <1>9, <1>10, Zenon

(* A list row is accepted for a list, a time and what to write.            *)
LEMMA WrittenOK ==
  ASSUME DocShaped, NEW a, a = doc.ask, Trim(a.list) # "", ttlOK(a.ttl), writeOK(a.write)
  PROVE  ruleOK(Written)
  <1>1. /\ SameAsk(Written, a)
        /\ Written.set = "" /\ Written.dataset = "a" /\ Written.not = FALSE /\ Written.action = "list"
    BY WrittenIs, Zenon
  <1>2. Written.list = a.list /\ Written.ttl = a.ttl /\ Written.write = a.write
    BY ONLY <1>1 DEF SameAsk
  <1>3. listOK(Written)
    BY ONLY <1>2, Trim(a.list) # "", ttlOK(a.ttl), writeOK(a.write), Zenon DEF listOK
  <1>4. "list" # "request" /\ ~Terminal("list") /\ "a" # ""
        /\ "list" \in {"allow", "deny", "request", "list"}
    BY ONLY Zenon DEF Terminal
  <1>5. Lower(Written.action) = "list" /\ Lower(Written.set) = "" /\ Lower(Written.dataset) = "a"
    BY ONLY <1>1, OwnTexts, Zenon
  <1> QED BY ONLY <1>3, <1>4, <1>5, Zenon DEF ruleOK

(* The two validators and the two functions that make an action of a row   *)
(* agree on any ask (normalizeRule, normalizeOutcome, action,              *)
(* outcomeAction).                                                         *)
THEOREM RowsAgree == Spec => []RuleAndOutcomeAgree
  <1>1. DocShaped => RuleAndOutcomeAgree
    <2> SUFFICES ASSUME DocShaped PROVE RuleAndOutcomeAgree
      BY Zenon
    <2> DEFINE a == doc.ask
    <2>1. /\ ruleOK(Asked) <=>
               Trim(a.write) = "" /\ CodeOK(a.code) /\ AskOf(a, ruleTTL(a))
          /\ action(Asked) = wireAction(a, ruleApply(a), ruleTTL(a))
      BY AskedOK, Zenon
    <2>2. /\ Trim(a.list) = "" /\ Lower(a.do) # "" =>
               (outcomeOK(Ended) <=> Trim(a.write) = "" /\ CodeOK(a.code) /\ AskOf(a, ruleTTL(a)))
          /\ Trim(a.list) # "" => (outcomeOK(Ended) => ttlOK(a.ttl) /\ writeOK(a.write))
          /\ outcomeAction(Ended) = wireAction(a, ruleApply(a), ruleTTL(a))
      BY EndedOK, Zenon
    <2>3. Trim(a.list) # "" /\ ttlOK(a.ttl) /\ writeOK(a.write) => ruleOK(Written)
      BY WrittenOK, Zenon
    <2> QED BY ONLY <2>1, <2>2, <2>3, Zenon DEF RuleAndOutcomeAgree
  <1> QED BY <1>1, Shape, PTL

(* What an action carries, name by name.                                   *)
LEMMA CarriedIs ==
  ASSUME NEW a
  PROVE  /\ Carried(a) \subseteq {"group", "set", "counter", "phase", "marker", "ttl", "delta", "value",
                                  "objects", "when"}
         /\ "group" \in Carried(a) => a.group # ""
         /\ "set" \in Carried(a) => a.set # ""
         /\ "counter" \in Carried(a) => a.counter # ""
         /\ "phase" \in Carried(a) => a.phase # ""
         /\ "marker" \in Carried(a) => a.marker # ""
         /\ "ttl" \in Carried(a) => a.ttl # Nil
         /\ "objects" \in Carried(a) => a.objects # NoObjects
         /\ "when" \in Carried(a) => a.when # <<>>
  BY Zenon DEF Carried

(* A field that is set is one the action carries.                          *)
LEMMA IsCarried ==
  ASSUME NEW a
  PROVE  /\ a.group # "" => "group" \in Carried(a)
         /\ a.set # "" => "set" \in Carried(a)
         /\ a.marker # "" => "marker" \in Carried(a)
         /\ a.delta # Nil => "delta" \in Carried(a)
         /\ a.value # Nil => "value" \in Carried(a)
  BY Zenon DEF Carried

(* The two tables of the property.                                         *)
LEMMA Tables ==
  /\ Of(Carries, "mutate") = {"group", "set"} /\ Of(Carries, "note") = {"counter"}
  /\ \A do : controlVerb(do) => Of(Carries, do) = {"phase"}
  /\ Of(Carries, "audit") = {"set", "objects"}
  /\ Of(Carries, "archive") = {"set", "objects", "ttl", "when"}
  /\ Of(Carries, "mark") = {"marker"}
  /\ Of(Needs, "threshold") = {"delta"} /\ Of(Needs, "mutate") = {"group", "set"}
  /\ Of(Needs, "audit") = {"set"} /\ Of(Needs, "archive") = {"set"}
  /\ Of(Needs, "mark") = {"marker"} /\ Of(Needs, "score") = {"value"}
  /\ \A do : do \notin {"threshold", "mutate", "audit", "archive", "mark", "score"} => Of(Needs, do) = {}
  BY DEF Of, Carries, Needs, controlVerb

(* The fields of an action that a validated ask becomes.                   *)
Sent(a, given, ttl, secs, words) ==
  /\ AskOK(a.do, given, a.apply, a.to, a.delta, a.value, a.counter, ttl, a.group, a.set,
           a.phase, a.marker, a.objects, words, secs)
  /\ ~(a.do = "archive" /\ a.set = "on") => a.ttl = Nil /\ a.when = <<>>
  /\ DOMAIN a.objects = {"headers", "args", "body"}
  /\ (\A o \in DOMAIN a.objects : a.objects[o] = Nil) => a.objects = NoObjects

(* A request that is accepted is sent with the fields it needs.            *)
LEMMA AskSent ==
  ASSUME NEW src, NEW secs, AskOf(src, secs)
  PROVE  Sent(wireAction(src, ruleApply(src), secs), Lower(src.apply), src.ttl, secs, src.when)
  <1>0. PICK a : a = wireAction(src, ruleApply(src), secs)
    BY Zenon
  <1>1. /\ a.do = Lower(src.do) /\ a.apply = ruleApply(src) /\ a.to = Trim(src.to)
        /\ a.delta = src.delta /\ a.value = src.value /\ a.counter = Trim(src.counter)
        /\ a.group = Trim(src.group) /\ a.set = Lower(src.side) /\ a.phase = Trim(src.phase)
        /\ a.marker = Trim(src.marker) /\ a.objects = recordObjects(src)
    BY <1>0 DEF wireAction
  <1>2. ~(a.do = "archive" /\ a.set = "on") => a.ttl = Nil /\ a.when = <<>>
    BY <1>0 DEF wireAction
  <1>3. DOMAIN a.objects = {"headers", "args", "body"}
    BY ONLY <1>1 DEF recordObjects
  <1>4. (\A o \in DOMAIN a.objects : a.objects[o] = Nil) => a.objects = NoObjects
    BY ONLY <1>1 DEF recordObjects, NoObjects
  <1>5. AskOK(a.do, Lower(src.apply), a.apply, a.to, a.delta, a.value, a.counter, src.ttl, a.group,
              a.set, a.phase, a.marker, a.objects, src.when, secs)
    BY ONLY <1>1, AskOf(src, secs) DEF AskOf
  <1> QED BY ONLY <1>0, <1>2, <1>3, <1>4, <1>5, Zenon DEF Sent

(* The conjuncts of ActionsWellFormed.                                      *)
Well(a) ==
  /\ a.do \in DOMAIN verbs /\ a.apply \in Elements(verbs[a.do])
  /\ Carried(a) \ {"delta", "value"} \subseteq Of(Carries, a.do)
  /\ Of(Needs, a.do) \subseteq Carried(a)
  /\ controlVerb(a.do) => a.to \notin {"", "*"}
  /\ recordVerb(a.do) => a.to \in {"", "*"}
  /\ a.set = "off" /\ auditVerb(a.do) => Carried(a) \cap {"objects", "ttl", "when"} = {}
  /\ a.set \in {"", "on", "off"}
  /\ a.apply = "conn" /\ a.phase # "" => a.phase = "frame"
  /\ a.apply = "response" => a.objects.args = Nil
  /\ a.do = "score" => a.value # 0
  /\ a.delta # Nil => a.delta \in -100 .. 900
  /\ a.value # Nil => a.value \in -100 .. 100

(* Such an action is well formed.                                          *)
LEMMA SentWell ==
  ASSUME NEW a, NEW given, NEW ttl, NEW secs, NEW words, Sent(a, given, ttl, secs, words)
  PROVE  Well(a)
  <1>1. /\ a.do \in DOMAIN verbs
        /\ \E i \in DOMAIN verbs[a.do] : verbs[a.do][i] = a.apply
        /\ a.delta # Nil => a.delta \in -100 .. 900
        /\ a.value # Nil => a.value \in -100 .. 100
        /\ a.do = "threshold" => a.delta # Nil
        /\ controlVerb(a.do) => a.to \notin {"", "*"}
        /\ a.do = "score" => a.to \in {"", "*"} /\ a.value \notin {Nil, 0}
        /\ a.counter # "" => a.do = "note"
        /\ checkMutateAsk(a.do, a.group, a.set)
        /\ checkPhaseAsk(a.do, a.phase, a.apply)
        /\ checkMarkAsk(a.do, a.to, a.marker)
        /\ checkAuditAsk(a.do, a.to, a.apply, a.set, secs, a.objects, words)
    BY ONLY Sent(a, given, ttl, secs, words), Zenon DEF Sent, AskOK
  <1>2. ~(a.do = "archive" /\ a.set = "on") => a.ttl = Nil /\ a.when = <<>>
    BY ONLY Sent(a, given, ttl, secs, words), Zenon DEF Sent
  <1>3. IF a.do = "mutate" THEN a.group # "" /\ a.set \in {"on", "off"} ELSE a.group = ""
    BY ONLY <1>1, Zenon DEF checkMutateAsk, NameOK
  <1>4. a.phase # "" => controlVerb(a.do) /\ (a.apply = "conn" => a.phase = "frame")
    BY ONLY <1>1, ZenonT(30) DEF checkPhaseAsk
  <1>5. IF a.do = "mark" THEN a.to \in {"", "*"} /\ a.marker # "" ELSE a.marker = ""
    BY ONLY <1>1, Zenon DEF checkMarkAsk, NameOK
  <1>6. /\ ~auditVerb(a.do) => a.objects = NoObjects /\ (a.set # "" => a.do = "mutate")
        /\ auditVerb(a.do) => /\ a.to \in {"", "*"} /\ a.set \in {"on", "off"}
                              /\ a.set = "off" => a.objects = NoObjects
                              /\ a.apply = "response" => a.objects.args = Nil
    BY ONLY <1>1, Sent(a, given, ttl, secs, words), ZenonT(30) DEF Sent, checkAuditAsk
  <1>7. NoObjects.args = Nil
    BY DEF NoObjects
  <1>8. a.apply \in Elements(verbs[a.do])
    BY ONLY <1>1, Zenon DEF Elements
  <1>9. ASSUME NEW f \in Carried(a), f \notin {"delta", "value"} PROVE f \in Of(Carries, a.do)
    <2>1. f \in {"group", "set", "counter", "phase", "marker", "ttl", "objects", "when"}
      BY ONLY <1>9, CarriedIs
    <2>2. CASE f = "group"
      <3>1. "group" \in Carried(a)
        BY ONLY <1>9, <2>2, Zenon
      <3>2. a.group # ""
        BY ONLY <3>1, CarriedIs, Zenon
      <3>3. a.do = "mutate"
        BY ONLY <1>3, <3>2, Zenon
      <3> QED BY ONLY <2>2, <3>3, Tables
    <2>3. CASE f = "set"
      <3>1. "set" \in Carried(a)
        BY ONLY <1>9, <2>3, Zenon
      <3>2. a.set # ""
        BY ONLY <3>1, CarriedIs, Zenon
      <3>3. a.do = "mutate" \/ auditVerb(a.do)
        BY ONLY <1>6, <3>2, Zenon
      <3> QED BY ONLY <2>3, <3>3, Tables DEF auditVerb
    <2>4. CASE f = "counter"
      <3>1. "counter" \in Carried(a)
        BY ONLY <1>9, <2>4, Zenon
      <3>2. a.counter # ""
        BY ONLY <3>1, CarriedIs, Zenon
      <3>3. a.do = "note"
        BY ONLY <1>1, <3>2, Zenon
      <3> QED BY ONLY <2>4, <3>3, Tables
    <2>5. CASE f = "phase"
      <3>1. "phase" \in Carried(a)
        BY ONLY <1>9, <2>5, Zenon
      <3>2. a.phase # ""
        BY ONLY <3>1, CarriedIs, Zenon
      <3>3. controlVerb(a.do)
        BY ONLY <1>4, <3>2, Zenon
      <3> QED BY ONLY <2>5, <3>3, Tables DEF controlVerb
    <2>6. CASE f = "marker"
      <3>1. "marker" \in Carried(a)
        BY ONLY <1>9, <2>6, Zenon
      <3>2. a.marker # ""
        BY ONLY <3>1, CarriedIs, Zenon
      <3>3. a.do = "mark"
        BY ONLY <1>5, <3>2, Zenon
      <3> QED BY ONLY <2>6, <3>3, Tables
    <2>7. CASE f = "ttl"
      <3>1. "ttl" \in Carried(a)
        BY ONLY <1>9, <2>7, Zenon
      <3>2. a.ttl # Nil
        BY ONLY <3>1, CarriedIs, Zenon
      <3>3. a.do = "archive"
        BY ONLY <1>2, <3>2, Zenon
      <3> QED BY ONLY <2>7, <3>3, Tables
    <2>8. CASE f = "objects"
      <3>1. "objects" \in Carried(a)
        BY ONLY <1>9, <2>8, Zenon
      <3>2. a.objects # NoObjects
        BY ONLY <3>1, CarriedIs, Zenon
      <3>3. auditVerb(a.do)
        BY ONLY <1>6, <3>2, Zenon
      <3> QED BY ONLY <2>8, <3>3, Tables DEF auditVerb
    <2>9. CASE f = "when"
      <3>1. "when" \in Carried(a)
        BY ONLY <1>9, <2>9, Zenon
      <3>2. a.when # <<>>
        BY ONLY <3>1, CarriedIs, Zenon
      <3>3. a.do = "archive"
        BY ONLY <1>2, <3>2, Zenon
      <3> QED BY ONLY <2>9, <3>3, Tables
    <2> QED BY ONLY <2>1, <2>2, <2>3, <2>4, <2>5, <2>6, <2>7, <2>8, <2>9, Zenon
  <1>10. ASSUME NEW f \in Of(Needs, a.do) PROVE f \in Carried(a)
    <2>1. a.do \in {"threshold", "mutate", "audit", "archive", "mark", "score"}
      BY ONLY <1>10, Tables, Zenon
    <2>2. a.set \in {"on", "off"} => a.set # ""
      BY ONLY Zenon
    <2>3. CASE a.do = "threshold"
      <3>1. "delta" \in Carried(a)
        BY ONLY <1>1, <2>3, IsCarried, Zenon
      <3> QED BY ONLY <1>10, <2>3, <3>1, Tables
    <2>4. CASE a.do = "mutate"
      <3>1. "group" \in Carried(a) /\ "set" \in Carried(a)
        BY ONLY <1>3, <2>2, <2>4, IsCarried, Zenon
      <3> QED BY ONLY <1>10, <2>4, <3>1, Tables
    <2>5. CASE a.do = "audit" \/ a.do = "archive"
      <3>1. auditVerb(a.do)
        BY ONLY <2>5, Zenon DEF auditVerb
      <3>2. "set" \in Carried(a)
        BY ONLY <1>6, <2>2, <3>1, IsCarried, Zenon
      <3> QED BY ONLY <1>10, <2>5, <3>2, Tables
    <2>6. CASE a.do = "mark"
      <3>1. "marker" \in Carried(a)
        BY ONLY <1>5, <2>6, IsCarried, Zenon
      <3> QED BY ONLY <1>10, <2>6, <3>1, Tables
    <2>7. CASE a.do = "score"
      <3>1. "value" \in Carried(a)
        BY ONLY <1>1, <2>7, IsCarried, Zenon
      <3> QED BY ONLY <1>10, <2>7, <3>1, Tables
    <2> QED BY ONLY <2>1, <2>3, <2>4, <2>5, <2>6, <2>7, Zenon
  <1>11. recordVerb(a.do) => a.to \in {"", "*"}
    BY ONLY <1>1, <1>5, <1>6, ZenonT(30) DEF recordVerb
  <1>12. a.set = "off" /\ auditVerb(a.do) => Carried(a) \cap {"objects", "ttl", "when"} = {}
    <2>1. "on" # "off"
      OBVIOUS
    <2>2. a.set = "off" /\ auditVerb(a.do) => a.objects = NoObjects /\ a.ttl = Nil /\ a.when = <<>>
      BY ONLY <1>2, <1>6, <2>1, Zenon
    <2>3. a.set = "off" /\ auditVerb(a.do) =>
            "objects" \notin Carried(a) /\ "ttl" \notin Carried(a) /\ "when" \notin Carried(a)
      BY ONLY <2>2, CarriedIs, Zenon
    <2> QED BY ONLY <2>3, Zenon
  <1>13. a.set \in {"", "on", "off"}
    BY ONLY <1>3, <1>6, Zenon
  <1>14. a.apply = "response" => a.objects.args = Nil
    BY ONLY <1>6, <1>7, Zenon
  <1> QED BY ONLY <1>1, <1>4, <1>8, <1>9, <1>10, <1>11, <1>12, <1>13, <1>14, Zenon DEF Well

(* Every action a profile can send is one that the module it is for        *)
(* understands (normalizeRule, the check functions, action).               *)
THEOREM WellFormed == Spec => []ActionsWellFormed
  <1>1. DocShaped => ActionsWellFormed
    <2> SUFFICES ASSUME DocShaped, ruleOK(Asked) PROVE ActionsWellFormed
      BY Zenon DEF ActionsWellFormed
    <2>0. PICK a : a = action(Asked)
      BY Zenon
    <2>1. PICK ask : ask = doc.ask
      BY Zenon
    <2>2. AskOf(ask, ruleTTL(ask)) /\ a = wireAction(ask, ruleApply(ask), ruleTTL(ask))
      BY <2>0, <2>1, AskedOK, Zenon
    <2>3. Sent(a, Lower(ask.apply), ask.ttl, ruleTTL(ask), ask.when)
      BY ONLY <2>2, AskSent, Zenon
    <2>4. Well(a)
      BY ONLY <2>3, SentWell, Zenon
    <2>5. Well(action(Asked))
      BY ONLY <2>0, <2>4, Zenon
    <2> QED BY ONLY <2>5, Zenon DEF ActionsWellFormed, Well
  <1> QED BY <1>1, Shape, PTL
=============================================================================
