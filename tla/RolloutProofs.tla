--------------------------- MODULE RolloutProofs ----------------------------
(***************************************************************************)
(* Proofs about Rollout, for any packs, any number of reloading goroutines *)
(* and any bounds: generations reach the disk in order, the generation the *)
(* presence frame names is the one in place between two entries, and a     *)
(* snapshot that carries the fingerprint of the tree in place is made of   *)
(* that tree alone.                                                        *)
(***************************************************************************)
EXTENDS Rollout, TLAPS

Revision == [rev : Nat, pack : Packs \cup {BootPack}]

LoadPCs == {"idle", "compare", "build", "policy", "geo", "recheck", "store", "ok", "error"}
LoadType == [pc : LoadPCs, at : {"boot", "live"}, fp : Nat, policy : Nat, geo : Nat]

WatchPCs == {"off", "idle", "handle", "park", "promote", "reload", "restore", "restored",
             "sync"}
WatchType(n) == [pc : WatchPCs, hand : 0 .. n, seen : 0 .. n, pending : 0 .. n]

DiskType(n) == [boot : 0 .. n, live : 0 .. n, next : 0 .. n, prev : 0 .. n]
AppliedType == [rev : Nat, apply : {"", "ok", "failed"}]

TypeOK ==
    /\ kv \in Seq(Revision)
    /\ trees \in Seq(Revision)
    /\ disk \in DiskType(Len(trees))
    /\ main \in {"down", "loaded", "watching", "read", "serving"}
    /\ cur \in [policy : Nat, geo : Nat, fp : Nat]
    /\ paths \in {"boot", "live"}
    /\ load \in [Threads -> LoadType]
    /\ watch \in WatchType(Len(kv))
    /\ watch.pc \in {"off", "idle"} <=> watch.hand = 0
    /\ applied \in AppliedType

(* The controller's puts have revisions that start at 1 and never go down. *)
PutsInOrder ==
    /\ \A i \in 1 .. Len(kv) : kv[i].rev >= 1
    /\ \A i, j \in 1 .. Len(kv) : i <= j => kv[i].rev <= kv[j].rev

(* Every tree was written by hand or from a revision up to r.              *)
UpTo(r) == \A i \in 1 .. Len(trees) : trees[i].rev <= r

(* The watcher holds the last entry it saw or none, an entry waits for its *)
(* retry only while none is in hand, and no tree is newer than the entry   *)
(* in hand, the entry that waits, or the entry the watcher will see next.  *)
WatcherInOrder ==
    /\ UpTo(LastRev)
    /\ main \in {"down", "loaded"} <=> watch.pc = "off"
    /\ watch.pc = "off" => watch.pending = 0
    /\ watch.pc # "off" /\ watch.seen < Len(kv) => UpTo(kv[watch.seen + 1].rev)
    /\ watch.hand # 0 =>
         watch.hand = watch.seen /\ watch.pending = 0 /\ UpTo(kv[watch.hand].rev)
    /\ watch.pending # 0 =>
         watch.pending = watch.seen /\ UpTo(kv[watch.pending].rev)

OrderInv == PutsInOrder /\ WatcherInOrder /\ InOrder

(* Directory n holds the tree of revision r.                               *)
Holds(n, r) == n # 0 /\ trees[n].rev = r

(* Where the applied generation is, at each step of handle and Apply: in   *)
(* place, or parked while the next one is tried.                           *)
AppliedPlace ==
    applied.rev # 0 =>
      /\ paths = "live"
      /\ watch.pc \in {"idle", "handle", "park", "restored"} => Holds(disk.live, applied.rev)
      /\ watch.pc \in {"promote", "reload", "restore"} => Holds(disk.prev, applied.rev)
      /\ watch.pc \in {"idle", "handle", "park", "restored"} => disk.prev = 0
      /\ watch.pc \in {"idle", "handle"} => disk.next = 0

(* Where the generation in hand is.                                        *)
HandPlace ==
    /\ watch.pc \in {"park", "promote"} => Holds(disk.next, Hand.rev)
    /\ watch.pc \in {"reload", "sync"} => Holds(disk.live, Hand.rev)
    /\ watch.pc \in {"reload", "restore", "restored", "sync"} => disk.next = 0
    /\ watch.pc = "sync" => paths = "live" /\ disk.prev = 0
    /\ watch.pc = "off" => applied.rev = 0
    /\ load[Desired].pc # "idle" => watch.pc \in {"reload", "restored"}

PlaceInv == AppliedPlace /\ HandPlace
-----------------------------------------------------------------------------
(* For the fingerprints, when no tree is ever put back: what a tree is for *)
(* can be told from its revision, 0 for the bootstrap tree and its edits;  *)
(* the staged tree is one nobody has read; the watcher's reload succeeds.  *)
NothingPutBack == (\A p \in Packs : p.kind # "bad") /\ MaxErrors = 0

HonestPlaces ==
    /\ disk.boot # 0 /\ trees[disk.boot].rev = 0
    /\ disk.live # 0 => trees[disk.live].rev # 0 /\ trees[disk.live].pack.kind = "ok"
    /\ disk.next # 0 => trees[disk.next].rev # 0 /\ trees[disk.next].pack.kind = "ok"
    /\ disk.next # 0 => disk.live # disk.next
    /\ watch.pc \notin {"restore", "restored"}
    /\ load[Desired].pc # "error"
    /\ load[Desired].pc \notin {"idle", "ok"} => load[Desired].at = "live"
    /\ errors = 0

(* A directory's part of the trees.                                        *)
For(dir, n) == IF dir = "boot" THEN trees[n].rev = 0 ELSE trees[n].rev # 0

Stamped(t) == load[t].pc \in {"policy", "geo", "recheck", "store"}

HonestLoad(t) ==
    Stamped(t) =>
      /\ load[t].fp \in 1 .. Len(trees)
      /\ For(load[t].at, load[t].fp)
      /\ load[t].fp # disk.next
      /\ load[t].fp = disk[load[t].at] =>
           /\ load[t].pc \in {"geo", "recheck", "store"} => load[t].policy = load[t].fp
           /\ load[t].pc \in {"recheck", "store"} => load[t].geo = load[t].fp

HonestLoads == \A t \in Threads : HonestLoad(t)

HonestCur ==
    cur.fp # 0 =>
      /\ cur.fp \in 1 .. Len(trees)
      /\ cur.fp # disk.next
      /\ cur.fp \in {disk.boot, disk.live} => cur = Whole(cur.fp)

HonestInv == HonestPlaces /\ HonestLoads /\ HonestCur
-----------------------------------------------------------------------------
(* The steps of Store.reload, for one goroutine.                           *)
ReloadStep(t) == Reload(t) \/ Compare(t) \/ BuildStamp(t) \/ BuildPolicy(t)
                   \/ BuildGeo(t) \/ Recheck(t) \/ Store(t)

(* An entry at the end of a log changes no other entry.                    *)
LEMMA Appended ==
  ASSUME NEW S, NEW s \in Seq(S), NEW x \in S
  PROVE  /\ Append(s, x) \in Seq(S) /\ Len(Append(s, x)) = Len(s) + 1 /\ Len(s) \in Nat
         /\ \A i \in 1 .. Len(s) : Append(s, x)[i] = s[i]
         /\ Append(s, x)[Len(s) + 1] = x
OBVIOUS

(* The directories of a tree.                                              *)
LEMMA TreeType ==
  ASSUME TypeOK
  PROVE  /\ \A dir \in {"boot", "live"} : disk[dir] \in 0 .. Len(trees)
         /\ Len(trees) \in Nat /\ Len(kv) \in Nat
<1>1. disk \in DiskType(Len(trees))
  BY DEF TypeOK
<1>2. trees \in Seq(Revision) /\ kv \in Seq(Revision)
  BY DEF TypeOK
<1>3. Len(trees) \in Nat /\ Len(kv) \in Nat
  BY ONLY <1>2
<1> QED BY ONLY <1>1, <1>3 DEF DiskType

(* A step that only moves on.                                              *)
LEMMA GotoFields ==
  ASSUME NEW t \in Threads, load \in [Threads -> LoadType], NEW pc \in LoadPCs, Goto(t, pc)
  PROVE  /\ load' = [load EXCEPT ![t] = load'[t]] /\ load'[t] \in LoadType
         /\ load'[t].pc = pc /\ load'[t].at = load[t].at /\ load'[t].fp = load[t].fp
         /\ load'[t].policy = load[t].policy /\ load'[t].geo = load[t].geo
<1>1. load'[t] = [load[t] EXCEPT !.pc = pc] /\ load' = [load EXCEPT ![t] = load'[t]]
  BY DEF Goto
<1>2. load[t] \in LoadType
  OBVIOUS
<1> QED BY ONLY <1>1, <1>2, pc \in LoadPCs, Zenon DEF LoadType

(* The beginning of a reload ...                                           *)
LEMMA BeginFields ==
  ASSUME NEW t \in Threads, load \in [Threads -> LoadType], NEW dir \in {"boot", "live"},
         load' = [load EXCEPT ![t] = [Idle EXCEPT !.pc = "compare", !.at = dir]]
  PROVE  /\ load' = [load EXCEPT ![t] = load'[t]] /\ load'[t] \in LoadType
         /\ load'[t].pc = "compare" /\ load'[t].at = dir
<1>1. load'[t] = [Idle EXCEPT !.pc = "compare", !.at = dir] /\ load' = [load EXCEPT ![t] = load'[t]]
  BY Zenon
<1>2. Idle \in LoadType
  BY DEF Idle, LoadType, LoadPCs
<1> QED BY ONLY <1>1, <1>2, dir \in {"boot", "live"}, Zenon DEF LoadType, LoadPCs

(* ... and its end.                                                        *)
LEMMA EndsFields ==
  ASSUME NEW t \in Threads, load \in [Threads -> LoadType], NEW ok \in BOOLEAN, Ends(t, ok)
  PROVE  /\ load' = [load EXCEPT ![t] = load'[t]] /\ load'[t] \in LoadType
         /\ load'[t].pc \in {"idle", "ok", "error"}
         /\ t # Desired => load'[t].pc = "idle"
         /\ ok => load'[t].pc # "error"
<1>1. load'[t] = [pc |-> IF t # Desired THEN "idle" ELSE IF ok THEN "ok" ELSE "error",
                  at |-> "boot", fp |-> 0, policy |-> 0, geo |-> 0]
      /\ load' = [load EXCEPT ![t] = load'[t]]
  BY DEF Ends, Idle
<1> QED BY <1>1 DEF LoadType, LoadPCs

(* The three steps of build.                                               *)
LEMMA BuildFields ==
  ASSUME NEW t \in Threads, load \in [Threads -> LoadType], NEW n \in Nat
  PROVE  /\ load' = [load EXCEPT ![t].pc = "policy", ![t].fp = n] =>
              /\ load' = [load EXCEPT ![t] = load'[t]] /\ load'[t] \in LoadType
              /\ load'[t].pc = "policy" /\ load'[t].at = load[t].at /\ load'[t].fp = n
         /\ load' = [load EXCEPT ![t].pc = "geo", ![t].policy = n] =>
              /\ load' = [load EXCEPT ![t] = load'[t]] /\ load'[t] \in LoadType
              /\ load'[t].pc = "geo" /\ load'[t].at = load[t].at /\ load'[t].fp = load[t].fp
              /\ load'[t].policy = n
         /\ load' = [load EXCEPT ![t].pc = "recheck", ![t].geo = n] =>
              /\ load' = [load EXCEPT ![t] = load'[t]] /\ load'[t] \in LoadType
              /\ load'[t].pc = "recheck" /\ load'[t].at = load[t].at /\ load'[t].fp = load[t].fp
              /\ load'[t].policy = load[t].policy /\ load'[t].geo = n
<1>1. load[t] \in LoadType
  OBVIOUS
<1>2. ASSUME load' = [load EXCEPT ![t].pc = "policy", ![t].fp = n]
      PROVE  load'[t] = [load[t] EXCEPT !.pc = "policy", !.fp = n] /\ load' = [load EXCEPT ![t] = load'[t]]
  BY <1>2, Zenon
<1>3. ASSUME load' = [load EXCEPT ![t].pc = "geo", ![t].policy = n]
      PROVE  load'[t] = [load[t] EXCEPT !.pc = "geo", !.policy = n] /\ load' = [load EXCEPT ![t] = load'[t]]
  BY <1>3, Zenon
<1>4. ASSUME load' = [load EXCEPT ![t].pc = "recheck", ![t].geo = n]
      PROVE  load'[t] = [load[t] EXCEPT !.pc = "recheck", !.geo = n] /\ load' = [load EXCEPT ![t] = load'[t]]
  BY <1>4, Zenon
<1> QED BY ONLY <1>1, <1>2, <1>3, <1>4, n \in Nat, Zenon DEF LoadType, LoadPCs

(* What the process knows when it starts.                                  *)
LEMMA BlankTypes ==
  /\ Idle \in LoadType /\ NotApplied \in AppliedType /\ NotApplied.rev = 0
  /\ NoSnapshot \in [policy : Nat, geo : Nat, fp : Nat]
<1>1. Idle \in LoadType
  BY DEF Idle, LoadType, LoadPCs
<1>2. NotApplied \in AppliedType /\ NotApplied.rev = 0
  BY Zenon DEF NotApplied, AppliedType
<1>3. NoSnapshot \in [policy : Nat, geo : Nat, fp : Nat]
  BY DEF NoSnapshot
<1> QED BY <1>1, <1>2, <1>3

(* The types hold initially.                                               *)
LEMMA InitType == Init => TypeOK
<1> SUFFICES ASSUME Init PROVE TypeOK
  OBVIOUS
<1>1. kv \in Seq(Revision) /\ trees \in Seq(Revision) /\ Len(trees) = 1 /\ Len(kv) = 0
  BY DEF Init, Revision
<1>2. load \in [Threads -> LoadType]
  BY DEF Init, Idle, LoadType, LoadPCs
<1>3. disk \in DiskType(Len(trees))
  BY <1>1 DEF Init, DiskType
<1>4. watch \in WatchType(Len(kv))
  BY <1>1 DEF Init, NoWatch, WatchPCs, WatchType
<1>5. watch.pc = "off" /\ watch.hand = 0
  BY DEF Init, NoWatch
<1> QED BY <1>1, <1>2, <1>3, <1>4, <1>5, BlankTypes, Zenon DEF Init, TypeOK

(* A reload touches its goroutine's record and, at its end, the snapshot.  *)
LEMMA ReloadFrame ==
  ASSUME TypeOK, NEW t \in Threads, ReloadStep(t)
  PROVE  /\ UNCHANGED <<kv, trees, disk, main, paths, watch, applied, errors>>
         /\ load' = [load EXCEPT ![t] = load'[t]] /\ load'[t] \in LoadType
         /\ cur' \in [policy : Nat, geo : Nat, fp : Nat]
<1>1. load \in [Threads -> LoadType] /\ load[t] \in LoadType /\ paths \in {"boot", "live"}
      /\ cur \in [policy : Nat, geo : Nat, fp : Nat]
  BY DEF TypeOK
<1>2. Tree(t) \in Nat
  BY <1>1, TreeType DEF Tree, LoadType
<1>3. load[t].policy \in Nat /\ load[t].geo \in Nat /\ load[t].fp \in Nat
  BY <1>1 DEF LoadType
<1>4. UNCHANGED <<kv, trees, disk, main, paths, watch, applied, errors>>
  BY Zenon DEF ReloadStep, Reload, Compare, BuildStamp, BuildPolicy, BuildGeo, Recheck, Store, disks
<1>5. cur' \in [policy : Nat, geo : Nat, fp : Nat]
  <2>1. CASE Store(t)
    BY <1>3, <2>1 DEF Store
  <2>2. CASE ~Store(t)
    BY <1>1, <2>2, Zenon DEF ReloadStep, Reload, Compare, BuildStamp, BuildPolicy, BuildGeo, Recheck
  <2> QED BY <2>1, <2>2
<1>6. load' = [load EXCEPT ![t] = load'[t]] /\ load'[t] \in LoadType
  <2>1. CASE Reload(t)
    BY <1>1, <2>1, BeginFields, Zenon DEF Reload
  <2>2. CASE Compare(t)
    <3>1. Ends(t, FALSE) \/ Ends(t, TRUE) \/ Goto(t, "build")
      BY <2>2, Zenon DEF Compare
    <3> QED BY <1>1, <3>1, EndsFields, GotoFields, Zenon DEF LoadPCs
  <2>3. CASE BuildStamp(t)
    BY <1>1, <1>2, <2>3, EndsFields, BuildFields, Zenon DEF BuildStamp
  <2>4. CASE BuildPolicy(t)
    BY <1>1, <1>2, <2>4, EndsFields, BuildFields, Zenon DEF BuildPolicy
  <2>5. CASE BuildGeo(t)
    BY <1>1, <1>2, <2>5, EndsFields, BuildFields, Zenon DEF BuildGeo
  <2>6. CASE Recheck(t)
    BY <1>1, <2>6, EndsFields, GotoFields, Zenon DEF Recheck, LoadPCs
  <2>7. CASE Store(t)
    BY <1>1, <2>7, EndsFields, Zenon DEF Store
  <2> QED BY <2>1, <2>2, <2>3, <2>4, <2>5, <2>6, <2>7 DEF ReloadStep
<1> QED BY <1>4, <1>5, <1>6

(* A step of the watcher changes its place, the end of an entry also lets  *)
(* the entry go, and a failure leaves the applied revision.                *)
LEMMA WatchFields ==
  ASSUME NEW n \in Nat, watch \in WatchType(n)
  PROVE  /\ \A pc \in WatchPCs : Step(pc) =>
              /\ watch' \in WatchType(n) /\ watch'.pc = pc /\ watch'.hand = watch.hand
              /\ watch'.seen = watch.seen /\ watch'.pending = watch.pending
         /\ Done => /\ watch' \in WatchType(n) /\ watch'.pc = "idle" /\ watch'.hand = 0
                    /\ watch'.seen = watch.seen /\ watch'.pending = watch.pending
         /\ \A h \in 0 .. n : watch' = [watch EXCEPT !.pc = "idle", !.hand = 0, !.pending = h] =>
              /\ watch' \in WatchType(n) /\ watch'.pc = "idle" /\ watch'.hand = 0
              /\ watch'.seen = watch.seen /\ watch'.pending = h
         /\ \A h \in 0 .. n : watch' = [watch EXCEPT !.pc = "handle", !.hand = h, !.pending = 0] =>
              /\ watch' \in WatchType(n) /\ watch'.pc = "handle" /\ watch'.hand = h
              /\ watch'.seen = watch.seen /\ watch'.pending = 0
<1>0. 0 \in 0 .. n
  OBVIOUS
<1>1. \A pc \in WatchPCs : Step(pc) =>
              /\ watch' \in WatchType(n) /\ watch'.pc = pc /\ watch'.hand = watch.hand
              /\ watch'.seen = watch.seen /\ watch'.pending = watch.pending
  BY DEF Step, WatchType
<1>2. Done => /\ watch' \in WatchType(n) /\ watch'.pc = "idle" /\ watch'.hand = 0
              /\ watch'.seen = watch.seen /\ watch'.pending = watch.pending
  BY <1>0, Zenon DEF Done, WatchType, WatchPCs
<1>3. ASSUME NEW h \in 0 .. n, watch' = [watch EXCEPT !.pc = "idle", !.hand = 0, !.pending = h]
      PROVE  /\ watch' \in WatchType(n) /\ watch'.pc = "idle" /\ watch'.hand = 0
             /\ watch'.seen = watch.seen /\ watch'.pending = h
  BY <1>0, <1>3, Zenon DEF WatchType, WatchPCs
<1>4. ASSUME NEW h \in 0 .. n, watch' = [watch EXCEPT !.pc = "handle", !.hand = h, !.pending = 0]
      PROVE  /\ watch' \in WatchType(n) /\ watch'.pc = "handle" /\ watch'.hand = h
             /\ watch'.seen = watch.seen /\ watch'.pending = 0
  BY <1>0, <1>4, Zenon DEF WatchType, WatchPCs
<1> QED BY <1>1, <1>2, <1>3, <1>4, Zenon

(* The first entry of a watcher that starts is the last one put.           *)
LEMMA StartFields ==
  ASSUME NEW n \in Nat, NEW k \in 0 .. n, watch' = [NoWatch EXCEPT !.pc = "idle", !.seen = k]
  PROVE  /\ watch' \in WatchType(n) /\ watch'.pc = "idle" /\ watch'.hand = 0
         /\ watch'.seen = k /\ watch'.pending = 0
<1>1. NoWatch \in WatchType(n) /\ NoWatch.hand = 0 /\ NoWatch.pending = 0
  BY DEF NoWatch, WatchType, WatchPCs
<1> QED BY <1>1, Zenon DEF WatchType, WatchPCs

(* A failing entry leaves the applied revision.                            *)
LEMMA FailsFields ==
  ASSUME applied \in AppliedType, Fails
  PROVE  applied' \in AppliedType /\ applied'.rev = applied.rev
BY Zenon DEF Fails, AppliedType

(* The renames and removals of Apply.                                      *)
LEMMA DiskFields ==
  ASSUME NEW n \in Nat, disk \in DiskType(n), NEW m \in 0 .. n
  PROVE  /\ disk' = [disk EXCEPT !.boot = m] =>
              /\ disk' \in DiskType(n)
              /\ disk'.boot = m /\ UNCHANGED <<disk.live, disk.next, disk.prev>>
         /\ disk' = [disk EXCEPT !.next = m, !.prev = 0] =>
              /\ disk' \in DiskType(n)
              /\ disk'.next = m /\ disk'.prev = 0 /\ UNCHANGED <<disk.live, disk.boot>>
         /\ disk' = [disk EXCEPT !.next = 0, !.live = disk.prev, !.prev = 0] =>
              /\ disk' \in DiskType(n)
              /\ disk'.next = 0 /\ disk'.live = disk.prev /\ disk'.prev = 0 /\ UNCHANGED disk.boot
         /\ disk' = [disk EXCEPT !.next = 0] =>
              /\ disk' \in DiskType(n)
              /\ disk'.next = 0 /\ UNCHANGED <<disk.live, disk.boot, disk.prev>>
         /\ disk' = [disk EXCEPT !.prev = disk.live, !.live = 0] =>
              /\ disk' \in DiskType(n)
              /\ disk'.prev = disk.live /\ disk'.live = 0 /\ UNCHANGED <<disk.next, disk.boot>>
         /\ disk' = [disk EXCEPT !.live = disk.next, !.next = 0] =>
              /\ disk' \in DiskType(n)
              /\ disk'.live = disk.next /\ disk'.next = 0 /\ UNCHANGED <<disk.prev, disk.boot>>
         /\ disk' = [disk EXCEPT !.prev = 0] =>
              /\ disk' \in DiskType(n)
              /\ disk'.prev = 0 /\ UNCHANGED <<disk.live, disk.next, disk.boot>>
         /\ disk' = [disk EXCEPT !.live = 0] =>
              /\ disk' \in DiskType(n)
              /\ disk'.live = 0 /\ UNCHANGED <<disk.prev, disk.next, disk.boot>>
         /\ disk' = [disk EXCEPT !.live = disk.prev, !.prev = 0] =>
              /\ disk' \in DiskType(n)
              /\ disk'.live = disk.prev /\ disk'.prev = 0 /\ UNCHANGED <<disk.next, disk.boot>>
<1>1. 0 \in 0 .. n
  OBVIOUS
<1> QED BY ONLY <1>1, disk \in DiskType(n), m \in 0 .. n, Zenon DEF DiskType

(* Every step of Rollout keeps the types.                                  *)
LEMMA NextType == TypeOK /\ [Next]_vars => TypeOK'
<1> SUFFICES ASSUME TypeOK, [Next]_vars PROVE TypeOK'
  OBVIOUS
<1>n. Len(trees) \in Nat /\ Len(kv) \in Nat
  BY TreeType
<1>t. /\ kv \in Seq(Revision) /\ trees \in Seq(Revision) /\ disk \in DiskType(Len(trees))
      /\ load \in [Threads -> LoadType] /\ watch \in WatchType(Len(kv))
      /\ applied \in AppliedType
      /\ Desired \in Threads
  BY DEF TypeOK, Threads
<1>d. disk.live \in 0 .. Len(trees) /\ disk.boot \in 0 .. Len(trees)
  BY <1>t DEF DiskType
<1>w. watch.hand \in 0 .. Len(kv) /\ watch.seen \in 0 .. Len(kv) /\ watch.pending \in 0 .. Len(kv)
  BY <1>t DEF WatchType
<1>1. CASE Put
  <2>a. kv # <<>> => kv[Len(kv)] \in Revision
    BY ONLY <1>t
  <2>b. LastRev \in Nat
    BY ONLY <2>a DEF LastRev, Revision
  <2>c. \A p \in Packs : [rev |-> LastRev + 1, pack |-> p] \in Revision
    BY ONLY <2>b DEF Revision
  <2>1. PICK r \in Revision : kv' = Append(kv, r)
    BY <1>1, <2>a, <2>c, Zenon DEF Put
  <2>2. kv' \in Seq(Revision) /\ Len(kv') = Len(kv) + 1
    BY <1>t, <2>1, Appended
  <2>3. watch \in WatchType(Len(kv'))
    BY <1>n, <1>t, <2>2 DEF WatchType
  <2> QED BY <1>1, <2>2, <2>3 DEF Put, TypeOK
<1>2. CASE Edit
  <2>1. PICK r \in Revision : trees' = Append(trees, r)
    BY <1>2 DEF Edit, Revision
  <2>2. trees' \in Seq(Revision) /\ Len(trees') = Len(trees) + 1
    BY <1>t, <2>1, Appended
  <2>3. disk \in DiskType(Len(trees')) /\ Len(trees') \in Nat /\ Len(trees') \in 0 .. Len(trees')
    BY <1>n, <1>t, <2>2 DEF DiskType
  <2>4. disk' \in DiskType(Len(trees'))
    BY <1>2, <2>3, DiskFields, Zenon DEF Edit
  <2> QED BY <1>2, <2>2, <2>4 DEF Edit, TypeOK
<1>3. CASE Load
  BY <1>3, <1>d, <1>n DEF Load, disks, TypeOK, Whole
<1>4. CASE Bootstrap
  <2>1. (IF kv = <<>> THEN 0 ELSE Len(kv) - 1) \in 0 .. Len(kv)
    BY ONLY <1>t
  <2>2. watch' \in WatchType(Len(kv)) /\ watch'.pc = "idle" /\ watch'.hand = 0
    BY <1>4, <1>n, <2>1, StartFields, Zenon DEF Bootstrap
  <2>3. cur' \in [policy : Nat, geo : Nat, fp : Nat] /\ paths' \in {"boot", "live"}
    BY <1>4, <1>d, <1>n DEF Bootstrap, TypeOK, Whole
  <2> QED BY <1>4, <2>2, <2>3, Zenon DEF Bootstrap, disks, TypeOK
<1>5. CASE ReadCurrent \/ SyncCurrent
  BY <1>5 DEF ReadCurrent, SyncCurrent, disks, TypeOK
<1>6. CASE Crash
  <2>1. Idle \in LoadType
    BY BlankTypes
  <2>2. NoWatch \in WatchType(Len(kv)) /\ NoWatch.pc = "off" /\ NoWatch.hand = 0
    BY <1>n DEF NoWatch, WatchType, WatchPCs
  <2>3. NotApplied \in AppliedType /\ NoSnapshot \in [policy : Nat, geo : Nat, fp : Nat]
    BY BlankTypes
  <2> QED BY <1>6, <2>1, <2>2, <2>3 DEF Crash, disks, TypeOK
<1>7. ASSUME NEW t \in Threads, ReloadStep(t) PROVE TypeOK'
  <2>1. load' \in [Threads -> LoadType]
    BY <1>7, <1>t, ReloadFrame, Zenon
  <2> QED BY <1>7, <2>1, ReloadFrame, Zenon DEF TypeOK
<1>8. CASE Deliver
  <2>1. watch' \in WatchType(Len(kv)) /\ watch'.pc = "handle" /\ watch'.hand # 0
    BY <1>8, <1>n, <1>w DEF Deliver, WatchType, WatchPCs
  <2> QED BY <1>8, <2>1, Zenon DEF Deliver, disks, TypeOK
<1>9. CASE Retry
  BY <1>8, <1>9, <1>n, <1>t, <1>w, WatchFields, Zenon DEF Retry, disks, TypeOK
<1>10. CASE HandleReturns
  BY <1>10, <1>n, <1>t, WatchFields, FailsFields, Zenon DEF HandleReturns, disks, TypeOK
<1>11. CASE FetchFails
  BY <1>11, <1>n, <1>t, <1>w, WatchFields, FailsFields, Zenon DEF FetchFails, disks, TypeOK
<1>12. CASE Stage
  <2>1. Hand \in Revision
    BY <1>12, <1>t, <1>w, <1>n DEF Stage, Handled, At, Hand, TypeOK
  <2>2. trees' \in Seq(Revision) /\ Len(trees') = Len(trees) + 1
    BY <1>12, <1>t, <2>1, Appended DEF Stage, Written
  <2>3. disk \in DiskType(Len(trees')) /\ Len(trees') \in Nat /\ Len(trees') \in 0 .. Len(trees')
    BY <1>n, <1>t, <2>2 DEF DiskType
  <2>4. disk' \in DiskType(Len(trees'))
    BY <1>12, <2>3, DiskFields, Zenon DEF Stage
  <2>5. Step("park") /\ "park" \in WatchPCs
    BY <1>12 DEF Stage, WatchPCs
  <2>6. watch' \in WatchType(Len(kv)) /\ watch'.pc = "park" /\ watch'.hand = watch.hand
    BY <1>n, <1>t, <2>5, WatchFields, Zenon
  <2>7. watch.pc = "handle"
    BY <1>12 DEF Stage, Handled, At
  <2> QED BY <1>12, <2>2, <2>4, <2>6, <2>7, Zenon DEF Stage, TypeOK
<1>13. CASE StageFails
  <2>1. disk' \in DiskType(Len(trees))
    BY <1>13, <1>n, <1>t, <1>d, DiskFields, Zenon DEF StageFails
  <2> QED BY <1>13, <1>n, <1>t, <2>1, WatchFields, FailsFields, Zenon DEF StageFails, TypeOK
<1>14. CASE Park
  <2>1. disk' \in DiskType(Len(trees)) /\ Step("promote") /\ "promote" \in WatchPCs
    BY <1>14, <1>n, <1>t, <1>d, DiskFields, Zenon DEF Park, WatchPCs
  <2>2. watch' \in WatchType(Len(kv)) /\ watch'.pc = "promote" /\ watch'.hand = watch.hand
    BY <1>n, <1>t, <2>1, WatchFields, Zenon
  <2> QED BY <1>14, <2>1, <2>2, Zenon DEF Park, At, TypeOK
<1>15. CASE Promote
  <2>1. disk' \in DiskType(Len(trees)) /\ Step("reload") /\ "reload" \in WatchPCs
    BY <1>15, <1>n, <1>t, <1>d, DiskFields, Zenon DEF Promote, WatchPCs
  <2>2. watch' \in WatchType(Len(kv)) /\ watch'.pc = "reload" /\ watch'.hand = watch.hand
    BY <1>n, <1>t, <2>1, WatchFields, Zenon
  <2>3. load' \in [Threads -> LoadType]
    BY <1>15, <1>t, BeginFields, Zenon DEF Promote
  <2> QED BY <1>15, <2>1, <2>2, <2>3, Zenon DEF Promote, At, TypeOK
<1>i. Idle \in LoadType
  BY BlankTypes
<1>16. CASE Adopt
  <2>1. disk' \in DiskType(Len(trees)) /\ Step("sync") /\ "sync" \in WatchPCs
    BY <1>16, <1>n, <1>t, <1>d, DiskFields, Zenon DEF Adopt, WatchPCs
  <2>2. watch' \in WatchType(Len(kv)) /\ watch'.pc = "sync" /\ watch'.hand = watch.hand
    BY <1>n, <1>t, <2>1, WatchFields, Zenon
  <2>3. load' \in [Threads -> LoadType]
    BY <1>16, <1>t, <1>i, Zenon DEF Adopt
  <2> QED BY <1>16, <2>1, <2>2, <2>3, Zenon DEF Adopt, TypeOK
<1>17. CASE Discard
  <2>1. disk' \in DiskType(Len(trees)) /\ Step("restore") /\ "restore" \in WatchPCs
    BY <1>17, <1>n, <1>t, <1>d, DiskFields, Zenon DEF Discard, WatchPCs
  <2>2. watch' \in WatchType(Len(kv)) /\ watch'.pc = "restore" /\ watch'.hand = watch.hand
    BY <1>n, <1>t, <2>1, WatchFields, Zenon
  <2>3. load' \in [Threads -> LoadType]
    BY <1>17, <1>t, <1>i, Zenon DEF Discard
  <2> QED BY <1>17, <2>1, <2>2, <2>3, Zenon DEF Discard, TypeOK
<1>18. CASE Restore /\ disk.prev # 0
  <2>1. disk' \in DiskType(Len(trees)) /\ Step("restored") /\ "restored" \in WatchPCs
    BY <1>18, <1>n, <1>t, <1>d, DiskFields, Zenon DEF Restore, WatchPCs
  <2>2. watch' \in WatchType(Len(kv)) /\ watch'.pc = "restored" /\ watch'.hand = watch.hand
    BY <1>n, <1>t, <2>1, WatchFields, Zenon
  <2>3. load' \in [Threads -> LoadType]
    BY <1>18, <1>t, BeginFields, Zenon DEF Restore
  <2> QED BY <1>18, <2>1, <2>2, <2>3, Zenon DEF Restore, At, TypeOK
<1>19. CASE Restore /\ disk.prev = 0
  BY <1>19, <1>n, <1>t, WatchFields, FailsFields, Zenon DEF Restore, TypeOK
<1>20. CASE RestoreEnds
  <2>1. load' \in [Threads -> LoadType]
    BY <1>20, <1>t, <1>i, Zenon DEF RestoreEnds
  <2>2. paths' \in {"boot", "live"}
    BY <1>20 DEF RestoreEnds, TypeOK
  <2> QED BY <1>20, <1>n, <1>t, <2>1, <2>2, WatchFields, FailsFields, Zenon DEF RestoreEnds, disks, TypeOK
<1>21. CASE SyncLive
  <2>a. watch.pc = "sync"
    BY <1>21 DEF SyncLive, At
  <2>h. watch.hand # 0
    BY <2>a, Zenon DEF TypeOK
  <2>b. watch.hand \in 1 .. Len(kv)
    BY ONLY <2>h, <1>w, <1>n
  <2>1. Hand.rev \in Nat
    <3>1. Hand \in Revision
      BY ONLY <1>t, <2>b DEF Hand
    <3> QED BY ONLY <3>1 DEF Revision
  <2>2. applied' \in AppliedType
    BY <1>21, <2>1, Zenon DEF SyncLive, AppliedType
  <2> QED BY <1>21, <1>n, <1>t, <2>2, WatchFields, Zenon DEF SyncLive, disks, TypeOK
<1>23. CASE UNCHANGED vars
  BY <1>23, Zenon DEF vars, disks, TypeOK
<1> QED
  BY <1>1, <1>2, <1>3, <1>4, <1>5, <1>6, <1>7, <1>8, <1>9, <1>10, <1>11, <1>12, <1>13, <1>14, <1>15,
     <1>16, <1>17, <1>18, <1>19, <1>20, <1>21, <1>23, Zenon DEF Next, ReloadStep
-----------------------------------------------------------------------------
(* The two logs.                                                           *)
LEMMA RevisionTypes ==
  ASSUME TypeOK
  PROVE  /\ kv \in Seq(Revision) /\ Len(kv) \in Nat /\ \A i \in 1 .. Len(kv) : kv[i].rev \in Nat
         /\ trees \in Seq(Revision) /\ Len(trees) \in Nat
         /\ \A i \in 1 .. Len(trees) : trees[i].rev \in Nat
<1>1. kv \in Seq(Revision) /\ trees \in Seq(Revision)
  BY Zenon DEF TypeOK
<1>2. /\ Len(kv) \in Nat /\ \A i \in 1 .. Len(kv) : kv[i] \in Revision
      /\ Len(trees) \in Nat /\ \A i \in 1 .. Len(trees) : trees[i] \in Revision
  BY ONLY <1>1
<1> QED BY ONLY <1>1, <1>2, Zenon DEF Revision

(* What every tree is no newer than stays so when nothing is written, and  *)
(* when a tree no newer than that is.                                      *)
LEMMA UpToSteps ==
  ASSUME NEW r \in Nat, TypeOK, UpTo(r)
  PROVE  /\ UNCHANGED trees => UpTo(r)'
         /\ \A x \in Revision : trees' = Append(trees, x) /\ x.rev <= r => UpTo(r)'
         /\ \A q \in Nat : r <= q => UpTo(q)
<1>1. trees \in Seq(Revision) /\ Len(trees) \in Nat /\ \A i \in 1 .. Len(trees) : trees[i].rev \in Nat
  BY RevisionTypes
<1>2. ASSUME NEW x \in Revision, trees' = Append(trees, x), x.rev <= r
      PROVE  UpTo(r)'
  <2>1. Len(trees') = Len(trees) + 1 /\ trees'[Len(trees) + 1] = x
        /\ \A i \in 1 .. Len(trees) : trees'[i] = trees[i]
    BY <1>1, <1>2, Appended
  <2> QED BY <1>1, <1>2, <2>1 DEF UpTo
<1> QED BY <1>1, <1>2 DEF UpTo

(* The order of the puts, of the watcher and of the trees holds initially. *)
LEMMA InitOrder == Init => OrderInv
<1> SUFFICES ASSUME Init PROVE OrderInv
  OBVIOUS
<1>1. kv = <<>> /\ Len(trees) = 1 /\ trees[1].rev = 0 /\ main = "down"
  BY DEF Init
<1>2. watch.pc = "off" /\ watch.hand = 0 /\ watch.pending = 0
  BY DEF Init, NoWatch
<1> QED BY <1>1, <1>2 DEF OrderInv, PutsInOrder, WatcherInOrder, InOrder, UpTo, LastRev

(* The controller puts revisions that do not go down.                      *)
LEMMA PutOrder == TypeOK /\ OrderInv /\ Put => OrderInv'
<1> SUFFICES ASSUME TypeOK, OrderInv, Put PROVE OrderInv'
  OBVIOUS
<1>1. kv \in Seq(Revision) /\ Len(kv) \in Nat /\ \A i \in 1 .. Len(kv) : kv[i].rev \in Nat
  BY RevisionTypes
<1>2. LastRev \in Nat /\ (kv # <<>> => Len(kv) >= 1 /\ LastRev = kv[Len(kv)].rev /\ LastRev >= 1)
      /\ (kv = <<>> => LastRev = 0 /\ Len(kv) = 0)
  BY <1>1 DEF LastRev, OrderInv, PutsInOrder
<1>3. PICK r \in Revision : kv' = Append(kv, r) /\ r.rev >= 1 /\ r.rev >= LastRev /\ r.rev \in Nat
  <2>1. CASE kv # <<>> /\ kv' = Append(kv, kv[Len(kv)])
    BY <2>1, <1>1, <1>2
  <2>2. ASSUME NEW p \in Packs, kv' = Append(kv, [rev |-> LastRev + 1, pack |-> p])
        PROVE  \E r \in Revision : kv' = Append(kv, r) /\ r.rev >= 1 /\ r.rev >= LastRev /\ r.rev \in Nat
    <3>1. [rev |-> LastRev + 1, pack |-> p] \in Revision
      BY <1>2 DEF Revision
    <3> QED BY <2>2, <3>1, <1>2
  <2> QED BY <2>1, <2>2, Zenon DEF Put
<1>4. kv' \in Seq(Revision) /\ Len(kv') = Len(kv) + 1 /\ kv'[Len(kv) + 1] = r
      /\ \A i \in 1 .. Len(kv) : kv'[i] = kv[i]
  BY <1>1, <1>3, Appended
<1>5. UNCHANGED <<trees, watch, main>>
  BY DEF Put
<1>6. LastRev' = r.rev /\ LastRev' \in Nat
  BY <1>1, <1>3, <1>4 DEF LastRev
<1>7. \A i \in 1 .. Len(kv) : kv[i].rev <= LastRev
  BY <1>1, <1>2 DEF OrderInv, PutsInOrder
<1>8. PutsInOrder'
  BY <1>1, <1>2, <1>3, <1>4, <1>7 DEF OrderInv, PutsInOrder
<1>9. UpTo(LastRev)' /\ UpTo(r.rev)
  BY <1>2, <1>3, <1>5, <1>6, UpToSteps, Zenon DEF OrderInv, WatcherInOrder, UpTo
<1>10. /\ watch.hand \in 0 .. Len(kv) /\ watch.seen \in 0 .. Len(kv)
       /\ watch.pending \in 0 .. Len(kv)
  BY DEF TypeOK, WatchType
<1>11. WatcherInOrder'
  <2>1. watch.pc # "off" /\ watch.seen < Len(kv') => UpTo(kv'[watch.seen + 1].rev)
    <3>1. CASE watch.seen < Len(kv)
      BY <1>1, <1>4, <1>10, <3>1 DEF OrderInv, WatcherInOrder
    <3>2. CASE watch.seen = Len(kv)
      BY <1>4, <1>9, <3>2
    <3> QED BY <1>1, <1>4, <1>10, <3>1, <3>2
  <2>2. watch.hand # 0 =>
         watch.hand = watch.seen /\ watch.pending = 0 /\ UpTo(kv'[watch.hand].rev)
    BY <1>1, <1>4, <1>10 DEF OrderInv, WatcherInOrder
  <2>3. watch.pending # 0 => watch.pending = watch.seen /\ UpTo(kv'[watch.pending].rev)
    BY <1>1, <1>4, <1>10 DEF OrderInv, WatcherInOrder
  <2> QED BY <1>5, <1>9, <2>1, <2>2, <2>3 DEF OrderInv, WatcherInOrder, UpTo
<1> QED BY <1>5, <1>8, <1>11 DEF OrderInv, InOrder

(* The watcher takes, drops, keeps for a retry or moves on with an entry.  *)
LEMMA MoveOrder ==
  ASSUME TypeOK, OrderInv, UNCHANGED <<kv, trees, main>>, watch.pc # "off", watch'.pc # "off",
         watch'.seen = watch.seen,
         \/ watch'.hand \in {0, watch.hand} /\ watch'.pending = watch.pending
         \/ watch'.hand = 0 /\ watch'.pending = watch.hand
         \/ watch'.hand = watch.pending /\ watch'.pending = 0
  PROVE  OrderInv'
<1>1. \A r : UpTo(r) => UpTo(r)'
  BY DEF UpTo
<1>2. PutsInOrder' /\ InOrder' /\ LastRev' = LastRev
  BY DEF OrderInv, PutsInOrder, InOrder, LastRev
<1>3. WatcherInOrder
  BY DEF OrderInv
<1> HIDE DEF UpTo, LastRev
<1>4. WatcherInOrder'
  BY ONLY <1>1, <1>2, <1>3, UNCHANGED <<kv, main>>, watch.pc # "off", watch'.pc # "off",
         watch'.seen = watch.seen,
         \/ watch'.hand \in {0, watch.hand} /\ watch'.pending = watch.pending
         \/ watch'.hand = 0 /\ watch'.pending = watch.hand
         \/ watch'.hand = watch.pending /\ watch'.pending = 0 DEF WatcherInOrder
<1> QED BY <1>2, <1>4 DEF OrderInv

(* A tree at the end of the log keeps the generations in order when no     *)
(* other is newer, or when it was written by hand.                         *)
LEMMA TreeOrder ==
  ASSUME TypeOK, InOrder, NEW x \in Revision, trees' = Append(trees, x),
         x.rev = 0 \/ UpTo(x.rev)
  PROVE  InOrder'
<1>1. Len(trees) \in Nat /\ trees \in Seq(Revision) /\ \A i \in 1 .. Len(trees) : trees[i].rev \in Nat
  BY RevisionTypes
<1>2. Len(trees') = Len(trees) + 1 /\ trees'[Len(trees) + 1] = x
      /\ \A i \in 1 .. Len(trees) : trees'[i] = trees[i]
  BY <1>1, Appended
<1>3. DOMAIN trees = 1 .. Len(trees) /\ DOMAIN trees' = 1 .. Len(trees) + 1
  BY <1>1, <1>2, Appended
<1> QED BY ONLY <1>1, <1>2, <1>3, InOrder, x.rev = 0 \/ UpTo(x.rev) DEF InOrder, UpTo

(* Every other step.                                                       *)
LEMMA OtherOrder == TypeOK /\ OrderInv /\ [Next]_vars /\ ~Put => OrderInv'
<1> SUFFICES ASSUME TypeOK, OrderInv, [Next]_vars, ~Put PROVE OrderInv'
  OBVIOUS
<1>n. /\ Len(trees) \in Nat /\ Len(kv) \in Nat /\ watch \in WatchType(Len(kv))
      /\ kv \in Seq(Revision) /\ trees \in Seq(Revision)
      /\ \A i \in 1 .. Len(kv) : kv[i].rev \in Nat
  BY RevisionTypes, Zenon DEF TypeOK
<1>o. PutsInOrder /\ WatcherInOrder /\ InOrder
  BY DEF OrderInv
<1>w. watch.hand \in 0 .. Len(kv) /\ watch.seen \in 0 .. Len(kv) /\ watch.pending \in 0 .. Len(kv)
  BY <1>n DEF WatchType
<1>u. UNCHANGED trees => \A r : UpTo(r) => UpTo(r)'
  BY DEF UpTo
<1>l. LastRev \in Nat /\ (UNCHANGED kv => UNCHANGED LastRev)
      /\ (kv # <<>> => Len(kv) # 0 /\ LastRev = kv[Len(kv)].rev) /\ (kv = <<>> => Len(kv) = 0)
  BY <1>n DEF LastRev
<1>1. CASE Load \/ ReadCurrent \/ SyncCurrent
  <2>1. UNCHANGED <<kv, trees, watch>> /\ (main \in {"down", "loaded"} <=> main' \in {"down", "loaded"})
    BY <1>1 DEF Load, ReadCurrent, SyncCurrent, disks
  <2> QED BY <1>o, <1>u, <1>l, <2>1 DEF OrderInv, PutsInOrder, InOrder, WatcherInOrder
<1>2. CASE Bootstrap
  <2>1. (IF kv = <<>> THEN 0 ELSE Len(kv) - 1) \in 0 .. Len(kv)
    BY <1>n
  <2>2. /\ watch'.pc = "idle" /\ watch'.hand = 0 /\ watch'.pending = 0
        /\ watch'.seen = IF kv = <<>> THEN 0 ELSE Len(kv) - 1
    BY <1>2, <1>n, <2>1, StartFields, Zenon DEF Bootstrap
  <2>3. UNCHANGED <<kv, trees>> /\ main' = "watching"
    BY <1>2 DEF Bootstrap, disks
  <2>4. watch'.seen < Len(kv) => kv[watch'.seen + 1].rev = LastRev
    BY ONLY <1>n, <1>l, <2>2
  <2>5. UpTo(LastRev)'
    BY <1>o, <1>u, <1>l, <2>3 DEF WatcherInOrder
  <2>6. (watch.seen < Len(kv) => UpTo(kv[watch.seen + 1].rev))'
    BY <1>l, <2>3, <2>4, <2>5
  <2> QED BY <1>o, <2>2, <2>3, <2>5, <2>6 DEF OrderInv, PutsInOrder, InOrder, WatcherInOrder
<1>3. CASE Crash
  <2>1. watch'.pc = "off" /\ watch'.hand = 0 /\ watch'.pending = 0 /\ main' = "down"
        /\ UNCHANGED <<kv, trees>>
    BY <1>3 DEF Crash, NoWatch, disks
  <2> QED BY <1>o, <1>u, <1>l, <2>1 DEF OrderInv, PutsInOrder, InOrder, WatcherInOrder
<1>4. ASSUME NEW t \in Threads, ReloadStep(t) PROVE OrderInv'
  <2>1. UNCHANGED <<kv, trees, watch, main>>
    BY <1>4, ReloadFrame
  <2> QED BY <1>o, <1>u, <1>l, <2>1 DEF OrderInv, PutsInOrder, InOrder, WatcherInOrder
<1>5. CASE Deliver
  <2>1. /\ watch'.pc = "handle" /\ watch'.hand = watch.seen + 1 /\ watch'.seen = watch.seen + 1
        /\ watch'.pending = 0 /\ UNCHANGED <<kv, trees, main>> /\ watch.seen < Len(kv) /\ watch.pc # "off"
    BY <1>5 DEF Deliver, At, disks
  <2>2. UpTo(kv[watch.seen + 1].rev)
    BY <1>o, <2>1 DEF WatcherInOrder
  <2>3. watch.seen + 1 < Len(kv) => UpTo(kv[watch.seen + 2].rev)
    <3>1. ASSUME watch.seen + 1 < Len(kv)
          PROVE  kv[watch.seen + 1].rev <= kv[watch.seen + 2].rev
                 /\ kv[watch.seen + 1].rev \in Nat /\ kv[watch.seen + 2].rev \in Nat
      <4>1. watch.seen + 1 \in 1 .. Len(kv) /\ watch.seen + 2 \in 1 .. Len(kv) /\ watch.seen + 1 <= watch.seen + 2
        BY <1>n, <1>w, <3>1
      <4> HIDE <3>1
      <4> QED BY <1>n, <1>o, <4>1 DEF PutsInOrder
    <3> QED BY <2>2, <3>1, UpToSteps
  <2>4. UpTo(kv[watch.hand].rev)'
    BY <1>u, <2>1, <2>2
  <2>5. (watch.seen < Len(kv) => UpTo(kv[watch.seen + 1].rev))'
    <3>1. watch.seen + 1 + 1 = watch.seen + 2
      BY <1>w
    <3> QED BY <1>u, <2>1, <2>3, <3>1
  <2>6. UpTo(LastRev)'
    BY <1>o, <1>u, <1>l, <2>1 DEF WatcherInOrder
  <2>7. watch'.hand # 0 /\ main \notin {"down", "loaded"}
    BY <1>o, <1>w, <2>1 DEF WatcherInOrder
  <2> QED BY <1>o, <2>1, <2>4, <2>5, <2>6, <2>7 DEF OrderInv, PutsInOrder, InOrder, WatcherInOrder
<1>6. CASE Retry \/ HandleReturns \/ FetchFails
  <2>1. /\ UNCHANGED <<kv, trees, main>> /\ watch.pc # "off" /\ watch'.pc # "off"
        /\ watch'.seen = watch.seen
        /\ \/ watch'.hand = 0 /\ watch'.pending = watch.pending
           \/ watch'.hand = 0 /\ watch'.pending = watch.hand
           \/ watch'.hand = watch.pending /\ watch'.pending = 0
    BY <1>6, <1>n, <1>w, WatchFields, Zenon DEF Retry, HandleReturns, FetchFails, Handled, At, disks
  <2> QED BY <2>1, MoveOrder
<1>7. ASSUME StageFails \/ RestoreEnds \/ SyncLive \/ (Restore /\ disk.prev = 0)
      PROVE  OrderInv'
  <2>1. UNCHANGED <<kv, trees, main>> /\ Done /\ watch.pc # "off"
    BY <1>7, Zenon DEF StageFails, RestoreEnds, SyncLive, Restore, Handled, At, disks
  <2>2. watch'.pc # "off" /\ watch'.seen = watch.seen /\ watch'.hand = 0 /\ watch'.pending = watch.pending
    BY <1>n, <2>1, WatchFields, Zenon
  <2> QED BY <2>1, <2>2, MoveOrder
<1>8. CASE Park \/ Promote \/ Adopt \/ Discard \/ (Restore /\ disk.prev # 0)
  <2>1. PICK pc \in WatchPCs : pc # "off" /\ Step(pc)
    BY <1>8, Zenon DEF Park, Promote, Adopt, Discard, Restore, WatchPCs
  <2>2. UNCHANGED <<kv, trees, main>> /\ watch.pc # "off"
    BY <1>8, Zenon DEF Park, Promote, Adopt, Discard, Restore, At
  <2>3. watch'.pc # "off" /\ watch'.seen = watch.seen /\ watch'.hand = watch.hand /\ watch'.pending = watch.pending
    BY <1>n, <2>1, WatchFields, Zenon
  <2> QED BY <2>2, <2>3, MoveOrder
<1>9. CASE Stage
  <2>1. Step("park") /\ trees' = Append(trees, Hand) /\ UNCHANGED <<kv, main>> /\ watch.pc = "handle"
    BY <1>9 DEF Stage, Written, Handled, At
  <2>2. watch'.pc = "park" /\ watch'.seen = watch.seen /\ watch'.hand = watch.hand /\ watch'.pending = watch.pending
    BY <1>n, <2>1, WatchFields, Zenon DEF WatchPCs
  <2>3. watch.hand # 0
    BY <2>1, Zenon DEF TypeOK
  <2>4. Hand \in Revision /\ Hand.rev \in Nat /\ watch.hand = watch.seen /\ watch.pending = 0 /\ UpTo(Hand.rev)
        /\ Hand.rev <= LastRev
    <3>1. watch.hand \in 1 .. Len(kv)
      BY ONLY <1>n, <1>w, <2>3
    <3>2. kv # <<>> /\ Hand \in Revision /\ Hand.rev \in Nat
      BY ONLY <1>n, <3>1 DEF Hand
    <3>3. watch.hand = watch.seen /\ watch.pending = 0 /\ UpTo(Hand.rev)
      BY <1>o, <2>3 DEF WatcherInOrder, Hand
    <3>4. Hand.rev <= LastRev
      BY <1>n, <1>o, <1>l, <3>1, <3>2 DEF PutsInOrder, Hand
    <3> QED BY <3>2, <3>3, <3>4
  <2>5. \A r \in Nat : UpTo(r) /\ Hand.rev <= r => UpTo(r)'
    BY <2>1, <2>4, UpToSteps
  <2>6. InOrder'
    BY <1>o, <2>1, <2>4, TreeOrder
  <2>7. UpTo(LastRev)' /\ UpTo(kv[watch.hand].rev)'
    <3>1. UpTo(LastRev) /\ UpTo(kv[watch.hand].rev) /\ kv[watch.hand].rev \in Nat
          /\ kv[watch.hand].rev <= kv[watch.hand].rev
      BY <1>o, <2>4 DEF WatcherInOrder, Hand
    <3> QED BY <1>l, <2>1, <2>2, <2>4, <2>5, <3>1, Zenon DEF Hand
  <2>8. (watch.seen < Len(kv) => UpTo(kv[watch.seen + 1].rev))'
    <3>1. ASSUME watch.seen < Len(kv)
          PROVE  UpTo(kv[watch.seen + 1].rev)'
      <4>1. watch.seen \in 1 .. Len(kv) /\ watch.seen + 1 \in 1 .. Len(kv) /\ watch.seen <= watch.seen + 1
        BY <1>n, <1>w, <2>3, <2>4, <3>1
      <4>2. Hand.rev <= kv[watch.seen + 1].rev /\ kv[watch.seen + 1].rev \in Nat
        BY <1>n, <1>o, <2>4, <4>1 DEF PutsInOrder, Hand
      <4>3. UpTo(kv[watch.seen + 1].rev)
        BY <1>o, <2>1, <3>1 DEF WatcherInOrder
      <4> QED BY <2>1, <2>2, <2>5, <4>2, <4>3, Zenon
    <3> QED BY <2>1, <2>2, <3>1
  <2> QED BY <1>o, <2>1, <2>2, <2>3, <2>4, <2>6, <2>7, <2>8 DEF OrderInv, PutsInOrder, WatcherInOrder
<1>10. CASE Edit
  <2>1. PICK x \in Revision : trees' = Append(trees, x) /\ x.rev = 0
    BY <1>10 DEF Edit, Revision
  <2>2. UNCHANGED <<kv, watch, main>>
    BY <1>10 DEF Edit
  <2>3. InOrder'
    BY <1>o, <2>1, TreeOrder
  <2>4. \A r \in Nat : UpTo(r) => UpTo(r)'
    BY <2>1, UpToSteps
  <2>5. UpTo(LastRev)'
    BY <1>l, <1>o, <2>2, <2>4 DEF WatcherInOrder
  <2> QED BY <1>n, <1>o, <1>w, <2>2, <2>3, <2>4, <2>5 DEF OrderInv, PutsInOrder, WatcherInOrder
<1>11. CASE UNCHANGED vars
  <2>1. UNCHANGED <<kv, trees, watch, main>>
    BY <1>11 DEF vars, disks
  <2> QED BY <1>o, <1>u, <1>l, <2>1 DEF OrderInv, PutsInOrder, InOrder, WatcherInOrder
<1> QED
  BY <1>1, <1>2, <1>3, <1>4, <1>5, <1>6, <1>7, <1>8, <1>9, <1>10, <1>11, Zenon
  DEF Next, ReloadStep

-----------------------------------------------------------------------------
(* The places of the applied generation and of the one in hand hold        *)
(* initially.                                                              *)
LEMMA InitPlace == Init => PlaceInv
<1> SUFFICES ASSUME Init PROVE PlaceInv
  OBVIOUS
<1>1. watch.pc = "off" /\ load[Desired].pc = "idle"
  BY DEF Init, NoWatch, Threads, Idle
<1>2. applied.rev = 0
  BY BlankTypes DEF Init
<1> QED BY <1>1, <1>2 DEF PlaceInv, AppliedPlace, HandPlace

(* The fields and ranges the proof refers to.                              *)
LEMMA PlaceTypes ==
  ASSUME TypeOK
  PROVE  /\ disk.live \in 0 .. Len(trees) /\ disk.next \in 0 .. Len(trees)
         /\ disk.prev \in 0 .. Len(trees) /\ disk.boot \in 0 .. Len(trees)
         /\ disk \in DiskType(Len(trees)) /\ watch \in WatchType(Len(kv))
         /\ load \in [Threads -> LoadType] /\ Desired \in Threads
         /\ Len(kv) \in Nat /\ Len(trees) \in Nat /\ applied \in AppliedType
         /\ watch.pc \notin {"off", "idle"} => watch.hand \in 1 .. Len(kv) /\ Hand \in Revision
<1>1. disk \in DiskType(Len(trees)) /\ watch \in WatchType(Len(kv)) /\ load \in [Threads -> LoadType]
      /\ applied \in AppliedType /\ kv \in Seq(Revision)
      /\ (watch.pc \notin {"off", "idle"} => watch.hand # 0)
  BY Zenon DEF TypeOK
<1>2. Len(kv) \in Nat /\ Len(trees) \in Nat
  BY RevisionTypes
<1>3. /\ disk.live \in 0 .. Len(trees) /\ disk.next \in 0 .. Len(trees)
      /\ disk.prev \in 0 .. Len(trees) /\ disk.boot \in 0 .. Len(trees)
      /\ watch.hand \in 0 .. Len(kv)
  BY ONLY <1>1, Zenon DEF DiskType, WatchType
<1>4. watch.pc \notin {"off", "idle"} => watch.hand \in 1 .. Len(kv)
  BY ONLY <1>1, <1>2, <1>3
<1>5. watch.pc \notin {"off", "idle"} => Hand \in Revision
  BY ONLY <1>1, <1>4 DEF Hand
<1> QED BY <1>1, <1>2, <1>3, <1>4, <1>5 DEF Threads

(* A step that moves neither the watcher nor a directory of Apply.         *)
LEMMA PlaceFrame ==
  ASSUME TypeOK, PlaceInv, UNCHANGED <<watch, applied, paths>>,
         UNCHANGED <<disk.live, disk.next, disk.prev>>,
         \A n \in 1 .. Len(trees) : trees'[n] = trees[n],
         \A n \in 1 .. Len(kv) : kv'[n] = kv[n],
         load'[Desired].pc # "idle" => watch.pc \in {"reload", "restored"}
  PROVE  PlaceInv'
<1>1. \A n \in 0 .. Len(trees) : \A r : Holds(n, r) => Holds(n, r)'
  BY RevisionTypes DEF Holds
<1>2. watch.pc \notin {"off", "idle"} => Hand' = Hand
  BY PlaceTypes DEF Hand
<1>3. AppliedPlace'
  BY <1>1, PlaceTypes, SMTT(30) DEF PlaceInv, AppliedPlace
<1>4. HandPlace'
  BY <1>1, <1>2, PlaceTypes DEF PlaceInv, HandPlace
<1> QED BY <1>3, <1>4 DEF PlaceInv

(* Every step keeps the places.                                            *)
LEMMA NextPlace == TypeOK /\ OrderInv /\ PlaceInv /\ [Next]_vars => PlaceInv'
<1> SUFFICES ASSUME TypeOK, OrderInv, PlaceInv, [Next]_vars PROVE PlaceInv'
  OBVIOUS
<1>t. /\ disk.live \in 0 .. Len(trees) /\ disk.next \in 0 .. Len(trees)
      /\ disk.prev \in 0 .. Len(trees) /\ disk.boot \in 0 .. Len(trees)
      /\ disk \in DiskType(Len(trees)) /\ watch \in WatchType(Len(kv))
      /\ load \in [Threads -> LoadType] /\ Desired \in Threads
      /\ Len(kv) \in Nat /\ Len(trees) \in Nat /\ applied \in AppliedType
      /\ watch.pc \notin {"off", "idle"} => watch.hand \in 1 .. Len(kv) /\ Hand \in Revision
  BY PlaceTypes
<1>p. AppliedPlace /\ HandPlace
  BY DEF PlaceInv
<1>l. load[Desired].pc # "idle" => watch.pc \in {"reload", "restored"}
  BY <1>p DEF HandPlace
<1>h. UNCHANGED trees => \A n, r : Holds(n, r) <=> Holds(n, r)'
  BY DEF Holds
<1>1. CASE Put
  <2>1. PICK r \in Revision : kv' = Append(kv, r)
    <3>1. kv # <<>> => kv[Len(kv)] \in Revision
      BY ONLY RevisionTypes, TypeOK
    <3>2. LastRev \in Nat
      BY ONLY <3>1 DEF LastRev, Revision
    <3>3. \A p \in Packs : [rev |-> LastRev + 1, pack |-> p] \in Revision
      BY ONLY <3>2 DEF Revision
    <3> QED BY <1>1, <3>1, <3>3, Zenon DEF Put
  <2>2. \A n \in 1 .. Len(kv) : kv'[n] = kv[n]
    BY <2>1, Appended, RevisionTypes
  <2>3. UNCHANGED <<watch, applied, paths, trees, disk, load>>
    BY <1>1 DEF Put
  <2> QED BY <1>l, <2>2, <2>3, PlaceFrame, Zenon
<1>2. CASE Edit
  <2>1. PICK r \in Revision : trees' = Append(trees, r)
    BY <1>2 DEF Edit, Revision
  <2>2. Len(trees') = Len(trees) + 1 /\ \A n \in 1 .. Len(trees) : trees'[n] = trees[n]
    BY <2>1, Appended, RevisionTypes
  <2>3. disk \in DiskType(Len(trees')) /\ Len(trees') \in Nat /\ Len(trees') \in 0 .. Len(trees')
    BY <1>t, <2>2 DEF DiskType
  <2>4. UNCHANGED <<disk.live, disk.next, disk.prev>>
    BY <1>2, <2>3, DiskFields, Zenon DEF Edit
  <2>5. UNCHANGED <<watch, applied, paths, kv, load>>
    BY <1>2 DEF Edit
  <2> QED BY <1>l, <2>2, <2>4, <2>5, PlaceFrame, Zenon
<1>3. CASE Load \/ ReadCurrent \/ SyncCurrent \/ UNCHANGED vars
  <2>1. UNCHANGED <<watch, applied, paths, trees, kv, disk, load>>
    BY <1>3, Zenon DEF Load, ReadCurrent, SyncCurrent, vars, disks
  <2> QED BY <1>l, <2>1, PlaceFrame, Zenon
<1>4. ASSUME NEW t \in Threads, ReloadStep(t) PROVE PlaceInv'
  <2>1. UNCHANGED <<watch, applied, paths, trees, kv, disk>> /\ load' = [load EXCEPT ![t] = load'[t]]
    BY <1>4, ReloadFrame
  <2>2. CASE t # Desired
    <3>1. load'[Desired] = load[Desired]
      BY <1>t, <2>1, <2>2, Zenon
    <3> QED BY <1>l, <2>1, <3>1, PlaceFrame, Zenon
  <2>3. CASE t = Desired
    <3>1. load[Desired].pc # "idle"
      <4>1. Desired \notin Reloaders
        BY RolloutAssumption DEF Desired
      <4> QED BY <1>4, <2>3, <4>1, Zenon DEF ReloadStep, Reload, Compare, BuildStamp, BuildPolicy, BuildGeo, Recheck, Store
    <3> QED BY <1>l, <2>1, <3>1, PlaceFrame, Zenon
  <2> QED BY <2>2, <2>3
<1>5. CASE Bootstrap
  <2>1. main \in {"down", "loaded"} /\ UNCHANGED <<applied, load>>
    BY <1>5 DEF Bootstrap
  <2>2. watch.pc = "off"
    BY <2>1 DEF OrderInv, WatcherInOrder
  <2>3. applied'.rev = 0 /\ load'[Desired].pc = "idle"
    BY <1>p, <2>1, <2>2 DEF HandPlace
  <2>4. (IF kv = <<>> THEN 0 ELSE Len(kv) - 1) \in 0 .. Len(kv)
    BY <1>t, RevisionTypes
  <2>5. watch'.pc = "idle"
    BY <1>5, <1>t, <2>4, StartFields, Zenon DEF Bootstrap
  <2> QED BY <2>3, <2>5 DEF PlaceInv, AppliedPlace, HandPlace
<1>6. CASE Crash
  <2>1. watch'.pc = "off" /\ load'[Desired].pc = "idle"
    BY <1>6, <1>t DEF Crash, NoWatch, Idle
  <2>2. applied'.rev = 0
    BY <1>6, BlankTypes DEF Crash
  <2> QED BY <2>1, <2>2 DEF PlaceInv, AppliedPlace, HandPlace
<1>7. CASE Deliver \/ Retry
  <2>1. watch.pc = "idle" /\ watch'.pc = "handle" /\ UNCHANGED <<applied, paths, disk, trees, load>>
        /\ load[Desired].pc = "idle"
    <3>1. CASE Deliver
      BY <3>1 DEF Deliver, At, disks
    <3>2. CASE Retry
      <4>1. watch.pending \in 0 .. Len(kv)
        BY <1>t DEF WatchType
      <4> QED BY <3>2, <1>t, <4>1, WatchFields, Zenon DEF Retry, At, disks
    <3> QED BY <1>7, <3>1, <3>2
  <2> QED BY <1>p, <1>h, <2>1 DEF PlaceInv, AppliedPlace, HandPlace
<1>8. CASE HandleReturns \/ FetchFails
  <2>1. watch.pc = "handle" /\ watch'.pc = "idle" /\ UNCHANGED <<paths, disk, trees, load>>
        /\ load[Desired].pc = "idle" /\ applied'.rev = applied.rev
    BY <1>8, <1>t, WatchFields, FailsFields, Zenon DEF HandleReturns, FetchFails, Handled, At, disks, WatchType
  <2> QED BY <1>p, <1>h, <2>1 DEF PlaceInv, AppliedPlace, HandPlace
<1>9. CASE Stage
  <2>1. watch.pc = "handle" /\ trees' = Append(trees, Hand) /\ Step("park") /\ "park" \in WatchPCs
        /\ UNCHANGED <<kv, applied, paths, load>> /\ load[Desired].pc = "idle"
    BY <1>9, Zenon DEF Stage, Written, Handled, At, WatchPCs
  <2>2. watch'.pc = "park" /\ watch'.hand = watch.hand
    BY <1>t, <2>1, WatchFields, Zenon
  <2>3. Len(trees') = Len(trees) + 1 /\ trees'[Len(trees) + 1] = Hand
        /\ \A n \in 1 .. Len(trees) : trees'[n] = trees[n]
    BY <1>t, <2>1, Appended, RevisionTypes
  <2>4. disk \in DiskType(Len(trees')) /\ Len(trees') \in Nat /\ Len(trees') \in 0 .. Len(trees')
    BY <1>t, <2>3 DEF DiskType
  <2>5. disk'.next = Len(trees') /\ disk'.prev = 0 /\ disk'.live = disk.live
    BY <1>9, <2>4, DiskFields, ZenonT(30) DEF Stage
  <2>6. Holds(disk.next, Hand.rev)'
    BY <1>t, <2>1, <2>2, <2>3, <2>5 DEF Holds, Hand
  <2>7. \A r : Holds(disk.live, r) => Holds(disk.live, r)'
    BY <1>t, <2>3, <2>5 DEF Holds
  <2> QED BY <1>p, <2>1, <2>2, <2>5, <2>6, <2>7 DEF PlaceInv, AppliedPlace, HandPlace
<1>10. CASE StageFails
  <2>1. /\ watch.pc \in {"handle", "park", "promote"} /\ load[Desired].pc = "idle"
        /\ UNCHANGED <<trees, paths, load>> /\ Done /\ Fails
    BY <1>10, Zenon DEF StageFails, Handled, At
  <2>2. watch'.pc = "idle" /\ applied'.rev = applied.rev
    BY <1>t, <2>1, WatchFields, FailsFields, ZenonT(30)
  <2>3. CASE watch.pc = "promote"
    <3>1. disk'.next = 0 /\ disk'.live = disk.prev /\ disk'.prev = 0
      BY <1>10, <1>t, <2>1, <2>3, DiskFields, Zenon DEF StageFails, At
    <3> QED BY <1>p, <1>h, <2>1, <2>2, <2>3, <3>1 DEF PlaceInv, AppliedPlace, HandPlace
  <2>4. CASE watch.pc # "promote"
    <3>1. disk'.next = 0 /\ disk'.live = disk.live /\ disk'.prev = disk.prev
      BY <1>10, <1>t, <2>4, DiskFields, Zenon DEF StageFails, At
    <3> QED BY <1>p, <1>h, <2>1, <2>2, <2>4, <3>1 DEF PlaceInv, AppliedPlace, HandPlace
  <2> QED BY <2>3, <2>4
<1>11. CASE Park
  <2>1. watch.pc = "park" /\ load[Desired].pc = "idle" /\ Step("promote") /\ "promote" \in WatchPCs
        /\ UNCHANGED <<kv, trees, applied, paths, load>>
        /\ disk'.prev = disk.live /\ disk'.live = 0 /\ disk'.next = disk.next
    BY <1>11, <1>t, DiskFields, Zenon DEF Park, At, WatchPCs
  <2>2. watch'.pc = "promote" /\ Hand' = Hand
    BY <1>t, <2>1, WatchFields, Zenon DEF Hand
  <2> QED BY <1>p, <1>h, <2>1, <2>2 DEF PlaceInv, AppliedPlace, HandPlace
<1>12. CASE Promote
  <2>1. watch.pc = "promote" /\ load[Desired].pc = "idle" /\ Step("reload") /\ "reload" \in WatchPCs
        /\ UNCHANGED <<kv, trees, applied, paths>>
        /\ disk'.live = disk.next /\ disk'.next = 0 /\ disk'.prev = disk.prev
    BY <1>12, <1>t, DiskFields, Zenon DEF Promote, At, WatchPCs
  <2>2. watch'.pc = "reload" /\ Hand' = Hand
    BY <1>t, <2>1, WatchFields, Zenon DEF Hand
  <2> QED BY <1>p, <1>h, <2>1, <2>2 DEF PlaceInv, AppliedPlace, HandPlace
<1>i. Idle.pc = "idle"
  BY DEF Idle
<1>13. CASE Adopt
  <2>1. watch.pc = "reload" /\ load'[Desired].pc = "idle" /\ Step("sync") /\ "sync" \in WatchPCs
        /\ UNCHANGED <<kv, trees, applied>> /\ paths' = "live"
        /\ disk'.prev = 0 /\ disk'.live = disk.live /\ disk'.next = disk.next
    BY <1>13, <1>t, <1>i, DiskFields, Zenon DEF Adopt, At, WatchPCs
  <2>2. watch'.pc = "sync" /\ Hand' = Hand
    BY <1>t, <2>1, WatchFields, Zenon DEF Hand
  <2> QED BY <1>p, <1>h, <2>1, <2>2 DEF PlaceInv, AppliedPlace, HandPlace
<1>14. CASE Discard
  <2>1. watch.pc = "reload" /\ load'[Desired].pc = "idle" /\ Step("restore") /\ "restore" \in WatchPCs
        /\ UNCHANGED <<kv, trees, applied, paths>>
        /\ disk'.live = 0 /\ disk'.prev = disk.prev /\ disk'.next = disk.next
    BY <1>14, <1>t, <1>i, DiskFields, Zenon DEF Discard, At, WatchPCs
  <2>2. watch'.pc = "restore" /\ Hand' = Hand
    BY <1>t, <2>1, WatchFields, Zenon DEF Hand
  <2> QED BY <1>p, <1>h, <2>1, <2>2 DEF PlaceInv, AppliedPlace, HandPlace
<1>15. CASE Restore /\ disk.prev # 0
  <2>1. watch.pc = "restore" /\ Step("restored") /\ "restored" \in WatchPCs
        /\ UNCHANGED <<kv, trees, applied, paths>>
        /\ disk'.live = disk.prev /\ disk'.prev = 0 /\ disk'.next = disk.next
    BY <1>15, <1>t, DiskFields, Zenon DEF Restore, At, WatchPCs
  <2>2. watch'.pc = "restored" /\ Hand' = Hand
    BY <1>t, <2>1, WatchFields, Zenon DEF Hand
  <2> QED BY <1>p, <1>h, <2>1, <2>2 DEF PlaceInv, AppliedPlace, HandPlace
<1>16. CASE Restore /\ disk.prev = 0
  <2>1. watch.pc = "restore" /\ load[Desired].pc = "idle" /\ Done /\ Fails
        /\ UNCHANGED <<kv, trees, disk, load, paths>>
    BY <1>16, Zenon DEF Restore, At
  <2>2. watch'.pc = "idle" /\ applied'.rev = applied.rev
    BY <1>t, <2>1, WatchFields, FailsFields, ZenonT(30)
  <2> QED BY <1>p, <1>16, <2>1, <2>2 DEF PlaceInv, AppliedPlace, HandPlace, Holds
<1>17. CASE RestoreEnds
  <2>1. watch.pc = "restored" /\ load'[Desired].pc = "idle" /\ Done /\ Fails
        /\ UNCHANGED <<kv, trees, disk>> /\ paths' \in {"live", paths}
    BY <1>17, <1>t, <1>i, Zenon DEF RestoreEnds, disks
  <2>2. watch'.pc = "idle" /\ applied'.rev = applied.rev
    BY <1>t, <2>1, WatchFields, FailsFields, Zenon
  <2> QED BY <1>p, <1>h, <2>1, <2>2, Zenon DEF PlaceInv, AppliedPlace, HandPlace
<1>18. CASE SyncLive
  <2>1. watch.pc = "sync" /\ load[Desired].pc = "idle" /\ Done
        /\ applied' = [rev |-> Hand.rev, apply |-> "ok"]
        /\ UNCHANGED <<kv, trees, disk, load, paths>>
    BY <1>18, Zenon DEF SyncLive, At, disks
  <2>2. watch'.pc = "idle" /\ applied'.rev = Hand.rev
    BY <1>t, <2>1, WatchFields, Zenon
  <2> QED BY <1>p, <1>h, <2>1, <2>2 DEF PlaceInv, AppliedPlace, HandPlace
<1> QED
  BY <1>1, <1>2, <1>3, <1>4, <1>5, <1>6, <1>7, <1>8, <1>9, <1>10, <1>11, <1>12, <1>13, <1>14,
     <1>15, <1>16, <1>17, <1>18, Zenon
  DEF Next, ReloadStep

-----------------------------------------------------------------------------
OrderlyInv == TypeOK /\ OrderInv /\ PlaceInv

(* The three invariants together are inductive.                            *)
LEMMA Inductive == Spec => []OrderlyInv
<1>1. Init => OrderlyInv
  BY InitType, InitOrder, InitPlace DEF OrderlyInv
<1>2. OrderlyInv /\ [Next]_vars => OrderlyInv'
  <2> SUFFICES ASSUME OrderlyInv, [Next]_vars PROVE OrderlyInv'
    OBVIOUS
  <2>1. TypeOK /\ OrderInv /\ PlaceInv
    BY DEF OrderlyInv
  <2>2. TypeOK' /\ OrderInv' /\ PlaceInv'
    BY <2>1, NextType, PutOrder, OtherOrder, NextPlace, Zenon
  <2> QED BY <2>2 DEF OrderlyInv
<1> QED BY <1>1, <1>2, PTL DEF Spec

(* Generations reach the disk in the order they were put, through retries, *)
(* crashes and restarts (desired.Watch: pending and its reset).            *)
THEOREM GenerationsInOrder == Spec => []InOrder
<1>1. OrderlyInv => InOrder
  BY DEF OrderlyInv, OrderInv
<1> QED BY <1>1, Inductive, PTL

(* Between two entries the tree in place is the generation the presence    *)
(* frame names, whatever failed before (desired.Apply, desired.handle).    *)
THEOREM AppliedInPlace == Spec => []AppliedIsOnDisk
<1>1. OrderlyInv => AppliedIsOnDisk
  BY DEF OrderlyInv, PlaceInv, AppliedPlace, AppliedIsOnDisk, Holds
<1> QED BY <1>1, Inductive, PTL

-----------------------------------------------------------------------------
(* A snapshot all of one tree, field by field.                             *)
LEMMA WholeFields ==
  ASSUME cur \in [policy : Nat, geo : Nat, fp : Nat]
  PROVE  cur = Whole(cur.fp) <=> cur.policy = cur.fp /\ cur.geo = cur.fp
BY DEF Whole

(* The fingerprints are honest initially.                                  *)
LEMMA InitHonest == Init => HonestInv
<1> SUFFICES ASSUME Init PROVE HonestInv
  OBVIOUS
<1>1. disk.boot = 1 /\ disk.live = 0 /\ disk.next = 0 /\ trees[1].rev = 0 /\ errors = 0
  BY DEF Init
<1>2. watch.pc = "off" /\ cur.fp = 0 /\ \A t \in Threads : load[t].pc = "idle"
  BY DEF Init, NoWatch, NoSnapshot, Idle
<1>3. Desired \in Threads
  BY DEF Threads
<1> QED BY <1>1, <1>2, <1>3 DEF HonestInv, HonestPlaces, HonestLoads, HonestLoad, Stamped, HonestCur

(* A reload of one goroutine leaves the others' as they are.               *)
LEMMA OtherLoads ==
  ASSUME TypeOK, HonestLoads, NEW t \in Threads, UNCHANGED <<trees, disk>>,
         load' = [load EXCEPT ![t] = load'[t]], HonestLoad(t)'
  PROVE  HonestLoads'
<1>1. \A s \in Threads : s # t => load'[s] = load[s]
  BY PlaceTypes, ZenonT(30)
<1>2. ASSUME NEW s \in Threads, s # t PROVE HonestLoad(s)'
  <2>1. load'[s] = load[s] /\ HonestLoad(s)
    BY <1>1, <1>2 DEF HonestLoads
  <2> QED BY <2>1 DEF HonestLoad, Stamped, For
<1> QED BY <1>2 DEF HonestLoads

(* What a reload reads of the tree in place it keeps under the fingerprint *)
(* it took first.                                                          *)
LEMMA ReloadHonest ==
  ASSUME OrderlyInv, HonestInv, NEW t \in Threads, ReloadStep(t)
  PROVE  HonestInv'
<1>t. TypeOK /\ PlaceInv /\ HandPlace /\ HonestPlaces /\ HonestLoads /\ HonestCur
  BY DEF OrderlyInv, PlaceInv, HonestInv
<1>f. UNCHANGED <<kv, trees, disk, main, paths, watch, errors>> /\ load' = [load EXCEPT ![t] = load'[t]]
      /\ load'[t] \in LoadType /\ cur' \in [policy : Nat, geo : Nat, fp : Nat]
  BY <1>t, ReloadFrame
<1>p. /\ load \in [Threads -> LoadType] /\ Len(trees) \in Nat /\ Desired \in Threads
      /\ disk.live \in 0 .. Len(trees) /\ disk.boot \in 0 .. Len(trees)
      /\ disk.next \in 0 .. Len(trees) /\ load[t] \in LoadType
  BY <1>t, PlaceTypes
<1>a. load[t].at \in {"boot", "live"} /\ load[t].fp \in Nat /\ load[t].policy \in Nat /\ load[t].geo \in Nat
  BY <1>p DEF LoadType
<1>T. Tree(t) \in 0 .. Len(trees) /\ Tree(t) \in Nat
  BY <1>t, <1>a, <1>p, TreeType DEF Tree
<1>n. Tree(t) # 0 => For(load[t].at, Tree(t)) /\ Tree(t) # disk.next
  <2>1. CASE load[t].at = "boot"
    BY <1>t, <2>1 DEF HonestPlaces, Tree, For
  <2>2. CASE load[t].at = "live"
    BY <1>t, <2>2 DEF HonestPlaces, Tree, For
  <2> QED BY <1>a, <2>1, <2>2
<1>d. t = Desired => /\ t \notin Reloaders
                     /\ load[t].pc \notin {"idle", "ok", "error"} => Loads(Tree(t))
  <2>1. Desired \notin Reloaders
    BY RolloutAssumption DEF Desired
  <2>2. ASSUME t = Desired, load[t].pc \notin {"idle", "ok", "error"} PROVE Loads(Tree(t))
    <3>1. watch.pc = "reload" /\ load[t].at = "live"
      BY <1>t, <2>2 DEF HandPlace, HonestPlaces
    <3>2. disk.live # 0
      BY <1>t, <3>1 DEF HandPlace, Holds
    <3> QED BY <1>t, <3>1, <3>2 DEF HonestPlaces, Loads, Tree
  <2> QED BY <2>1, <2>2
<1>e. ASSUME NEW ok \in BOOLEAN, Ends(t, ok), ok \/ t # Desired
      PROVE  HonestLoad(t)' /\ (t = Desired => load'[t].pc = "ok")
  <2>1. load'[t].pc \in {"idle", "ok", "error"} /\ (ok => load'[t].pc # "error")
    BY <1>e, <1>p, EndsFields, Zenon
  <2>2. t = Desired => load'[t].pc = "ok"
    BY <1>e, <1>p DEF Ends, Idle
  <2> QED BY <2>1, <2>2 DEF HonestLoad, Stamped
<1>g. t # Desired => load'[Desired] = load[Desired]
  BY <1>f, <1>p, ZenonT(30)
<1>1. HonestLoad(t)' /\ (t = Desired => load'[t].pc # "error"
                                        /\ (load'[t].pc \notin {"idle", "ok"} => load'[t].at = "live"))
  <2> USE DEF HonestLoad, Stamped
  <2>a. t = Desired /\ load[t].pc \notin {"idle", "ok"} => load[t].at = "live"
    BY <1>t DEF HonestPlaces
  <2>1. CASE Reload(t)
    <3>1. t # Desired /\ load'[t].pc = "compare"
      BY <1>d, <1>p, <1>t, <2>1, BeginFields, Zenon DEF Reload, TypeOK
    <3> QED BY <3>1
  <2>2. CASE Compare(t)
    <3>1. (Ends(t, FALSE) /\ t # Desired) \/ Ends(t, TRUE) \/ Goto(t, "build")
      BY <2>2, <1>d, Zenon DEF Compare, Loads
    <3>2. CASE Goto(t, "build")
      <4>1. load'[t].pc = "build" /\ load'[t].at = load[t].at /\ "build" \in LoadPCs
        BY <1>p, <3>2, GotoFields, SMTT(30) DEF LoadPCs
      <4> QED BY <4>1, <2>a, <2>2, SMTT(30) DEF Compare
    <3> QED BY <3>1, <3>2, <1>e, Zenon
  <2>3. CASE BuildStamp(t)
    <3>1. CASE Tree(t) = 0
      <4>1. Ends(t, FALSE) /\ t # Desired
        BY <2>3, <3>1, <1>d, Zenon DEF BuildStamp, Loads
      <4> QED BY <4>1, <1>e, Zenon
    <3>2. CASE Tree(t) # 0
      <4>1. load'[t].pc = "policy" /\ load'[t].at = load[t].at /\ load'[t].fp = Tree(t)
        BY <1>p, <1>T, <2>3, <3>2, BuildFields, Zenon DEF BuildStamp
      <4> QED BY <4>1, <3>2, <2>a, <2>3, <1>f, <1>n, <1>T DEF BuildStamp, For
    <3> QED BY <3>1, <3>2
  <2>s. ASSUME Stamped(t) PROVE /\ load[t].fp \in 1 .. Len(trees) /\ For(load[t].at, load[t].fp)
                                /\ load[t].fp # disk.next
                                /\ load[t].fp = Tree(t) =>
                                     /\ load[t].pc \in {"geo", "recheck", "store"} => load[t].policy = load[t].fp
                                     /\ load[t].pc \in {"recheck", "store"} => load[t].geo = load[t].fp
    BY <2>s, <1>t, SMTT(30) DEF HonestLoads, Tree
  <2>4. CASE BuildPolicy(t)
    <3>1. CASE ~Loads(Tree(t))
      <4>1. Ends(t, FALSE) /\ t # Desired
        BY <2>4, <3>1, <1>d, Zenon DEF BuildPolicy
      <4> QED BY <4>1, <1>e, Zenon
    <3>2. CASE Loads(Tree(t))
      <4>1. load'[t].pc = "geo" /\ load'[t].at = load[t].at /\ load'[t].fp = load[t].fp /\ load'[t].policy = Tree(t)
        BY <1>p, <1>T, <2>4, <3>2, BuildFields, Zenon DEF BuildPolicy
      <4>2. load[t].pc = "policy"
        BY <2>4, Zenon DEF BuildPolicy
      <4>3. disk' = disk /\ trees' = trees
        BY <1>f, Zenon
      <4> QED BY <4>1, <4>2, <4>3, <2>a, <2>s, SMTT(30) DEF For, Tree
    <3> QED BY <3>1, <3>2, Zenon
  <2>5. CASE BuildGeo(t)
    <3>1. CASE Tree(t) = 0
      <4>1. Ends(t, FALSE) /\ t # Desired
        BY <2>5, <3>1, <1>d, Zenon DEF BuildGeo, Loads
      <4> QED BY <4>1, <1>e, Zenon
    <3>2. CASE Tree(t) # 0
      <4>1. load'[t].pc = "recheck" /\ load'[t].at = load[t].at /\ load'[t].fp = load[t].fp
            /\ load'[t].policy = load[t].policy /\ load'[t].geo = Tree(t)
        BY <1>p, <1>T, <2>5, <3>2, BuildFields, Zenon DEF BuildGeo
      <4>2. load[t].pc = "geo"
        BY <2>5, Zenon DEF BuildGeo
      <4>3. disk' = disk /\ trees' = trees
        BY <1>f, Zenon
      <4> QED BY <4>1, <4>2, <4>3, <2>a, <2>s, SMTT(30) DEF For, Tree
    <3> QED BY <3>1, <3>2
  <2>6. CASE Recheck(t)
    <3>1. CASE Ends(t, TRUE)
      BY <3>1, <1>e, Zenon
    <3>2. CASE Goto(t, "store")
      <4>1. load'[t].pc = "store" /\ load'[t].at = load[t].at /\ load'[t].fp = load[t].fp
            /\ load'[t].policy = load[t].policy /\ load'[t].geo = load[t].geo
        BY <1>p, <3>2, GotoFields DEF LoadPCs
      <4>2. load[t].pc = "recheck"
        BY <2>6, Zenon DEF Recheck
      <4>3. disk' = disk /\ trees' = trees
        BY <1>f, Zenon
      <4> QED BY <4>1, <4>2, <4>3, <2>a, <2>s, SMTT(30) DEF For, Tree
    <3> QED BY <2>6, <3>1, <3>2, Zenon DEF Recheck
  <2>7. CASE Store(t)
    BY <2>7, <1>e, Zenon DEF Store
  <2> QED BY <2>1, <2>2, <2>3, <2>4, <2>5, <2>6, <2>7, ZenonT(30) DEF ReloadStep
<1>2. HonestPlaces'
  <2>1. CASE t = Desired
    BY <1>1, <1>f, <1>t, <2>1, SMTT(30) DEF HonestPlaces
  <2>2. CASE t # Desired
    BY <1>g, <1>f, <1>t, <2>2, SMTT(30) DEF HonestPlaces
  <2> QED BY <2>1, <2>2, Zenon
<1>3. HonestLoads'
  BY <1>1, <1>f, <1>t, OtherLoads
<1>4. HonestCur'
  <2>1. CASE Store(t)
    <3>1. cur'.policy = load[t].policy /\ cur'.geo = load[t].geo /\ cur'.fp = load[t].fp /\ load[t].pc = "store"
      BY <2>1 DEF Store
    <3>2. HonestLoad(t)
      BY <1>t, SMTT(30) DEF HonestLoads
    <3>3. load[t].fp \in 1 .. Len(trees) /\ For(load[t].at, load[t].fp) /\ load[t].fp # disk.next
      BY <3>1, <3>2 DEF HonestLoad, Stamped
    <3>4. load[t].fp \in {disk.boot, disk.live} => load[t].fp = disk[load[t].at]
      BY <1>a, <1>t, <3>3 DEF HonestPlaces, For
    <3>5. load[t].fp \in {disk.boot, disk.live} => load[t].policy = load[t].fp /\ load[t].geo = load[t].fp
      BY <3>1, <3>2, <3>4, SMTT(30) DEF HonestLoad, Stamped
    <3>6. cur'.fp \in {disk'.boot, disk'.live} => cur' = Whole(cur'.fp)
      BY <3>1, <3>5, <1>f DEF Whole
    <3> QED BY <3>1, <3>3, <3>6, <1>f, ZenonT(30) DEF HonestCur, Whole
  <2>2. CASE ~Store(t)
    <3>1. cur' = cur
      BY <2>2, Zenon DEF ReloadStep, Reload, Compare, BuildStamp, BuildPolicy, BuildGeo, Recheck
    <3> QED BY <3>1, <1>t, <1>f DEF HonestCur, Whole
  <2> QED BY <2>1, <2>2
<1> QED BY <1>2, <1>3, <1>4 DEF HonestInv

(* A step that neither writes a tree nor changes what is in place.         *)
LEMMA HonestFrame ==
  ASSUME HonestInv, UNCHANGED <<trees, cur, errors, disk.boot, disk.live, load>>,
         disk'.next \in {0, disk.next}, disk'["boot"] = disk["boot"], disk'["live"] = disk["live"],
         load \in [Threads -> LoadType], watch'.pc \notin {"restore", "restored"}
  PROVE  HonestInv'
<1>1. HonestPlaces /\ HonestLoads /\ HonestCur
  BY DEF HonestInv
<1>2. HonestPlaces'
  BY <1>1 DEF HonestPlaces
<1>3. ASSUME NEW t \in Threads PROVE HonestLoad(t)'
  <2>1. HonestLoad(t) /\ load[t].at \in {"boot", "live"}
    BY <1>1 DEF HonestLoads, LoadType
  <2>2. Stamped(t) => load[t].fp # 0
    BY <2>1 DEF HonestLoad
  <2> QED BY <2>1, <2>2 DEF HonestLoad, Stamped, For
<1>4. HonestCur'
  BY <1>1 DEF HonestCur, Whole
<1> QED BY <1>2, <1>3, <1>4 DEF HonestInv, HonestLoads

(* A tree that is not yet anywhere.                                        *)
LEMMA HonestWrite ==
  ASSUME OrderlyInv, HonestInv, NEW x \in Revision, trees' = Append(trees, x),
         UNCHANGED <<load, cur, errors>>, watch'.pc \notin {"restore", "restored"},
         \/ /\ x.rev = 0 /\ disk'.boot = Len(trees) + 1 /\ UNCHANGED <<disk.live, disk.next>>
         \/ /\ x.rev # 0 /\ x.pack.kind = "ok" /\ disk'.next = Len(trees) + 1
            /\ UNCHANGED <<disk.live, disk.boot>>
  PROVE  HonestInv'
<1>1. HonestPlaces /\ HonestLoads /\ HonestCur /\ TypeOK
  BY DEF HonestInv, OrderlyInv
<1>2. Len(trees) \in Nat /\ Len(trees') = Len(trees) + 1 /\ trees'[Len(trees) + 1] = x
      /\ \A n \in 1 .. Len(trees) : trees'[n] = trees[n]
  BY <1>1, Appended, RevisionTypes
<1>3. /\ disk.live \in 0 .. Len(trees) /\ disk.boot \in 0 .. Len(trees) /\ disk.next \in 0 .. Len(trees)
      /\ load \in [Threads -> LoadType]
  BY <1>1, PlaceTypes
<1>4. HonestPlaces'
  BY <1>1, <1>2, <1>3, SMTT(30) DEF HonestPlaces
<1>5. ASSUME NEW t \in Threads PROVE HonestLoad(t)'
  <2>1. HonestLoad(t) /\ load[t].at \in {"boot", "live"}
    BY <1>1, <1>3, SMTT(30) DEF HonestLoads, LoadType
  <2>2. ASSUME Stamped(t)
        PROVE  /\ load[t].fp \in 1 .. Len(trees') /\ trees'[load[t].fp] = trees[load[t].fp]
               /\ load[t].fp # disk'.next
               /\ load[t].fp = disk'[load[t].at] => load[t].fp = disk[load[t].at]
    <3>1. load[t].fp \in 1 .. Len(trees) /\ load[t].fp # disk.next
      BY <2>1, <2>2 DEF HonestLoad
    <3>2. CASE load[t].at = "boot"
      BY <1>2, <1>3, <3>1, <3>2
    <3>3. CASE load[t].at = "live"
      BY <1>2, <1>3, <3>1, <3>3
    <3> QED BY <2>1, <3>2, <3>3
  <2> QED BY <2>1, <2>2 DEF HonestLoad, Stamped, For
<1>6. HonestCur'
  BY <1>1, <1>2, <1>3 DEF HonestCur, Whole
<1> QED BY <1>4, <1>5, <1>6 DEF HonestInv, HonestLoads

(* A change of the tree in place: what reloads have read stays honest when *)
(* the new one, if any, is the staged one.                                 *)
LEMMA InPlaceHonest ==
  ASSUME HonestLoads, load \in [Threads -> LoadType], Desired \in Threads, UNCHANGED <<trees, disk.boot>>,
         disk'.live \in {0, disk.live, disk.next}, disk'.next \in {0, disk.next},
         \/ load' = load
         \/ load' = [load EXCEPT ![Desired] = load'[Desired]] /\ ~Stamped(Desired)'
  PROVE  HonestLoads'
<1>1. ASSUME NEW t \in Threads PROVE HonestLoad(t)'
  <2>1. CASE load'[t] = load[t]
    <3>1. HonestLoad(t) /\ load[t].at \in {"boot", "live"}
      BY DEF HonestLoads, LoadType
    <3>2. ASSUME Stamped(t)
          PROVE  /\ load[t].fp # disk'.next
                 /\ load[t].fp = disk'[load[t].at] => load[t].fp = disk[load[t].at]
      <4>1. load[t].fp # 0 /\ load[t].fp # disk.next
        BY <3>1, <3>2 DEF HonestLoad
      <4>2. CASE load[t].at = "boot"
        BY <4>1, <4>2
      <4>3. CASE load[t].at = "live"
        BY <4>1, <4>3
      <4> QED BY <3>1, <4>2, <4>3
    <3> QED BY <2>1, <3>1, <3>2 DEF HonestLoad, Stamped, For
  <2>2. CASE load'[t] # load[t]
    <3>1. t = Desired /\ ~Stamped(t)'
      BY <2>2, Zenon
    <3> QED BY <3>1 DEF HonestLoad
  <2> QED BY <2>1, <2>2
<1> QED BY <1>1 DEF HonestLoads

(* Every step keeps the fingerprints honest when no tree is put back.      *)
LEMMA NextHonest ==
  ASSUME NothingPutBack, OrderlyInv, HonestInv, [Next]_vars
  PROVE  HonestInv'
<1>t. /\ disk.live \in 0 .. Len(trees) /\ disk.next \in 0 .. Len(trees)
      /\ disk.prev \in 0 .. Len(trees) /\ disk.boot \in 0 .. Len(trees)
      /\ disk \in DiskType(Len(trees)) /\ watch \in WatchType(Len(kv))
      /\ load \in [Threads -> LoadType] /\ Desired \in Threads
      /\ Len(kv) \in Nat /\ Len(trees) \in Nat /\ applied \in AppliedType
      /\ watch.pc \notin {"off", "idle"} => watch.hand \in 1 .. Len(kv) /\ Hand \in Revision
  BY PlaceTypes DEF OrderlyInv
<1>h. HonestPlaces /\ HonestLoads /\ HonestCur
  BY DEF HonestInv
<1>e. ~(errors < MaxErrors) /\ watch.pc \notin {"restore", "restored"} /\ load[Desired].pc # "error"
  BY <1>h DEF NothingPutBack, HonestPlaces
<1>1. CASE Put \/ ReadCurrent \/ SyncCurrent \/ UNCHANGED vars
  <2>1. UNCHANGED <<trees, cur, errors, disk, load, watch>>
    BY <1>1, <1>e, Zenon DEF Put, ReadCurrent, SyncCurrent, CallSync, vars, disks
  <2> QED BY <1>t, <1>e, <2>1, HonestFrame
<1>2. CASE Edit
  <2>1. PICK x \in Revision : trees' = Append(trees, x) /\ x.rev = 0
    BY <1>2 DEF Edit, Revision
  <2>2. Len(trees') = Len(trees) + 1
    BY <2>1, Appended, RevisionTypes DEF OrderlyInv
  <2>3. disk \in DiskType(Len(trees')) /\ Len(trees') \in Nat /\ Len(trees') \in 0 .. Len(trees')
    BY <1>t, <2>2 DEF DiskType
  <2>4. UNCHANGED <<disk.live, disk.next>> /\ disk'.boot = Len(trees')
    BY <1>2, <2>3, DiskFields, Zenon DEF Edit
  <2>5. UNCHANGED <<load, cur, errors, watch>>
    BY <1>2 DEF Edit
  <2> QED BY <1>e, <2>1, <2>2, <2>4, <2>5, HonestWrite, Zenon
<1>3. CASE Load
  <2>1. UNCHANGED <<trees, errors, disk, load, watch>> /\ cur' = Whole(disk.boot)
    BY <1>3, SMTT(30) DEF Load, disks
  <2>2. HonestPlaces' /\ HonestLoads'
    BY <1>h, <2>1 DEF HonestPlaces, HonestLoads, HonestLoad, Stamped, For
  <2>3. cur'.fp = disk.boot
    BY <2>1 DEF Whole
  <2>4. HonestCur'
    BY <1>h, <1>t, <2>1, <2>3 DEF HonestPlaces, HonestCur, Whole
  <2> QED BY <2>2, <2>4 DEF HonestInv
<1>4. CASE Bootstrap
  <2>1. UNCHANGED <<trees, errors, disk, load>> /\ cur' \in {cur, Whole(disk.live)}
    BY <1>4, <1>e DEF Bootstrap, CallSync, disks
  <2>2. (IF kv = <<>> THEN 0 ELSE Len(kv) - 1) \in 0 .. Len(kv)
    <3>1. kv \in Seq(Revision) /\ Len(kv) \in Nat
      BY <1>t, RevisionTypes, Zenon DEF OrderlyInv
    <3> QED BY ONLY <3>1
  <2>3. watch'.pc = "idle"
    BY <1>4, <1>t, <2>2, StartFields, ZenonT(30) DEF Bootstrap
  <2>4. HonestPlaces' /\ HonestLoads'
    BY <1>h, <2>1, <2>3 DEF HonestPlaces, HonestLoads, HonestLoad, Stamped, For
  <2>5. CASE cur' = cur
    BY <1>h, <2>1, <2>4, <2>5 DEF HonestInv, HonestCur, Whole
  <2>6. CASE cur' = Whole(disk.live)
    <3>1. cur'.fp = disk.live
      BY <2>6, SMTT(30) DEF Whole
    <3>2. HonestCur'
      BY <1>h, <1>t, <2>1, <2>6, <3>1, SMTT(30) DEF HonestPlaces, HonestCur, Whole
    <3> QED BY <2>4, <3>2 DEF HonestInv
  <2> QED BY <2>1, <2>5, <2>6
<1>5. CASE Crash
  <2>1. UNCHANGED <<trees, errors, disk>> /\ cur'.fp = 0 /\ watch'.pc = "off"
        /\ \A t \in Threads : load'[t].pc = "idle"
    BY <1>5 DEF Crash, disks, NoSnapshot, NoWatch, Idle
  <2> QED BY <1>h, <1>t, <2>1, ZenonT(30) DEF HonestInv, HonestPlaces, HonestLoads, HonestLoad, Stamped, HonestCur
<1>6. ASSUME NEW t \in Threads, ReloadStep(t) PROVE HonestInv'
  BY <1>6, ReloadHonest
<1>7. CASE Deliver \/ Retry \/ HandleReturns \/ FetchFails
  <2>1. watch'.pc \in {"handle", "idle"}
    <3>1. CASE Deliver
      BY <3>1 DEF Deliver
    <3>2. CASE ~Deliver
      <4>1. watch.pending \in 0 .. Len(kv) /\ watch.hand \in 0 .. Len(kv)
        BY <1>t DEF WatchType
      <4> QED BY <1>7, <3>2, <1>t, <4>1, WatchFields, Zenon DEF Retry, HandleReturns, FetchFails
    <3> QED BY <3>1, <3>2
  <2>2. UNCHANGED <<trees, cur, errors, disk, load>>
    BY <1>7, Zenon DEF Deliver, Retry, HandleReturns, FetchFails, disks
  <2> QED BY <1>t, <2>1, <2>2, HonestFrame
<1>8. CASE Stage
  <2>1. watch.pc = "handle" /\ trees' = Append(trees, Hand) /\ Step("park") /\ "park" \in WatchPCs
        /\ UNCHANGED <<load, cur, errors>> /\ Parses
    BY <1>8, Zenon DEF Stage, Written, Handled, At, WatchPCs
  <2>2. watch'.pc = "park" /\ Hand \in Revision /\ watch.hand \in 1 .. Len(kv)
    BY <1>t, <2>1, WatchFields, Zenon
  <2>3. Hand.rev # 0
    BY <2>2, RevisionTypes DEF OrderlyInv, OrderInv, PutsInOrder, Hand
  <2>4. Hand.pack.kind = "ok"
    BY <2>1, <2>2, RolloutAssumption DEF NothingPutBack, Parses, Revision
  <2>5. Len(trees') = Len(trees) + 1
    BY <2>1, <2>2, Appended, RevisionTypes DEF OrderlyInv
  <2>6. disk \in DiskType(Len(trees')) /\ Len(trees') \in Nat /\ Len(trees') \in 0 .. Len(trees')
    BY <1>t, <2>5 DEF DiskType
  <2>7. UNCHANGED <<disk.live, disk.boot>> /\ disk'.next = Len(trees')
    BY <1>8, <2>6, DiskFields, Zenon DEF Stage
  <2> QED BY <2>1, <2>2, <2>3, <2>4, <2>5, <2>7, HonestWrite, Zenon
<1>9. CASE Park
  <2>1. Step("promote") /\ "promote" \in WatchPCs /\ UNCHANGED <<trees, load, cur, errors>>
        /\ disk'.live = 0 /\ UNCHANGED <<disk.next, disk.boot>>
    BY <1>9, <1>t, DiskFields, Zenon DEF Park, WatchPCs
  <2>2. watch'.pc = "promote"
    BY <1>t, <2>1, WatchFields, Zenon
  <2>3. HonestPlaces'
    BY <1>h, <2>1, <2>2 DEF HonestPlaces
  <2>4. HonestLoads'
    BY <1>h, <1>t, <2>1, InPlaceHonest
  <2>5. HonestCur'
    BY <1>h, <1>t, <2>1 DEF HonestCur, Whole
  <2> QED BY <2>3, <2>4, <2>5 DEF HonestInv
<1>10. CASE Promote
  <2>1. Step("reload") /\ "reload" \in WatchPCs /\ UNCHANGED <<trees, cur, errors>>
        /\ disk'.live = disk.next /\ disk'.next = 0 /\ UNCHANGED disk.boot
    BY <1>10, <1>t, DiskFields, Zenon DEF Promote, WatchPCs
  <2>2. watch'.pc = "reload"
    BY <1>t, <2>1, WatchFields, ZenonT(30)
  <2>3. load' = [load EXCEPT ![Desired] = load'[Desired]] /\ load'[Desired].pc = "compare"
        /\ load'[Desired].at = "live"
    BY <1>10, <1>t, BeginFields, Zenon DEF Promote
  <2>4. HonestPlaces'
    BY <1>h, <2>1, <2>2, <2>3 DEF HonestPlaces
  <2>5. HonestLoads'
    BY <1>h, <1>t, <2>1, <2>3, InPlaceHonest, Zenon DEF Stamped
  <2>6. HonestCur'
    BY <1>h, <1>t, <2>1 DEF HonestCur, HonestPlaces, Whole
  <2> QED BY <2>4, <2>5, <2>6 DEF HonestInv
<1>11. CASE Adopt
  <2>1. Step("sync") /\ "sync" \in WatchPCs /\ UNCHANGED <<trees, cur, errors>>
        /\ UNCHANGED <<disk.live, disk.next, disk.boot>>
    BY <1>11, <1>t, DiskFields, Zenon DEF Adopt, WatchPCs
  <2>2. watch'.pc = "sync"
    BY <1>t, <2>1, WatchFields, Zenon
  <2>3. load' = [load EXCEPT ![Desired] = load'[Desired]] /\ load'[Desired].pc = "idle"
    BY <1>11, <1>t, SMTT(30) DEF Adopt, Idle
  <2>4. HonestPlaces'
    BY <1>h, <2>1, <2>2, <2>3 DEF HonestPlaces
  <2>5. HonestLoads'
    BY <1>h, <1>t, <2>1, <2>3, InPlaceHonest, Zenon DEF Stamped
  <2>6. HonestCur'
    BY <1>h, <2>1 DEF HonestCur, Whole
  <2> QED BY <2>4, <2>5, <2>6 DEF HonestInv
<1>12. CASE SyncLive
  <2>1. Done /\ UNCHANGED <<trees, cur, errors, disk, load>>
    BY <1>12, <1>e, Zenon DEF SyncLive, CallSync, disks
  <2>2. watch'.pc = "idle"
    BY <1>t, <2>1, WatchFields, Zenon
  <2> QED BY <1>t, <2>1, <2>2, HonestFrame
<1>13. ~StageFails /\ ~Discard /\ ~Restore /\ ~RestoreEnds
  BY <1>e, Zenon DEF StageFails, Discard, Restore, RestoreEnds, At
<1> QED
  BY <1>1, <1>2, <1>3, <1>4, <1>5, <1>6, <1>7, <1>8, <1>9, <1>10, <1>11, <1>12, <1>13, Zenon
  DEF Next, ReloadStep

(* As long as no tree is put back (no pack that parses and fails to load,  *)
(* no failing write or rename), a snapshot that carries the fingerprint of *)
(* the tree in place was read from that tree alone, whatever the reloads   *)
(* of the ticker, of SIGHUP and of Apply interleave (Store.reload, build). *)
THEOREM FingerprintsHonest ==
  ASSUME NothingPutBack
  PROVE  Spec => []FingerprintHonest
<1>1. Init => HonestInv
  BY InitHonest
<1>2. OrderlyInv /\ HonestInv /\ [Next]_vars => HonestInv'
  BY NextHonest
<1>3. OrderlyInv /\ HonestInv => FingerprintHonest
  <2> SUFFICES ASSUME OrderlyInv, HonestInv, cur.fp # 0, cur.fp = disk[paths]
               PROVE  cur = Whole(cur.fp)
    BY DEF FingerprintHonest
  <2>1. paths \in {"boot", "live"}
    BY Zenon DEF OrderlyInv, TypeOK
  <2>2. cur.fp \in {disk.boot, disk.live}
    BY <2>1
  <2> QED BY <2>2 DEF HonestInv, HonestCur
<1> QED BY <1>1, <1>2, <1>3, Inductive, PTL DEF Spec
=============================================================================
