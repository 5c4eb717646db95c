------------------------------ MODULE Rollout ------------------------------
(***************************************************************************)
(* How a policy reaches the requests.  The controller puts packs           *)
(* (generations) under one key of a JetStream bucket; the inspector's      *)
(* watcher (internal/desired) fetches their bodies, writes them as a tree  *)
(* of files and swaps the tree by renames; the store (internal/store)      *)
(* compiles a tree into a snapshot and publishes it through one atomic     *)
(* pointer; the live sets a pack declares are attached by dyn.Store.Sync.  *)
(* Three goroutines reload the store without a common lock: the watcher    *)
(* inside Apply, the ticker of Store.Watch and the SIGHUP handler.  The    *)
(* process may crash between any two steps and start again on the same     *)
(* disk.                                                                   *)
(*                                                                         *)
(* A tree is known by its number in `trees' (0 stands for no directory):   *)
(* path, size and mtime of its files, the fingerprint, are those of one    *)
(* writing.  A load reads a tree in two parts, the policy and the country  *)
(* ranges, with a step in between, so it may read two trees.               *)
(***************************************************************************)
EXTENDS Integers, Sequences

CONSTANTS
    Packs,        \* what the controller may put, and what an operator may
                  \* write by hand: [kind, live, used]
    BootPack,     \* the pack of the tree the image starts with
    Reloaders,    \* goroutines that call Store.Reload: the ticker, SIGHUP
    MaxPuts,      \* bound on the controller's puts
    MaxEdits,     \* bound on hand edits of the bootstrap tree
    MaxOutages,   \* bound on crashes and on failing fetches
    MaxErrors     \* bound on failing writes, renames and subscriptions

\* kind "ok" loads, "bad" passes ParsePack and fails to load, "malformed" is
\* refused by ParsePack; live maps the uuids of the declared live sets to
\* their names, used holds those a set, a rule or an outcome refers to.
ASSUME RolloutAssumption ==
    /\ \A p \in Packs \cup {BootPack} :
         /\ p.kind \in {"ok", "bad", "malformed"}
         /\ p.used \subseteq DOMAIN p.live
    /\ BootPack.kind = "ok"
    /\ "ticker" \in Reloaders /\ "desired" \notin Reloaders
    /\ {MaxPuts, MaxEdits, MaxOutages, MaxErrors} \subseteq Nat

VARIABLES
    kv,         \* the puts under PackKey: records [rev, pack]
    trees,      \* every tree ever written: records [rev, pack], rev 0 by hand
    disk,       \* the directories: boot (WAF_IP_POLICY), live, next, prev
    blobStore,  \* REDIS_INTERNAL_URL is configured
    main,       \* where run() is: "down" when the process does not run
    want,       \* the live sets main has read from the snapshot for its Sync
    cur,        \* Store.cur: the published snapshot
    paths,      \* Store.paths: which directory Reload reads
    load,       \* the reload each goroutine is in
    watch,      \* the desired watcher: step, entry in hand, last entry seen,
                \* pending entry
    applied,    \* desired.Applied
    attached,   \* dyn.Store: uuid |-> name of the subscription
    edits, outages, errors

disks == <<kv, trees, disk, blobStore>>
vars == <<disks, main, want, cur, paths, load, watch, applied, attached,
          edits, outages, errors>>

Desired == "desired"
Threads == Reloaders \cup {Desired}

Idle == [pc |-> "idle", at |-> "boot", fp |-> 0, policy |-> 0, geo |-> 0]
NoWatch == [pc |-> "off", hand |-> 0, seen |-> 0, pending |-> 0]
NotApplied == [rev |-> 0, apply |-> ""]
NoSnapshot == [policy |-> 0, geo |-> 0, fp |-> 0]
None == [u \in {} |-> 0]

\* A snapshot compiled from one tree with nothing happening meanwhile.
Whole(n) == [policy |-> n, geo |-> n, fp |-> n]

Loads(n) == n # 0 /\ trees[n].pack.kind = "ok"

\* usedLive: the declared sets that a rule, a set or an outcome names.
UsedLive(n) == [u \in trees[n].pack.used |-> trees[n].pack.live[u]]

\* dyn.Store.Sync: what is attached stays as it is, what is missing is
\* subscribed under its name, what is not wanted is detached.
Sync(w) == [u \in DOMAIN w |-> IF u \in DOMAIN attached THEN attached[u] ELSE w[u]]

\* A subscription fails: the sets before it are attached, nothing is detached.
SyncCut(w) ==
    LET fresh == DOMAIN w \ DOMAIN attached IN
    {[u \in DOMAIN attached \cup some |-> IF u \in some THEN w[u] ELSE attached[u]] :
       some \in (SUBSET fresh) \ {fresh}}

\* A call of Sync: every caller logs its error and goes on.
CallSync(w) ==
    \/ attached' = Sync(w) /\ UNCHANGED errors
    \/ /\ errors < MaxErrors /\ errors' = errors + 1
       /\ attached' \in SyncCut(w)

Init ==
    /\ kv = <<>>
    /\ trees = <<[rev |-> 0, pack |-> BootPack]>>
    /\ disk = [boot |-> 1, live |-> 0, next |-> 0, prev |-> 0]
    /\ blobStore \in BOOLEAN
    /\ main = "down" /\ want = None
    /\ cur = NoSnapshot /\ paths = "boot"
    /\ load = [t \in Threads |-> Idle]
    /\ watch = NoWatch
    /\ applied = NotApplied
    /\ attached = None
    /\ edits = 0 /\ outages = 0 /\ errors = 0

(***************************************************************************)
(* The controller and the operator.                                        *)
(***************************************************************************)
LastRev == IF kv = <<>> THEN 0 ELSE kv[Len(kv)].rev

\* A new generation, or the last one put again.
Put ==
    /\ Len(kv) < MaxPuts
    /\ \/ \E p \in Packs : kv' = Append(kv, [rev |-> LastRev + 1, pack |-> p])
       \/ kv # <<>> /\ kv' = Append(kv, kv[Len(kv)])
    /\ UNCHANGED <<trees, disk, blobStore, main, want, cur, paths, load, watch,
                   applied, attached, edits, outages, errors>>

\* The bootstrap tree is edited by hand.
Edit ==
    /\ edits < MaxEdits
    /\ edits' = edits + 1
    /\ \E p \in Packs : trees' = Append(trees, [rev |-> 0, pack |-> p])
    /\ disk' = [disk EXCEPT !.boot = Len(trees')]
    /\ UNCHANGED <<kv, blobStore, main, want, cur, paths, load, watch, applied,
                   attached, outages, errors>>

(***************************************************************************)
(* run(): the steps of a start, up to the one that serves.  Until the      *)
(* watcher runs nothing else moves, so Load and Bootstrap are one step.    *)
(***************************************************************************)
\* store.Load; a tree that does not load stops the start.
Load ==
    /\ main = "down"
    /\ Loads(disk.boot)
    /\ main' = "loaded"
    /\ cur' = Whole(disk.boot)
    /\ UNCHANGED <<disks, want, paths, load, watch, applied, attached,
                   edits, outages, errors>>

\* desired.Bootstrap, then desired.Watch: the watcher's first entry is the
\* last one put.
Bootstrap ==
    /\ main = "loaded"
    /\ main' = "watching"
    /\ IF Loads(disk.live)
       THEN /\ cur' = Whole(disk.live)
            /\ paths' = "live"
            /\ CallSync(UsedLive(disk.live))
       ELSE UNCHANGED <<cur, paths, attached, errors>>
    /\ watch' = [NoWatch EXCEPT !.pc = "idle",
                                !.seen = IF kv = <<>> THEN 0 ELSE Len(kv) - 1]
    /\ UNCHANGED <<disks, want, load, applied, edits, outages>>

\* run() reads the snapshot ...
ReadCurrent ==
    /\ main = "watching"
    /\ main' = "read"
    /\ want' = UsedLive(cur.policy)
    /\ UNCHANGED <<disks, cur, paths, load, watch, applied, attached, edits, outages, errors>>

\* ... and attaches its live sets; the subscription and the ticker start.
SyncCurrent ==
    /\ main = "read"
    /\ main' = "serving"
    /\ want' = None
    /\ CallSync(want)
    /\ UNCHANGED <<disks, cur, paths, load, watch, applied, edits, outages>>

Crash ==
    /\ main # "down"
    /\ outages < MaxOutages /\ outages' = outages + 1
    /\ main' = "down" /\ want' = None
    /\ cur' = NoSnapshot /\ paths' = "boot"
    /\ load' = [t \in Threads |-> Idle]
    /\ watch' = NoWatch
    /\ applied' = NotApplied
    /\ attached' = None
    /\ UNCHANGED <<disks, edits, errors>>

(***************************************************************************)
(* Store.reload, step by step, for each goroutine that calls it.           *)
(***************************************************************************)
Goto(t, pc) == load' = [load EXCEPT ![t].pc = pc]
Tree(t) == disk[load[t].at]

\* A goroutine's reload ends: Watch and SIGHUP only log an error, Apply
\* acts on it.
Ends(t, ok) == load' = [load EXCEPT ![t] =
                 [Idle EXCEPT !.pc = IF t # Desired THEN "idle"
                                     ELSE IF ok THEN "ok" ELSE "error"]]

\* Reload: the paths are read once, before anything else.
Reload(t) ==
    /\ t \in Reloaders /\ main = "serving"
    /\ load[t].pc = "idle"
    /\ load' = [load EXCEPT ![t] = [Idle EXCEPT !.pc = "compare", !.at = paths]]
    /\ UNCHANGED <<disks, main, want, cur, paths, watch, applied, attached,
                   edits, outages, errors>>

\* The fingerprint of the tree: no change, nothing to do.
Compare(t) ==
    /\ load[t].pc = "compare"
    /\ CASE Tree(t) = 0 -> Ends(t, FALSE)
         [] Tree(t) # 0 /\ cur.fp = Tree(t) -> Ends(t, TRUE)
         [] OTHER -> Goto(t, "build")
    /\ UNCHANGED <<disks, main, want, cur, paths, watch, applied, attached,
                   edits, outages, errors>>

\* build takes the fingerprint before it reads a file.
BuildStamp(t) ==
    /\ load[t].pc = "build"
    /\ IF Tree(t) = 0
       THEN Ends(t, FALSE)
       ELSE load' = [load EXCEPT ![t].pc = "policy", ![t].fp = Tree(t)]
    /\ UNCHANGED <<disks, main, want, cur, paths, watch, applied, attached,
                   edits, outages, errors>>

\* Lists, sets, live.yaml and profiles: a read error or a rule that names
\* what is not there fails the load.
BuildPolicy(t) ==
    /\ load[t].pc = "policy"
    /\ IF Loads(Tree(t))
       THEN load' = [load EXCEPT ![t].pc = "geo", ![t].policy = Tree(t)]
       ELSE Ends(t, FALSE)
    /\ UNCHANGED <<disks, main, want, cur, paths, watch, applied, attached,
                   edits, outages, errors>>

\* Variant of BuildGeo: the fingerprint is taken after the files are read.
BuildGeoStampsLate(t) ==
    /\ load[t].pc = "geo"
    /\ IF Tree(t) # 0
       THEN load' = [load EXCEPT ![t].pc = "recheck", ![t].geo = Tree(t), ![t].fp = Tree(t)]
       ELSE Ends(t, FALSE)
    /\ UNCHANGED <<disks, main, want, cur, paths, watch, applied, attached,
                   edits, outages, errors>>

\* The country ranges.
BuildGeo(t) ==
    /\ load[t].pc = "geo"
    /\ IF Tree(t) # 0
       THEN load' = [load EXCEPT ![t].pc = "recheck", ![t].geo = Tree(t)]
       ELSE Ends(t, FALSE)
    /\ UNCHANGED <<disks, main, want, cur, paths, watch, applied, attached,
                   edits, outages, errors>>

\* The second comparison: another goroutine may have stored this tree.
Recheck(t) ==
    /\ load[t].pc = "recheck"
    /\ IF cur.fp = load[t].fp THEN Ends(t, TRUE) ELSE Goto(t, "store")
    /\ UNCHANGED <<disks, main, want, cur, paths, watch, applied, attached,
                   edits, outages, errors>>

\* The pointer is stored, whatever it holds by now.
Store(t) ==
    /\ load[t].pc = "store"
    /\ cur' = [policy |-> load[t].policy, geo |-> load[t].geo, fp |-> load[t].fp]
    /\ Ends(t, TRUE)
    /\ UNCHANGED <<disks, main, want, paths, watch, applied, attached, edits, outages, errors>>

(***************************************************************************)
(* The desired watcher.                                                    *)
(***************************************************************************)
At(pc) == watch.pc = pc /\ load[Desired].pc = "idle"
Hand == kv[watch.hand]
Step(pc) == watch' = [watch EXCEPT !.pc = pc]

\* handle returns false: the entry in hand is over.
Done == watch' = [watch EXCEPT !.pc = "idle", !.hand = 0]
Fails == applied' = [applied EXCEPT !.apply = "failed"]

\* Variant of Deliver: what was pending stays pending.
DeliverKeeps ==
    /\ At("idle")
    /\ watch.seen < Len(kv)
    /\ watch' = [watch EXCEPT !.pc = "handle", !.hand = watch.seen + 1,
                              !.seen = watch.seen + 1]
    /\ UNCHANGED <<disks, main, want, cur, paths, load, applied, attached,
                   edits, outages, errors>>

\* A new entry clears what was pending.
Deliver ==
    /\ At("idle")
    /\ watch.seen < Len(kv)
    /\ watch' = [pc |-> "handle", hand |-> watch.seen + 1,
                 seen |-> watch.seen + 1, pending |-> 0]
    /\ UNCHANGED <<disks, main, want, cur, paths, load, applied, attached,
                   edits, outages, errors>>

\* The retry timer fires: the entry is pending again only if its bodies
\* cannot be fetched again.
Retry ==
    /\ At("idle")
    /\ watch.pending # 0
    /\ watch' = [watch EXCEPT !.pc = "handle", !.hand = watch.pending,
                              !.pending = 0]
    /\ UNCHANGED <<disks, main, want, cur, paths, load, applied, attached,
                   edits, outages, errors>>

\* ParsePack and check accept the entry.
Parses == Hand.pack.kind # "malformed"

\* handle: this revision is the one applied.
Known == applied = [rev |-> Hand.rev, apply |-> "ok"]

\* ParsePack refuses the entry, or it is the one applied, or there is
\* nowhere to fetch the bodies from.
HandleReturns ==
    /\ At("handle")
    /\ Done
    /\ \/ (~Parses \/ Known) /\ UNCHANGED applied
       \/ Parses /\ ~Known /\ ~blobStore /\ Fails
    /\ UNCHANGED <<disks, main, want, cur, paths, load, attached, edits, outages, errors>>

Handled == At("handle") /\ Parses /\ ~Known /\ blobStore

\* Variant of FetchFails: no retry.
FetchFailsOnce ==
    /\ Handled
    /\ outages < MaxOutages /\ outages' = outages + 1
    /\ Done
    /\ Fails
    /\ UNCHANGED <<disks, main, want, cur, paths, load, attached, edits, errors>>

\* FetchBlobs fails: the only failure that is retried.
FetchFails ==
    /\ Handled
    /\ outages < MaxOutages /\ outages' = outages + 1
    /\ watch' = [watch EXCEPT !.pc = "idle", !.hand = 0, !.pending = watch.hand]
    /\ Fails
    /\ UNCHANGED <<disks, main, want, cur, paths, load, attached, edits, errors>>

\* write: the files of the pack, as one new tree.
Written == Append(trees, Hand)

\* FetchBlobs; Apply clears the staging directory, writes the tree there and
\* clears the parked one.
Stage ==
    /\ Handled
    /\ trees' = Written
    /\ disk' = [disk EXCEPT !.next = Len(trees'), !.prev = 0]
    /\ Step("park")
    /\ UNCHANGED <<kv, blobStore, main, want, cur, paths, load, applied, attached,
                   edits, outages, errors>>

\* Variant of StageFails: the parked tree is not put back.
StageFailsParked ==
    /\ Handled \/ At("park") \/ At("promote")
    /\ errors < MaxErrors /\ errors' = errors + 1
    /\ disk' = [disk EXCEPT !.next = 0]
    /\ Done /\ Fails
    /\ UNCHANGED <<kv, trees, blobStore, main, want, cur, paths, load, attached,
                   edits, outages>>

\* The write fails, or one of the renames: the staging directory is removed
\* and a parked tree is put back.
StageFails ==
    /\ Handled \/ At("park") \/ At("promote")
    /\ errors < MaxErrors /\ errors' = errors + 1
    /\ disk' = IF At("promote")
               THEN [disk EXCEPT !.next = 0, !.live = disk.prev, !.prev = 0]
               ELSE [disk EXCEPT !.next = 0]
    /\ Done /\ Fails
    /\ UNCHANGED <<kv, trees, blobStore, main, want, cur, paths, load, attached,
                   edits, outages>>

Park ==
    /\ At("park")
    /\ disk' = [disk EXCEPT !.prev = disk.live, !.live = 0]
    /\ Step("promote")
    /\ UNCHANGED <<kv, trees, blobStore, main, want, cur, paths, load, applied,
                   attached, edits, outages, errors>>

\* The staged tree takes its place, and ReloadFrom begins.
Promote ==
    /\ At("promote")
    /\ disk' = [disk EXCEPT !.live = disk.next, !.next = 0]
    /\ Step("reload")
    /\ load' = [load EXCEPT ![Desired] = [Idle EXCEPT !.pc = "compare", !.at = "live"]]
    /\ UNCHANGED <<kv, trees, blobStore, main, want, cur, paths, applied, attached,
                   edits, outages, errors>>

\* ReloadFrom stores the paths after the reload, and the parked tree goes.
Adopt ==
    /\ watch.pc = "reload" /\ load[Desired].pc = "ok"
    /\ load' = [load EXCEPT ![Desired] = Idle]
    /\ paths' = "live"
    /\ disk' = [disk EXCEPT !.prev = 0]
    /\ Step("sync")
    /\ UNCHANGED <<kv, trees, blobStore, main, want, cur, applied, attached,
                   edits, outages, errors>>

\* The tree does not load: it is removed ...
Discard ==
    /\ watch.pc = "reload" /\ load[Desired].pc = "error"
    /\ load' = [load EXCEPT ![Desired] = Idle]
    /\ disk' = [disk EXCEPT !.live = 0]
    /\ Step("restore")
    /\ UNCHANGED <<kv, trees, blobStore, main, want, cur, paths, applied, attached,
                   edits, outages, errors>>

\* ... and the parked one, if there was one, comes back and is reloaded.
Restore ==
    /\ At("restore")
    /\ IF disk.prev # 0
       THEN /\ disk' = [disk EXCEPT !.live = disk.prev, !.prev = 0]
            /\ load' = [load EXCEPT ![Desired] = [Idle EXCEPT !.pc = "compare", !.at = "live"]]
            /\ Step("restored")
            /\ UNCHANGED applied
       ELSE Done /\ Fails /\ UNCHANGED <<disk, load>>
    /\ UNCHANGED <<kv, trees, blobStore, main, want, cur, paths, attached, edits, outages, errors>>

\* The second ReloadFrom stores the paths when it succeeds; its error is
\* dropped, handle reports the first one.
RestoreEnds ==
    /\ watch.pc = "restored" /\ load[Desired].pc \in {"ok", "error"}
    /\ load' = [load EXCEPT ![Desired] = Idle]
    /\ paths' = IF load[Desired].pc = "ok" THEN "live" ELSE paths
    /\ Done /\ Fails
    /\ UNCHANGED <<disks, main, want, cur, attached, edits, outages, errors>>

\* live.Sync over every set the pack declares, then Applied.set.
SyncLive ==
    /\ At("sync")
    /\ CallSync(Hand.pack.live)
    /\ applied' = [rev |-> Hand.rev, apply |-> "ok"]
    /\ Done
    /\ UNCHANGED <<disks, main, want, cur, paths, load, edits, outages>>

Next ==
    \/ Put \/ Edit
    \/ Load \/ Bootstrap \/ ReadCurrent \/ SyncCurrent \/ Crash
    \/ \E t \in Threads : Reload(t) \/ Compare(t) \/ BuildStamp(t)
                            \/ BuildPolicy(t) \/ BuildGeo(t)
                            \/ Recheck(t) \/ Store(t)
    \/ Deliver \/ Retry \/ HandleReturns \/ FetchFails
    \/ Stage \/ StageFails \/ Park \/ Promote \/ Adopt
    \/ Discard \/ Restore \/ RestoreEnds \/ SyncLive

Spec == Init /\ [][Next]_vars

\* A process that is down is started again; the goroutines run; the ticker
\* and the retry timer fire.  SIGHUP need not come, puts need not either.
Ticker == "ticker"

FairSpec ==
    /\ Spec
    /\ WF_vars(Load) /\ WF_vars(Bootstrap) /\ WF_vars(ReadCurrent)
    /\ WF_vars(SyncCurrent)
    /\ WF_vars(Reload(Ticker))
    /\ \A t \in Threads : WF_vars(Compare(t) \/ BuildStamp(t) \/ BuildPolicy(t)
                                  \/ BuildGeo(t) \/ Recheck(t) \/ Store(t))
    /\ WF_vars(Deliver \/ Retry) /\ WF_vars(HandleReturns \/ Stage)
    /\ WF_vars(Park \/ Promote \/ Adopt \/ Discard \/ Restore \/ RestoreEnds
                 \/ SyncLive)

----------------------------------------------------------------------------
(***************************************************************************)
(* Properties.                                                             *)
(***************************************************************************)
\* Generations reach the disk in the order the controller put them: a retry
\* of a pack whose bodies were late never writes it over a newer one, and a
\* restart never goes back (the watcher's pending entry and its reset).
InOrder ==
    \A i, j \in DOMAIN trees :
      i < j /\ trees[i].rev # 0 /\ trees[j].rev # 0 => trees[i].rev =< trees[j].rev

\* Between two entries the tree on disk is the generation the presence frame
\* names, also after an apply that failed at any of its steps: the write, a
\* rename, or the load, after which the parked tree is back (desired.Apply).
AppliedIsOnDisk ==
    watch.pc = "idle" /\ applied.rev # 0
      => /\ disk.live # 0 /\ trees[disk.live].rev = applied.rev
         /\ paths = "live"
         /\ disk.next = 0 /\ disk.prev = 0

\* As long as no tree is ever put back, the snapshot that carries the
\* fingerprint of the tree in place is made of that tree alone: what a
\* reload read while Apply renamed, or while a file was edited, it stores
\* only under a fingerprint the next reload will not accept (build takes it
\* before it reads a file).
FingerprintHonest ==
    cur.fp # 0 /\ cur.fp = disk[paths] => cur = Whole(cur.fp)

\* Once puts, edits and outages are over, the snapshot is the tree in place,
\* whichever goroutine stored last (Store.Watch).
Converges ==
    <>[](main = "serving" /\ Loads(disk[paths]) => cur = Whole(disk[paths]))

\* The last generation put is applied in the end, if it loads and its bodies
\* can be fetched, through crashes and failing fetches (Watch's retry).
LastIsApplied ==
    <>[](main = "serving" /\ blobStore /\ errors = 0 /\ kv # <<>> /\ kv[Len(kv)].pack.kind = "ok"
           => applied = [rev |-> LastRev, apply |-> "ok"])

----------------------------------------------------------------------------
(***************************************************************************)
(* What the documentation says.                                            *)
(***************************************************************************)
Quiet ==
    /\ main = "serving" /\ watch.pc = "idle" /\ watch.seen = Len(kv)
    /\ \A t \in Threads : load[t].pc = "idle"
    /\ cur.fp = disk[paths]

\* README, on active sets: "keeper keeps the content and the inspector
\* mirrors it".  With no reload running and the snapshot up to date, every
\* live set the snapshot refers to is attached (dyn.Store.Sync).
UsedAreMirrored ==
    Quiet /\ errors = 0 => trees[cur.policy].pack.used \subseteq DOMAIN attached

\* README: "A generation replaces this tree as a whole".  With no reload
\* running and the snapshot up to date, it was read from one tree.
ServedWhole == Quiet => cur = Whole(cur.fp)
=============================================================================
