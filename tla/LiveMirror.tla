----------------------------- MODULE LiveMirror -----------------------------
(***************************************************************************)
(* The mirror of one live set: internal/dyn/dyn.go.  keeper, a service     *)
(* outside this repository, owns the content.  Every change gets the next  *)
(* sequence number; it is announced in a frame on the bus, and a package   *)
(* with the change is put into Redis under the set's name and the number.  *)
(* A restarted keeper starts a new epoch at number 0, while packages of    *)
(* the old epoch may still lie in Redis under the same keys.               *)
(*                                                                         *)
(* The mirror is one goroutine (run): it takes frames from a bounded       *)
(* channel and, when it is behind or in doubt, reads packages (catchUp) or *)
(* asks for a snapshot.  One action is the code between two calls over the *)
(* network.  Frames may be lost; requests and reads may fail; packages may *)
(* expire or be unreadable.  A malformed frame (bad json, version or epoch) *)
(* is ignored by the code, so it is a lost frame here.  The content is     *)
(* what module Composition keeps; its hash tells prefixes, not expiries.   *)
(***************************************************************************)
EXTENDS Naturals, Sequences

CONSTANTS
  Prefixes,
  Exps,        \* expiries an entry can carry
  Absent,      \* the value of a prefix that is not in the set
  NoRecord,    \* in place of a record not written yet
  MaxEpoch,    \* keeper restarts MaxEpoch - 1 times at most
  MaxSeq,      \* changes per epoch at most
  QueueDepth,  \* queueDepth: frames the channel holds
  PerRead,     \* packagesPerRead
  BadSnapshots \* whether keeper may send a snapshot the mirror cannot reproduce

Contents == [Prefixes -> Exps \cup {Absent}]
Empty == [p \in Prefixes |-> Absent]
Epochs == 1 .. MaxEpoch

(* A record of a package: the prefix and its expiry, Absent for a removal. *)
Records == [prefix : Prefixes, exp : Exps \cup {Absent}]

ASSUME MirrorAssumption ==
  /\ Absent \notin Exps /\ NoRecord \notin Records
  /\ MaxEpoch \in Nat \ {0} /\ MaxSeq \in Nat
  /\ QueueDepth \in Nat \ {0} /\ PerRead \in Nat \ {0}
  /\ BadSnapshots \in BOOLEAN

(* What the hash sees of a content.                                        *)
HashOf(c) == {p \in Prefixes : c[p] # Absent}

(* composition.apply of one record.                                        *)
Apply(c, r) == [c EXCEPT ![r.prefix] = r.exp]

(* Frames.  The hash a frame carries is that of the content it announces.  *)
Frames == [op : {"diff", "tick"}, epoch : Epochs, seq : 0 .. MaxSeq, inline : BOOLEAN]
Resync == [op |-> "resync", epoch |-> 1, seq |-> 0, inline |-> FALSE]

VARIABLES
  kEpoch, kSeq,  \* keeper's position
  hist,          \* hist[e][n]: keeper's content in epoch e at number n
  recs,          \* recs[e][n]: the record of change n of epoch e
  pkg,           \* pkg[n]: epoch of the package under key n in Redis,
                 \*         0 none, MaxEpoch + 1 unreadable
  in,            \* set.in
  pc,            \* where the goroutine is
  ready, epoch, seq, comp, snapBad,   \* the fields of Set
  ref,           \* the snapshot keeper answered with, to be read from Redis
  upto,          \* the frame catchUp works towards: [epoch, seq]
  batch,         \* packages read and not applied yet (values of pkg)
  tainted        \* history: comp was loaded from an unreproducible snapshot

keeperVars == <<kEpoch, kSeq, hist, recs>>
setVars == <<ready, epoch, seq, comp, snapBad, tainted>>
readVars == <<ref, upto, batch>>
vars == <<keeperVars, pkg, in, pc, setVars, readVars>>

None == 0
Unreadable == MaxEpoch + 1

NoRef == [epoch |-> 1, seq |-> 0, bad |-> FALSE]
NoUpto == [epoch |-> 1, seq |-> 0]

(* Types of the variables: the fields of Set, keeper and the packages in   *)
(* Redis.                                                                  *)
TypeOK ==
  /\ kEpoch \in Epochs /\ kSeq \in 0 .. MaxSeq
  /\ hist \in [Epochs -> [0 .. MaxSeq -> Contents]]
  /\ recs \in [Epochs -> [1 .. MaxSeq -> Records \cup {NoRecord}]]
  /\ pkg \in [1 .. MaxSeq -> 0 .. MaxEpoch + 1]
  /\ in \in Seq(Frames \cup {Resync})
  /\ pc \in {"idle", "request", "fetch", "mget", "apply"}
  /\ ready \in BOOLEAN /\ snapBad \in BOOLEAN /\ tainted \in BOOLEAN
  /\ epoch \in 0 .. MaxEpoch /\ seq \in 0 .. MaxSeq
  /\ comp \in Contents
  /\ ref \in [epoch : Epochs, seq : 0 .. MaxSeq, bad : BOOLEAN]
  /\ upto \in [epoch : Epochs, seq : 0 .. MaxSeq]
  /\ batch \in Seq(0 .. MaxEpoch + 1)

(* newSet, attached by Sync: run starts with a snapshot.                   *)
Init ==
  /\ kEpoch = 1 /\ kSeq = 0
  /\ hist = [e \in Epochs |-> [n \in 0 .. MaxSeq |-> Empty]]
  /\ recs = [e \in Epochs |-> [n \in 1 .. MaxSeq |-> NoRecord]]
  /\ pkg = [n \in 1 .. MaxSeq |-> None]
  /\ in = <<>> /\ pc = "request"
  /\ ready = FALSE /\ epoch = 0 /\ seq = 0 /\ comp = Empty
  /\ snapBad = FALSE /\ tainted = FALSE
  /\ ref = NoRef /\ upto = NoUpto /\ batch = <<>>
-----------------------------------------------------------------------------
(* keeper and Redis (external).                                            *)

(* The subscription callback: a frame that finds the channel full is       *)
(* dropped; the bus may lose it before.                                    *)
Deliver(f) ==
  \/ Len(in) < QueueDepth /\ in' = Append(in, f)
  \/ UNCHANGED in

KeeperChange(r, inline) ==
  /\ kSeq < MaxSeq /\ hist[kEpoch][kSeq][r.prefix] # r.exp
  /\ kSeq' = kSeq + 1 /\ UNCHANGED kEpoch
  /\ hist' = [hist EXCEPT ![kEpoch][kSeq + 1] = Apply(hist[kEpoch][kSeq], r)]
  /\ recs' = [recs EXCEPT ![kEpoch][kSeq + 1] = r]
  /\ pkg' = [pkg EXCEPT ![kSeq + 1] = kEpoch]
  /\ Deliver([op |-> "diff", epoch |-> kEpoch, seq |-> kSeq + 1, inline |-> inline])
  /\ UNCHANGED <<pc, setVars, readVars>>

(* A new epoch starts from what the old one left, or from nothing.         *)
KeeperRestart(c) ==
  /\ kEpoch < MaxEpoch /\ c \in {hist[kEpoch][kSeq], Empty}
  /\ kEpoch' = kEpoch + 1 /\ kSeq' = 0
  /\ hist' = [hist EXCEPT ![kEpoch + 1][0] = c]
  /\ UNCHANGED <<recs, pkg, in, pc, setVars, readVars>>

KeeperTick ==
  /\ Len(in) < QueueDepth
  /\ in' = Append(in, [op |-> "tick", epoch |-> kEpoch, seq |-> kSeq, inline |-> FALSE])
  /\ UNCHANGED <<keeperVars, pkg, pc, setVars, readVars>>

RedisLose(n, how) ==
  /\ pkg[n] \in Epochs /\ how \in {None, Unreadable}
  /\ pkg' = [pkg EXCEPT ![n] = how]
  /\ UNCHANGED <<keeperVars, in, pc, setVars, readVars>>
-----------------------------------------------------------------------------
(* Variants of ToSnapshot: snapBad is not looked at; nothing is asked for. *)
ToSnapshotAlways(bad) == pc' = "request"
ToSnapshotNever(bad) == pc' = "idle"

(* The mirror.  snapshot() is always the last thing its callers do, and it *)
(* does nothing while snapBad is set.                                      *)
ToSnapshot(bad) == pc' = IF bad THEN "idle" ELSE "request"

(* Locals of a call that is over.                                          *)
Return == ref' = NoRef /\ upto' = NoUpto /\ batch' = <<>>

(* resync: every two seconds a nudge for a set that has no content yet.    *)
ResyncTick ==
  /\ ~ready /\ Len(in) < QueueDepth
  /\ in' = Append(in, Resync)
  /\ UNCHANGED <<keeperVars, pkg, pc, setVars, readVars>>

(* verify: compare hashes; a mismatch leads to a snapshot unless the last  *)
(* one was bad already.                                                    *)
Verify(want) == IF HashOf(comp) = want THEN pc' = "idle" ELSE ToSnapshot(snapBad)

(* onFrame, up to the first network call it leads to.  The package inside  *)
(* a frame, one step ahead, is applied, or refused if it does not unpack;  *)
(* one that is not base64 is read from Redis like any other.               *)
OnFrame ==
  /\ pc = "idle" /\ in # <<>>
  /\ in' = Tail(in)
  /\ LET f == Head(in) IN
     \/ /\ ~ready
        /\ ToSnapshot(snapBad)
        /\ UNCHANGED <<snapBad, upto, batch>>
     \/ /\ ready /\ f.op = "resync"
        /\ UNCHANGED <<pc, snapBad, upto, batch>>
     \/ /\ ready /\ f.op # "resync" /\ f.epoch # epoch
        /\ snapBad' = FALSE
        /\ pc' = "request"
        /\ UNCHANGED <<upto, batch>>
     \/ /\ ready /\ f.op # "resync" /\ f.epoch = epoch /\ f.seq < seq
        /\ UNCHANGED <<pc, snapBad, upto, batch>>
     \/ /\ ready /\ f.op # "resync" /\ f.epoch = epoch /\ f.seq = seq
        /\ Verify(HashOf(hist[f.epoch][f.seq]))
        /\ UNCHANGED <<snapBad, upto, batch>>
     \/ /\ ready /\ f.op # "resync" /\ f.epoch = epoch /\ f.seq > seq
        /\ upto' = [epoch |-> f.epoch, seq |-> f.seq]
        /\ \/ /\ f.op = "diff" /\ f.inline /\ f.seq = seq + 1
              /\ pc' = "apply" /\ batch' \in {<<f.epoch>>, <<Unreadable>>}
           \/ pc' = "mget" /\ UNCHANGED batch
        /\ UNCHANGED snapBad
  /\ UNCHANGED <<keeperVars, pkg, ready, epoch, seq, comp, tainted, ref>>

(* catchUp: one MGET of the next packages; an error gives up until the     *)
(* next frame.                                                             *)
Smaller(a, b) == IF a < b THEN a ELSE b

ReadPackages ==
  /\ pc = "mget"
  /\ batch' = [i \in 1 .. Smaller(upto.seq - seq, PerRead) |-> pkg[seq + i]]
  /\ pc' = "apply"
  /\ UNCHANGED <<keeperVars, pkg, in, setVars, ref, upto>>

ReadFails ==
  /\ pc = "mget"
  /\ pc' = "idle" /\ Return
  /\ UNCHANGED <<keeperVars, pkg, in, setVars>>

(* Variant of Fits: any epoch will do.                                     *)
FitsAny(e) == e \in Epochs

(* The head of a package, read under the key of the number wanted, must    *)
(* name the set's epoch.                                                   *)
Fits(e) == e = epoch

(* applyPackage of the first package read.  Its epoch and number must be   *)
(* the set's; then its record is applied and the hash in its head checked. *)
(* With the batch used up catchUp reads on or, at its goal, verifies the   *)
(* frame's hash, which is that of the last package.                        *)
ApplyPackage ==
  /\ pc = "apply" /\ batch # <<>>
  /\ \/ /\ ~Fits(Head(batch))
        /\ ToSnapshot(snapBad) /\ Return
        /\ UNCHANGED <<seq, comp>>
     \/ /\ Fits(Head(batch))
        /\ seq' = seq + 1
        /\ comp' = Apply(comp, recs[Head(batch)][seq + 1])
        /\ \/ /\ HashOf(comp') # HashOf(hist[Head(batch)][seq + 1])
              /\ ToSnapshot(snapBad) /\ Return
           \/ /\ HashOf(comp') = HashOf(hist[Head(batch)][seq + 1])
              /\ seq' = upto.seq
              /\ pc' = "idle" /\ Return
           \/ /\ HashOf(comp') = HashOf(hist[Head(batch)][seq + 1])
              /\ seq' < upto.seq
              /\ pc' = IF Tail(batch) = <<>> THEN "mget" ELSE "apply"
              /\ batch' = Tail(batch) /\ UNCHANGED <<ref, upto>>
  /\ UNCHANGED <<keeperVars, pkg, in, ready, epoch, snapBad, tainted>>

(* snapshot: ask keeper, which names an object it stored; then read it.    *)
(* keeper is taken to name its newest content: the mirror loads whatever   *)
(* position the object's head has, and compares it with nothing.           *)
SnapshotRequest(bad) ==
  /\ pc = "request" /\ (bad => BadSnapshots)
  /\ ref' = [epoch |-> kEpoch, seq |-> kSeq, bad |-> bad]
  /\ pc' = "fetch"
  /\ UNCHANGED <<keeperVars, pkg, in, setVars, upto, batch>>

(* No answer, a refusal, or an object that is gone, unreadable or of       *)
(* another type: the set stays as it is until the next frame.              *)
SnapshotFails ==
  /\ pc \in {"request", "fetch"}
  /\ pc' = "idle" /\ Return
  /\ UNCHANGED <<keeperVars, pkg, in, setVars>>

(* Variant of SnapshotLoad: the number is not taken over.                  *)
SnapshotLoadFromZero(c) ==
  /\ pc = "fetch" /\ ~ref.bad /\ c = hist[ref.epoch][ref.seq]
  /\ epoch' = ref.epoch /\ seq' = 0 /\ comp' = c
  /\ ready' = TRUE /\ snapBad' = FALSE /\ tainted' = FALSE
  /\ pc' = "idle" /\ Return
  /\ UNCHANGED <<keeperVars, pkg, in>>

(* The object replaces everything.  One that does not hash to what its     *)
(* head says is used all the same, and marked.                             *)
SnapshotLoad(c) ==
  /\ pc = "fetch"
  /\ IF ref.bad THEN HashOf(c) # HashOf(hist[ref.epoch][ref.seq])
                ELSE c = hist[ref.epoch][ref.seq]
  /\ epoch' = ref.epoch /\ seq' = ref.seq /\ comp' = c
  /\ ready' = TRUE
  /\ snapBad' = (HashOf(c) # HashOf(hist[ref.epoch][ref.seq]))
  /\ tainted' = ref.bad
  /\ pc' = "idle" /\ Return
  /\ UNCHANGED <<keeperVars, pkg, in>>
-----------------------------------------------------------------------------
Environment ==
  \/ \E r \in Records, inline \in BOOLEAN : KeeperChange(r, inline)
  \/ \E c \in Contents : KeeperRestart(c)
  \/ KeeperTick
  \/ \E n \in 1 .. MaxSeq, how \in {None, Unreadable} : RedisLose(n, how)

SnapshotSucceeds == \E c \in Contents : SnapshotLoad(c)

Mirror ==
  \/ ResyncTick \/ OnFrame
  \/ ReadPackages \/ ReadFails \/ ApplyPackage
  \/ \E bad \in BOOLEAN : SnapshotRequest(bad)
  \/ SnapshotFails \/ SnapshotSucceeds

Next == Environment \/ Mirror

Spec == Init /\ [][Next]_vars

(* keeper keeps ticking, goroutines run, and a request or a read that is   *)
(* tried again and again succeeds in the end.                              *)
FairSpec ==
  /\ Spec
  /\ WF_vars(KeeperTick) /\ WF_vars(ResyncTick)
  /\ WF_vars(OnFrame) /\ WF_vars(ApplyPackage)
  /\ SF_vars(ReadPackages)
  /\ SF_vars(\E bad \in BOOLEAN : SnapshotRequest(bad)) /\ SF_vars(SnapshotSucceeds)
-----------------------------------------------------------------------------
(* Properties.                                                             *)

(* The mirror's content, expiries included, is keeper's content at exactly *)
(* the epoch and number the mirror claims, between any two steps, whatever *)
(* frames were lost, packages expired or left over from an older epoch,    *)
(* and requests failed.  The only exception is a snapshot that does not    *)
(* hash to its own head (onFrame, catchUp, applyPackage, snapshot).        *)
Faithful == ready /\ ~tainted => comp = hist[epoch][seq]

(* A set never goes back in time: it leaves an epoch only for a later one  *)
(* and within an epoch its number never falls, although a snapshot is      *)
(* asked for, stored and read in separate steps.  This rests on keeper     *)
(* answering with its newest content (SnapshotRequest), for snapshot       *)
(* replaces the set without looking at its position; what it needs of the  *)
(* mirror is that nothing it has moves on between the request and the load *)
(* (onFrame, catchUp, applyPackage, snapshot, run).                        *)
NoRegress ==
  [][ready => ready' /\ (epoch' > epoch \/ (epoch' = epoch /\ seq' >= seq))]_vars

Current == ready /\ epoch = kEpoch /\ seq = kSeq /\ comp = hist[kEpoch][kSeq]

(* When keeper's content stops changing, the mirror ends up with it and    *)
(* stays there, unless it was given an unreproducible snapshot.            *)
EventuallyCurrent == <>[](Current \/ tainted)

(* A snapshot the mirror cannot reproduce does not make it ask for         *)
(* snapshots for ever: in a quiet epoch the requests end, although every   *)
(* tick finds the divergence again (verify, snapBad).                      *)
NoSnapshotStorm == <>[](pc # "request")
=============================================================================
