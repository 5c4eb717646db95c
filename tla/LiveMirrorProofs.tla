-------------------------- MODULE LiveMirrorProofs --------------------------
(***************************************************************************)
(* Theorems about LiveMirror for any set of prefixes and expiries, any     *)
(* number of epochs and changes, and any channel depth and read size.  The *)
(* inductive invariant comes first, then one lemma per action, then the    *)
(* theorems.                                                               *)
(***************************************************************************)
EXTENDS LiveMirror, TLAPS

Written(e, n) == e \in Epochs /\ n \in 1 .. MaxSeq /\ recs[e][n] # NoRecord

(* keeper's log: each written record leads from one content to the next,   *)
(* and nothing is written beyond keeper's position.                        *)
KeeperLog ==
  \A e \in Epochs, n \in 1 .. MaxSeq : recs[e][n] # NoRecord =>
    /\ hist[e][n] = Apply(hist[e][n - 1], recs[e][n])
    /\ e < kEpoch \/ (e = kEpoch /\ n <= kSeq)

(* What a package, wherever it is, was written for.                        *)
Packages ==
  /\ \A n \in 1 .. MaxSeq : pkg[n] \in Epochs => Written(pkg[n], n)
  /\ \A i \in 1 .. Len(in) : in[i].op = "diff" => Written(in[i].epoch, in[i].seq)
  /\ pc = "apply" => \A i \in 1 .. Len(batch) :
                       batch[i] \in Epochs => Written(batch[i], seq + i)

(* catchUp never reads or applies beyond its goal.                         *)
Goal ==
  /\ pc \in {"mget", "apply"} => ready /\ seq < upto.seq
  /\ pc = "apply" => seq + Len(batch) <= upto.seq

NotAfter(e1, n1, e2, n2) == e1 < e2 \/ (e1 = e2 /\ n1 <= n2)

(* The mirror, and a snapshot on its way to it, are not ahead of keeper,   *)
(* and the snapshot is not behind the mirror.                              *)
Position ==
  /\ ready => epoch \in Epochs /\ NotAfter(epoch, seq, kEpoch, kSeq)
  /\ pc = "fetch" => /\ NotAfter(ref.epoch, ref.seq, kEpoch, kSeq)
                     /\ ready => NotAfter(epoch, seq, ref.epoch, ref.seq)

IInv == TypeOK /\ KeeperLog /\ Packages /\ Goal /\ Position /\ Faithful
-----------------------------------------------------------------------------
(* Applying a record to a content gives a content.                         *)
LEMMA ApplyType ==
  ASSUME NEW c \in Contents, NEW r \in Records
  PROVE  Apply(c, r) \in Contents
BY Zenon DEF Contents, Records, Apply

(* The elements of a sequence with one more at the end ...                 *)
LEMMA Appended ==
  ASSUME NEW S, NEW s \in Seq(S), NEW x \in S
  PROVE  /\ Append(s, x) \in Seq(S) /\ Len(Append(s, x)) = Len(s) + 1
         /\ \A i \in 1 .. Len(s) : Append(s, x)[i] = s[i]
         /\ Append(s, x)[Len(s) + 1] = x
OBVIOUS

(* ... and with its first one gone.                                        *)
LEMMA Taken ==
  ASSUME NEW S, NEW s \in Seq(S), s # <<>>
  PROVE  /\ Tail(s) \in Seq(S) /\ Len(Tail(s)) = Len(s) - 1 /\ Len(s) \in Nat \ {0}
         /\ \A i \in 1 .. Len(s) - 1 : Tail(s)[i] = s[i + 1] /\ i + 1 \in 1 .. Len(s)
         /\ Head(s) = s[1] /\ Head(s) \in S
OBVIOUS

(* A step that leaves keeper alone leaves its log as it was.               *)
LEMMA KeeperIdle ==
  ASSUME KeeperLog, UNCHANGED keeperVars
  PROVE  KeeperLog'
BY Zenon DEF KeeperLog, keeperVars

(* A frame that is no diff brings no package with it.                      *)
LEMMA QuietFrame ==
  ASSUME TypeOK, Packages, NEW f \in Frames \cup {Resync}, f.op # "diff",
         in' = Append(in, f), UNCHANGED <<keeperVars, pkg, pc, setVars, readVars>>
  PROVE  in' \in Seq(Frames \cup {Resync}) /\ Packages'
<1>1. /\ in' \in Seq(Frames \cup {Resync}) /\ Len(in) \in Nat /\ Len(in') = Len(in) + 1
      /\ \A i \in 1 .. Len(in) : in'[i] = in[i]
      /\ in'[Len(in) + 1] = f
  BY Appended DEF TypeOK
<1>2. \A i \in 1 .. Len(in') : in'[i].op = "diff" => i \in 1 .. Len(in) /\ in'[i] = in[i]
  BY ONLY <1>1, f.op # "diff"
<1> QED BY <1>1, <1>2, Zenon DEF Packages, Written, keeperVars, setVars, readVars

(* The initial state.                                                      *)
LEMMA InitIInv == Init => IInv
<1> SUFFICES ASSUME Init PROVE IInv
  BY Zenon
<1> USE MirrorAssumption DEF Init, Epochs
<1>1. Empty \in Contents
  BY Zenon DEF Contents, Empty
<1>2. TypeOK
  <2>1. /\ kEpoch \in Epochs /\ kSeq \in 0 .. MaxSeq
        /\ hist \in [Epochs -> [0 .. MaxSeq -> Contents]]
        /\ recs \in [Epochs -> [1 .. MaxSeq -> Records \cup {NoRecord}]]
        /\ pkg \in [1 .. MaxSeq -> 0 .. MaxEpoch + 1]
    BY <1>1 DEF None
  <2>2. /\ in \in Seq(Frames \cup {Resync}) /\ batch \in Seq(0 .. MaxEpoch + 1)
    OBVIOUS
  <2>3. /\ ref \in [epoch : Epochs, seq : 0 .. MaxSeq, bad : BOOLEAN]
        /\ upto \in [epoch : Epochs, seq : 0 .. MaxSeq]
    BY DEF NoRef, NoUpto
  <2>4. epoch \in 0 .. MaxEpoch /\ seq \in 0 .. MaxSeq /\ comp \in Contents
    BY <1>1
  <2> QED BY <2>1, <2>2, <2>3, <2>4, Zenon DEF TypeOK
<1>3. KeeperLog /\ Packages
  BY DEF KeeperLog, Packages, Written, None
<1>4. Goal /\ Position /\ Faithful
  BY Zenon DEF Goal, Position, Faithful
<1> QED BY <1>2, <1>3, <1>4, Zenon DEF IInv

(* keeper writes a record beyond everything anybody has. *)
LEMMA KeeperChangeStep ==
  ASSUME IInv, NEW r \in Records,
         NEW inline \in BOOLEAN,
         KeeperChange(r, inline)
  PROVE  IInv'
<1> USE MirrorAssumption DEF IInv, KeeperChange, keeperVars, setVars, readVars
<1> DEFINE W(e, n) == e \in Epochs /\ n \in 1 .. MaxSeq /\ recs'[e][n] # NoRecord
<1> DEFINE f == [op |-> "diff", epoch |-> kEpoch, seq |-> kSeq + 1, inline |-> inline]
<1>a. /\ kSeq + 1 \in 1 .. MaxSeq /\ kSeq + 1 \in 0 .. MaxSeq
      /\ kEpoch \in Epochs /\ kSeq \in 0 .. MaxSeq
  BY DEF TypeOK
<1>b. Apply(hist[kEpoch][kSeq], r) \in Contents
  BY <1>a, ApplyType DEF TypeOK
<1>c. /\ hist' \in [Epochs -> [0 .. MaxSeq -> Contents]]
      /\ recs' \in [Epochs -> [1 .. MaxSeq -> Records \cup {NoRecord}]]
  BY <1>a, <1>b, Zenon DEF TypeOK
<1>d. f \in Frames \cup {Resync} /\ in \in Seq(Frames \cup {Resync})
  BY <1>a, Zenon DEF TypeOK, Frames
<1> HIDE DEF f
<1>f. in' = in \/ in' = Append(in, f)
  BY Zenon DEF Deliver, f
<1>g. in' \in Seq(Frames \cup {Resync})
  <2>1. Append(in, f) \in Seq(Frames \cup {Resync})
    BY <1>d, Appended, Zenon
  <2> HIDE DEF KeeperChange
  <2> QED BY <1>d, <1>f, <2>1, Zenon
<1>e. \A e, n : Written(e, n) => W(e, n)
  BY <1>a, Zenon DEF TypeOK, Written
<1>h. W(kEpoch, kSeq + 1) /\ W(f.epoch, f.seq)
  BY <1>a, Zenon DEF TypeOK, f
<1>1. TypeOK'
  <2>1. pkg' \in [1 .. MaxSeq -> 0 .. MaxEpoch + 1]
    <3>1. kEpoch \in 0 .. MaxEpoch + 1
      BY <1>a DEF Epochs
    <3> QED BY <3>1, Zenon DEF TypeOK
  <2> QED BY <1>a, <1>c, <1>g, <2>1, Zenon DEF TypeOK
<1>2. KeeperLog'
  <2> SUFFICES ASSUME NEW e \in Epochs, NEW n \in 1 .. MaxSeq, recs'[e][n] # NoRecord
               PROVE  /\ hist'[e][n] = Apply(hist'[e][n - 1], recs'[e][n])
                      /\ e < kEpoch' \/ (e = kEpoch' /\ n <= kSeq')
    BY Zenon DEF KeeperLog
  <2>1. CASE e = kEpoch /\ n = kSeq + 1
    BY <1>a, <2>1 DEF TypeOK, Epochs
  <2>2. CASE ~(e = kEpoch /\ n = kSeq + 1)
    <3>1. recs'[e][n] = recs[e][n]
      BY <1>a, <2>2, Zenon DEF TypeOK, Epochs
    <3>2. e < kEpoch \/ (e = kEpoch /\ n <= kSeq)
      BY <3>1, Zenon DEF KeeperLog
    <3>3. \A k \in 0 .. MaxSeq : ~(e = kEpoch /\ k = kSeq + 1) => hist'[e][k] = hist[e][k]
      BY <1>a, Zenon DEF TypeOK
    <3>4. n - 1 \in 0 .. MaxSeq /\ ~(e = kEpoch /\ n - 1 = kSeq + 1)
      BY <1>a, <3>2 DEF TypeOK, Epochs
    <3>5. hist'[e][n] = hist[e][n] /\ hist'[e][n - 1] = hist[e][n - 1]
      BY <2>2, <3>3, <3>4
    <3>6. e < kEpoch' \/ (e = kEpoch' /\ n <= kSeq')
      BY <1>a, <3>2 DEF TypeOK, Epochs
    <3> QED BY <3>1, <3>5, <3>6, Zenon DEF KeeperLog
  <2> QED BY <2>1, <2>2, Zenon
<1>3. Packages'
  <2>1. \A n \in 1 .. MaxSeq : pkg'[n] \in Epochs => W(pkg'[n], n)
    <3> SUFFICES ASSUME NEW n \in 1 .. MaxSeq, pkg'[n] \in Epochs PROVE W(pkg'[n], n)
      BY Zenon
    <3>1. CASE n = kSeq + 1
      BY <1>a, <1>h, <3>1, Zenon DEF TypeOK
    <3>2. CASE n # kSeq + 1
      <4>1. pkg'[n] = pkg[n]
        BY <3>2, Zenon DEF TypeOK
      <4>2. Written(pkg[n], n)
        BY ONLY <4>1, pkg'[n] \in Epochs, n \in 1 .. MaxSeq, IInv, Zenon DEF IInv, Packages
      <4> QED BY ONLY <1>e, <4>1, <4>2, Zenon
    <3> QED BY <3>1, <3>2, Zenon
  <2>2. \A i \in 1 .. Len(in') : in'[i].op = "diff" => W(in'[i].epoch, in'[i].seq)
    <3>1. CASE in' = in
      BY <1>e, <3>1, Zenon DEF Packages
    <3>2. CASE in' = Append(in, f)
      <4> SUFFICES ASSUME NEW i \in 1 .. Len(in'), in'[i].op = "diff"
                   PROVE  W(in'[i].epoch, in'[i].seq)
        BY Zenon
      <4>1. CASE i = Len(in) + 1
        BY <1>d, <1>h, <3>2, <4>1, Appended
      <4>2. CASE i \in 1 .. Len(in)
        BY <1>d, <1>e, <3>2, <4>2, Appended DEF Packages
      <4> QED BY <1>d, <3>2, <4>1, <4>2, Appended
    <3> QED BY <1>f, <3>1, <3>2, Zenon
  <2>3. pc' = "apply" => \A i \in 1 .. Len(batch') :
          batch'[i] \in Epochs => W(batch'[i], seq' + i)
    BY <1>e, Zenon DEF Packages
  <2> QED BY <2>1, <2>2, <2>3, Zenon DEF Packages, Written
<1>4. Goal'
  BY Zenon DEF TypeOK, Goal
<1>5. Position'
  BY SMTT(30) DEF TypeOK, Position, NotAfter, Epochs
<1>6. Faithful'
  BY SMTT(30) DEF TypeOK, Position, NotAfter, Faithful, Epochs
<1> QED BY <1>1, <1>2, <1>3, <1>4, <1>5, <1>6, Zenon DEF IInv

(* A new epoch lies beyond everything anybody has. *)
LEMMA KeeperRestartStep ==
  ASSUME IInv, NEW c \in Contents,
         KeeperRestart(c)
  PROVE  IInv'
<1> USE MirrorAssumption DEF IInv, KeeperRestart, keeperVars, setVars, readVars
<1>a. kEpoch \in Epochs /\ kEpoch + 1 \in Epochs
  BY DEF TypeOK, Epochs
<1>b. hist' \in [Epochs -> [0 .. MaxSeq -> Contents]]
  BY <1>a, Zenon DEF TypeOK
<1>1. TypeOK'
  BY <1>a, <1>b DEF TypeOK
<1>2. KeeperLog'
  <2> SUFFICES ASSUME NEW e \in Epochs, NEW n \in 1 .. MaxSeq, recs[e][n] # NoRecord
               PROVE  /\ hist'[e][n] = Apply(hist'[e][n - 1], recs[e][n])
                      /\ e < kEpoch' \/ (e = kEpoch' /\ n <= kSeq')
    BY Zenon DEF KeeperLog
  <2>1. e <= kEpoch
    BY <1>a DEF KeeperLog, TypeOK, Epochs
  <2>2. hist'[e] = hist[e]
    BY <1>a, <2>1 DEF TypeOK, Epochs
  <2> QED BY <1>a, <2>1, <2>2 DEF KeeperLog, Epochs
<1>3. Packages'
  BY Zenon DEF TypeOK, KeeperLog, Packages, Written, Epochs
<1>4. Goal'
  BY Zenon DEF TypeOK, Goal
<1>5. Position'
  BY DEF TypeOK, Position, NotAfter, Epochs
<1>6. Faithful'
  BY DEF TypeOK, Position, NotAfter, Faithful, Epochs
<1> QED BY <1>1, <1>2, <1>3, <1>4, <1>5, <1>6, Zenon DEF IInv

(* A tick carries no package. *)
LEMMA KeeperTickStep ==
  ASSUME IInv, KeeperTick
  PROVE  IInv'
<1> USE MirrorAssumption DEF IInv, KeeperTick, keeperVars, setVars, readVars
<1> DEFINE f == [op |-> "tick", epoch |-> kEpoch, seq |-> kSeq, inline |-> FALSE]
<1>a. f \in Frames \cup {Resync}
  BY Zenon DEF TypeOK, Frames
<1>b. in' \in Seq(Frames \cup {Resync}) /\ Packages'
  BY ONLY <1>a, f.op # "diff", IInv, KeeperTick, QuietFrame, Zenon DEF IInv, KeeperTick
<1>1. TypeOK'
  BY <1>b, Zenon DEF TypeOK
<1>2. KeeperLog'
  BY ONLY IInv, KeeperTick, KeeperIdle, Zenon DEF IInv, KeeperTick, keeperVars
<1>3. Packages'
  BY ONLY <1>b, Zenon
<1>4. Goal'
  BY Zenon DEF TypeOK, Goal
<1>5. Position'
  BY Zenon DEF TypeOK, Position, NotAfter, Epochs
<1>6. Faithful'
  BY Zenon DEF TypeOK, Position, NotAfter, Faithful, Epochs
<1> QED BY <1>1, <1>2, <1>3, <1>4, <1>5, <1>6, Zenon DEF IInv

(* Redis loses a package. *)
LEMMA RedisLoseStep ==
  ASSUME IInv, NEW n \in 1 .. MaxSeq,
         NEW how \in {None, Unreadable},
         RedisLose(n, how)
  PROVE  IInv'
<1> USE MirrorAssumption DEF IInv, RedisLose, None, Unreadable, keeperVars, setVars, readVars
<1>1. TypeOK'
  BY SMTT(30) DEF TypeOK, Epochs, NoRef, NoUpto, None, Unreadable
<1>2. KeeperLog'
  BY ONLY IInv, RedisLose(n, how), KeeperIdle, Zenon DEF IInv, RedisLose, keeperVars
<1>3. Packages'
  BY DEF TypeOK, KeeperLog, Packages, Written, Epochs
<1>4. Goal'
  BY Zenon DEF TypeOK, Goal
<1>5. Position'
  BY Zenon DEF TypeOK, Position, NotAfter, Epochs
<1>6. Faithful'
  BY Zenon DEF TypeOK, Position, NotAfter, Faithful, Epochs
<1> QED BY <1>1, <1>2, <1>3, <1>4, <1>5, <1>6, Zenon DEF IInv

(* The nudge carries no package. *)
LEMMA ResyncTickStep ==
  ASSUME IInv, ResyncTick
  PROVE  IInv'
<1> USE MirrorAssumption DEF IInv, ResyncTick, keeperVars, setVars, readVars
<1>a. in' \in Seq(Frames \cup {Resync}) /\ Packages'
  BY ONLY IInv, ResyncTick, QuietFrame, Zenon DEF IInv, ResyncTick, Resync
<1>1. TypeOK'
  BY <1>a, Zenon DEF TypeOK
<1>2. KeeperLog'
  BY ONLY IInv, ResyncTick, KeeperIdle, Zenon DEF IInv, ResyncTick, keeperVars
<1>3. Packages'
  BY ONLY <1>a, Zenon
<1>4. Goal'
  BY Zenon DEF TypeOK, Goal
<1>5. Position'
  BY Zenon DEF TypeOK, Position, NotAfter, Epochs
<1>6. Faithful'
  BY Zenon DEF TypeOK, Position, NotAfter, Faithful, Epochs
<1> QED BY <1>1, <1>2, <1>3, <1>4, <1>5, <1>6, Zenon DEF IInv
-----------------------------------------------------------------------------
(* The steps of the mirror.                                                *)

(* A frame is taken from the channel. *)
LEMMA OnFrameStep ==
  ASSUME IInv, OnFrame
  PROVE  IInv'
<1> USE MirrorAssumption DEF IInv, OnFrame, ToSnapshot, Verify, keeperVars, setVars, readVars
<1> DEFINE f == Head(in)
<1>a. /\ f \in Frames \cup {Resync} /\ f = in[1] /\ 1 \in 1 .. Len(in)
      /\ in' \in Seq(Frames \cup {Resync}) /\ Len(in') = Len(in) - 1 /\ Len(in) \in Nat
      /\ \A i \in 1 .. Len(in') : in'[i] = in[i + 1] /\ i + 1 \in 1 .. Len(in)
  BY Taken DEF TypeOK
<1>1. TypeOK'
  <2>1. f.op # "resync" => f \in Frames
    BY <1>a DEF Resync
  <2>2. upto' \in [epoch : Epochs, seq : 0 .. MaxSeq]
    BY <2>1 DEF TypeOK, Frames
  <2>3. batch' \in Seq(0 .. MaxEpoch + 1)
    <3>1. CASE batch' = batch
      BY <3>1, Zenon DEF TypeOK
    <3>2. CASE f.op # "resync" /\ batch' = <<f.epoch>>
      <4>1. f.epoch \in 0 .. MaxEpoch + 1
        BY <2>1, <3>2 DEF Frames, Epochs
      <4> QED BY <3>2, <4>1
    <3>3. CASE batch' = <<Unreadable>>
      <4>1. MaxEpoch + 1 \in 0 .. MaxEpoch + 1
        OBVIOUS
      <4> HIDE DEF OnFrame
      <4> QED BY <3>3, <4>1 DEF Unreadable
    <3> QED BY <3>1, <3>2, <3>3, Zenon
  <2>4. snapBad' \in BOOLEAN /\ pc' \in {"idle", "request", "fetch", "mget", "apply"}
    BY Zenon DEF TypeOK
  <2>5. UNCHANGED <<keeperVars, pkg, ready, epoch, seq, comp, tainted, ref>>
    BY ONLY OnFrame, Zenon DEF OnFrame
  <2> QED BY ONLY <1>a, <2>2, <2>3, <2>4, <2>5, IInv, Zenon DEF IInv, TypeOK, keeperVars
<1>2. KeeperLog'
  BY ONLY IInv, OnFrame, KeeperIdle, Zenon DEF IInv, OnFrame, keeperVars
<1>3. Packages'
  <2>1. \A i \in 1 .. Len(in') : in'[i].op = "diff" => Written(in'[i].epoch, in'[i].seq)
    BY <1>a DEF Packages, TypeOK
  <2>2. pc' = "apply" => \A i \in 1 .. Len(batch') :
          batch'[i] \in Epochs => Written(batch'[i], seq + i)
    <3> SUFFICES ASSUME pc' = "apply", NEW i \in 1 .. Len(batch'), batch'[i] \in Epochs
                 PROVE  Written(batch'[i], seq + i)
      BY Zenon
    <3>1. f.op = "diff" /\ f.seq = seq + 1 /\ (batch' = <<f.epoch>> \/ batch' = <<Unreadable>>)
      BY Zenon
    <3>2. i = 1 /\ batch'[i] = f.epoch
      <4>1. i = 1 /\ (batch'[i] = f.epoch \/ batch'[i] = Unreadable)
        BY <3>1
      <4>2. Unreadable \notin Epochs
        BY DEF Unreadable, Epochs
      <4> QED BY ONLY <4>1, <4>2, batch'[i] \in Epochs, Zenon
    <3>3. Written(f.epoch, f.seq)
      BY <1>a, <3>1, Zenon DEF Packages
    <3> QED BY <3>1, <3>2, <3>3, Zenon
  <2> QED BY <2>1, <2>2, Zenon DEF Packages, Written
<1>4. Goal'
  <2> SUFFICES ASSUME pc' \in {"mget", "apply"}
               PROVE  /\ ready' /\ seq' < upto'.seq
                      /\ pc' = "apply" => seq' + Len(batch') <= upto'.seq
    BY Zenon DEF Goal
  <2>1. /\ ready /\ f.seq > seq /\ upto' = [epoch |-> f.epoch, seq |-> f.seq]
        /\ pc' = "apply" => batch' = <<f.epoch>> \/ batch' = <<Unreadable>>
    BY Zenon
  <2>2. f.seq \in 0 .. MaxSeq
    BY <1>a DEF Frames, Resync
  <2>3. pc' = "apply" => Len(batch') = 1
    BY <2>1
  <2>4. seq' = seq /\ seq \in 0 .. MaxSeq /\ ready' = ready /\ upto'.seq = f.seq
    BY <2>1, Zenon DEF TypeOK
  <2>5. seq' < upto'.seq
    BY <2>1, <2>2, <2>4, Zenon
  <2> HIDE DEF OnFrame
  <2>6. seq' + 1 <= upto'.seq
    BY <2>2, <2>4, <2>5
  <2>7. ready'
    BY <2>1, <2>4, Zenon
  <2> HIDE DEF f
  <2> QED BY <2>3, <2>5, <2>6, <2>7, Zenon
<1>5. Position'
  BY Zenon DEF TypeOK, Position, NotAfter, Epochs
<1>6. Faithful'
  BY Zenon DEF TypeOK, Position, NotAfter, Faithful, Epochs
<1> QED BY <1>1, <1>2, <1>3, <1>4, <1>5, <1>6, Zenon DEF IInv

(* Packages are read from Redis. *)
LEMMA ReadPackagesStep ==
  ASSUME IInv, ReadPackages
  PROVE  IInv'
<1> USE MirrorAssumption DEF IInv, ReadPackages, keeperVars, setVars, readVars
<1> DEFINE k == Smaller(upto.seq - seq, PerRead)
<1>a. k \in Nat \ {0} /\ seq + k <= upto.seq /\ upto.seq \in 0 .. MaxSeq
  BY SMTT(30) DEF TypeOK, Goal, Smaller
<1>b. \A i \in 1 .. k : seq + i \in 1 .. MaxSeq
  BY <1>a DEF TypeOK
<1> HIDE DEF k
<1>c. /\ batch' = [i \in 1 .. k |-> pkg[seq + i]]
      /\ batch' \in Seq(0 .. MaxEpoch + 1) /\ Len(batch') = k
      /\ \A i \in 1 .. k : batch'[i] = pkg[seq + i]
  <2>1. batch' = [i \in 1 .. k |-> pkg[seq + i]]
    BY Zenon DEF k
  <2>2. \A i \in 1 .. k : pkg[seq + i] \in 0 .. MaxEpoch + 1
    BY <1>b, Zenon DEF TypeOK
  <2> HIDE DEF ReadPackages
  <2>3. batch' \in Seq(0 .. MaxEpoch + 1)
    BY <1>a, <2>1, <2>2
  <2>4. Len(batch') = k
    BY <1>a, <2>1
  <2>5. \A i \in 1 .. k : batch'[i] = pkg[seq + i]
    BY <2>1, Zenon
  <2> QED BY <2>1, <2>3, <2>4, <2>5, Zenon
<1>1. TypeOK'
  BY <1>c, Zenon DEF TypeOK
<1>2. KeeperLog'
  BY ONLY IInv, ReadPackages, KeeperIdle, Zenon DEF IInv, ReadPackages, keeperVars
<1>3. Packages'
  BY <1>a, <1>b, <1>c, Zenon DEF TypeOK, Packages, Written
<1>4. Goal'
  BY <1>a, <1>b, <1>c, Zenon DEF TypeOK, Goal
<1>5. Position'
  BY Zenon DEF TypeOK, Position, NotAfter, Epochs
<1>6. Faithful'
  BY Zenon DEF TypeOK, Position, NotAfter, Faithful, Epochs
<1> QED BY <1>1, <1>2, <1>3, <1>4, <1>5, <1>6, Zenon DEF IInv

(* A read fails. *)
LEMMA ReadFailsStep ==
  ASSUME IInv, ReadFails
  PROVE  IInv'
<1> USE MirrorAssumption DEF IInv, ReadFails, Return, keeperVars, setVars, readVars
<1>1. TypeOK'
  BY DEF TypeOK, Epochs, NoRef, NoUpto, None, Unreadable
<1>2. KeeperLog'
  BY ONLY IInv, ReadFails, KeeperIdle, Zenon DEF IInv, ReadFails, keeperVars
<1>3. Packages'
  BY Zenon DEF TypeOK, KeeperLog, Packages, Written, Epochs
<1>4. Goal'
  BY Zenon DEF TypeOK, Goal
<1>5. Position'
  BY Zenon DEF TypeOK, Position, NotAfter, Epochs
<1>6. Faithful'
  BY Zenon DEF TypeOK, Position, NotAfter, Faithful, Epochs
<1> QED BY <1>1, <1>2, <1>3, <1>4, <1>5, <1>6, Zenon DEF IInv

(* A package is applied or refused. *)
LEMMA ApplyPackageStep ==
  ASSUME IInv, ApplyPackage
  PROVE  IInv'
<1> USE MirrorAssumption DEF IInv, ApplyPackage, Fits, ToSnapshot, keeperVars, setVars, readVars
<1>0. pc = "apply" /\ batch # <<>>
  BY ONLY ApplyPackage, Zenon DEF ApplyPackage
<1>a. /\ Len(batch) \in Nat \ {0} /\ Head(batch) = batch[1] /\ 1 \in 1 .. Len(batch)
      /\ Tail(batch) \in Seq(0 .. MaxEpoch + 1) /\ Len(Tail(batch)) = Len(batch) - 1
      /\ \A i \in 1 .. Len(batch) - 1 : Tail(batch)[i] = batch[i + 1] /\ i + 1 \in 1 .. Len(batch)
      /\ ready /\ epoch \in Epochs /\ seq + Len(batch) <= upto.seq
  BY ONLY <1>0, IInv, MirrorAssumption, Taken DEF IInv, TypeOK, Goal, Position
<1>b. /\ ready' = ready /\ epoch' = epoch /\ tainted' = tainted
      /\ \/ seq' = seq /\ comp' = comp /\ pc' \in {"idle", "request"} /\ Return
         \/ /\ Head(batch) = epoch /\ seq' = seq + 1
            /\ comp' = Apply(comp, recs[epoch][seq + 1])
            /\ \/ pc' \in {"idle", "request"} /\ Return
               \/ /\ pc' \in {"mget", "apply"} /\ seq' < upto.seq
                  /\ batch' = Tail(batch) /\ UNCHANGED <<ref, upto>>
  BY Zenon
<1>d. Head(batch) = epoch => /\ Written(epoch, seq + 1)
                             /\ hist[epoch][seq + 1] = Apply(hist[epoch][seq], recs[epoch][seq + 1])
                             /\ epoch < kEpoch \/ (epoch = kEpoch /\ seq + 1 <= kSeq)
  <2> SUFFICES ASSUME Head(batch) = epoch
               PROVE  /\ Written(epoch, seq + 1)
                      /\ hist[epoch][seq + 1] = Apply(hist[epoch][seq], recs[epoch][seq + 1])
                      /\ epoch < kEpoch \/ (epoch = kEpoch /\ seq + 1 <= kSeq)
    BY Zenon
  <2>1. Written(epoch, seq + 1)
    BY <1>a, Zenon DEF Packages
  <2>2. (seq + 1) - 1 = seq
    BY DEF TypeOK
  <2> QED BY <2>1, <2>2, Zenon DEF KeeperLog, Written
<1>c. seq' \in 0 .. MaxSeq /\ comp' \in Contents
  <2>1. Head(batch) = epoch => recs[epoch][seq + 1] \in Records /\ seq + 1 \in 0 .. MaxSeq
    BY <1>d DEF TypeOK, Written
  <2>2. seq \in 0 .. MaxSeq /\ comp \in Contents
    BY Zenon DEF TypeOK
  <2> QED BY ONLY <1>b, <2>1, <2>2, ApplyType, Zenon
<1>1. TypeOK'
  <2>1. Return => /\ ref' \in [epoch : Epochs, seq : 0 .. MaxSeq, bad : BOOLEAN]
                 /\ upto' \in [epoch : Epochs, seq : 0 .. MaxSeq]
                 /\ batch' \in Seq(0 .. MaxEpoch + 1)
    BY DEF Return, NoRef, NoUpto, Epochs
  <2>2. /\ ref' \in [epoch : Epochs, seq : 0 .. MaxSeq, bad : BOOLEAN]
        /\ upto' \in [epoch : Epochs, seq : 0 .. MaxSeq]
        /\ batch' \in Seq(0 .. MaxEpoch + 1)
    BY <1>a, <1>b, <2>1, Zenon DEF TypeOK
  <2>3. pc' \in {"idle", "request", "mget", "apply"}
    BY <1>b, Zenon
  <2> QED BY <1>b, <1>c, <2>2, <2>3, Zenon DEF TypeOK
<1>2. KeeperLog'
  BY ONLY IInv, ApplyPackage, KeeperIdle, Zenon DEF IInv, ApplyPackage, keeperVars
<1>3. Packages'
  <2>1. pc' = "apply" => \A i \in 1 .. Len(batch') :
          batch'[i] \in Epochs => Written(batch'[i], seq' + i)
    <3> SUFFICES ASSUME pc' = "apply", NEW i \in 1 .. Len(batch'), batch'[i] \in Epochs
                 PROVE  Written(batch'[i], seq' + i)
      BY Zenon
    <3>1. batch' = Tail(batch) /\ seq' = seq + 1
      BY <1>b, Zenon
    <3>2. i \in 1 .. Len(batch) - 1 /\ batch'[i] = batch[i + 1] /\ i + 1 \in 1 .. Len(batch)
      BY <1>a, <3>1, Zenon
    <3>3. Written(batch[i + 1], seq + (i + 1))
      BY <3>2, Zenon DEF Packages
    <3> QED BY <3>1, <3>2, <3>3 DEF TypeOK
  <2> QED BY <2>1, Zenon DEF Packages, Written
<1>4. Goal'
  <2>1. CASE pc' \in {"idle", "request"}
    BY <2>1, Zenon DEF Goal
  <2>2. CASE /\ seq' = seq + 1 /\ seq' < upto.seq /\ batch' = Tail(batch)
             /\ UNCHANGED <<ref, upto>>
    <3>1. seq' + Len(batch') = seq + Len(batch)
      BY <1>a, <2>2 DEF TypeOK
    <3> QED BY <1>a, <1>b, <2>2, <3>1 DEF Goal
  <2> QED BY <1>b, <2>1, <2>2, Zenon
<1>5. Position'
  BY <1>a, <1>b, <1>d, Zenon DEF TypeOK, Position, NotAfter, Epochs
<1>6. Faithful'
  BY <1>b, <1>d DEF TypeOK, Faithful
<1> QED BY <1>1, <1>2, <1>3, <1>4, <1>5, <1>6, Zenon DEF IInv

(* keeper answers with its present position. *)
LEMMA SnapshotRequestStep ==
  ASSUME IInv, NEW bad \in BOOLEAN,
         SnapshotRequest(bad)
  PROVE  IInv'
<1> USE MirrorAssumption DEF IInv, SnapshotRequest, keeperVars, setVars, readVars
<1>1. TypeOK'
  BY Zenon DEF TypeOK, Epochs, NoRef, NoUpto, None, Unreadable
<1>2. KeeperLog'
  BY ONLY IInv, SnapshotRequest(bad), KeeperIdle, Zenon DEF IInv, SnapshotRequest, keeperVars
<1>3. Packages'
  BY Zenon DEF TypeOK, KeeperLog, Packages, Written, Epochs
<1>4. Goal'
  BY Zenon DEF TypeOK, Goal
<1>5. Position'
  BY DEF TypeOK, Position, NotAfter, Epochs
<1>6. Faithful'
  BY Zenon DEF TypeOK, Position, NotAfter, Faithful, Epochs
<1> QED BY <1>1, <1>2, <1>3, <1>4, <1>5, <1>6, Zenon DEF IInv

(* A snapshot is not obtained. *)
LEMMA SnapshotFailsStep ==
  ASSUME IInv, SnapshotFails
  PROVE  IInv'
<1> USE MirrorAssumption DEF IInv, SnapshotFails, Return, keeperVars, setVars, readVars
<1>1. TypeOK'
  BY DEF TypeOK, Epochs, NoRef, NoUpto, None, Unreadable
<1>2. KeeperLog'
  BY ONLY IInv, SnapshotFails, KeeperIdle, Zenon DEF IInv, SnapshotFails, keeperVars
<1>3. Packages'
  BY Zenon DEF TypeOK, KeeperLog, Packages, Written, Epochs
<1>4. Goal'
  BY Zenon DEF TypeOK, Goal
<1>5. Position'
  BY Zenon DEF TypeOK, Position, NotAfter, Epochs
<1>6. Faithful'
  BY Zenon DEF TypeOK, Position, NotAfter, Faithful, Epochs
<1> QED BY <1>1, <1>2, <1>3, <1>4, <1>5, <1>6, Zenon DEF IInv

(* A snapshot replaces the set. *)
LEMMA SnapshotLoadStep ==
  ASSUME IInv, NEW c \in Contents,
         SnapshotLoad(c)
  PROVE  IInv'
<1> USE MirrorAssumption DEF IInv, SnapshotLoad, Return, keeperVars, setVars, readVars
<1>1. TypeOK'
  BY SMTT(30) DEF TypeOK, Epochs, NoRef, NoUpto, None, Unreadable
<1>2. KeeperLog'
  BY ONLY IInv, SnapshotLoad(c), KeeperIdle, Zenon DEF IInv, SnapshotLoad, keeperVars
<1>3. Packages'
  BY Zenon DEF TypeOK, KeeperLog, Packages, Written, Epochs
<1>4. Goal'
  BY Zenon DEF TypeOK, Goal
<1>5. Position'
  BY Zenon DEF TypeOK, Position, NotAfter, Epochs
<1>6. Faithful'
  BY Zenon DEF TypeOK, Position, NotAfter, Faithful, Epochs
<1> QED BY <1>1, <1>2, <1>3, <1>4, <1>5, <1>6, Zenon DEF IInv

(* Every step preserves the invariant.                                     *)
LEMMA NextStep == IInv /\ [Next]_vars => IInv'
<1> SUFFICES ASSUME IInv, [Next]_vars PROVE IInv'
  BY Zenon
<1>1. CASE UNCHANGED vars
  BY <1>1 DEF IInv, TypeOK, KeeperLog, Packages, Written, Goal, Position, NotAfter, Faithful,
              vars, keeperVars, setVars, readVars
<1>2. CASE Environment
  BY <1>2, KeeperChangeStep, KeeperRestartStep, KeeperTickStep, RedisLoseStep, Zenon DEF Environment
<1>3. CASE Mirror
  BY <1>3, ResyncTickStep, OnFrameStep, ReadPackagesStep, ReadFailsStep, ApplyPackageStep,
     SnapshotRequestStep, SnapshotFailsStep, SnapshotLoadStep, Zenon DEF Mirror, SnapshotSucceeds
<1> QED BY <1>1, <1>2, <1>3, Zenon DEF Next

(* The inductive invariant holds in every reachable state of the mirror    *)
(* and keeper, however many epochs, changes, prefixes and lost frames.     *)
THEOREM Inductive == Spec => []IInv
BY InitIInv, NextStep, PTL DEF Spec

(* Type correctness of the mirror's fields (Set) and of what it reads.     *)
THEOREM TypeCorrect == Spec => []TypeOK
<1>1. IInv => TypeOK
  BY Zenon DEF IInv
<1> QED BY <1>1, Inductive, PTL

(* The mirror's content is keeper's at the position the mirror claims      *)
(* (onFrame, catchUp, applyPackage, snapshot).                             *)
THEOREM MirrorFaithful == Spec => []Faithful
<1>1. IInv => Faithful
  BY Zenon DEF IInv
<1> QED BY <1>1, Inductive, PTL

(* The mirror's position never goes back, if keeper answers a request with *)
(* its newest content (applyPackage, snapshot).                            *)
THEOREM NeverBack == Spec => NoRegress
<1> DEFINE Forward == ready => ready' /\ (epoch' > epoch \/ (epoch' = epoch /\ seq' >= seq))
<1>1. IInv /\ [Next]_vars => [Forward]_vars
  <2> SUFFICES ASSUME IInv, Next, ready PROVE Forward
    BY Zenon DEF vars
  <2> USE DEF IInv, keeperVars, setVars, readVars
  <2>1. CASE UNCHANGED <<ready, epoch, seq>>
    BY <2>1 DEF TypeOK
  <2>2. CASE ApplyPackage
    BY <2>2 DEF ApplyPackage, Fits, TypeOK
  <2>3. ASSUME NEW c \in Contents, SnapshotLoad(c) PROVE Forward
    BY <2>3, Zenon DEF SnapshotLoad, TypeOK, Position, NotAfter, Epochs
  <2>4. CASE Environment
    BY <2>1, <2>4, Zenon DEF Environment, KeeperChange, KeeperRestart, KeeperTick, RedisLose
  <2>5. CASE Mirror
    BY <2>1, <2>2, <2>3, <2>5, Zenon DEF Mirror, SnapshotSucceeds, ResyncTick, OnFrame, ReadPackages,
                                 ReadFails, SnapshotRequest, SnapshotFails
  <2> QED BY <2>4, <2>5, Zenon DEF Next
<1> QED BY <1>1, Inductive, PTL DEF Spec, NoRegress
=============================================================================
