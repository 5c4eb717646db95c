# placitum-ip in TLA+

`placitum-ip` is an inspector: it gets requests over NATS, decides by address
whether a route is open (`allow`, `deny` or `error`), and answers before a
deadline. This directory holds TLA+ models of its parts and of how they work
together, TLC configurations that check them on small instances, and TLAPS proofs
about all of them. Paths below are relative to `src/`.

## The system

| Part | Code | State and concurrency | Module |
| --- | --- | --- | --- |
| request pool | `internal/queue` | queue, one mutex and one condition variable shared by submitters and workers, a sweeper, timers | `Pool`; what it promises: `Responder` |
| service: subscription, handler calls, shutdown | `cmd/ip/handler.go` (`receive`, `evaluate`, `send`, `recoverInto`), `cmd/ip/main.go` (`run`) | the callback of the bus, the pool, the sink and `run()` side by side | `Service` |
| audit sink | `internal/audit/sink.go` | pending events, a wake-up channel, a flushing goroutine | `AuditSink` |
| decision, set matching, handler, list writes | `internal/decide`, `internal/overload`, `internal/store` (`Explain`), `cmd/ip/handler.go` (`inspect`), `cmd/ip/lists.go` | reads of live sets that change meanwhile, a directory that may fail | `Inspect` |
| live set mirror | `internal/dyn` (`Set`, `run` ... `resync`) | one goroutine per set against keeper, the bus and Redis | `LiveMirror` |
| live set content | `internal/dyn` (`composition`) | prefixes with expiries, an incremental hash, counts per length | `Composition` |
| package decoding | `internal/dyn/wafs.go` | none: bytes to records, which are then applied | `Package` |
| policy store, generations, start, attaching of live sets | `internal/store`, `internal/desired`, `cmd/ip/main.go`, `dyn.Store.Sync` | a tree of files swapped by renames, one atomic pointer, three goroutines that reload, crashes | `Rollout` |
| policy files, compilation of a tree, check of a pack | `internal/policy`, `internal/store` (`build`), `internal/desired/pack.go`, `internal/decide` (`action`) | none: validation and name resolution | `PolicyRow`, `Policy` |
| address tables | `internal/netset` | none: a pure algorithm | `Netset` |
| SipHash, event bodies, configuration, log level, presence frames, probe | `siphash.go`, `internal/audit`, `internal/config`, `desired/settings.go`, `cmd/probe` | none that matters | not modelled |

The theorems are in `PoolProofs`, `ServiceProofs` (with those of `AuditSink`),
`InspectProofs`, `LiveMirrorProofs`, `PackageProofs` (with those of `Composition`),
`RolloutProofs`, `PolicyProofs` and `NetsetProofs`; the instances for TLC in the `MC`
modules.

How they interact: the subscription callback (`receive`) submits a request to the
pool; a worker evaluates it with the current snapshot and the live sets, writes
lists, sends the answer and adds an event to the audit sink. The generation
watcher replaces the snapshot and attaches and detaches live sets meanwhile, and
every live set follows keeper by itself.

`PROJECT.json` lists the parts with their status, maps every definition to the
lines it models, and lists hazards, runs, findings and theorems.

## The modules

**Pool** (`internal/queue/queue.go`). An action is one region under `p.mu`, or one
call of the handler outside it. The queue is a set with arrival numbers (`order`).
A goroutine has a label (`pc`), the task it submits or evaluates (`cur`) and the
expired tasks it took out of the queue and still has to answer (`hand`).
`cond.Wait`, `Signal` and `Broadcast` are modelled exactly: `Signal` wakes any one
waiter, submitter or worker. Time is the age of a task; `Tick` lets any submitted
task grow older up to `MaxAge`, so a deadline can pass between any two steps, also
between `pop` and the look `budget` takes at the clock. The fill of the queue
(`fillLocked`) is handed to the handler and not looked at by the pool: it is an input
of `Inspect`.

**Responder** is the pool without queue, lock, timers and clock: a request is in the
hands of a caller of `Submit`, in the pool's keeping, or answered; a closing pool
takes nothing in, and it is closed when it keeps nothing. `Pool` implements it
(`ImplementsResponder`; the mapping is `Has`, `InCall`, `InPool`, `Gate` at the end
of `Pool`), which is checked on an instance and proved for all.

**Service** composes `Responder`, `AuditSink` and what is around them. The client
library hands messages from a bounded buffer to `receive`, one at a time; `receive`
refuses or submits; a handler call publishes the reply, adds its audit event, kicks
the sink and returns, each a step of its own. `run()` walks through `Drain`,
`pool.Close`, `auditSink.Close` and the exit while all this goes on, and `Drain`
waits for nobody. The events and adders of `AuditSink` are the messages.

**AuditSink** (`internal/audit/sink.go`). `Add`, the kick after its unlock, the
`select` of the goroutine, one `Publish` per message and `Close`. History variables
say where every event went.

**Composition** (`composition` in `internal/dyn/dyn.go`). `Add` and `Remove` are
the two branches of `apply`. The XOR of keyed hashes is the set of prefixes hashed
in an odd number of times, so that drift shows and collisions do not exist.

**Package** (`unpack` of `internal/dyn/wafs.go`, on top of `Composition`). An object
is a sequence of bytes that may be cut anywhere. The header, each record and each
refusal is a step, with the offsets and comparisons of the code; the records are
applied to the composition once all of them are read.

**LiveMirror** (the rest of `internal/dyn/dyn.go`). keeper is external: a log of
contents per epoch. An action is the code between two network calls, so a
snapshot is asked for and read in two steps, and a batch of packages is read in
one step and applied one by one. Frames get lost, Redis loses or damages packages,
and packages of an old epoch stay under their keys, which hold no epoch. A package
inside a frame is applied, does not unpack, or is no base64, in which case the mirror
turns to Redis. keeper is taken to answer a request with its newest content. `snapshot`
itself compares no positions, so `NoRegress` rests on this.

**Inspect** (`decide.Check`, `FireOverload`, `Set.Explain`, `evaluate`, `inspect`,
`writeLists`). The address is fixed, so lists are members or not. The passes of
`Check` (allow rows, deny rows, side rows, outcomes) are steps, each block of a set
expression is read in a step of its own, and live sets change in between.
`seen` remembers what each live set said during the inspection; the properties
compare the result with what these readings may and must imply.

**Rollout** (`internal/store`, `internal/desired`, `cmd/ip/main.go`). Every written
tree has a number, which stands for its fingerprint; the directories hold numbers.
`Apply` is split at every step that can fail or be interrupted: write, two renames,
load, and the way back. `Store.Sync` may stop at a subscription that fails, from each
of its three callers. `Store.reload` is split into the fingerprint, its second
reading, the policy, the country ranges, the second comparison and the store of
the pointer, for each goroutine that runs it. `Crash` may come anywhere.

**Netset** (`internal/netset/netset.go`). Files of prefixes and addresses are read
line by line; the table is compared with what the lines mean. An IPv4 address has
`W4` bits and an IPv6 address two words of `D` bits with a mapped block; TLC takes
2 and 4, so that the carry between words and the ends of both families are in reach.
The intervals are sorted by a `CHOOSE` of their ordered list and merged by a recursive
function, one `absorb` per turn of the code's loop. `nextAddr` unmaps its argument, as
the code does: after the last IPv4-mapped address it sees no next one, and an interval
that ends there is not joined with the one that follows it at once. `Canonical` makes
an exception for that place; look-ups are not affected.

**PolicyRow** and **Policy** (`internal/policy`, `Store.build` and what it calls,
`Pack.check`). The state is a document that an author edits field by field, starting
from sound ones; the code is a set of operators on it. `normalizeRule` and
`normalizeOutcome` are separate code over the same fields in the source, and so are
`Pack.check` and `Store.build`: each is translated by itself, and the properties
compare them. `action` and `outcomeAction` are two functions in `decide` and two here.

## The runs

| Run | Shows | Instance |
| --- | --- | --- |
| `pool` | each request is answered exactly once; nobody sleeps past room or work; the queue is bounded and in order; counters agree; every step is one of `Responder`; every request is answered, `Close` returns | both modes of `queue_full`, 3 tasks with two deadlines, 2 submitters, 1 worker, sweeper, timers, depth 2 |
| `service` | no audit event unaccounted, order within a subject, oldest dropped first, no full batch left to the ticker; what the end of the process can cost; every message is answered while nobody stops the process, and a signal ends it | 2 requests and a message refused for its phase, a handler that may panic, a bus that refuses one event, a signal at any time; batches of 2 |
| `policy` | a rule and an outcome are held to the same rules and send the same action; an accepted action is well formed; a tree that loads has the tables and live sets its document names; the check of a pack agrees with the load | every document up to 2 edits from a sound one, for all 14 verbs, a list row and a verdict row, by hand or in a pack |
| `package` | what is unpacked is what was written or nothing; no read past the end; the content is what the records say last; hash, counts and lookup are those of the content | address and string objects of up to 2 records cut at every byte, address objects of 3 records, odd magics, versions, types and families |
| `mirror` | content is keeper's at the position claimed; no going back as long as keeper answers with its newest; the mirror becomes and stays current; no storm of requests | 1 prefix with two expiries, 2 epochs of 2 changes, channel of 1, batches of 2 |
| `inspect` | the verdict is explained by what was read; side rows, outcomes, overload rows, writes and error answers | any two rows over five sets, both defaults, 3 changes of live sets; 24 profiles with side effects and all kinds of requests, 1 change |
| `rollout` | generations in order; the report is what is on the disk | 3 puts, good, bad and malformed packs, 2 outages, 1 error |
| `rollout_live` | a fingerprint in place is that of the whole snapshot; the store converges; the last generation is applied | ticker, SIGHUP and `Apply`, 2 puts of packs that load or are refused, 1 edit, 1 outage |
| `netset` | the table is the union of its lines, of a mapped prefix the first address; it is canonical and names right prefixes | files of up to 3 of 27 different lines, two of them mapped prefixes |

Bounds. Two actors of a kind are enough for every race of the code, since none of
it counts beyond "another one"; every safety property of a passing run is proved
without bounds anyway.

- `pool`: a queue of two tells full, partly full and empty apart; one task of
  three is late a unit of time before the others, so it can expire behind or before
  them. `MaxAge` is where the last of them is late.
- `service`: with three events and `MaxPending` = 2 the sink can be full by count,
  by size (one event alone is), and over its limit, where the oldest is dropped.
  With `MaxItems` = 2 too, a flush takes all that is pending: that a flush which
  leaves a remainder loses nothing is shown by the proofs (`NothingBetweenBatches`,
  `NothingLostOrDoubled`) and not by the run. `PendingLimit` = 2 lets a message wait behind one being
  submitted; `Faulty` and `MaxFailed` bound the faults to one each.
- `policy`: an error of one field is one edit; two are what a bad combination of two
  fields needs (`MaxEdits`). The values are the legal ones, their bounds, one past
  the bounds, another spelling and a name that is not there.
- `package`: three records are what adding, renewing and removing one prefix needs
  beside another of the same length.
- `mirror`: two epochs are what a left-over package needs, two changes what a gap
  needs.
- `rollout`: a crash or a failing fetch can hit each of two entries in turn; with
  two puts one generation can be parked while the other is promoted. In
  `rollout_live` one outage is either a crash at any step or a fetch to be retried.
- `netset`: two intervals can be merged around a third.

Deadlock is not checked where the system may stop: all requests submitted and the
pool closed, the process ended, an inspection answered, a file or an object read,
no edits left, all puts made. It is checked for the mirror, which never stops.

Fairness. `Pool`: goroutines that can run do run, timers fire; nobody need submit,
close or sweep, and time need not pass. `Service`: the callback, the handler calls
and `run()` go on (that a request in the pool is answered is what `pool` checks of
the pool); the goroutine and the ticker of the sink run; Go's `select` picks at
random, so a closed `stop` is taken in the end (strong fairness of that branch
alone); no message and no signal need come. `LiveMirror`: keeper ticks, the resync
ticker ticks, the goroutine runs, and a read or request tried again and again
succeeds in the end (strong fairness, as the code retries on every frame).
`Rollout`: a process that is down is started again, goroutines and the ticker run,
the retry timer fires; SIGHUP and puts need not come, faults are bounded.

What `service` says about a shutdown. `OrderlyExit` is as strong as the order in
`run` allows. The subscription's buffer and the message its callback is handling are
not waited for: such a message may go unanswered, and an event its callback adds
after `auditSink.Close` began may stay in the sink. What was evaluated is answered, and
the event recorded for it is out of the sink; what was not answered was in the buffer
or with the callback.

## What the code does differently from its documentation

Each of these is a run that TLC refutes, with a finding in `PROJECT.json`.

| Run | Disagreement |
| --- | --- |
| `inspect_loading` | a live set still loading can close a route: in an allow row, an exclusion or an inverse |
| `rollout_start` | the `Sync` of the start can detach the live sets of a generation applied meanwhile |
| `rollout_torn` | a snapshot mixed from two trees can survive a failed apply |

`rollout_torn` is why `FingerprintHonest` and `Converges` are checked with packs
that load: as long as no tree is put back, taking the fingerprint before the files
is enough.

More differences met while modelling. The models do what the code does; no run
states the documented behaviour.

- A list write whose directory fails costs the verdict (`cmd/ip/handler.go:125`);
  `README.md:137-138` says it does not, `README.md:107` lists the error.
- An overload row with `at: 100` fires like one without `at`, on a request that is
  dropped (`internal/overload/overload.go:38`); `README.md:97-98` says "with `at`
  (25–100) once the queue is `at` percent full". They differ for a request that finds
  the queue full, waits (`queue_full: wait`) and is evaluated. `OutcomesAgree` states
  what the README says and leaves this case out (`WaitedAtFull`).
- A reload by the ticker or SIGHUP attaches no live sets, so those of a hand-edited
  tree are never mirrored (`internal/store/store.go:347`). `UsedAreMirrored` fails for
  this reason too; `rollout_start` has no edits, so that it shows the race of the start.
- `Sync` does not look at the name of a set it already has, so a renamed set stays
  subscribed under its old name (`internal/dyn/dyn.go:319`).
- A crash between the two renames of `Apply` leaves no live tree, and the next start
  serves the bootstrap policy (`internal/desired/apply.go:114`, `INSTALL.md:30`).
- Of a prefix in IPv4-mapped form the table keeps the first address
  (`internal/netset/netset.go:175`), while `README.md:121` speaks of "one prefix or
  address per line". `ContainsIsUnion` takes such a line for what the code makes of it
  (`Means`), so that it shows only that the line harms no other.
- The rows of a pack have no `phase` and no `group`, so what needs one of them can
  be written by hand but not sent in a generation (`internal/desired/pack.go`).
- The code of a list row is not looked at, that of an outcome which writes a list
  is (`internal/policy/policy.go`); `RuleAndOutcomeAgree` is one-sided for list rows
  for this reason.
- A pack that names a country it has no ranges for is refused by `Pack.check`, while
  a tree written by hand loads; `CheckAgreesWithLoad` says so.

## The proofs

Every theorem holds for all values of the constants its assumptions allow; the
assumptions are named in the modules that declare the constants, and TLC evaluates them
on every instance.

**Pool.** `PoolProofs` proves, for any finite set of tasks and any submitters,
workers, depth, deadlines and either mode (`PoolAssumption`), that `IInv` is
inductive:

- `Control`: which labels each kind of goroutine reaches and what it holds there;
- `OnePlace`, `Kept`: a task is in one place only, and an unanswered one is
  somewhere. `ExactlyOnce` alone is not inductive: without disjointness of the
  queue, the hands and the current tasks a second goroutine could answer again;
- `Shutdown`: a worker leaves only a closed, empty pool, and `Close` waits;
- `WaiterMeansFull`, `NoLostWakeup`, `QueueBounded`: these need each other. The
  single `Signal` of `enqueueLocked` cannot be swallowed by a parked submitter
  because none is parked while there is room, and that holds because every region
  that makes room broadcasts.

From it follow `TypeCorrect`, `AnsweredExactlyOnce`, `WakeUps`, `Bounded`,
`CloseLeavesNothing`, and the action properties `NothingAfterClose` and `InOrder`.
`CountersRight` (the counters agree with the outcomes) needs more: a task without a
handler call has no outcome (`Silent`), and a task has an arrival number only once it was
queued (`Unnumbered`); each counter then grows by one exactly when its set of tasks does.

**Pool implements Responder.** `PoolProofs` also proves `Spec => ImplementsResponder`
from `IInv`: one lemma per kind of step shows which step of `Responder` it is.
Enqueueing is `Enter`, taking expired requests out of the queue is `Leave`, a call of
the handler is `Answer`, and the rest changes nothing the mapping sees. `OnePlace`
gives that an answered task is in nobody's hands, `Shutdown` that a closed pool keeps
nothing.

**LiveMirror.** `LiveMirrorProofs` proves, for any prefixes, expiries, numbers of
epochs and changes, channel depth and batch size (`MirrorAssumption`), that `IInv` is
inductive:

- `KeeperLog`: keeper's log is consistent;
- `Packages`: a package anywhere, in Redis, in a frame or in a batch, was written
  for its epoch and number;
- `Goal`: `catchUp` stays within its goal;
- `Position`: neither the mirror nor a snapshot on its way is ahead of keeper, nor
  the snapshot behind the mirror.

Then `MirrorFaithful` and `NeverBack`. `NeverBack` needs the last part of `Position`,
which holds because a request is answered with keeper's newest content (see the module):
an answer with older content would take the mirror back. The hash is not needed for
faithfulness: the epoch in the head of a package already excludes left-over packages.

**Composition.** The first part of `PackageProofs` proves `SummaryOfContent` and
`ContainsIsCoverage` for addresses of any width (`WidthAssumption`) and any history of
additions and removals. `Inv` says that the hash is the set of prefixes present and
that each counter is the cardinality of its group; `ContainsIsCoverage` needs the
counters, as a length counted as empty is skipped.

**Package.** The second part of `PackageProofs` proves, for objects of any number of
records of any length, cut at any byte (`ObjectsAssumption`: what keeper records),

- where each record lies: the bytes of an object are a concatenation, record by record
  (`Layout`, by induction), so that at the offset of record `n` the reader finds the
  fields of record `n` (`NextCIDR`, `NextText`);
- `ReadInv`: the reader is at the offset of the record after those it has, what it has
  is a prefix of what was written, and the offset is within the data. Then `Exact`
  (`UnpackIsExact`): a cut object fails the comparison of the first field that is not
  whole, and a sound whole one fails none;
- `AppliedIsComposition`: reading and applying is a behaviour of `Composition`, from
  which `PackageContent` follows (`SummaryOfContent` and `ContainsIsCoverage` of what
  comes from the store);
- `WholeOrNothing` (`AllOrNothing`), from `ContentInv`: while `k` records are applied
  the entry of each prefix is what the last of these `k` said about it. Without the
  count of the records still to come the invariant is not inductive.

**AuditSink.** The first part of `ServiceProofs` proves, for any adders, events and limits
(`SinkAssumption`), all five invariants of the sink. `Inv` carries `NoLostKick` and
`CloseFlushes`: it ties the end of the goroutine to a last flush begun after `stop` was
closed, and says that an empty queue weighs nothing, without which a kick could be owed
by nobody. `Line` carries the rest. It says of the log of events added that

- what is published, taken and pending of one subject follow each other as in the log
  (`InLine`); what was dropped precedes all that is pending. Order of the published
  events alone is not inductive: the batch and the queue behind it must be in line;
- the five places of an event share nothing and make up the log (`Apart`);
- `size` and `dropped` are the sum and the count of what they stand for.

From `Line` follow `NothingLostOrDoubled` (`Conserved`), `SubjectsInOrder`
(`SubjectOrder`) and `OldestGoFirst` (`DropsOldest`). The loops of the code (`sizeOf`,
`groupBySubject`, the concatenation of messages) are recursive functions; what a loop
computes is shown once, by induction over the natural numbers (`LoopExists`,
`LoopUnique`), and used for each (`SizeOfAppend`, `FlatAppend`, `OnlyKeeps`).
`NothingBetweenBatches` is the step property that a flush cuts the queue into a batch
and the rest.

**Service.** The second part of `ServiceProofs` proves, for any messages, kinds, faults and limits
(`ServiceAssumption`), that a behaviour of the service is one of `AuditSink`
(`SinkUsedAsSpecified`) and one of `Responder` (`PoolUsedAsSpecified`). So what is
proved of the sink holds in the service (`SinkSafeInService`), and the service asks of
the pool no more than `Pool` is proved to give. `ExitIsOrderly` (`OrderlyExit`) follows
from `ServiceInv`:

- `Phases`: where `run()` is tells how far pool and sink are closed;
- `Carried`: a message without a reply is in the buffer or in a handler call;
- `Fresh`: an answered message is in no handler call, and `receive` refuses one message
  at a time and none that went to the pool;
- `Recorded`: an evaluated message has its reply, and if its event was recorded at all,
  it was recorded before the sink's `Close` began, because a closed pool holds nothing
  that could still be evaluated.

**Inspect.** `InspectProofs` proves the five properties of the run `inspect` for any
sets, profiles, requests and numbers of live set changes. `InspectAssumption` lists what
the loader lets through: blocks over lists, live sets and countries that exist
(`store.compileMatch`), terminal rows with a set and other rows with a dataset
(`policy.normalizeRule`, `store.loadProfiles`), outcomes with a fill between 0 and 100
(`policy.normalizeOutcome`). An inspection only goes forward, so the inductive
invariants say what each stage has settled:

- `VerdictInv`: `seen` holds what every live set says now, and no row of the pass up to
  the current one had to match; a decided verdict names a row of the right pass that
  may have matched;
- `CollectInv`: at each stage the asks and writes collected are those of the rows passed
  so far, each once, and asks and writes have different rows;
- `WriteInv`: the writes tried are a prefix of those collected, those sent are among
  them, in order, with every write of an address, and a failed directory belongs to a
  write given up. A failed directory costs the verdict, not the other writes.

`OutcomeRowsAgree` leaves out the row with `at: 100` on a request that waited at a full
queue, as the property does.

**Rollout.** `RolloutProofs` proves `InOrder`, `AppliedIsOnDisk` and
`FingerprintHonest` for any packs, number of reloading goroutines and bounds on puts,
edits, outages and errors (`RolloutAssumption`).

- `GenerationsInOrder`: `OrderInv` says that no tree is newer than the entry in hand, the
  entry waiting for its retry or the entry the watcher will see next, which is what
  makes a late retry harmless;
- `AppliedInPlace`: `PlaceInv` says, for each step of `handle` and `Apply`, where the
  applied generation and the one in hand are: in place, staged or parked;
- `FingerprintsHonest`: `HonestInv` says the same of snapshots and of every load in
  progress. It has the hypothesis `NothingPutBack` (no pack that parses and fails to
  load, no failing write, rename or subscription): without it the statement is false, as the run
  `rollout_torn` shows.

**Policy.** `PolicyProofs` proves the four properties of the run `policy` for any
documents, any values an edit may write and any number of edits (`ShapeAssumption`: a
document has the fields the decoder fills in, and the AS numbers written have names).
The invariant is only that shape; the properties follow from the operators.

- `RowsAgree` (`RuleAndOutcomeAgree`): both validators are shown equivalent to one
  predicate of the fields they share (`AskOf`), rules in `RequestAsks` and outcomes in
  `OutcomeAsks`; `action` and `outcomeAction` are shown to be one function of these
  fields (`WireActions`);
- `WellFormed` (`ActionsWellFormed`): an accepted ask is one of the verbs (`AskSent`),
  and each clause is shown from the check that establishes it;
- `Resolves` (`SnapshotResolves`): a tree that loads has a file for every list and
  system its sets and their exclusions name, and attaches every live set they read and
  every list its rows write. Every name was found in the index that `usedLive`
  collects from, after the same lowering (`ParsedSets`, `MatchResolves`). So
  `decide.missing` finds nothing once geo tables are loaded; a country without ranges is
  the exception, as `Store.build` does not look for them;
- `ChecksAgree` (`CheckAgreesWithLoad`): for plain names lowering and trimming change
  nothing, so that `compileSets` and `loadProfiles` ask what `Pack.check` asked
  (`PlainMatches`, `PlainRows`).

The tables of legal values (verbs, axes, phases) are those of the code; `Lower`,
`Trim` and the values outside the tables are as in `PolicyRow`, over its small
alphabet of spellings.

**Netset.** `NetsetProofs` proves the three properties of the run `netset` for words
of any width, any mark of the mapped block and files of any length
(`NetsetAssumption`, `LinesAssumption`: addresses and lengths are in range). A prefix
whose network is IPv4-mapped is one of the lines, and means its first address (`Kept`).

- An address is a number (`Value`). Masking and `lastAddr` give the first and last
  number of a block of a power of two (`PrefixBlock`, with one lemma per branch of the
  code's switch), agreement in the leading bits is lying in that block
  (`BlockAgrees`), and `nextAddr` is the next number but for the mapped end (`NextIs`).
- A finite set of intervals has one ordered list (`ListExists`, by induction on its
  size), which is what `Sorted` chooses.
- `PassInv` is the invariant of merge's loop: what the result holds is what the
  intervals taken so far hold, the result is in order and apart (`Apart`), and its last
  interval starts no later than the next one to come. The last part is what makes the
  others inductive: only so does widening the last interval join nothing else.
- On a list that is apart the place the search finds is the only one that can hold
  the address (`LocateIs`); at most one length fits an interval (`FitsOnce`).
- `NetInv`, over the lines read: the prefixes read stand for what the lines stand for.

Then `ContainsExactly`, `TablesCanonical` and `PrefixExact`.

## What is only model-checked

- Liveness (`EveryTaskAnswered`, `CloseReturns`, `EveryMessageAnswered`, `SignalEnds`,
  `EventuallyCurrent`, `NoSnapshotStorm`, `Converges`, `LastIsApplied`): fairness and
  `ENABLED` are out of the prover's reach.
- `FingerprintHonest` is proved under a hypothesis (see Rollout) and model-checked on
  instances that satisfy it.

Every other property of a passing run has a theorem. Where a proof needs induction over
data (powers of two, the list of a set, the turns of a loop, the records of an object),
it is made from the well-foundedness of the natural numbers, with a set in place of the
predicate.

## Not modelled

- SipHash (`internal/dyn/siphash.go`) and the digest of a pack: hashes are taken to
  tell contents apart.
- The body of an audit event, the frames of the presence report, `cmd/probe`:
  formatting and output; they change nothing.
- `internal/config` and the settings of a pack: texts read once, and the log level.
- The shape of a message (`internal/protocol`): what `Parse` refuses is a kind of
  message in `Service`.
- Cutting the values of `PublishMany` into chunks: a loop over a slice.

Within what is modelled:

- `Service`: a message without a reply subject is only logged; a panic comes before
  the reply is published, where `recoverInto` can still answer. The instance refuses
  messages for their phase; the other refusals differ in that a malformed message
  has no audit event.
- `Package`: prefixes are in range and masked, as keeper writes them; the fields of
  the header that `unpack` only copies are in `LiveMirror`.
- `Policy`: a name is accepted or refused, its characters are not looked at; one rule
  and one outcome, since rows are checked one by one; the YAML decoder is a library.
  Times to live are short: the product in `parseTTL` is not bounded by the code
  (`internal/policy/policy.go:878`). Live sets have names without subjects, so that of
  two names in `live.yaml` that differ only in case either may win
  (`internal/store/store.go:701`) does not show.
- `Rollout`: deletes and purges of the pack key; several puts skipped by a history
  of 5; removals of directories are one step; the rename that puts a tree back
  succeeds; a fingerprint taken while files change matches no tree.
- `Inspect`: codes set by a rule, one live set per block.
- `LiveMirror`: key changes within an epoch; one set, since sets share nothing.
