# Verification of go-data-structures

TLA+ specifications of the concurrent parts of this repository, the TLC
instances that check them, and TLAPS proofs about four of them: the wait side that
the queue rests on, the MPMC ring of `ring/frontier`, the runner, and the buffer.
Paths below are relative to the repository root.

## The system

| Part | State | Operations | What it promises |
|---|---|---|---|
| `workq` wait sides (`waitside.go`) | an atomic word (pollers, parked, closed), a list of waiters under a mutex, a token channel per waiter | register, leave polling, enlist, leave the list, wake one, wake a group, close | I1–I3 of `wakeup.md`: the counts are exact, a token is outstanding exactly for a selected waiter, no panic |
| `workq` queue (`queue.go`, `push.go`, `receive.go`, `wait.go`, `consumer_wake.go`) | two wait sides, an engine, the `done` channel | Push, PushBatch, TryPush, TryPushBatch, Receive, TryReceive, Consume, Close, cancellation | no lost wake; Close and contexts end waits; errors tell the truth; a clean Close loses nothing |
| `workq` engine (`engine.go`) | a ring | enqueue, dequeue, counts | a bounded FIFO; a call that finds nothing is right (A1, A4 of `wakeup.md`) |
| `ring/frontier` MPMC | two heads, two frontiers, two record arrays, slots | enqueue, dequeue (single, bulk, burst), counts, Reset | implements the engine |
| `ring/frontier` SPMC, MPSC | one side as above, the other a plain cursor; MPSC packs two 32-bit positions in a word | the same | the same |
| `ring/dpdk` SPSC, SPMC, MPSC, MPMC | 32-bit heads and tails, cached positions; relaxed tails with operation counters and a mirror | the same | the same, with wrapping positions |
| `workq/runner` | admission gate, workers over a queue, retries, abort record, counters | Submit, SubmitBatch, StopAdmission, Abort, Shutdown, Wait | at Done every accepted item has one outcome, and the result no longer changes |
| `workq/durable` | an SQLite store, slots of commands, claims with tokens, one coordinator | Submit, Receive, Ack, Release, Retire, Lookup, checkpoints, start and restart | Applied survives, NotApplied left nothing, Unknown is decided by the store; a token of an earlier session is stale |
| `buffer` | a backing array, the interval of live elements, a high-water mark; a pool | append, grow, consume, truncate, compact, each with or without zeroing; Get and Put | elements that stay keep their order; a wipe leaves nothing behind |
| `set`, `xmaps`, `xslices` | sequential helpers | – | functional correctness |
| diagnostics, examples, benchmarks, scripts, the fault-injecting file system | counters, tools | – | nothing the others depend on |

The queue calls the engine outside its mutexes, decides what to wake from the
side word it loads after the engine call, and wakes through the side. The runner
drives a queue with worker goroutines. The durable queue stands apart: its
coordinator owns the SQLite connection, and callers reach it through command slots
under one mutex.

What makes this code hard is in the interleavings: wakes decided on a word that
changes, a waiter that cancels while it is being selected, Close in the middle of
a call, a reservation that finishes out of order, a caller that wakes up a lap
later and reads records of another lap. `PROJECT.json` lists these hazards at the
lines where they bite, with the properties that would catch them.

## Modules

| Module | Models | Notes |
|---|---|---|
| `WaitSide` | `workq/waitside.go` | one side, for any set of callers |
| `WaitSideProofs` | – | theorems about `WaitSide` |
| `Engine` | what `workq` asks of a ring | abstract: claimed, ready, reading and free positions |
| `WorkQueue` | the rest of `workq` | composes two `WaitSide`s and an `Engine` |
| `Records` | `ring/frontier/records.go` | the discovery the frontier rings share |
| `FrontierMPMC` | `ring/frontier/mpmc.go` | refines `Engine` |
| `FrontierProofs` | – | the inductive invariant of `FrontierMPMC` and the theorems that follow from it |
| `FrontierRefinement` | – | the proof that `FrontierMPMC` implements `Engine` |
| `FrontierOwned` | `ring/frontier/spmc.go`, `mpsc_base.go`, `mpsc.go` | refines `Engine` |
| `DpdkRing` | `ring/dpdk` | all four rings; refines `Engine` |
| `Runner` | `workq/runner` | over the queue that `workq` promises |
| `RunnerProofs` | – | theorems about `Runner`: aborts, custody of items, the outcome, no panic |
| `RunnerBooks` | – | the proof that the runner's accounts reconcile |
| `DurableStore` | the transactions of `workq/durable` | the store as a value, one operator per command |
| `Durable` | the rest of `workq/durable` | callers, coordinator, crashes and restarts |
| `Buffer` | `buffer` | methods as functions on a buffer; the pool; a client that writes through slices |
| `BufferProofs` | – | theorems about `Buffer` |
| `MCWaitSide`, `MCWorkQueue`, `MCFrontierMPMC`, `MCFrontierOwned`, `MCDpdkRing`, `MCRunner`, `MCDurable` | – | instances for TLC |

### WaitSide

`word` is the atomic word as a record, `list` the waiters from `oldest` to
`newest`, `token[c]` the one-slot channel of the waiter `c` uses. `phase[c]` is
what `c` owes the side, which the code keeps in its control flow: nothing
(`"out"`), a registration (`"polling"`), a park (`"parked"`). The mutex is free
when `sends = 0`; between two steps it is held only by a waker whose
compare-and-swap has moved waiters to the pollers and which has `sends` tokens
left to send, because that is the only critical section whose intermediate states
others can see (they read and change the word without the mutex). A
compare-and-swap loop is the step in which it succeeds.

Actions carry the code's names. `wakeOneLocked` and `wakeGroup` end at their
compare-and-swap (`Transfer`); `removeForWake` is one round of the send loop.
`leaveListWith` is the branch for a caller still listed; the other branch is
`receiveToken` followed by `leavePollingWith`. Guards that are panics in the code
(`word.pollers > 0`, an empty channel, a non-empty list) are guards here, and
`NoPanic` says they never decide anything.

### WorkQueue

Each call is a goroutine with a stack of steps `pc[c]`; `call[c]` holds its
locals. One step is one atomic load or compare-and-swap, one critical section,
one engine call's claim or publication, or one channel operation. `Go(c, steps)`
replaces the step at the top by the ones that follow it, so the cleanup that
`leavePollingWith` runs as a closure is the steps pushed by
`leaveConsumerPolling`, and so on. An engine call that moves items is two steps,
claim and publication, so that other goroutines run in between. An attempt may
move fewer than are available when it claims, because it decides on an earlier
count, but it moves nothing only if at that moment there was nothing, which is
what A1 and A4 grant. A count of the available items (`Samples`) may likewise be
too small, but never zero where there is something. Both are what
`FreshUnlessOvertaken` shows of the MPMC ring, and no more than that.

A step on a side is an action of that side's `WaitSide` instance, and a side is
changed by nothing else, so what is proved about `WaitSide` applies to both.

A `select` with several ready cases takes any of them. A context ends at any
moment of a call (`cancel`, external). A strategy's spins and yields count down
exactly, with `NeverPark` as a loop that never enlists. `contextCheckInterval` is
64 as in the code. `handleBatch` is the handler of Consume, which succeeds or
fails. `clean` records whether the first Close found every producer call
finished, the rule its documentation makes, and `call[c].shut` whether Close found
`c` waiting.

Left out: the diagnostics recorder, test hooks, the pool of waiters (a waiter is
named by the caller that holds it, and `ReturnLeavesWait` is what makes pooling
it safe), and what the items are. Calls with an empty slice return at once and
change nothing.

### Engine and FrontierMPMC

`Engine` holds the positions from the oldest not yet reusable to the newest
claimed, each `writing`, `ready`, `reading` or `free`. A ready position behind one
that is being written is not available; a free one behind one that is being read
is not room.

`FrontierMPMC` has every atomic load, store and compare-and-swap of the ring as a
step. The producer and the consumer code are mirror images that differ in how a
frontier admits a claim, so the variables are indexed by side and `Admits` holds
the difference. `Cells` maps the ring to an `Engine`: from its completion until
it is read, the item of a cell is what its slot really holds, so a copy that goes
wrong breaks the refinement. `least` is a history variable, the least that a
call could have claimed at any moment since it began. Positions are 64-bit in the
code and do not wrap in any feasible run; here they are naturals. Two steps of
the code are taken as one: a failed compare-and-swap and the reload after it in
`raiseFrontier`, where no value in between can matter as the frontier only grows,
and the copy of a batch, whose slots nobody else touches (`SlotsExclusive`).
Count, Free, Full and Empty are the call that asks for nothing; they cap a count
from a stale head where that call reloads it.

### FrontierOwned

The SPMC and the MPSC ring mirror each other. The side with one caller (its owner)
has a private `cursor` and a private `frontier`, up to which it has discovered the
records of the other side. The callers of the other side (the claimers) compare
and swap `head` against what the owner published and a shared cache of it. Where
the two files differ, the operators carry both names (`spmc…`, `mpsc…`).
Positions are 64-bit and are naturals here; the halves of the MPSC word and its
cache are 32-bit and are taken modulo `Word`, with a run that starts just below the
wrap. An observer runs MPSC's Count, which scans records, combines them with a
released half of another moment and retains a proof for the next Count. A bulk over
its limit moves nothing and only counts. `Reset`
runs when nobody else is in a call, as its documentation demands. `least` is the
history variable of `FrontierMPMC`.

### DpdkRing

A side is single, multi or relaxed. A single side has a private cursor and cache. A
multi side claims by compare-and-swap and publishes in the order of the claims,
so a caller waits for the earlier ones. On a relaxed side head and tail count
operations, the tail moves to the head when the counts agree, and the other side
reads a mirror that `raiseMirror` moves up. Positions and counters are words
modulo `Word` (2^32 in the code). A spin or a yield is waiting: the step is
enabled once what is waited for holds. The options are a sequence that
`resolveConfig` folds and validates in the code's order; `ValidationOrder` in
`MCDpdkRing` evaluates that order on the cases the constructors' comment names. A
batch longer than the limit is refused as in `batch_errors.go`.

### Runner

A step is one critical section of the lifecycle mutex, one atomic operation, one
wait for a channel, one queue operation or one return of an application function.
The queue is what `WorkQueue` shows: a bounded FIFO with Close. Items are
occurrences; `held[p]` is what a worker or the cleanup owns, `due[p]` the
part of it that is to be handled or finalized now. `ret[p]` is where a call of
`abort` returns to, because goroutines of every kind make one. Of the errors it
keeps whether a failure was recorded and whose abort came first. A handler returns
with any outcome for each item, or with an answer that makes the worker abort, as
may a terminal callback. Owners call Shutdown or Abort. `doc.go` rules out handlers
that never return and `runtime.Goexit`, and the model has neither. Closing a
channel twice is `life.panicked`, after which nothing runs.

### DurableStore and Durable

`DurableStore` is the logical store as a record (receipts, payloads, producers with
their floors, the stored counts), with one operator per command for what a
transaction does to it or why it refuses, and `validateLogicalState`, which is
what Open demands of a store it finds. `Durable` is everything around it. A step
is one critical section of `Queue.mu` or one transaction; only the coordinator
uses the connection, so nobody sees the inside of a transaction. `disk` is the
sequence of committed stores of which a system crash may leave any; a synchronized
commit, or a checkpoint, cuts it to one. A COMMIT that fails may have taken effect.
`slots` are the commands of the two admission pools, freed by their caller or,
after it gave up, by the coordinator. `claims` and `deliveryQueue` are the
deliveries. `delivered` and `fenced` are history: the tokens the application has
had, and those released or of an earlier session. A delivery is four steps, as the
code gives up its lock between them: the free claim is chosen (`dispatch`), the work
is found (`nextDelivery`), the claim is made and charged (`loadDelivery`), and the
payload is read and the claim published (`publishDelivery`). A stop may come between
any two. `refused` in a slot is history: the answer with which a command was refused
inside its group.

Left out: payload bytes and their count, the encoded size that may end a group
(which has the effect of its other limits), the read scratch of a delivery,
snapshots and counters, SQLite's settings, the directory lock, inspection of a
closed store, ChangeDurability and Maintain, encodings, and the exhaustion of
64-bit identities. Charges are in units of 128 bytes.

### Buffer

Each method is a function from a buffer to a buffer, with `Compact`'s and
`CompactAndZero`'s moves inside the methods that call them. The client may write
through the slices it got for as long as the comments in `buffer.go` allow:
`lent` and `free` are those indices. `Put` and `Get` are the pool, which may drop
what it holds. Panics on a count out of range are the bounds of the quantifiers.

## Runs

| Run | Instance | Shows |
|---|---|---|
| `waitside` | 4 callers, groups up to 3 | `I1`, `I2`, `I3`, `NoPanic`, `ClosedRefuses` |
| `queue_items` | 2 consumers that park at once, 1 producer, 2 slots, wake cap 2, cancellation | `ItemsWatched`, `ReturnLeavesWait` |
| `queue_close` | 1 consumer with every call, 1 producer with batches of up to 3 in chunks of 2 and tries, 1 closer, cancellation, a spin before parking | `DrainedMeansEmpty`, `PushOutcome`, `LateCalls`, `CloseReachesWaiters` |
| `queue_live` | 1 consumer, 1 producer, 1 closer, cancellation, fair | `CloseReleases`, `CancelReturns`, `SleepersWoken` |
| `queue_both` | 2 consumers and 2 producers that park at once, 1 slot, wake cap 1, cancellation of producers | `ItemsWatched`, `RoomWatched` |
| `frontier_ring` | MPMC ring of 2 slots: 1 producer (single, bulk, exact burst), 2 consumers (single, count) | `PositionsOrdered`, `FrontiersSound`, `SlotsExclusive`, `FreshUnlessOvertaken`, `ImplementsEngine` |
| `frontier_stale` | MPMC ring of 4 slots: 1 producer (bulks of 1 and 3), 2 consumers (bulks of 1 and 2) | `ShortfallIsFresh` is **violated**, see below |
| `frontier_owned` | SPMC and MPSC rings of 2 slots across the wrap: 2 claimers and the owner, exact counts with a batch limit, Count beside 2 producers, two Counts at once, Reset | `ShortfallIsFresh`, `CountSound`, `ImplementsEngine` |
| `dpdk_rings` | 6 constructions on 2 slots across the wrap: SPSC, MPSC with relaxed producers, SPMC with relaxed consumers (distance 1 and default), MPMC with 2 consumers and with 2 producers | `WaitsEnd`, `TailsSound`, `QuiescentVisible`, `CacheCostsNothing`, `ImplementsEngine` |
| `dpdk_relaxed` | MPSC ring of 4 slots across the wrap: 3 relaxed producers, distance 2 | `TailsSound`, `QuiescentVisible` |
| `runner` | 2 workers and a submitter that fills the queue; 2 submitters, batches of 2 and a retry; 2 owners that stop and abort; each with and without callbacks and the abort mode; fair | `Reconciled`, `OutcomeFinal`, `AbandonedAfterAborting`, `StopCompletes` |
| `durable` | 2 callers in six workloads: submissions that conflict, fail, are canceled or cut by a crash; deliveries over two sessions; retirement and cleanup, also with failing storage; a drain; unsynchronized commits over three sessions | `StoreValid`, `AnswersTrue`, `DrainedForGood`, `ResourcesOwned`, `FencedAcks` |

Every run but `frontier_stale` finds its properties to hold. For each property of
those runs `PROJECT.json` names a variant of the code (in the modules, marked
*Variant*) under which the same run finds it violated.

### Where the code and its documentation differ

`ring/frontier/options.go:78-82` says that a call never fails or moves fewer
elements because of a stale count, and that a call that fell short returns a fresh
one. That is `ShortfallIsFresh`. It holds of the SPMC and MPSC rings
(`frontier_owned`), and not of the MPMC ring (`frontier_stale`). A call compares what
it discovered with the head it loaded at its start, and discovery stops at a record
of a later lap (`mpmc.go:351`). The run finds, on four slots:

1. positions 0 to 3 are published, and a DequeueBulk of two loads head 0 and
   frontier 0;
2. another consumer raises the frontier to 1, takes position 0 and releases it;
3. a producer publishes position 4, over the record of position 0;
4. the first consumer rejects that record, finds the frontier at 1 and returns
   ErrEmpty, although three or more items were there throughout.

What holds of the MPMC ring is `FreshUnlessOvertaken`: only a call whose loaded head
another caller has moved can count too little, and it never counts zero. The
wakeups of `workq` need no more than that: a queue parks a caller only after an
attempt that found nothing, and takes the count of a wake group as a hint.

### What the properties say

- `ItemsWatched`, `RoomWatched`: while a caller sleeps beside something it could
  have, somebody is bound to look again. This is "Why a wake is not lost" of
  `wakeup.md` as an invariant, so it holds without fairness.
- `DrainedMeansEmpty`: ErrClosed to a consumer after a clean Close means that no
  pushed item is left.
- `PushOutcome`: nil, ErrClosed, ErrClosedDuringPush, ErrFull and a context error
  each say the truth about how much of the batch went in.
- `LateCalls`: a producer call begun after Close gets ErrClosed and pushes nothing;
  a Receive or TryReceive gets items or ErrClosed, never the context's error.
- `CloseReachesWaiters`: a producer that waits for room when Close begins is told
  that the queue closed, also if its context ends before Close has reached the
  producer side; a consumer that slept is told so, or got items.
- `ReturnLeavesWait`: a returning call owes its side nothing and its waiter is clean.
- `FrontiersSound`: a frontier never passes an unfinished reservation.
- `PositionsOrdered`: released, consumer head, completed and producer head keep this
  order within a lap, so no unsigned difference of them wraps. `SlotsExclusive`: no
  two calls own the same slot at once.
- `ShortfallIsFresh`: a call that falls short, or only counts, reports all that was
  there for it at some moment of the call. This is what `options.go` promises.
- `FreshUnlessOvertaken`: the same, unless another caller has moved the head the call
  had loaded, and then the count is not zero; nor is a count ever more than the
  capacity, although that head may be laps old. This is what A1 and A4 of
  `wakeup.md` need and what `WorkQueue` assumes of its engine.
- `ImplementsEngine`: items leave in the order of their reservations, unchanged,
  each to one consumer; stated for every ring of `ring/frontier` and `ring/dpdk`.
- `CountSound`: Count of the MPSC ring never reports an item that is not there, nor
  retains a proof that passes a reservation in progress.
- `TailsSound`: a tail, or a mirror, never passes an unfinished claim, and the words
  stay within a lap of each other. `QuiescentVisible`: when a side is at rest,
  all it claimed is published. `WaitsEnd`: whoever waits, somebody of its side holds
  a claim and does not wait. `CacheCostsNothing`: a call that decides on a cached
  position gets all it asked for.
- `Reconciled`: at Done every accepted item was finalized once, and the summary's
  counters add up. `OutcomeFinal`: the outcome Wait returns never disagrees with
  the recorded failures and the first abort. `AbandonedAfterAborting`: nothing is given up
  before the abort is public. `StopCompletes`: once admission is stopped, Done
  closes.
- `StoreValid`: any store a crash or a shutdown leaves is accepted by the next Open.
  `AnswersTrue`: Applied means all of it is in the store, NotApplied none of it, a
  caller that gave up after the hand-over got Unknown, and a command refused inside
  its group keeps that answer when the group fails.
  `DrainedForGood`: ErrDrained is final. `ResourcesOwned`: every slot in use is
  freed by one party, an item has one claim, charges are exact. `FencedAcks`: only
  a token delivered in this session and not released acknowledges.

### Bounds

- Wait side: callers are interchangeable. Four of them let a group of three be
  woken while a fourth enlists, cancels or leaves. The proof covers any number.
- Queue: lost wakes need a sleeper, a second caller of the same side that takes the
  wake and leaves, and one of the other side: two and one. `queue_items` has them for
  items, with groups; `queue_both` has them for room, with re-enlisting and
  cancellation, beside two sleeping consumers. One or two slots make full and empty
  frequent. `MaxItems` bounds the length of a batch and `MaxPushBatch` its chunks, so
  that a batch of `queue_close` has two of them. `MaxReceiveBatch` is 1, so that two
  items make a wake group of two. Larger instances were explored with the same
  result: `queue_close` with receives of two (4.7 million states), and `queue_items`
  on three slots with receives of two and pushes of three (6.8 million). Nothing
  bounds how many calls a goroutine makes.
- MPMC ring of `ring/frontier`: two slots, and `MaxPosition` 3, let claims go past a
  whole lap, which the stale-head and stale-record cases need; an enqueue begun below
  `MaxPosition` may claim past it when it retries. `recordLookahead` is 2 for 4 in the
  code and `recordLookaheadMinStride` 1 for 8, so that two slots suffice to run the
  lookahead. Two slots are too few for the case of `frontier_stale`, in which one
  record is overwritten while others still lead on: that run has four slots and bulks,
  and on `frontier_ring` even `ShortfallIsFresh` would hold. `FreshUnlessOvertaken`
  was therefore also explored with the constants of `frontier_stale`, completely and
  without a violation (15.1 million states); it takes too long to be a run of its own.
  What the other four properties of `frontier_ring` say is proved for every capacity
  and any number of callers.
- Wrapping words: `Word` 16 with `Start` 14 or 15, and 32 with 30 in `dpdk_relaxed`,
  makes every run cross the wrap within its first claims. The assumption that no
  observation spans a whole cycle of words is the contract stated in `mpmc.go` and
  `mpsc.go`. `MaxMoved`, `moved` and `AfterReset` bound how far enqueues start; two
  slots and three positions go past a lap. Three callers in flight on a relaxed side
  are the least with which a tail could be moved by a stale head: one between its two
  loads, one with a claim open, and one that claims and finishes meanwhile.
  `dpdk_relaxed` has them, on four slots.
- Runner: at most three items. Two workers are what a handler's
  abort against another worker's finalization needs; one slot blocks a submitter;
  two attempts make one retry. Everything a goroutine does is unbounded but the
  items, which are what is submitted.
- Durable: two callers suffice for a group of two, for one caller that gives up
  while another is served, and for a receiver beside an acknowledger. `calls` is 3
  or 4 per workload, and a second session follows a crash (a third, for
  unsynchronized commits, finds what two crashes left). The limits of the policy
  are 2, so that they are reached. `cleanupRows` and `scanRows` are 1 and 2, so that a
  cleanup and a delivery scan take several turns.

### Fairness

`FairSpec` has strong fairness for the steps of a goroutine inside a call. The
Go scheduler is preemptive, so a runnable goroutine runs; strong rather than weak
because a step that needs the mutex is enabled and disabled as others take it, and
`sync.Mutex` hands itself over to a waiter that has waited for a millisecond.
Clients are not obliged to call, to close or to cancel. With a single producer and
consumer nobody overtakes a woken caller; with several, `push.go` documents that a
Push can wait without bound, and no property says otherwise.

`Runner`'s `FairSpec` has weak fairness for each goroutine that is inside a call
or that the runner started, which a preemptive scheduler gives: a critical section
of the lifecycle mutex is a single step here. It includes the return of application
functions and the firing of retry timers, which `doc.go` asks for. Nobody is obliged to submit, stop or abort.

The rings and the durable queue are checked for safety only. A ring call that is
retried for ever by others' progress is lock-free by design; `WaitsEnd` replaces a
liveness property for the waits of `ring/dpdk`.

## Proofs

`WaitSideProofs` proves for any finite set `Callers` and any `MaxTarget` in
`Nat \ {0}` (the only assumptions):

- `SideInvariant`: `Spec => [](TypeOK /\ I1 /\ I2 /\ I3)`, and from it
  `ParkedIsListed` (`I1`) and `TokenIffSelected` (`I3`);
- `SideNeverPanics`: `Spec => []NoPanic`;
- `ClosedSideDrains`: `Spec => ClosedRefuses`.

The inductive invariant is `IInv == TypeOK /\ I1 /\ I2 /\ I3`. None of I1, I2 and
I3 is inductive alone. I1 counts list entries, and a caller that unlinks itself
keeps it only if it is listed once (I3). I2 counts the selected waiters as those
parked and unlisted, so that a waker that unlinks one keeps it only if the list
holds parked callers without repetition (I3). A token is sent to the head of the
list, which exists because of I1 and has an empty channel because of I3. While a
waker is in its send loop, `sends` carries the difference in I1 and I2; that is
what the mutex protects, and why the invariants can be stated at every step and
not only when it is free.

The proof has lemmas about the list (what appending, prepending, taking the tail
and removing an element do to its set of elements and to uniqueness), one lemma
per action for the preservation of `IInv`, and `IInvNoPanic`. `ClosedSideDrains`
needs no invariant beyond types.

`FrontierProofs` proves of the MPMC ring, for any number of producers and consumers
and any capacity, batch limit, lookahead, stride and mix of calls that satisfy
`RingAssumption` (the roles are disjoint, there are finitely many producers, the
limits are positive, no call asks for more than the batch limit, which is at most the
capacity):

- `Ordered`: `Spec => []PositionsOrdered`;
- `Sound`: `Spec => []FrontiersSound`;
- `Exclusive`: `Spec => []SlotsExclusive`.

None of the three is inductive, because a caller acts on words it loaded long ago
from arrays that are never cleared. The invariant `RingInv` says what such a word may
claim. `Recorded`: a record in slot k is the end of an interval, of whatever lap, that
began at k and is finished, and no claim still open overlaps it. So a record that leads
on from a position with nothing unfinished below it leads to another such position.
This holds of every word in the arrays (`RecordsTrue`) and of every word a caller
has loaded ahead and not yet used (`Knows`), since claims open at the head only. The
rest says that claims in progress are apart (`ClaimsApart`) and within the head, that a
frontier has nothing unfinished below it, and what a call knows at each step. There is
one lemma per action; the steps that only load share `Quiet`.

`FrontierRefinement` proves from the same assumption

- `Implements`: `Spec => ImplementsEngine`, that the ring is the bounded FIFO of
  `Engine`, with the items that the slots really hold.

It adds to `RingInv` that a slot holds its item from the producer's copy until the
consumer's (`EntriesTrue`), and a bound on the items (`WithinItems`). The cells of the
FIFO run from the end of the consumers' finished run to the producers' head. A winning
claim reserves or takes cells; the publication of the oldest interval completes or
releases what is finished behind it; every other step leaves the cells alone.

`RunnerProofs` and `RunnerBooks` prove, for any finite sets of submitters, workers and
owners, any batches and any set of configurations that satisfy `RunnerAssumption` (the
roles are disjoint, no item is in two batches, the limits are positive):

- `AbandonedOnlyWhenPublic`: `Spec => []AbandonedAfterAborting`;
- `OneOwner`: `Spec => [](Held /\ Queued)`, that each accepted item is in the queue
  or held by one goroutine or final, and so is finalized at most once;
- `OutcomeForGood`: `Spec => []OutcomeFinal`;
- `NeverPanics`: no channel is closed twice;
- `BooksReconcile` (in `RunnerBooks`): `Spec => []Reconciled`.

The invariant is `AbortInv /\ Custody /\ Gate /\ Ending`, with `Once` for
`NeverPanics` and `Books` for `BooksReconcile`. An item is marked abandoned by a
handler that saw its context end, and the context ends by an abort or when the
coordinator completes; so `AbortInv` has to say that a coordinator past its join has
left no worker behind (`Joined`), and that whoever acts on an abort follows its commit
(`Knowing`, `Marks`). That the mark of a final item stays needs `Custody`: an item is
not yet pushed, queued, held by one goroutine, or final. `Gate` says that the gate's
count is the submissions inside it and that the coordinator passes only when it is shut
and empty, so that nobody can fail or abort after completion; `Ending` what completion
fixes. `Books` places every accepted item (`Located`), says what each goroutine still
has in hand (`Hands`) and that the counters are the sums over the items (`Counters`);
at completion queue and hands are empty, and the sums are the identity of the
summary. The lemmas go by kind of goroutine: aborts, owners, submitters, workers,
the coordinator.

`BufferProofs` proves, without any assumption on the elements or the capacity:

- `MarkCovers`: `Spec => []HighWaterCovers`, nothing but zeroes at or above the mark;
- `PoolIsWiped`: `Spec => []PoolHoldsNothing`, a wiping pool holds no old element;
- `WipesLeaveNothing`: `Spec => ZeroesTheRest`, what CompactAndZero and GrowAndZero
  promise;
- `ContentsStay`: `Spec => ContentsKept`, each method leaves exactly the elements it
  should: one that removes nothing leaves all of them in front and in order, Append
  puts its values right behind them, Truncate leaves the first n and Consume all
  but the first n.

Each method has a lemma that it keeps a buffer valid and what it does to its
elements. The invariant adds that the client's slices end below the mark, without
which a later write could pass it, and that they end when the buffer is put back.
`Buffer` is sequential, and no TLC run of this project covers it.

## Checked, not proved

Both checked and proved: `I1`, `I2`, `I3`, `NoPanic`, `ClosedRefuses`;
`PositionsOrdered`, `FrontiersSound`, `SlotsExclusive` and `ImplementsEngine` of the
MPMC ring of `ring/frontier`; `AbandonedAfterAborting`, `OutcomeFinal` and
`Reconciled` of the runner. The theorems about `Buffer` are proved only.

Checked on the instances above and not proved:

- `CloseReleases`, `CancelReturns`, `SleepersWoken`, `StopCompletes`: liveness under
  fairness is outside what the prover handles.
- `FreshUnlessOvertaken`, and `ShortfallIsFresh` and `CountSound` of the rings with
  one owner: they compare a count with the least that was there since the call began,
  and would need an invariant about everything that others may have done since.
- the other properties of `FrontierOwned` and `DpdkRing`: positions are words that
  wrap, and an inductive invariant would have to be stated modulo the word.
- the safety properties of `WorkQueue` and `Durable`: their invariants range over
  the control state of every call, and have not been worked out.

## Not modelled

- Diagnostics: no decision reads a counter or a latency.
- `set`, `xmaps`, `xslices`: each function is a comprehension over its arguments,
  which a definition in TLA+ would only restate.
- `workq/durable`: byte layouts and digests, the SQL schema, snapshots and offline
  inspection, ChangeDurability and Maintain on a closed store, the directory lock,
  and the validation of limits.
- Option validation of `ring/frontier` and of the runner, adapters, error values
  and their wording. The limits they enforce are the ASSUMEs of the modules.
- Examples, benchmarks, scripts and the fault-injecting file system: not part of the
  running system.
- Memory order: Go's atomics are sequentially consistent, which is the interleaving
  semantics used here; plain slot accesses are ordered by the atomics around them.
  `SlotsExclusive` says that no two of them overlap in the MPMC ring; in the
  others an overlap would break `ImplementsEngine`.

`PROJECT.json` gives the status of every part.
