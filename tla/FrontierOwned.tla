---------------------------- MODULE FrontierOwned ----------------------------
(* The SPMCQueue and the MPSCQueue of ring/frontier (spmc.go, mpsc_base.go,   *)
(* mpsc.go).                                                                  *)
(*                                                                            *)
(* One side has an owner, with a private cursor and a private frontier up to  *)
(* which it has discovered the records of the other side.  The callers of     *)
(* the other side claim intervals by a compare-and-swap on a shared head,     *)
(* against what the owner published and a shared cache of it, and record an   *)
(* interval's end at its start.  The two queues mirror each other; what       *)
(* differs is written twice below, under the names of the code.               *)
(*                                                                            *)
(* Absolute positions are 64-bit and do not overflow: naturals here.  What    *)
(* the MPSC consumer publishes, and its cache, are 32-bit halves of words:    *)
(* modulo Word.  Every atomic load, store and compare-and-swap is a step.     *)
EXTENDS Records, FiniteSetsExt

CONSTANTS Producers, Consumers, Observers,
          Capacity,
          Word,           \* 2^32 in the code
          Constructions,  \* the queues built: [queue, callers, exact, max, lengths,
                          \* moved]: lengths of the slices given to calls, by side;
                          \* bound: no enqueue starts moved past Start
          Start,          \* the position the run starts at
          AfterReset      \* bound: no enqueue starts this far past a Reset

ASSUME RingAssumption ==
  /\ Producers \cap Consumers = {}
  /\ {Capacity, Word, recordLookahead, recordLookaheadMinStride}
       \subseteq Nat \ {0}
  /\ Start \in Nat /\ Word % Capacity = 0
  \* No attempt or Count spans a complete cycle of words (the contract of mpsc.go).
  /\ \A new \in Constructions :
       new.moved + Capacity * (1 + Cardinality(Producers)) < Word
  /\ AfterReset + Capacity * Cardinality(Producers) <= Start

Sides == {"producer", "consumer"}
Side(c) == IF c \in Producers THEN "producer" ELSE "consumer"
Slots == 0..Capacity - 1
Slot(position) == position % Capacity
ValueAt(position) == 1 + (position % (2 * Capacity))
Low(position) == position % Word
Sub(a, b) == (a - b) % Word

VARIABLES config,     \* which queue was built, and for which goroutines
          head,       \* head of the concurrent side
          cached,     \* cachedProducer or cachedConsumer
          cursor,     \* the owner's cursor ...
          frontier,   \* ... and released of spmcProducer, frontier of mpscConsumer
          published,  \* producerPublished, or the two halves of consumerPublished
          records,    \* releases or completion, by slot
          entries,    \* the value in each slot; 0 is the zero value
          observerCompleted, \* what Count proved, of the MPSC queue
          op,         \* the locals of the call each goroutine is in
          least       \* history: the least a call could have moved so far

shared == <<head, cached, cursor, frontier, published, observerCompleted>>
vars == <<config, shared, records, entries, op, least>>

OwnerSide == IF config.queue = "SPMC" THEN "producer" ELSE "consumer"
Movers == config.callers \ Observers
Owners == {c \in Movers : Side(c) = OwnerSide}
Claimers == Movers \ Owners

(* Locals: what was asked; a loaded head; a word loaded to be compared with   *)
(* or stored later; what was found and the count to move; a discovery.        *)
Idle == [pc |-> "idle", req |-> 0, fixed |-> FALSE, exact |-> FALSE, over |-> FALSE,
         stopAt |-> 0,
         head |-> 0, seen |-> 0, avail |-> 0, count |-> 0, before |-> << >>,
         base |-> 0, window |-> 0, end |-> 0, stride |-> 0, ahead |-> << >>]

(* The words of mpscConsumerWord; the SPMC producer publishes its cursor.     *)
mpscConsumerWord(c, f) == <<Low(c), Low(f)>>
mpscReleased(word) == word[1]
mpscFrontier(word) == word[2]
Publish(c, f) == IF config.queue = "SPMC" THEN <<c>> ELSE mpscConsumerWord(c, f)

(* A queue just built, or one whose items went through singly up to Start.    *)
Init ==
  /\ config \in Constructions
  /\ head = Start /\ cursor = Start /\ frontier = Start
  /\ cached = (IF config.queue = "SPMC" THEN Start ELSE Low(Start))
  /\ published = Publish(Start, Start)
  /\ records = [k \in Slots |->
       LET past == {p \in 0..Start - 1 : Slot(p) = k}
       IN  IF past = {} THEN 0 ELSE 1 + Max(past)]
  /\ entries = [k \in Slots |-> 0]
  /\ observerCompleted = 0
  /\ op = [c \in config.callers |-> Idle]
  /\ least = [c \in config.callers |-> 0]

-----------------------------------------------------------------------------
(* The state of the queue as no single load sees it.                          *)

Owned(c) ==
  IF op[c].pc \in {"copy", "publish"}
  THEN op[c].head..op[c].head + op[c].count - 1 ELSE {}

Unfinished(s) == UNION {Owned(c) : c \in {d \in Movers : Side(d) = s}}

(* The end of what a side has claimed, and of its finished run.               *)
Top(s) == IF s = OwnerSide THEN cursor + Cardinality(Unfinished(s)) ELSE head

Finished(s) ==
  LET unfinished == Unfinished(s)
  IN  IF unfinished = {} THEN Top(s) ELSE Min(unfinished)

(* What a side may move now.                                                  *)
Movable(s) ==
  IF s = "producer" THEN Capacity - (Top("producer") - Finished("consumer"))
                    ELSE Finished("producer") - Top("consumer")

(* The history of the calls that look for something to move: the least there  *)
(* was in the states of the call that are over.                               *)
Note ==
  LET now == [s \in Sides |-> Movable(s)]
  IN  least' = [c \in config.callers |->
        IF c \in Observers \/ op'[c].pc \in {"idle", "copy", "publish"} THEN 0
        ELSE IF op[c].pc = "idle" THEN Capacity
        ELSE Min({least[c], now[Side(c)]})]

Step(c, locals) == op' = [op EXCEPT ![c] = locals] /\ Note

-----------------------------------------------------------------------------
(* The calls.  Enqueue, Dequeue and the bulks move everything or nothing      *)
(* (fixed), a burst what it can of at most the limit.  A bulk over the limit  *)
(* asks for nothing and reports a count: one from a stale head is clamped,    *)
(* and the MPSC consumer does not store what it discovers (the SPMC producer  *)
(* does).                                                                     *)
One == [req |-> 1, fixed |-> TRUE, exact |-> FALSE, over |-> FALSE,
        stopAt |-> IF config.queue = "MPSC" THEN 1 ELSE Capacity]
Bulk(n) == [req |-> IF n > config.max THEN 0 ELSE n, fixed |-> TRUE,
            exact |-> config.exact, over |-> n > config.max, stopAt |-> Capacity]
Burst(n) == [req |-> Min({n, config.max}), fixed |-> FALSE,
             exact |-> config.exact, over |-> FALSE, stopAt |-> Capacity]

CallsOf(c) ==
  {One} \cup UNION {{Bulk(n), Burst(n)} : n \in config.lengths[Side(c)]}

Asked(call) ==
  [Idle EXCEPT !.req = call.req, !.fixed = call.fixed, !.exact = call.exact,
               !.over = call.over, !.stopAt = call.stopAt]

MayBegin(c) ==
  /\ op[c].pc = "idle"
  /\ c \in Producers => LET top == Top("producer")
                        IN  IF top < Start THEN top < AfterReset
                            ELSE top - Start < config.moved

(* What a call does once it knows what is available.                          *)
IsShort(c, avail) ==
  avail = 0 \/ op[c].req = 0 \/ (op[c].fixed /\ avail < op[c].req)

Short(c, avail) == [Asked(op[c]) EXCEPT !.pc = "short", !.avail = avail]

(* A call returns that moved nothing.                                         *)
returnShort(c) ==
  /\ op[c].pc = "short"
  /\ Step(c, Idle)
  /\ UNCHANGED <<config, shared, records, entries>>

-----------------------------------------------------------------------------
(* The concurrent side.                                                       *)

begin(c) ==
  /\ c \in Claimers /\ MayBegin(c)
  /\ \E call \in CallsOf(c) :
       Step(c, [Asked(call) EXCEPT !.pc = "cache", !.head = head])
  /\ UNCHANGED <<config, shared, records, entries>>

(* The next turn of the loop in spmcReserveConsumer, mpscReserveProducer.     *)
loadHead(c) ==
  /\ op[c].pc = "head"
  /\ Step(c, [op[c] EXCEPT !.pc = "cache", !.head = head])
  /\ UNCHANGED <<config, shared, records, entries>>

Retry(c) == [Asked(op[c]) EXCEPT !.pc = "head"]

(* spmcAttemptConsumer: when the cache will not do, and what a published      *)
(* cursor leaves to take.                                                     *)
spmcRefreshes(c, cache) == cache < op[c].head \/ cache - op[c].head < op[c].req
spmcAvailable(c, cur) == cur - op[c].head

(* Variant: a position behind the head is taken for one far ahead of it.      *)
mpscRefreshesNever(c, cache) == FALSE

(* mpscAttemptProducer: the same in unsigned 32-bit arithmetic.               *)
mpscRefreshes(c, cache) ==
  Sub(Low(op[c].head), cache) > Sub(Capacity, op[c].req)
mpscFree(c, released) == Sub(Capacity + released, Low(op[c].head))

Refreshes(c, cache) ==
  IF config.queue = "SPMC" THEN spmcRefreshes(c, cache) ELSE mpscRefreshes(c, cache)
Admits(c, word) ==
  IF config.queue = "SPMC" THEN spmcAvailable(c, word) ELSE mpscFree(c, word)

(* More than the capacity comes from a stale head: reload it, or, over the    *)
(* limit, report the capacity.  Only a call that goes on to claim stores what *)
(* it loaded in the cache.                                                    *)
Decide(c, word, cache) ==
  LET avail == Admits(c, word)
      count == Min({op[c].req, avail})
      found == [Asked(op[c]) EXCEPT !.head = op[c].head, !.avail = count,
                                    !.count = count]
  IN  IF avail \notin 0..Capacity
      THEN IF op[c].over THEN Short(c, Capacity) ELSE Retry(c)
      ELSE IF IsShort(c, avail) THEN Short(c, avail)
      ELSE IF word = cache THEN [found EXCEPT !.pc = "claim"]
      ELSE [found EXCEPT !.pc = "store", !.seen = word]

loadCached(c) ==
  /\ op[c].pc = "cache"
  /\ Step(c, IF op[c].exact \/ op[c].req = 0 \/ Refreshes(c, cached)
             THEN [op[c] EXCEPT !.pc = "published", !.seen = cached]
             ELSE Decide(c, cached, cached))
  /\ UNCHANGED <<config, shared, records, entries>>

loadPublished(c) ==
  /\ op[c].pc = "published"
  /\ Step(c, Decide(c, mpscReleased(published), op[c].seen))
  /\ UNCHANGED <<config, shared, records, entries>>

storeCached(c) ==
  /\ op[c].pc = "store"
  /\ cached' = op[c].seen
  /\ Step(c, [op[c] EXCEPT !.pc = "claim", !.seen = 0])
  /\ UNCHANGED <<config, head, cursor, frontier, published, observerCompleted,
                 records, entries>>

(* Variant: the head is stored, not compared and swapped.                     *)
claimByStore(c) ==
  /\ op[c].pc = "claim"
  /\ head' = op[c].head + op[c].count
  /\ Step(c, [Idle EXCEPT !.pc = "copy", !.head = op[c].head, !.count = op[c].count])
  /\ UNCHANGED <<config, cached, cursor, frontier, published, observerCompleted,
                 records, entries>>

(* The reservation.                                                           *)
claim(c) ==
  /\ op[c].pc = "claim"
  /\ IF head = op[c].head
     THEN /\ head' = head + op[c].count
          /\ Step(c, [Idle EXCEPT !.pc = "copy", !.head = op[c].head,
                                  !.count = op[c].count])
     ELSE UNCHANGED head /\ Step(c, Retry(c))
  /\ UNCHANGED <<config, cached, cursor, frontier, published, observerCompleted,
                 records, entries>>

(* The copy into the slots, or out of them and the clearing of them.          *)
copy(c) ==
  /\ op[c].pc = "copy"
  /\ entries' = [k \in Slots |->
       LET mine == {p \in Owned(c) : Slot(p) = k}
       IN  IF mine = {} THEN entries[k]
           ELSE IF c \in Producers THEN ValueAt(CHOOSE p \in mine : TRUE) ELSE 0]
  /\ Step(c, [Idle EXCEPT !.pc = "publish", !.head = op[c].head, !.count = op[c].count])
  /\ UNCHANGED <<config, shared, records>>

(* spmcReleaseConsumer and mpscPublishProducer.                               *)
publishRecord(c) ==
  /\ op[c].pc = "publish" /\ c \in Claimers
  /\ records' = [records EXCEPT ![Slot(op[c].head)] = op[c].head + op[c].count]
  /\ Step(c, Idle)
  /\ UNCHANGED <<config, shared, entries>>

-----------------------------------------------------------------------------
(* The owner.                                                                 *)

(* The room or the items up to a frontier.                                    *)
OwnerAvailable(f) ==
  IF config.queue = "SPMC" THEN Capacity - (cursor - f) ELSE f - cursor

(* spmcDiscoverReleases: up to the cursor.                                    *)
spmcDiscoverReleases(o) ==
  discoverRecords([o EXCEPT !.base = frontier, !.window = cursor - frontier,
                            !.end = frontier], o.stopAt)

(* mpscDiscover: a capacity from the cursor, or what one Dequeue needs.       *)
mpscDiscover(o) ==
  discoverRecords([o EXCEPT !.base = cursor, !.window = Capacity,
                            !.end = frontier], o.stopAt)

(* The batch after the refresh.  A consumer that found more but takes nothing *)
(* publishes its frontier.                                                    *)
OwnerDecide(o, f) ==
  LET avail == OwnerAvailable(f)
      count == Min({o.req, avail})
      short == avail = 0 \/ o.req = 0 \/ (o.fixed /\ avail < o.req)
  IN  IF ~short THEN [Asked(o) EXCEPT !.pc = "copy", !.head = cursor,
                                       !.avail = count, !.count = count]
      ELSE IF config.queue = "MPSC" /\ ~o.over /\ f > frontier
      THEN [Asked(o) EXCEPT !.pc = "acquire", !.avail = avail]
      ELSE [Asked(o) EXCEPT !.pc = "short", !.avail = avail]

(* spmcEnqueueBatch and mpscDequeueBatch, Enqueue and Dequeue of the owner.   *)
ownerBegin(c) ==
  /\ c \in Owners /\ MayBegin(c)
  /\ \E call \in CallsOf(c) :
       LET avail == OwnerAvailable(frontier)
           o == Asked(call)
           refreshed == IF config.queue = "SPMC" THEN spmcDiscoverReleases(o)
                                                 ELSE mpscDiscover(o)
       IN  Step(c, IF call.exact \/ call.req = 0 \/ avail < call.req \/ avail > Capacity
                   THEN IF refreshed.pc = "found" THEN OwnerDecide(o, frontier) ELSE refreshed
                   ELSE OwnerDecide(o, frontier))
  /\ UNCHANGED <<config, shared, records, entries>>

(* The loads of the discovery; the frontier is the owner's alone, and a bulk  *)
(* over the limit of the MPSC consumer does not store it.                     *)
Discover(c, o) ==
  /\ Step(c, IF o.pc = "found" THEN OwnerDecide(o, o.end) ELSE o)
  /\ frontier' = IF o.pc = "found" /\ (config.queue = "SPMC" \/ ~o.over)
                  THEN o.end ELSE frontier
  /\ UNCHANGED <<config, head, cached, cursor, published, observerCompleted,
                 records, entries>>

discoverRecord(c) ==
  /\ op[c].pc = "discover"
  /\ Discover(c, followRecord(op[c], records[Slot(op[c].end)], op[c].stopAt))

loadAhead(c) ==
  /\ op[c].pc = "ahead" /\ MoreLanes(op[c])
  /\ Discover(c, [op[c] EXCEPT !.ahead = Append(@, records[Slot(Predicted(op[c]))])])

acceptAhead(c) ==
  /\ op[c].pc = "ahead" /\ ~MoreLanes(op[c])
  /\ Discover(c, discoverRecordsAhead(op[c], op[c].stopAt))

(* The consumer's word, with more acquired and nothing released.              *)
publishFrontier(c) ==
  /\ op[c].pc = "acquire"
  /\ published' = Publish(cursor, frontier)
  /\ Step(c, [op[c] EXCEPT !.pc = "short"])
  /\ UNCHANGED <<config, head, cached, cursor, frontier, observerCompleted,
                 records, entries>>

(* The end of spmcEnqueueBatch, and mpscReleaseConsumer.                      *)
publishCursor(c) ==
  /\ op[c].pc = "publish" /\ c \in Owners
  /\ cursor' = cursor + op[c].count
  /\ published' = Publish(cursor', frontier)
  /\ Step(c, Idle)
  /\ UNCHANGED <<config, head, cached, frontier, observerCompleted, records, entries>>

-----------------------------------------------------------------------------
(* Count of the MPSC queue, by anybody.  It rebuilds the 64-bit cursor from   *)
(* the head and the consumer's word, scans the records from what the consumer *)
(* acquired or what an earlier Count proved, and retains what it proved if    *)
(* the consumer's word did not change.                                        *)

acquired(word) == Min({Sub(mpscFrontier(word), mpscReleased(word)), Capacity})

countBegin(c) ==
  /\ c \in Observers \cap config.callers /\ op[c].pc = "idle"
  /\ Step(c, [Idle EXCEPT !.pc = IF acquired(published) = Capacity
                                 THEN "validate" ELSE "countHead",
                          !.before = published, !.avail = acquired(published)])
  /\ UNCHANGED <<config, shared, records, entries>>

mpscScanCount(c) ==
  /\ op[c].pc = "countHead"
  /\ LET o == op[c]
         distance == Sub(Low(head), mpscReleased(o.before))
         limit == Min({distance, Capacity})
         base == head - distance
     IN  Step(c, IF distance > head \/ o.avail >= limit
                 THEN [o EXCEPT !.pc = "validate"]
                 ELSE [o EXCEPT !.pc = "proof", !.base = base, !.window = limit,
                                !.end = base + o.avail])
  /\ UNCHANGED <<config, shared, records, entries>>

(* The scan is over, or goes on with the next record.                         *)
Scanned(o) ==
  IF Left(o) > 0 THEN [o EXCEPT !.pc = "scan"]
  ELSE [o EXCEPT !.pc = "validate", !.avail = o.end - o.base,
                 !.base = 0, !.window = 0]

loadProof(c) ==
  /\ op[c].pc = "proof"
  /\ LET o == op[c]
         good == observerCompleted >= o.end /\ observerCompleted - o.base <= o.window
     IN  Step(c, Scanned([o EXCEPT !.seen = observerCompleted,
                            !.end = IF good THEN observerCompleted ELSE o.end]))
  /\ UNCHANGED <<config, shared, records, entries>>

scanRecord(c) ==
  /\ op[c].pc = "scan"
  /\ LET o == op[c]
         recordEnd == records[Slot(o.end)]
     IN  Step(c, IF recordEnd <= o.end \/ recordEnd - o.end > Left(o)
                 THEN Scanned([o EXCEPT !.window = o.end - o.base])
                 ELSE Scanned([o EXCEPT !.end = recordEnd]))
  /\ UNCHANGED <<config, shared, records, entries>>

(* Variant: a word that changed during the scan is not noticed.               *)
CountOfScan(o) == o.avail

(* What Count returns: if the consumer's word changed, what it says now.      *)
CountOf(o) == IF published # o.before THEN acquired(published) ELSE o.avail

mpscValidateCount(c) ==
  /\ op[c].pc = "validate"
  /\ LET o == op[c]
     IN  Step(c, IF published = o.before /\ o.end > o.seen
                 THEN [Idle EXCEPT !.pc = "retain", !.seen = o.seen, !.end = o.end]
                 ELSE Idle)
  /\ UNCHANGED <<config, shared, records, entries>>

mpscPublishProof(c) ==
  /\ op[c].pc = "retain"
  /\ observerCompleted' = IF observerCompleted = op[c].seen THEN op[c].end
                          ELSE observerCompleted
  /\ Step(c, Idle)
  /\ UNCHANGED <<config, head, cached, cursor, frontier, published, records, entries>>

-----------------------------------------------------------------------------
(* Reset, which needs the queue to itself.                                    *)
Reset ==
  /\ \A c \in config.callers : op[c].pc = "idle"
  /\ head' = 0 /\ cached' = 0 /\ cursor' = 0 /\ frontier' = 0
  /\ published' = Publish(0, 0)
  /\ records' = [k \in Slots |-> 0] /\ entries' = [k \in Slots |-> 0]
  /\ observerCompleted' = 0
  /\ UNCHANGED <<config, op, least>>

Next ==
  \/ \E c \in Movers :
       \/ begin(c) \/ loadHead(c) \/ loadCached(c) \/ loadPublished(c)
       \/ storeCached(c) \/ claim(c) \/ copy(c) \/ publishRecord(c)
       \/ ownerBegin(c) \/ discoverRecord(c) \/ loadAhead(c) \/ acceptAhead(c)
       \/ publishFrontier(c) \/ publishCursor(c) \/ returnShort(c)
  \/ \E c \in Observers \cap config.callers :
       \/ countBegin(c) \/ mpscScanCount(c) \/ loadProof(c) \/ scanRecord(c)
       \/ mpscValidateCount(c) \/ mpscPublishProof(c)
  \/ Reset

Spec == Init /\ [][Next]_vars

-----------------------------------------------------------------------------
(* A1 and A4 of workq/wakeup.md: a call that moves fewer than it was asked    *)
(* to, or only counts, saw all there was at some moment of the call: the      *)
(* caches cost nothing (spmcAttemptConsumer, mpscAttemptProducer), and the    *)
(* owner's discovery stops only at a hole (discoverRecords).                  *)
ShortfallIsFresh ==
  [][\A c \in Movers :
       (/\ op[c].pc \in {"cache", "published", "discover", "ahead"}
        /\ op'[c].pc \in {"short", "acquire", "store", "claim", "copy"}
        /\ op'[c].req = 0 \/ op'[c].avail < op'[c].req)
       => Min({least[c], Movable(Side(c))}) <= op'[c].avail]_vars

(* Count of the MPSC queue reports only items that are completed and not      *)
(* released, and retains no proof past a reservation in progress, although it *)
(* combines words of different moments and widths (mpscScanCount,             *)
(* mpscValidateCount, mpscPublishProof).                                      *)
CountSound ==
  [][/\ observerCompleted' <= Finished("producer")
     /\ \A c \in Observers \cap config.callers :
          op[c].pc = "validate" /\ op'[c].pc # "validate"
            => CountOf(op[c]) <= Finished("producer") - cursor]_vars

(* The queue as an Engine: the positions from the first one not yet reusable  *)
(* to the newest one claimed, as in FrontierMPMC.                             *)
Cell(p, taken) ==
  LET holder == {c \in Movers : p \in Owned(c)}
      c == CHOOSE d \in holder : TRUE
      st == IF holder = {} THEN IF p < taken THEN "free" ELSE "ready"
            ELSE IF c \in Producers THEN "writing" ELSE "reading"
      held == st = "ready" \/ (st = "reading" /\ op[c].pc = "copy")
  IN  [st |-> st, by |-> IF holder = {} THEN "nobody" ELSE c,
       item |-> IF held THEN entries[Slot(p)] ELSE ValueAt(p)]

Cells ==
  LET first == Finished("consumer")
      taken == Top("consumer")
  IN  [k \in 1..Top("producer") - first |-> Cell(first + k - 1, taken)]

engine == INSTANCE Engine WITH ring <- Cells, Items <- 1..2 * Capacity

(* Both queues are the bounded FIFO that workq relies on: items leave in the  *)
(* order of their reservations, as they were put in, each claimed by one      *)
(* consumer, and a slot is reused only when it was released.                  *)
ImplementsEngine == engine!Spec
=============================================================================
