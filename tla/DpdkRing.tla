------------------------------ MODULE DpdkRing ------------------------------
(* The four rings of ring/dpdk: SPSCQueue, MPSCQueue, SPMCQueue, MPMCQueue.   *)
(*                                                                            *)
(* A side claims positions by advancing its head, copies, and publishes a     *)
(* tail that the other side reads.  A side is single (one caller at a time,   *)
(* with private cursor and cache), multi (claims by compare-and-swap,         *)
(* publishes in the order of the claims), or relaxed (DPDK's RTS: head and    *)
(* tail also count operations, the tail moves when all claims have finished,  *)
(* and the other side reads a mirror of it).                                  *)
(*                                                                            *)
(* Positions and counters are unsigned words: all arithmetic on them is       *)
(* modulo Word (2^32 in the code), and a run starts just below the wrap.      *)
(* Every atomic load, store and compare-and-swap is a step.                   *)
EXTENDS Integers, Sequences, SequencesExt, FiniteSetsExt

CONSTANTS Producers, Consumers,
          Capacity,       \* the count given to the constructor
          Word,           \* 2^32 in the code
          Constructions,  \* the queues built: [queue, options, callers]
          EnqueueLengths, DequeueLengths, \* lengths of the slices given to calls
          Start,          \* the position all four words start at
          MaxMoved        \* bound: no enqueue starts this far past Start

ASSUME RingAssumption ==
  /\ Producers \cap Consumers = {}
  /\ {Capacity, Word, MaxMoved} \subseteq Nat \ {0}
  /\ Word % Capacity = 0 /\ Word % 2 = 0
  /\ Start \in 0..Word - 1
  /\ EnqueueLengths \cup DequeueLengths \subseteq Nat
  \* No observation spans a whole cycle of positions (the contract of mpmc.go).
  /\ MaxMoved + Capacity * (1 + Cardinality(Producers)) < Word

Callers == Producers \cup Consumers
Sides == {"producer", "consumer"}
Side(c) == IF c \in Producers THEN "producer" ELSE "consumer"
Other(c) == IF c \in Producers THEN "consumer" ELSE "producer"

Add(a, b) == (a + b) % Word
Sub(a, b) == (a - b) % Word

-----------------------------------------------------------------------------
(* Construction: options.go and the four constructors.                        *)

SPSCQueue == [producer |-> "single", consumer |-> "single"]
MPSCQueue == [producer |-> "multi", consumer |-> "single"]
SPMCQueue == [producer |-> "single", consumer |-> "multi"]
MPMCQueue == [producer |-> "multi", consumer |-> "multi"]

Unset == -1

defaultConfig(queue, count) ==
  [mode |-> queue, maxBatch |-> [s \in Sides |-> count],
   keepDequeued |-> FALSE, exactBatchCounts |-> FALSE,
   spinsBeforeYield |-> Unset, distance |-> [s \in Sides |-> Unset]]

(* The options, each a change of the configuration.                           *)
WithRelaxedMultiProdEnqueue(cfg) == [cfg EXCEPT !.mode["producer"] = "relaxed"]
WithRelaxedMultiConsDequeue(cfg) == [cfg EXCEPT !.mode["consumer"] = "relaxed"]
WithMaxEnqueueBatch(cfg, n) == [cfg EXCEPT !.maxBatch["producer"] = n]
WithMaxDequeueBatch(cfg, n) == [cfg EXCEPT !.maxBatch["consumer"] = n]
WithoutDequeueClearing(cfg) == [cfg EXCEPT !.keepDequeued = TRUE]
WithExactBatchCounts(cfg) == [cfg EXCEPT !.exactBatchCounts = TRUE]
WithSpinsBeforeYield(cfg, n) == [cfg EXCEPT !.spinsBeforeYield = n]
WithMaxProducerHeadTailDistance(cfg, n) == [cfg EXCEPT !.distance["producer"] = n]
WithMaxConsumerHeadTailDistance(cfg, n) == [cfg EXCEPT !.distance["consumer"] = n]

option(cfg, o) ==
  CASE o.name = "relaxProducers" -> WithRelaxedMultiProdEnqueue(cfg)
    [] o.name = "relaxConsumers" -> WithRelaxedMultiConsDequeue(cfg)
    [] o.name = "maxEnqueue" -> WithMaxEnqueueBatch(cfg, o.n)
    [] o.name = "maxDequeue" -> WithMaxDequeueBatch(cfg, o.n)
    [] o.name = "maxBatch" -> WithMaxDequeueBatch(WithMaxEnqueueBatch(cfg, o.n), o.n)
    [] o.name = "keep" -> WithoutDequeueClearing(cfg)
    [] o.name = "exact" -> WithExactBatchCounts(cfg)
    [] o.name = "spins" -> WithSpinsBeforeYield(cfg, o.n)
    [] o.name = "producerDistance" -> WithMaxProducerHeadTailDistance(cfg, o.n)
    [] o.name = "consumerDistance" -> WithMaxConsumerHeadTailDistance(cfg, o.n)

checkTopologyMode(mode, initial) ==
  IF (mode = "single") = (initial = "single") THEN {} ELSE {"ErrUnsupportedOption"}

(* An explicit distance must be a uint32 and the side relaxed.                *)
checkHeadTailDistance(n, explicit, mode, serialized) ==
  IF ~explicit THEN {}
  ELSE IF n \notin 0..Word - 1 THEN {"ErrInvalidMaxHeadTailDistance"}
  ELSE IF serialized THEN {"ErrUnsupportedOption"}
  ELSE IF mode # "relaxed" THEN {"ErrHeadTailDistanceRequiresRelaxed"} ELSE {}

(* The configuration, and the first error in the order of the checks.         *)
resolveConfig(queue, count, options) ==
  LET cfg == FoldLeft(option, defaultConfig(queue, count), options)
      given(name) == \E i \in DOMAIN options : options[i].name = name
      checkMaxBatch(n) == IF n \in 1..count THEN {} ELSE {"ErrInvalidMaxBatch"}
      checks ==
        <<IF \E k \in 0..30 : count = 2^k THEN {} ELSE {"ErrInvalidCount"},
          checkMaxBatch(cfg.maxBatch["producer"]),
          checkMaxBatch(cfg.maxBatch["consumer"]),
          IF given("spins") /\ cfg.spinsBeforeYield \notin 0..Word \div 2 - 1
          THEN {"ErrInvalidSpinsBeforeYield"} ELSE {},
          checkTopologyMode(cfg.mode["producer"], queue.producer),
          checkTopologyMode(cfg.mode["consumer"], queue.consumer),
          IF queue = SPSCQueue /\ given("spins") THEN {"ErrUnsupportedOption"} ELSE {},
          checkHeadTailDistance(cfg.distance["producer"], given("producerDistance"),
                                cfg.mode["producer"], queue.producer = "single"),
          checkHeadTailDistance(cfg.distance["consumer"], given("consumerDistance"),
                                cfg.mode["consumer"], queue.consumer = "single")>>
      failed == {i \in DOMAIN checks : checks[i] # {}}
  IN  [cfg |-> cfg, err |-> IF failed = {} THEN {} ELSE checks[Min(failed)]]

resolveHeadTailDistance(cfg, s) ==
  IF cfg.mode[s] # "relaxed" THEN 0
  ELSE IF cfg.distance[s] = Unset THEN Capacity \div 8 ELSE cfg.distance[s]

-----------------------------------------------------------------------------
VARIABLES cfg,        \* the resolved configuration
          callers,    \* the goroutines that use the queue
          head,       \* head or headRTS of each side; the cursor of a single one
          tail,       \* tailRTS of each side, moved on relaxed sides only
          published,  \* what the other side reads: the tail, or its mirror
          cached,     \* cachedConsumer of the producers, cachedProducer
          entries,    \* the value in each slot; 0 is the zero value
          op          \* the locals of the call each goroutine is in

words == <<head, tail, published, cached>>
vars == <<cfg, callers, words, entries, op>>

Slots == 0..Capacity - 1
Slot(position) == position % Capacity
ValueAt(position) == 1 + (position % (2 * Capacity))
Mode(c) == cfg.mode[Side(c)]

(* Locals: what was asked; the loaded head word; a word loaded to be compared *)
(* or stored later; the count to claim.                                       *)
Zero == [pos |-> 0, cnt |-> 0]
Idle == [pc |-> "idle", req |-> 0, fixed |-> FALSE, exact |-> FALSE,
         word |-> Zero, seen |-> Zero, next |-> Zero, count |-> 0]

(* A queue just built, or used and drained up to Start.  Its counters are one *)
(* operation short of the wrap.                                               *)
Init ==
  /\ \E new \in Constructions :
       LET r == resolveConfig(new.queue, Capacity, new.options)
       IN  r.err = {} /\ cfg = r.cfg /\ callers = new.callers
  /\ LET word == [pos |-> Start, cnt |-> IF Start = 0 THEN 0 ELSE Word - 1]
         here == [s \in Sides |-> IF cfg.mode[s] = "relaxed" THEN word
                                  ELSE [Zero EXCEPT !.pos = Start]]
     IN  head = here /\ tail = here
  /\ published = [s \in Sides |-> Start]
  /\ cached = [s \in Sides |-> Start]
  /\ entries = [k \in Slots |-> 0]
  /\ op = [c \in Callers |-> Idle]

Step(c, locals) == op' = [op EXCEPT ![c] = locals]

-----------------------------------------------------------------------------
(* The calls.  Enqueue and EnqueueBulk move everything or nothing (fixed), a  *)
(* burst what it can of at most maxBatch.  Bulks and bursts follow            *)
(* WithExactBatchCounts.  A bulk over a limit is refused and changes nothing. *)
Enqueue == [req |-> 1, fixed |-> TRUE, exact |-> FALSE]
EnqueueBulk(n) == [req |-> n, fixed |-> TRUE, exact |-> cfg.exactBatchCounts]
EnqueueBurst(n) == [req |-> Min({n, cfg.maxBatch["producer"]}), fixed |-> FALSE,
                    exact |-> cfg.exactBatchCounts]
Dequeue == [req |-> 1, fixed |-> TRUE, exact |-> FALSE]
DequeueBulk(n) == [req |-> n, fixed |-> TRUE, exact |-> cfg.exactBatchCounts]
DequeueBurst(n) == [req |-> Min({n, cfg.maxBatch["consumer"]}), fixed |-> FALSE,
                    exact |-> cfg.exactBatchCounts]

producerCalls ==
  {Enqueue} \cup UNION {{EnqueueBulk(n), EnqueueBurst(n)} : n \in EnqueueLengths}
consumerCalls ==
  {Dequeue} \cup UNION {{DequeueBulk(n), DequeueBurst(n)} : n \in DequeueLengths}
CallsOf(c) == IF c \in Producers THEN producerCalls ELSE consumerCalls

batchLengthError(c, call) ==
  call.req > Capacity \/ call.req > cfg.maxBatch[Side(c)]

(* One caller at a time uses a single side.                                   *)
Owns(c) == Mode(c) = "single" =>
             \A d \in callers : Side(d) = Side(c) => op[d].pc = "idle"

(* The first load of an attempt: a single side has its cursor, a multi side   *)
(* loads its head, a relaxed one its tail, to check the distance.             *)
Attempt(c, call) ==
  LET asked == [Idle EXCEPT !.req = call.req, !.fixed = call.fixed, !.exact = call.exact]
  IN  CASE Mode(c) = "single" -> [asked EXCEPT !.pc = "cache"]
        [] Mode(c) = "multi" -> [asked EXCEPT !.pc = "cache", !.word = head[Side(c)]]
        [] Mode(c) = "relaxed" -> [asked EXCEPT !.pc = "within", !.seen = tail[Side(c)]]

begin(c) ==
  /\ op[c].pc = "idle" /\ Owns(c)
  /\ c \in Producers => Sub(head["producer"].pos, Start) < MaxMoved
  /\ \E call \in CallsOf(c) : ~batchLengthError(c, call) /\ Step(c, Attempt(c, call))
  /\ UNCHANGED <<cfg, callers, words, entries>>

(* The next turn of the loop around an attempt.                               *)
attemptAgain(c) ==
  /\ op[c].pc = "again"
  /\ Step(c, Attempt(c, op[c]))
  /\ UNCHANGED <<cfg, callers, words, entries>>

Retry(c) ==
  [Idle EXCEPT !.pc = "again", !.req = op[c].req, !.fixed = op[c].fixed,
               !.exact = op[c].exact]

(* Variant: the distance itself is already too far.                           *)
headCloserThanDistance(headWord, tailWord, s) ==
  Sub(headWord.pos, tailWord.pos) < resolveHeadTailDistance(cfg, s)

headWithinDistance(headWord, tailWord, s) ==
  Sub(headWord.pos, tailWord.pos) <= resolveHeadTailDistance(cfg, s)

(* waitHeadTailDistance: the head, at most the distance past the tail that    *)
(* was loaded before it.                                                      *)
waitHeadTailDistance(c) ==
  /\ op[c].pc = "within"
  /\ LET word == head[Side(c)]
     IN  Step(c, IF headWithinDistance(word, op[c].seen, Side(c))
                 THEN [op[c] EXCEPT !.pc = "cache", !.word = word, !.seen = Zero]
                 ELSE Retry(c))
  /\ UNCHANGED <<cfg, callers, words, entries>>

(* The room, or the items, after the head of the call for a tail of the other *)
(* side.  A single side has its cursor for a head.                            *)
Position(c) == IF Mode(c) = "single" THEN head[Side(c)].pos ELSE op[c].word.pos

Admits(c, tailPos) ==
  IF c \in Producers THEN Sub(Add(Capacity, tailPos), Position(c))
                     ELSE Sub(tailPos, Position(c))

(* What a call does once it knows what is available: claim, or return with a  *)
(* count.  More than the capacity comes from a stale head.                    *)
Decide(c, avail) ==
  LET count == Min({op[c].req, avail})
      stale == avail > Capacity
      short == stale \/ count = 0 \/ (op[c].fixed /\ avail < op[c].req)
  IN  IF stale /\ op[c].req # 0 /\ Mode(c) # "single" THEN Retry(c)
      ELSE IF short THEN Idle
      ELSE IF Mode(c) = "single"
      THEN [Idle EXCEPT !.pc = "copy", !.word = head[Side(c)], !.count = count]
      ELSE [op[c] EXCEPT !.pc = "claim", !.seen = Zero, !.count = count]

(* When the cached tail of the other side will not do: on a single side, ...  *)
refreshSingle(c, tailPos) ==
  Admits(c, tailPos) < op[c].req \/ Admits(c, tailPos) > Capacity

(* ... for concurrent producers ...                                           *)
refreshProducer(c, tailPos) ==
  Sub(op[c].word.pos, tailPos) > Sub(Capacity, op[c].req)

(* Variant: the request is left out of the comparison.                        *)
refreshConsumerAny(c, tailPos) == Sub(tailPos, op[c].word.pos) > Capacity

(* ... and for concurrent consumers.                                          *)
refreshConsumer(c, tailPos) ==
  Sub(Sub(tailPos, op[c].word.pos), op[c].req) > Sub(Capacity, op[c].req)

refresh(c, tailPos) ==
  IF Mode(c) = "single" THEN refreshSingle(c, tailPos)
  ELSE IF c \in Producers THEN refreshProducer(c, tailPos)
  ELSE refreshConsumer(c, tailPos)

loadCached(c) ==
  /\ op[c].pc = "cache"
  /\ LET seen == cached[Side(c)]
     IN  Step(c, IF op[c].exact \/ op[c].req = 0 \/ refresh(c, seen)
                 THEN [op[c] EXCEPT !.pc = "published", !.seen.pos = seen]
                 ELSE Decide(c, Admits(c, seen)))
  /\ UNCHANGED <<cfg, callers, words, entries>>

(* The tail of the other side.  A concurrent side stores it in its cache in a *)
(* step of its own, if it is not what the cache held.                         *)
loadPublished(c) ==
  /\ op[c].pc = "published"
  /\ LET fresh == published[Other(c)]
     IN  IF Mode(c) = "single"
         THEN /\ cached' = [cached EXCEPT ![Side(c)] = fresh]
              /\ Step(c, Decide(c, Admits(c, fresh)))
         ELSE /\ Step(c, IF fresh = op[c].seen.pos THEN Decide(c, Admits(c, fresh))
                         ELSE [op[c] EXCEPT !.pc = "store", !.seen.pos = fresh])
              /\ UNCHANGED cached
  /\ UNCHANGED <<cfg, callers, head, tail, published, entries>>

storeCached(c) ==
  /\ op[c].pc = "store"
  /\ cached' = [cached EXCEPT ![Side(c)] = op[c].seen.pos]
  /\ Step(c, Decide(c, Admits(c, op[c].seen.pos)))
  /\ UNCHANGED <<cfg, callers, head, tail, published, entries>>

(* Variant: the head is stored, not compared and swapped.                     *)
claimByStore(c) ==
  /\ op[c].pc = "claim"
  /\ head' = [head EXCEPT ![Side(c)] =
                [pos |-> Add(op[c].word.pos, op[c].count),
                 cnt |-> IF Mode(c) = "relaxed" THEN Add(op[c].word.cnt, 1) ELSE 0]]
  /\ Step(c, [Idle EXCEPT !.pc = "copy", !.word = op[c].word, !.count = op[c].count])
  /\ UNCHANGED <<cfg, callers, tail, published, cached, entries>>

(* The reservation of a concurrent side: the whole word is compared.          *)
claim(c) ==
  /\ op[c].pc = "claim"
  /\ LET s == Side(c)
         next == [pos |-> Add(op[c].word.pos, op[c].count),
                  cnt |-> IF Mode(c) = "relaxed" THEN Add(op[c].word.cnt, 1) ELSE 0]
     IN  IF head[s] = op[c].word
         THEN /\ head' = [head EXCEPT ![s] = next]
              /\ Step(c, [Idle EXCEPT !.pc = "copy", !.word = op[c].word,
                                       !.count = op[c].count])
         ELSE Step(c, Retry(c)) /\ UNCHANGED head
  /\ UNCHANGED <<cfg, callers, tail, published, cached, entries>>

(* The positions a call has claimed and not yet finished with.                *)
Owned(c) ==
  IF op[c].pc \in {"copy", "publish", "count", "countHead", "countSwap"}
  THEN {Add(op[c].word.pos, k) : k \in 0..op[c].count - 1} ELSE {}

(* The copy into the slots, or out of them and the clearing of them.          *)
copy(c) ==
  /\ op[c].pc = "copy"
  /\ entries' = [k \in Slots |->
       LET mine == {p \in Owned(c) : Slot(p) = k}
       IN  IF mine = {} \/ (c \in Consumers /\ cfg.keepDequeued) THEN entries[k]
           ELSE IF c \in Producers THEN ValueAt(CHOOSE p \in mine : TRUE) ELSE 0]
  /\ Step(c, [op[c] EXCEPT !.pc = IF Mode(c) = "relaxed" THEN "count" ELSE "publish"])
  /\ UNCHANGED <<cfg, callers, words>>

(* A single side advances its cursor and publishes it.                        *)
publishSingle(c) ==
  /\ op[c].pc = "publish" /\ Mode(c) = "single"
  /\ LET s == Side(c)
         cursor == Add(head[s].pos, op[c].count)
     IN  head' = [head EXCEPT ![s].pos = cursor] /\ published' = [published EXCEPT ![s] = cursor]
  /\ Step(c, Idle)
  /\ UNCHANGED <<cfg, callers, tail, cached, entries>>

(* waitForTail and the store after it.  Only the caller whose claim starts at *)
(* the tail may move it, so nothing can come between the two.                 *)
publishOrdered(c) ==
  /\ op[c].pc = "publish" /\ Mode(c) = "multi"
  /\ published[Side(c)] = op[c].word.pos
  /\ published' = [published EXCEPT ![Side(c)] = Add(op[c].word.pos, op[c].count)]
  /\ Step(c, Idle)
  /\ UNCHANGED <<cfg, callers, head, tail, cached, entries>>

(* Variant: the position follows the head although claims are unfinished.     *)
nextTailAlways(tailWord, headWord) ==
  [pos |-> headWord.pos, cnt |-> Add(tailWord.cnt, 1)]

(* The position follows the head once every claim has finished.               *)
nextTail(tailWord, headWord) ==
  LET cnt == Add(tailWord.cnt, 1)
  IN  [pos |-> IF cnt = headWord.cnt THEN headWord.pos ELSE tailWord.pos, cnt |-> cnt]

(* Variant: the head is loaded before the tail.                               *)
loadHeadThenTail(c) ==
  /\ \/ /\ op[c].pc = "count"
        /\ Step(c, [op[c] EXCEPT !.pc = "countHead", !.next = head[Side(c)]])
     \/ /\ op[c].pc = "countHead"
        /\ Step(c, [op[c] EXCEPT !.pc = "countSwap", !.seen = tail[Side(c)],
                                 !.next = nextTail(tail[Side(c)], op[c].next)])
  /\ UNCHANGED <<cfg, callers, words, entries>>

(* publishRelaxed: the tail, then in another step the head, ...               *)
loadTailThenHead(c) ==
  /\ \/ /\ op[c].pc = "count"
        /\ Step(c, [op[c] EXCEPT !.pc = "countHead", !.seen = tail[Side(c)]])
     \/ /\ op[c].pc = "countHead"
        /\ Step(c, [op[c] EXCEPT !.pc = "countSwap",
                                 !.next = nextTail(op[c].seen, head[Side(c)])])
  /\ UNCHANGED <<cfg, callers, words, entries>>

(* ... then the swap.                                                         *)
publishRelaxed(c) ==
  /\ op[c].pc = "countSwap"
  /\ LET s == Side(c)
         moved == op[c].next.pos # op[c].seen.pos
     IN  IF tail[s] = op[c].seen
         THEN /\ tail' = [tail EXCEPT ![s] = op[c].next]
              /\ Step(c, [Idle EXCEPT !.pc = IF moved THEN "mirror" ELSE "idle"])
         ELSE /\ Step(c, [op[c] EXCEPT !.pc = "count", !.seen = Zero, !.next = Zero])
              /\ UNCHANGED tail
  /\ UNCHANGED <<cfg, callers, head, published, cached, entries>>

(* raiseMirror: the mirror, then the tail as it is now, then the swap.        *)
loadMirror(c) ==
  /\ op[c].pc = "mirror"
  /\ Step(c, [Idle EXCEPT !.pc = "mirrorTail", !.seen.pos = published[Side(c)]])
  /\ UNCHANGED <<cfg, callers, words, entries>>

(* The difference as a signed word.                                           *)
AtMostZero(diff) == diff = 0 \/ diff >= Word \div 2

loadMirrorTail(c) ==
  /\ op[c].pc = "mirrorTail"
  /\ LET tailPos == tail[Side(c)].pos
     IN  Step(c, IF AtMostZero(Sub(tailPos, op[c].seen.pos)) THEN Idle
                 ELSE [op[c] EXCEPT !.pc = "mirrorSwap", !.next.pos = tailPos])
  /\ UNCHANGED <<cfg, callers, words, entries>>

(* Variant: the mirror is stored, not compared and swapped.                   *)
raiseMirrorByStore(c) ==
  /\ op[c].pc = "mirrorSwap"
  /\ published' = [published EXCEPT ![Side(c)] = op[c].next.pos]
  /\ Step(c, Idle)
  /\ UNCHANGED <<cfg, callers, head, tail, cached, entries>>

(* Variant: a raiser that loses the swap gives up.                            *)
raiseMirrorOnce(c) ==
  /\ op[c].pc = "mirrorSwap"
  /\ LET s == Side(c)
     IN  published' = IF published[s] # op[c].seen.pos THEN published
                      ELSE [published EXCEPT ![s] = op[c].next.pos]
  /\ Step(c, Idle)
  /\ UNCHANGED <<cfg, callers, head, tail, cached, entries>>

raiseMirror(c) ==
  /\ op[c].pc = "mirrorSwap"
  /\ LET s == Side(c)
     IN  IF published[s] = op[c].seen.pos
         THEN /\ published' = [published EXCEPT ![s] = op[c].next.pos]
              /\ Step(c, Idle)
         ELSE Step(c, [Idle EXCEPT !.pc = "mirror"]) /\ UNCHANGED published
  /\ UNCHANGED <<cfg, callers, head, tail, cached, entries>>

(* Reset, which needs the queue to itself.                                    *)
Reset ==
  /\ \A c \in callers : op[c].pc = "idle"
  /\ head' = [s \in Sides |-> Zero] /\ tail' = [s \in Sides |-> Zero]
  /\ published' = [s \in Sides |-> 0] /\ cached' = [s \in Sides |-> 0]
  /\ entries' = [k \in Slots |-> 0]
  /\ UNCHANGED <<cfg, callers, op>>

(* A step of the call a goroutine is in.                                      *)
proceed(c) ==
  \/ attemptAgain(c) \/ waitHeadTailDistance(c)
  \/ loadCached(c) \/ loadPublished(c) \/ storeCached(c) \/ claim(c)
  \/ copy(c) \/ publishSingle(c) \/ publishOrdered(c)
  \/ loadTailThenHead(c) \/ publishRelaxed(c)
  \/ loadMirror(c) \/ loadMirrorTail(c) \/ raiseMirror(c)

Next ==
  \/ \E c \in callers : begin(c)
  \/ \E c \in callers : proceed(c)
  \/ Reset

Spec == Init /\ [][Next]_vars

-----------------------------------------------------------------------------
(* The state of a queue as no single load sees it.                            *)

Unfinished(s) == UNION {Owned(c) : c \in {d \in callers : Side(d) = s}}

(* The end of what a side has claimed.                                        *)
Top(s) ==
  IF cfg.mode[s] # "single" THEN head[s].pos
  ELSE Add(head[s].pos, Cardinality(Unfinished(s)))

(* The end of the finished run of a side.                                     *)
Finished(s) ==
  LET top == Top(s)
      behind == {Sub(top, p) : p \in Unfinished(s)}
  IN  IF behind = {} THEN top ELSE Sub(top, Max(behind))

(* What a side may claim now.                                                 *)
Claimable(s) ==
  IF s = "producer" THEN Sub(Add(Capacity, published["consumer"]), head[s].pos)
                    ELSE Sub(published["producer"], head[s].pos)

(* What the other side reads never passes an interval that is claimed and not *)
(* finished (publishOrdered and publishRelaxed: the wait for the earlier      *)
(* callers; the tail loaded before the head, without which three relaxed      *)
(* callers can move it over the first of them), never runs backwards past     *)
(* what the other side has claimed (raiseMirror), and stays within a lap, so  *)
(* that no unsigned difference of current words wraps.                        *)
TailsSound ==
  /\ \A s \in Sides :
       Sub(Finished(s), published[s]) <= Sub(Top(s), published[s])
  /\ \A s \in Sides : Sub(Top(s), published[s]) <= Capacity
  /\ Claimable("producer") <= Capacity /\ Claimable("consumer") <= Capacity

(* Whatever order its callers finished in, a side that none of them uses has  *)
(* published all it claimed: no raiser of the mirror stops short, and none    *)
(* undoes the work of another (publishRelaxed, raiseMirror).                  *)
QuiescentVisible ==
  \A s \in Sides :
    (\A c \in callers : Side(c) = s => op[c].pc = "idle")
      => published[s] = head[s].pos

(* A caller that waits for the earlier ones of its side (waitForTail) or for  *)
(* the distance (waitHeadTailDistance).                                       *)
Waits(c) ==
  \/ /\ op[c].pc = "publish" /\ Mode(c) = "multi"
     /\ published[Side(c)] # op[c].word.pos
  \/ /\ op[c].pc \in {"again", "within"} /\ Mode(c) = "relaxed"
     /\ ~headWithinDistance(head[Side(c)], tail[Side(c)], Side(c))

(* Nobody waits for nobody: whoever waits, some caller of the same side holds *)
(* a claim and does not wait, so that only a goroutine that is not scheduled  *)
(* holds a side up.                                                           *)
WaitsEnd ==
  \A c \in callers : Waits(c) =>
    \E d \in callers : Side(d) = Side(c) /\ Owned(d) # {} /\ ~Waits(d)

(* "A call never fails or moves fewer elements because of the cache"          *)
(* (WithExactBatchCounts): a call that decides on the cached tail claims all  *)
(* it was asked to, however the unsigned comparison comes out.                *)
CacheCostsNothing ==
  [][\A c \in callers :
       op[c].pc = "cache" /\ op'[c].pc \notin {"cache", "published", "again"}
         => op[c].req > 0 /\ op'[c].count = op[c].req]_vars

(* The queue as an Engine: the positions from the first one not yet reusable  *)
(* to the newest one claimed, as in FrontierMPMC.                             *)
Cell(p, read) ==
  LET holder == {c \in callers : p \in Owned(c)}
      c == CHOOSE d \in holder : TRUE
      st == IF holder = {}
            THEN IF Sub(read, p) \in 1..Capacity THEN "free" ELSE "ready"
            ELSE IF c \in Producers THEN "writing" ELSE "reading"
      held == st = "ready" \/ (st = "reading" /\ op[c].pc = "copy")
  IN  [st |-> st, by |-> IF holder = {} THEN "nobody" ELSE c,
       item |-> IF held THEN entries[Slot(p)] ELSE ValueAt(p)]

Cells ==
  LET first == Finished("consumer")
      read == Top("consumer")
  IN  [k \in 1..Sub(Top("producer"), first) |-> Cell(Add(first, k - 1), read)]

engine == INSTANCE Engine WITH ring <- Cells, Items <- 1..2 * Capacity

(* Every queue, on any pair of sides, is the bounded FIFO of Engine: items    *)
(* leave in the order of their reservations, as they were put in, each        *)
(* claimed by one consumer, and a slot is reused only when it was released.   *)
ImplementsEngine == engine!Spec

=============================================================================
