---------------------------- MODULE FrontierMPMC ----------------------------
(* The multi-producer multi-consumer ring of ring/frontier (mpmc.go).         *)
(*                                                                            *)
(* Each side claims an interval of positions by a compare-and-swap on its     *)
(* head, copies, and records the interval's end in its own record array at    *)
(* the interval's start.  A frontier follows the records of a side: completed *)
(* those of the producers, released those of the consumers.  Producers claim  *)
(* up to released plus the capacity, consumers up to completed.               *)
(*                                                                            *)
(* The code writes the two sides out; they differ only in Admits below, so    *)
(* here every variable is indexed by the side it belongs to.  Every atomic    *)
(* load, store and compare-and-swap is a step; a copy is one step, and        *)
(* SlotsExclusive says nobody else touches the slots meanwhile.               *)
EXTENDS Records, FiniteSetsExt

CONSTANTS Producers, Consumers,
          Capacity, MaxBatch,
          EnqueueCalls, DequeueCalls, \* the calls made, see CallsOf
          MaxPosition  \* bound: no enqueue starts at or past it

ASSUME RingAssumption ==
  /\ Producers \cap Consumers = {} /\ IsFiniteSet(Producers)
  /\ {Capacity, MaxBatch, recordLookahead, recordLookaheadMinStride}
       \subseteq Nat \ {0}
  /\ MaxBatch <= Capacity
  /\ EnqueueCalls \cup DequeueCalls
       \subseteq [req : 0..MaxBatch, fixed : BOOLEAN, exact : BOOLEAN]
  /\ MaxPosition \in Nat

VARIABLES head,      \* producerHead and consumerHead
          frontier,  \* completed and released
          records,   \* completions and releases, by slot
          entries,   \* the value in each slot; 0 is the zero value
          op,        \* the locals of the call each goroutine is in
          least      \* history: the least a call could have claimed so far

vars == <<head, frontier, records, entries, op, least>>

Callers == Producers \cup Consumers

Sides == {"producer", "consumer"}

Side(c) == IF c \in Producers THEN "producer" ELSE "consumer"

Other(c) == IF c \in Producers THEN "consumer" ELSE "producer"

Slots == 0..Capacity - 1

Slot(position) == position % Capacity

(* The value enqueued at a position.                                          *)
ValueAt(position) == position + 1

(* Locals: what was asked; the loaded head; what was found available and the  *)
(* count to claim; and the discovery in progress.                             *)
Idle == [pc |-> "idle", req |-> 0, fixed |-> FALSE, exact |-> FALSE,
         head |-> 0, avail |-> 0, count |-> 0,
         base |-> 0, window |-> 0, end |-> 0, stride |-> 0, ahead |-> << >>]

Init ==
  /\ head = [s \in Sides |-> 0]
  /\ frontier = [s \in Sides |-> 0]
  /\ records = [s \in Sides |-> [k \in Slots |-> 0]]
  /\ entries = [k \in Slots |-> 0]
  /\ op = [c \in Callers |-> Idle]
  /\ least = [c \in Callers |-> 0]

-----------------------------------------------------------------------------
(* The state of the ring as no single load sees it.                           *)

Owned(c) ==
  IF op[c].pc \in {"copy", "publish"}
  THEN op[c].head..op[c].head + op[c].count - 1 ELSE {}

(* Positions claimed on a side and not yet recorded.                          *)
Unfinished(s) == UNION {Owned(c) : c \in {d \in Callers : Side(d) = s}}

(* The end of the finished run of a side.                                     *)
Finished(s) ==
  LET unfinished == Unfinished(s)
  IN  IF unfinished = {} THEN head[s] ELSE Min(unfinished)

(* What a side may claim now.                                                 *)
Claimable(s) ==
  IF s = "producer" THEN Capacity - (head["producer"] - Finished("consumer"))
                    ELSE Finished("producer") - head["consumer"]

(* The history of the calls that look for something to claim.                 *)
Note ==
  least' = [c \in Callers |->
    IF op'[c].pc \in {"idle", "copy", "publish"} THEN 0
    ELSE IF op[c].pc = "idle" THEN Claimable(Side(c))'
    ELSE Min({least[c], Claimable(Side(c))'})]

Step(c, locals) == op' = [op EXCEPT ![c] = locals]

-----------------------------------------------------------------------------
(* A call asks for req items.  Enqueue and EnqueueBulk, Dequeue and           *)
(* DequeueBulk move all of them or nothing (fixed), the bursts what they can. *)
(* Bulks and bursts follow WithExactBatchCounts (exact).  A length of 0, or a *)
(* bulk over a limit, asks for nothing and counts.                            *)
CallsOf(c) == IF c \in Producers THEN EnqueueCalls ELSE DequeueCalls

begin(c) ==
  /\ op[c].pc = "idle"
  /\ c \in Producers => head["producer"] < MaxPosition
  /\ \E call \in CallsOf(c) :
       Step(c, [Idle EXCEPT !.pc = "front", !.req = call.req, !.fixed = call.fixed,
                            !.exact = call.exact, !.head = head[Side(c)]])
  /\ UNCHANGED <<head, frontier, records, entries>>

(* The next turn of the loop in mpmcReserveProducer, mpmcReserveConsumer.     *)
loadHead(c) ==
  /\ op[c].pc = "head"
  /\ Step(c, [op[c] EXCEPT !.pc = "front", !.head = head[Side(c)]])
  /\ UNCHANGED <<head, frontier, records, entries>>

(* The room, or the items, that a frontier admits after the loaded head.      *)
Admits(c, f) ==
  IF c \in Producers THEN Capacity - (op[c].head - f) ELSE f - op[c].head

(* More than the capacity comes from a stale head: reload it.                 *)
Stale(avail) == avail > Capacity

(* The claim a call goes for once it knows what is available.  A call that    *)
(* finds too little, or only counts, returns.                                 *)
Asked(c) ==
  [Idle EXCEPT !.req = op[c].req, !.fixed = op[c].fixed, !.exact = op[c].exact]

Decide(c, avail) ==
  LET count == Min({op[c].req, avail})
      short == count = 0 \/ (op[c].fixed /\ avail < op[c].req)
  IN  [Asked(c) EXCEPT !.pc = IF short THEN "short" ELSE "claim",
                       !.head = op[c].head,
                       !.avail = IF short THEN avail ELSE count,
                       !.count = IF short THEN 0 ELSE count]

Retry(c) == [Asked(c) EXCEPT !.pc = "head"]

(* Variant: what the other side has claimed counts as finished.               *)
loadFrontierFromHead(c) ==
  /\ op[c].pc = "front"
  /\ LET avail == Admits(c, head[Other(c)])
     IN  Step(c, IF Stale(avail) THEN Retry(c)
                 ELSE IF op[c].exact \/ op[c].req = 0 \/ avail < op[c].req
                 THEN [op[c] EXCEPT !.pc = "base"]
                 ELSE Decide(c, avail))
  /\ UNCHANGED <<head, frontier, records, entries>>

(* The frontier as it stands is good enough unless it shows too little.       *)
loadFrontier(c) ==
  /\ op[c].pc = "front"
  /\ LET avail == Admits(c, frontier[Other(c)])
     IN  Step(c, IF Stale(avail) THEN Retry(c)
                 ELSE IF op[c].exact \/ op[c].req = 0 \/ avail < op[c].req
                 THEN [op[c] EXCEPT !.pc = "base"]
                 ELSE Decide(c, avail))
  /\ UNCHANGED <<head, frontier, records, entries>>

(* mpmcAdvanceCompleted and mpmcAdvanceReleased: the frontier, ...            *)
loadBase(c) ==
  /\ op[c].pc = "base"
  /\ Step(c, [op[c] EXCEPT !.pc = "bound", !.base = frontier[Other(c)],
                           !.end = frontier[Other(c)]])
  /\ UNCHANGED <<head, frontier, records, entries>>

(* With the discovery over, the frontier is raised if there is anything to.   *)
Discovered(o, end) ==
  IF o.base < end THEN [o EXCEPT !.pc = "raise", !.end = end,
                                 !.window = 0, !.stride = 0, !.ahead = << >>]
  ELSE [o EXCEPT !.pc = "fresh", !.base = 0, !.end = 0,
                 !.window = 0, !.stride = 0, !.ahead = << >>]

(* ... then the other side's head, at most a lap ahead ...                    *)
loadBound(c) ==
  /\ op[c].pc = "bound"
  /\ LET window == Min({head[Other(c)] - op[c].base, Capacity})
     IN  Step(c, IF window = 0 THEN Discovered(op[c], op[c].end)
                 ELSE [op[c] EXCEPT !.pc = "discover", !.window = window])
  /\ UNCHANGED <<head, frontier, records, entries>>

(* ... and the records in between, one load a step.                           *)
discoverRecord(c) ==
  /\ op[c].pc = "discover"
  /\ LET o == followRecord(op[c], records[Other(c)][Slot(op[c].end)], op[c].window)
     IN  Step(c, IF o.pc = "found" THEN Discovered(o, o.end) ELSE o)
  /\ UNCHANGED <<head, frontier, records, entries>>

loadAhead(c) ==
  /\ op[c].pc = "ahead" /\ MoreLanes(op[c])
  /\ Step(c, [op[c] EXCEPT
                !.ahead = Append(@, records[Other(c)][Slot(Predicted(op[c]))])])
  /\ UNCHANGED <<head, frontier, records, entries>>

(* Variant: predicted records are taken without a look at what they hold.     *)
acceptAheadUnchecked(c) ==
  /\ op[c].pc = "ahead" /\ ~MoreLanes(op[c])
  /\ LET reached == Min({Predicted(op[c]) - op[c].base, op[c].window})
     IN  Step(c, Discovered(op[c], op[c].base + reached))
  /\ UNCHANGED <<head, frontier, records, entries>>

acceptAhead(c) ==
  /\ op[c].pc = "ahead" /\ ~MoreLanes(op[c])
  /\ LET o == discoverRecordsAhead(op[c], op[c].window)
     IN  Step(c, IF o.pc = "found" THEN Discovered(o, o.end) ELSE o)
  /\ UNCHANGED <<head, frontier, records, entries>>

(* Variant: a failed compare-and-swap ends the loop.                          *)
raiseFrontierOnce(c) ==
  /\ op[c].pc = "raise"
  /\ LET s == Other(c)
         o == op[c]
     IN  /\ frontier' = IF frontier[s] = o.base
                        THEN [frontier EXCEPT ![s] = o.end] ELSE frontier
         /\ Step(c, [o EXCEPT !.pc = "fresh", !.base = 0, !.end = 0])
  /\ UNCHANGED <<head, records, entries>>

(* raiseFrontier: compare-and-swap from the last value seen until the         *)
(* frontier is at the discovered end or past it.  A failed attempt and the    *)
(* reload after it are one step: the frontier never returns to an old value.  *)
raiseFrontier(c) ==
  /\ op[c].pc = "raise"
  /\ LET s == Other(c)
         o == op[c]
     IN  IF frontier[s] = o.base
         THEN /\ frontier' = [frontier EXCEPT ![s] = o.end]
              /\ Step(c, [o EXCEPT !.pc = "fresh", !.base = 0, !.end = 0])
         ELSE /\ Step(c, Discovered([o EXCEPT !.base = frontier[s]], o.end))
              /\ UNCHANGED frontier
  /\ UNCHANGED <<head, records, entries>>

loadFresh(c) ==
  /\ op[c].pc = "fresh"
  /\ LET avail == Admits(c, frontier[Other(c)])
     IN  Step(c, IF Stale(avail) THEN Retry(c) ELSE Decide(c, avail))
  /\ UNCHANGED <<head, frontier, records, entries>>

(* Variant: the head is stored, not compared and swapped.                     *)
claimByStore(c) ==
  /\ op[c].pc = "claim"
  /\ head' = [head EXCEPT ![Side(c)] = op[c].head + op[c].count]
  /\ Step(c, [Idle EXCEPT !.pc = "copy", !.head = op[c].head, !.count = op[c].count])
  /\ UNCHANGED <<frontier, records, entries>>

(* The reservation.                                                           *)
claim(c) ==
  /\ op[c].pc = "claim"
  /\ IF head[Side(c)] = op[c].head
     THEN /\ head' = [head EXCEPT ![Side(c)] = @ + op[c].count]
          /\ Step(c, [Idle EXCEPT !.pc = "copy", !.head = op[c].head,
                                   !.count = op[c].count])
     ELSE /\ Step(c, Retry(c))
          /\ UNCHANGED head
  /\ UNCHANGED <<frontier, records, entries>>

(* A call returns that moved nothing.                                         *)
returnShort(c) ==
  /\ op[c].pc = "short"
  /\ Step(c, Idle)
  /\ UNCHANGED <<head, frontier, records, entries>>

(* Variant: a copy that reaches the end of the array stops there.             *)
copyUnwrapped(c) ==
  /\ op[c].pc = "copy"
  /\ entries' = [k \in Slots |->
       IF \E p \in Owned(c) : Slot(p) = k /\ k >= Slot(op[c].head)
       THEN IF c \in Producers
            THEN ValueAt(CHOOSE p \in Owned(c) : Slot(p) = k) ELSE 0
       ELSE entries[k]]
  /\ Step(c, [op[c] EXCEPT !.pc = "publish"])
  /\ UNCHANGED <<head, frontier, records>>

(* mpmcWriteProducer, and mpmcReadConsumer with clearing.                     *)
copy(c) ==
  /\ op[c].pc = "copy"
  /\ entries' = [k \in Slots |->
       IF \E p \in Owned(c) : Slot(p) = k
       THEN IF c \in Producers
            THEN ValueAt(CHOOSE p \in Owned(c) : Slot(p) = k) ELSE 0
       ELSE entries[k]]
  /\ Step(c, [op[c] EXCEPT !.pc = "publish"])
  /\ UNCHANGED <<head, frontier, records>>

(* mpmcPublishCompletion and mpmcPublishRelease.                              *)
publish(c) ==
  /\ op[c].pc = "publish"
  /\ records' = [records EXCEPT
       ![Side(c)][Slot(op[c].head)] = op[c].head + op[c].count]
  /\ Step(c, Idle)
  /\ UNCHANGED <<head, frontier, entries>>

(* Reset, which needs the ring to itself.                                     *)
Reset ==
  /\ \A c \in Callers : op[c].pc = "idle"
  /\ head' = [s \in Sides |-> 0]
  /\ frontier' = [s \in Sides |-> 0]
  /\ records' = [s \in Sides |-> [k \in Slots |-> 0]]
  /\ entries' = [k \in Slots |-> 0]
  /\ UNCHANGED op

Next ==
  \/ \E c \in Callers :
       \/ begin(c) /\ Note
       \/ loadHead(c) /\ Note
       \/ loadFrontier(c) /\ Note
       \/ loadBase(c) /\ Note
       \/ loadBound(c) /\ Note
       \/ discoverRecord(c) /\ Note
       \/ loadAhead(c) /\ Note
       \/ acceptAhead(c) /\ Note
       \/ raiseFrontier(c) /\ Note
       \/ loadFresh(c) /\ Note
       \/ claim(c) /\ Note
       \/ returnShort(c) /\ Note
       \/ copy(c) /\ Note
       \/ publish(c) /\ Note
  \/ Reset /\ Note

Spec == Init /\ [][Next]_vars

-----------------------------------------------------------------------------
(* The order of the four positions: released, consumerHead, completed,        *)
(* producerHead, within one lap.  It is what keeps every unsigned difference  *)
(* in mpmc.go from wrapping.                                                  *)
PositionsOrdered ==
  /\ frontier["consumer"] <= head["consumer"]
  /\ head["consumer"] <= frontier["producer"]
  /\ frontier["producer"] <= head["producer"]
  /\ head["producer"] <= frontier["consumer"] + Capacity

(* A frontier never passes an interval that is claimed and not yet recorded,  *)
(* although the records it follows are never cleared and a stale caller may   *)
(* read those of another lap (records.go, discoverRecords).                   *)
FrontiersSound == \A s \in Sides : frontier[s] <= Finished(s)

(* The slots of two calls that are copying are disjoint (mpmcWriteProducer    *)
(* and mpmcReadConsumer own their reservation).                               *)
SlotsExclusive ==
  \A c, d \in Callers : c # d =>
    \A p \in Owned(c), q \in Owned(d) : Slot(p) # Slot(q)

(* A call that moves fewer than it was asked to, or only counts.              *)
Shortfall(c) ==
  /\ op[c].pc \in {"claim", "short"}
  /\ op[c].req = 0 \/ op[c].avail < op[c].req

(* What ring/frontier/options.go says of such calls: they return a fresh      *)
(* count, and none fails because of a stale one.  A call counts all that was  *)
(* there for it at some moment of the call.                                   *)
ShortfallIsFresh ==
  \A c \in Callers : Shortfall(c) => least[c] <= op[c].avail

(* What mpmcAttemptProducer and mpmcAttemptConsumer do, which is what A1 and  *)
(* A4 of workq/wakeup.md need: the count is fresh unless another caller moved *)
(* the head that the call had loaded, and then it is not zero.  So a call     *)
(* that finds nothing is right, and so is a claim that goes through.  And the *)
(* count never exceeds the ring, although that head may be laps behind what   *)
(* it is compared with.                                                       *)
FreshUnlessOvertaken ==
  \A c \in Callers : Shortfall(c) =>
    /\ \/ least[c] <= op[c].avail
       \/ head[Side(c)] # op[c].head /\ op[c].avail > 0
    /\ op[c].avail <= Capacity

(* The ring as an Engine: the positions from the first one not yet reusable   *)
(* to the newest one claimed.  From its completion until it is read, the item *)
(* of a position is what its slot holds.                                      *)
Cell(p) ==
  LET holder == {c \in Callers : p \in Owned(c)}
      c == CHOOSE d \in holder : TRUE
      st == IF holder = {} THEN IF p < head["consumer"] THEN "free" ELSE "ready"
            ELSE IF c \in Producers THEN "writing" ELSE "reading"
      held == st = "ready" \/ (st = "reading" /\ op[c].pc = "copy")
  IN  [st |-> st, by |-> IF holder = {} THEN "nobody" ELSE c,
       item |-> IF held THEN entries[Slot(p)] ELSE ValueAt(p)]

Cells ==
  LET first == Finished("consumer")
  IN  [k \in 1..head["producer"] - first |-> Cell(first + k - 1)]

(* A call begun below MaxPosition may claim past it when it has to retry.     *)
engine == INSTANCE Engine WITH
  ring <- Cells,
  Items <- 1..MaxPosition + MaxBatch * Cardinality(Producers)

(* The ring is the bounded FIFO that workq relies on: items leave in the      *)
(* order of their reservations, as they were put in, each claimed by one      *)
(* consumer, and no step of any call disturbs what another one holds.         *)
ImplementsEngine == engine!Spec
=============================================================================
