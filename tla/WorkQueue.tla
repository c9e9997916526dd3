------------------------------ MODULE WorkQueue ------------------------------
(* The blocking work queue of workq: producers push, consumers receive, both   *)
(* wait through a WaitSide each, and the items move through an Engine.         *)
(*                                                                             *)
(* Every atomic load, compare-and-swap, critical section, engine call and      *)
(* channel operation of a call is a step of its own.  pc[c] is the sequence of *)
(* steps c has still to take, each a pair <<name, number>>, so a function that *)
(* another one calls is a few steps put in front of the ones that follow it.   *)
(* An empty sequence is a goroutine outside every call.                        *)
EXTENDS Integers, Sequences, FiniteSets, SequencesExt

CONSTANTS Consumers, Producers, Closers,
          Capacity, MaxPushBatch, MaxReceiveBatch,
          MaxItems,         \* bound on the length of one PushBatch
          WakeCap,          \* consumerWakeCap
          ConsumerWait, ProducerWait,   \* [Spins, Yields, NeverPark]
          ConsumerCalls, ProducerCalls, \* the methods the clients call
          Cancellable       \* callers whose ctx may be canceled

ASSUME GoroutinesAssumption ==
  /\ IsFiniteSet(Consumers \cup Producers)
  /\ Consumers \cap Producers = {}
  /\ Closers \cap (Consumers \cup Producers) = {}
ASSUME LimitsAssumption ==
  /\ {Capacity, MaxPushBatch, MaxReceiveBatch, MaxItems, WakeCap}
       \subseteq Nat \ {0}
  /\ MaxPushBatch <= Capacity /\ MaxReceiveBatch <= Capacity
  /\ WakeCap <= Capacity
ASSUME StrategyAssumption ==
  \A w \in {ConsumerWait, ProducerWait} :
    w \in [Spins : Nat, Yields : Nat, NeverPark : BOOLEAN]
ASSUME CallsAssumption ==
  /\ ConsumerCalls \subseteq {"Receive", "TryReceive", "Consume"}
  /\ ProducerCalls \subseteq {"Push", "PushBatch", "TryPush", "TryPushBatch"}
  /\ Cancellable \subseteq Consumers \cup Producers

VARIABLES cWord, cList, cToken, cSends, cPhase,   \* q.consumers
          pWord, pList, pToken, pSends, pPhase,   \* q.producers
          ring,     \* the engine's positions
          done,     \* the done channel is closed
          pc,       \* steps still to take
          call,     \* the locals of the call each goroutine is in
          clean     \* no producer call was running when Close began to close

consumerSide == <<cWord, cList, cToken, cSends, cPhase>>
producerSide == <<pWord, pList, pToken, pSends, pPhase>>
vars == <<consumerSide, producerSide, ring, done, pc, call, clean>>

consumers == INSTANCE WaitSide
  WITH Callers <- Consumers, MaxTarget <- WakeCap, word <- cWord,
       list <- cList, token <- cToken, sends <- cSends, phase <- cPhase

producers == INSTANCE WaitSide
  WITH Callers <- Producers, MaxTarget <- 1, word <- pWord,
       list <- pList, token <- pToken, sends <- pSends, phase <- pPhase

engine == INSTANCE Engine WITH Items <- {"item"}

Callers == Consumers \cup Producers \cup Closers

contextCheckInterval == 64

(* Locals of a call: the method; the items it still has to push, or the room   *)
(* in dst; those it moved so far; the rest of the current chunk; whether this  *)
(* wait was woken by a token; whether its ctx is done; the error it returns;   *)
(* whether the queue was closed before the call began, and whether it was      *)
(* closed during the wait of the call (both histories).                        *)
NoCall == [method |-> "none", len |-> 0, moved |-> 0, chunk |-> 0,
           woken |-> FALSE, ctxDone |-> FALSE, err |-> "nil", late |-> FALSE,
           shut |-> FALSE]

Init ==
  /\ consumers!Init
  /\ producers!Init
  /\ engine!Init
  /\ done = FALSE
  /\ pc = [c \in Callers |-> << >>]
  /\ call = [c \in Callers |-> NoCall]
  /\ clean = TRUE

-----------------------------------------------------------------------------
S(name) == <<name, 0>>

At(c, name) == pc[c] # << >> /\ Head(pc[c])[1] = name

Arg(c) == Head(pc[c])[2]

Idle(c) == pc[c] = << >>

(* Replace the current step by `steps'.                                        *)
Go(c, steps) == pc' = [pc EXCEPT ![c] = steps \o Tail(@)]

(* Drop every remaining step and return.                                       *)
Return(c, e) ==
  /\ pc' = [pc EXCEPT ![c] = <<S("return")>>]
  /\ call' = [call EXCEPT ![c].err = e]

(* A call returns and its goroutine is free to make another.                   *)
Returned(c) ==
  /\ pc' = [pc EXCEPT ![c] = << >>]
  /\ call' = [call EXCEPT ![c] = NoCall]

Begin(c, method, len, steps) ==
  /\ Idle(c)
  /\ pc' = [pc EXCEPT ![c] = steps]
  /\ call' = [call EXCEPT ![c] = [NoCall EXCEPT !.method = method,
                                    !.len = len, !.late = cWord.closed]]
  /\ UNCHANGED <<consumerSide, producerSide, ring, done, clean>>

-----------------------------------------------------------------------------
(* Waking.                                                                     *)

(* wakeOne on the consumer side: a recheck under the mutex, then one transfer. *)
wakeOneConsumer(c) ==
  /\ At(c, "wakeOneConsumer")
  /\ consumers!Unlocked
  /\ \/ consumers!wakeOneLocked /\ Go(c, <<S("sendConsumer")>>)
     \/ ~consumers!needsWake(cWord) /\ UNCHANGED consumerSide /\ Go(c, << >>)
  /\ UNCHANGED <<producerSide, ring, done, call, clean>>

wakeOneProducer(c) ==
  /\ At(c, "wakeOneProducer")
  /\ producers!Unlocked
  /\ \/ producers!wakeOneLocked /\ Go(c, <<S("sendProducer")>>)
     \/ ~producers!needsWake(pWord) /\ UNCHANGED producerSide /\ Go(c, << >>)
  /\ UNCHANGED <<consumerSide, ring, done, call, clean>>

(* wakeGroup on the consumer side, towards the target sampled before.          *)
wakeConsumerGroup(c) ==
  /\ At(c, "wakeGroup")
  /\ consumers!Unlocked
  /\ \/ consumers!wakeGroup(Arg(c)) /\ Go(c, <<S("sendConsumer")>>)
     \/ /\ cWord.parked = 0 \/ cWord.pollers >= Arg(c)
        /\ Go(c, << >>)
        /\ UNCHANGED consumerSide
  /\ UNCHANGED <<producerSide, ring, done, call, clean>>

(* The send loop of a waker, which holds the side's mutex until the last send. *)
sendConsumerToken(c) ==
  /\ At(c, "sendConsumer")
  /\ consumers!removeForWake
  /\ IF cSends = 1 THEN Go(c, << >>) ELSE UNCHANGED pc
  /\ UNCHANGED <<producerSide, ring, done, call, clean>>

sendProducerToken(c) ==
  /\ At(c, "sendProducer")
  /\ producers!removeForWake
  /\ Go(c, << >>)
  /\ UNCHANGED <<consumerSide, ring, done, call, clean>>

(* What a zero-length dequeue may count: a consumer that takes items meanwhile *)
(* can make it count too little (FreshUnlessOvertaken of FrontierMPMC), but    *)
(* never nothing where there is something.                                     *)
Samples == IF engine!Available = 0 THEN {0} ELSE 1..engine!Available

(* consumerTarget: the receive batches in that many items, at most the cap.    *)
consumerTarget(available) ==
  IF available = 0 THEN 0
  ELSE LET batches == 1 + (available - 1) \div MaxReceiveBatch
       IN  IF batches < WakeCap THEN batches ELSE WakeCap

(* Variant: the push leaves the wake to the pollers.                           *)
wakeConsumersNever(p) ==
  /\ At(p, "wakeConsumers")
  /\ call' = [call EXCEPT ![p].err =
                IF cWord.closed THEN "ErrClosedDuringPush" ELSE @]
  /\ Go(p, << >>)
  /\ UNCHANGED <<consumerSide, producerSide, ring, done, clean>>

(* wakeConsumersAfterPublication: the load that decides what to wake, and      *)
(* whether the push raced Close ...                                            *)
wakeConsumersAfterPublication(p) ==
  /\ At(p, "wakeConsumers")
  /\ call' = [call EXCEPT ![p].err =
                IF cWord.closed THEN "ErrClosedDuringPush" ELSE @]
  /\ Go(p, CASE cWord.parked = 0 -> << >>
             [] cWord.parked > 0 /\ WakeCap = 1 ->
                  IF cWord.pollers = 0 THEN <<S("wakeOneConsumer")>> ELSE << >>
             [] cWord.parked > 0 /\ WakeCap > 1 ->
                  IF cWord.pollers >= WakeCap THEN << >>
                  ELSE <<<<"publicationProbe", cWord.pollers>>>>)
  /\ UNCHANGED <<consumerSide, producerSide, ring, done, clean>>

(* ... and the sample of the available items, with the floor of one.           *)
publicationProbe(p) ==
  /\ At(p, "publicationProbe")
  /\ \E n \in Samples :
       LET target == IF n = 0 THEN 1 ELSE consumerTarget(n)
       IN  Go(p, IF Arg(p) < target THEN <<<<"wakeGroup", target>>>> ELSE << >>)
  /\ UNCHANGED <<consumerSide, producerSide, ring, done, call, clean>>

(* wakeCheck on the producer side, after a dequeue released room.              *)
wakeCheckProducers(c) ==
  /\ At(c, "wakeProducers")
  /\ Go(c, IF producers!needsWake(pWord) THEN <<S("wakeOneProducer")>> ELSE << >>)
  /\ UNCHANGED <<consumerSide, producerSide, ring, done, call, clean>>

-----------------------------------------------------------------------------
(* Leaving a wait.                                                             *)

(* replenishConsumers: what follows for a consumer that left `word' behind.    *)
replenishConsumers(word) ==
  IF word.parked = 0 \/ word.pollers >= WakeCap THEN << >>
  ELSE IF WakeCap = 1 THEN <<S("peekItems")>>
  ELSE <<<<"cleanupProbe", word.pollers>>>>

peekItems(c) ==
  /\ At(c, "peekItems")
  /\ Go(c, IF engine!Available > 0 THEN <<S("wakeOneConsumer")>> ELSE << >>)
  /\ UNCHANGED <<consumerSide, producerSide, ring, done, call, clean>>

cleanupProbe(c) ==
  /\ At(c, "cleanupProbe")
  /\ \E n \in Samples :
       LET target == consumerTarget(n)
       IN  Go(c, IF Arg(c) < target THEN <<<<"wakeGroup", target>>>> ELSE << >>)
  /\ UNCHANGED <<consumerSide, producerSide, ring, done, call, clean>>

(* leaveConsumerPolling: the registration is dropped before the items are      *)
(* sampled.                                                                    *)
leaveConsumerPolling(c) ==
  /\ At(c, "leavePolling")
  /\ consumers!leavePollingWith(c)
  /\ Go(c, replenishConsumers(cWord'))
  /\ UNCHANGED <<producerSide, ring, done, call, clean>>

(* Variant: a selected consumer leaves as if it had never been woken.          *)
leaveConsumerListSelected(c) ==
  /\ At(c, "leaveList")
  /\ consumers!Unlocked
  /\ \/ /\ consumers!leaveListWith(c)
        /\ Go(c, IF Arg(c) = 1 THEN <<S("replenish")>> ELSE << >>)
     \/ /\ c \notin consumers!Listed
        /\ Go(c, << >>)
        /\ UNCHANGED consumerSide
  /\ UNCHANGED <<producerSide, ring, done, call, clean>>

(* leaveConsumerList: a caller still listed removes itself, and replenishes    *)
(* only if its extra attempt moved items (Arg 1); one already selected takes   *)
(* its token and leaves polling.                                               *)
leaveConsumerList(c) ==
  /\ At(c, "leaveList")
  /\ consumers!Unlocked
  /\ \/ /\ consumers!leaveListWith(c)
        /\ Go(c, IF Arg(c) = 1 THEN <<S("replenish")>> ELSE << >>)
     \/ /\ c \notin consumers!Listed
        /\ Go(c, <<S("takeToken"), S("leavePolling")>>)
        /\ UNCHANGED consumerSide
  /\ UNCHANGED <<producerSide, ring, done, call, clean>>

replenishAfterList(c) ==
  /\ At(c, "replenish")
  /\ Go(c, replenishConsumers(cWord))
  /\ UNCHANGED <<consumerSide, producerSide, ring, done, call, clean>>

takeConsumerToken(c) ==
  /\ At(c, "takeToken")
  /\ consumers!receiveToken(c)
  /\ Go(c, << >>)
  /\ UNCHANGED <<producerSide, ring, done, call, clean>>

(* leavePolling of a producer: wake another if room is left and nobody polls.  *)
checkRoom(word) == IF producers!needsWake(word) THEN <<S("peekRoom")>> ELSE << >>

(* Variant: a producer that leaves does not look for more room.                *)
leaveProducerSilently(p) ==
  /\ At(p, "leavePolling")
  /\ producers!leavePollingWith(p)
  /\ Go(p, << >>)
  /\ UNCHANGED <<consumerSide, ring, done, call, clean>>

leaveProducerPolling(p) ==
  /\ At(p, "leavePolling")
  /\ producers!leavePollingWith(p)
  /\ Go(p, checkRoom(pWord'))
  /\ UNCHANGED <<consumerSide, ring, done, call, clean>>

peekRoom(p) ==
  /\ At(p, "peekRoom")
  /\ Go(p, IF engine!Room > 0 THEN <<S("wakeOneProducer")>> ELSE << >>)
  /\ UNCHANGED <<consumerSide, producerSide, ring, done, call, clean>>

(* leaveList of a producer.                                                    *)
leaveProducerList(p) ==
  /\ At(p, "leaveList")
  /\ producers!Unlocked
  /\ \/ /\ producers!leaveListWith(p)
        /\ Go(p, IF Arg(p) = 1 THEN <<S("checkRoom")>> ELSE << >>)
     \/ /\ p \notin producers!Listed
        /\ Go(p, <<S("takeToken"), S("leavePolling")>>)
        /\ UNCHANGED producerSide
  /\ UNCHANGED <<consumerSide, ring, done, call, clean>>

checkRoomAfterList(p) ==
  /\ At(p, "checkRoom")
  /\ Go(p, checkRoom(pWord))
  /\ UNCHANGED <<consumerSide, producerSide, ring, done, call, clean>>

takeProducerToken(p) ==
  /\ At(p, "takeToken")
  /\ producers!receiveToken(p)
  /\ Go(p, << >>)
  /\ UNCHANGED <<consumerSide, ring, done, call, clean>>

-----------------------------------------------------------------------------
(* Consumers.                                                                  *)

Least(a, b) == IF a < b THEN a ELSE b

(* dequeueAttempt: it moves at most the length of dst, and no more than was    *)
(* available when it looked, which may be less than is available when it       *)
(* claims.  `hit' follows the release and the wake check, `miss' an empty      *)
(* attempt.                                                                    *)
dequeueAttempt(c, hit, miss) ==
  \/ \E n \in 1..Least(call[c].len, engine!Available) :
       /\ engine!take(c, n)
       /\ call' = [call EXCEPT ![c].moved = n]
       /\ Go(c, <<S("release"), S("wakeProducers")>> \o hit)
  \/ /\ engine!Available = 0
     /\ Go(c, miss)
     /\ UNCHANGED <<ring, call>>

releaseItems(c) ==
  /\ At(c, "release")
  /\ engine!release(c)
  /\ Go(c, << >>)
  /\ UNCHANGED <<consumerSide, producerSide, done, call, clean>>

Receive(c) ==
  /\ "Receive" \in ConsumerCalls
  /\ \E len \in 1..MaxReceiveBatch : Begin(c, "Receive", len, <<S("receive")>>)

TryReceive(c) ==
  /\ "TryReceive" \in ConsumerCalls
  /\ \E len \in 1..MaxReceiveBatch :
       Begin(c, "TryReceive", len, <<S("tryReceive")>>)

Consume(c) ==
  /\ "Consume" \in ConsumerCalls
  /\ Begin(c, "Consume", MaxReceiveBatch, <<S("consume")>>)

(* Consume checks ctx before each receive.                                     *)
consume(c) ==
  /\ At(c, "consume")
  /\ IF call[c].ctxDone THEN Return(c, "ctx")
     ELSE Go(c, <<S("receive")>>) /\ UNCHANGED call
  /\ UNCHANGED <<consumerSide, producerSide, ring, done, clean>>

(* The first attempt of Receive and of each round of Consume.                  *)
receive(c) ==
  /\ At(c, "receive")
  /\ dequeueAttempt(c, <<S("return")>>, <<<<"spin", 0>>>>)
  /\ UNCHANGED <<consumerSide, producerSide, done, clean>>

tryReceive(c) ==
  /\ At(c, "tryReceive")
  /\ dequeueAttempt(c, <<S("return")>>, <<S("tryClosed")>>)
  /\ UNCHANGED <<consumerSide, producerSide, done, clean>>

(* Variant: closed is believed without another attempt.                        *)
tryReceiveUndrained(c) ==
  /\ At(c, "tryClosed")
  /\ IF cWord.closed THEN Return(c, "ErrClosed")
     ELSE Go(c, <<S("return")>>) /\ UNCHANGED call
  /\ UNCHANGED <<consumerSide, producerSide, ring, done, clean>>

tryReceiveClosed(c) ==
  /\ At(c, "tryClosed")
  /\ Go(c, IF cWord.closed THEN <<S("drain")>> ELSE <<S("return")>>)
  /\ UNCHANGED <<consumerSide, producerSide, ring, done, call, clean>>

(* drainCheck: the attempt that follows the observation of closed.             *)
drainCheck(c) ==
  /\ At(c, "drain")
  /\ \/ engine!Available > 0 /\ dequeueAttempt(c, <<S("return")>>, << >>)
     \/ engine!Available = 0 /\ Return(c, "ErrClosed") /\ UNCHANGED ring
  /\ UNCHANGED <<consumerSide, producerSide, done, clean>>

(* spinForItems: each poll loads closed, checks ctx on every                   *)
(* contextCheckInterval-th poll, and attempts.                                 *)
spinClosed(c) ==
  /\ At(c, "spin") /\ Arg(c) < ConsumerWait.Spins
  /\ Go(c, IF cWord.closed THEN <<S("drain")>> ELSE <<<<"spinAttempt", Arg(c)>>>>)
  /\ UNCHANGED <<consumerSide, producerSide, ring, done, call, clean>>

spinAttempt(c) ==
  /\ At(c, "spinAttempt")
  /\ IF Arg(c) % contextCheckInterval = 0 /\ call[c].ctxDone
     THEN Return(c, "ctx") /\ UNCHANGED ring
     ELSE dequeueAttempt(c, <<S("return")>>, <<<<"spin", Arg(c) + 1>>>>)
  /\ UNCHANGED <<consumerSide, producerSide, done, clean>>

(* register, once the spins are over.                                          *)
registerConsumer(c) ==
  /\ At(c, "spin") /\ Arg(c) = ConsumerWait.Spins
  /\ \/ consumers!register(c) /\ Go(c, <<<<"yield", ConsumerWait.Yields>>>>)
     \/ cWord.closed /\ Go(c, <<S("drain")>>) /\ UNCHANGED consumerSide
  /\ UNCHANGED <<producerSide, ring, done, call, clean>>

(* pollRegistered: one poll of a registered consumer, with `Arg' polls of the  *)
(* yield phase left.  A strategy that never parks keeps polling at 0.          *)
pollClosed(c) ==
  /\ At(c, "yield")
  /\ Arg(c) > 0 \/ ConsumerWait.NeverPark
  /\ Go(c, IF cWord.closed THEN <<S("leavePolling"), S("drain")>>
                           ELSE <<<<"poll", Arg(c)>>>>)
  /\ UNCHANGED <<consumerSide, producerSide, ring, done, call, clean>>

pollAttempt(c) ==
  /\ At(c, "poll")
  /\ dequeueAttempt(c, <<S("leavePolling"), S("return")>>,
                       <<<<"pollRecheck", Arg(c)>>>>)
  /\ UNCHANGED <<consumerSide, producerSide, done, clean>>

pollRecheck(c) ==
  /\ At(c, "pollRecheck")
  /\ Go(c, IF cWord.closed THEN <<S("leavePolling"), S("drain")>>
                           ELSE <<<<"pollCtx", Arg(c)>>>>)
  /\ UNCHANGED <<consumerSide, producerSide, ring, done, call, clean>>

pollCtx(c) ==
  /\ At(c, "pollCtx")
  /\ IF call[c].ctxDone
     THEN /\ Go(c, <<S("leavePolling"), S("return")>>)
          /\ call' = [call EXCEPT ![c].err = "ctx"]
     ELSE /\ Go(c, <<<<"yield", Arg(c) - Least(Arg(c), 1)>>>>)
          /\ UNCHANGED call
  /\ UNCHANGED <<consumerSide, producerSide, ring, done, clean>>

(* Variant: no attempt between the enlistment and the sleep.                   *)
enlistConsumerNoExtra(c) ==
  /\ At(c, "yield") /\ Arg(c) = 0 /\ ~ConsumerWait.NeverPark
  /\ consumers!Unlocked
  /\ \/ consumers!enlist(c, FALSE) /\ Go(c, <<S("select")>>)
     \/ /\ cWord.closed
        /\ Go(c, <<S("leavePolling"), S("drain")>>)
        /\ UNCHANGED consumerSide
  /\ UNCHANGED <<producerSide, ring, done, call, clean>>

(* parkForItems: enlist, one more attempt, then the select.                    *)
enlistConsumer(c) ==
  /\ At(c, "yield") /\ Arg(c) = 0 /\ ~ConsumerWait.NeverPark
  /\ consumers!Unlocked
  /\ \/ consumers!enlist(c, FALSE) /\ Go(c, <<S("extra")>>)
     \/ /\ cWord.closed
        /\ Go(c, <<S("leavePolling"), S("drain")>>)
        /\ UNCHANGED consumerSide
  /\ UNCHANGED <<producerSide, ring, done, call, clean>>

extraDequeue(c) ==
  /\ At(c, "extra")
  /\ dequeueAttempt(c, <<<<"leaveList", 1>>, S("return")>>, <<S("select")>>)
  /\ UNCHANGED <<consumerSide, producerSide, done, clean>>

(* A caller just woken polls at least once.                                    *)
Polls(wait) == IF wait.Yields = 0 THEN 1 ELSE wait.Yields

(* Variant: the select does not watch the context.                             *)
selectItemsDeaf(c) ==
  /\ At(c, "select")
  /\ \/ consumers!receiveToken(c) /\ Go(c, <<<<"yield", Polls(ConsumerWait)>>>>)
     \/ /\ done
        /\ Go(c, <<<<"leaveList", 0>>, S("drain")>>)
        /\ UNCHANGED consumerSide
  /\ UNCHANGED <<producerSide, ring, done, call, clean>>

selectItems(c) ==
  /\ At(c, "select")
  /\ \/ consumers!receiveToken(c) /\ Go(c, <<<<"yield", Polls(ConsumerWait)>>>>)
     \/ /\ call[c].ctxDone
        /\ Go(c, <<<<"leaveList", 0>>, S("ctxExit")>>)
        /\ UNCHANGED consumerSide
     \/ /\ done
        /\ Go(c, <<<<"leaveList", 0>>, S("drain")>>)
        /\ UNCHANGED consumerSide
  /\ UNCHANGED <<producerSide, ring, done, call, clean>>

ctxExit(c) ==
  /\ At(c, "ctxExit")
  /\ IF cWord.closed THEN Go(c, <<S("drain")>>) /\ UNCHANGED call
                     ELSE Return(c, "ctx")
  /\ UNCHANGED <<consumerSide, producerSide, ring, done, clean>>

(* A batch for the handler of Consume, which keeps receiving unless it fails.  *)
(* Consume reports ErrClosed to its caller as nil.                             *)
handleBatch(c) ==
  /\ At(c, "return") /\ call[c].method = "Consume" /\ call[c].err = "nil"
  /\ \/ /\ pc' = [pc EXCEPT ![c] = <<S("consume")>>]
        /\ call' = [call EXCEPT ![c].moved = 0, ![c].shut = FALSE]
     \/ Return(c, "handler")
  /\ UNCHANGED <<consumerSide, producerSide, ring, done, clean>>

returnConsumer(c) ==
  /\ At(c, "return")
  /\ call[c].method = "Consume" => call[c].err # "nil"
  /\ Returned(c)
  /\ UNCHANGED <<consumerSide, producerSide, ring, done, clean>>

-----------------------------------------------------------------------------
(* Producers.                                                                  *)

Push(p) ==
  /\ "Push" \in ProducerCalls
  /\ Begin(p, "Push", 1, <<S("push")>>)

PushBatch(p) ==
  /\ "PushBatch" \in ProducerCalls
  /\ \E len \in 1..MaxItems : Begin(p, "PushBatch", len, <<S("push")>>)

TryPush(p) ==
  /\ "TryPush" \in ProducerCalls
  /\ Begin(p, "TryPush", 1, <<S("push")>>)

TryPushBatch(p) ==
  /\ "TryPushBatch" \in ProducerCalls
  /\ \E len \in 1..MaxItems : Begin(p, "TryPushBatch", len, <<S("push")>>)

Waits(p) == call[p].method \in {"Push", "PushBatch"}

(* Items of the call not yet pushed.                                           *)
Rest(p) == call[p].len - call[p].moved

(* Variant: a producer call starts without looking at closed.                  *)
pushUnchecked(p) ==
  /\ At(p, "push")
  /\ Go(p, <<S("attempt")>>)
  /\ call' = [call EXCEPT ![p].chunk = Least(MaxPushBatch, Rest(p))]
  /\ UNCHANGED <<consumerSide, producerSide, ring, done, clean>>

(* The check for closed that starts every producer call.                       *)
push(p) ==
  /\ At(p, "push")
  /\ IF cWord.closed THEN Return(p, "ErrClosed")
     ELSE /\ Go(p, <<S("attempt")>>)
          /\ call' = [call EXCEPT ![p].chunk = Least(MaxPushBatch, Rest(p))]
  /\ UNCHANGED <<consumerSide, producerSide, ring, done, clean>>

(* An enqueue of the rest of the chunk: it moves what it saw room for.         *)
(* `after' follows the publication and the wake check, `miss' a full ring.     *)
enqueueAttempt(p, after, miss) ==
  \/ \E n \in 1..Least(call[p].chunk, engine!Room) :
       /\ engine!reserve(p, [k \in 1..n |-> "item"])
       /\ call' = [call EXCEPT ![p].moved = @ + n, ![p].chunk = @ - n,
                               ![p].woken = FALSE]
       /\ Go(p, <<S("publish"), S("wakeConsumers")>> \o after \o <<S("next")>>)
  \/ /\ engine!Room = 0
     /\ Go(p, miss)
     /\ UNCHANGED <<ring, call>>

publishItems(p) ==
  /\ At(p, "publish")
  /\ engine!complete(p)
  /\ Go(p, << >>)
  /\ UNCHANGED <<consumerSide, producerSide, done, call, clean>>

attempt(p) ==
  /\ At(p, "attempt")
  /\ \/ Waits(p) /\ enqueueAttempt(p, << >>, <<<<"spin", 0>>>>)
     \/ ~Waits(p) /\ engine!Room > 0 /\ enqueueAttempt(p, << >>, << >>)
     \/ ~Waits(p) /\ engine!Room = 0 /\ Return(p, "ErrFull") /\ UNCHANGED ring
  /\ UNCHANGED <<consumerSide, producerSide, done, clean>>

NextChunk(p) ==
  /\ Go(p, <<S("attempt")>>)
  /\ call' = [call EXCEPT ![p].chunk = Least(MaxPushBatch, Rest(p))]

(* After an attempt that moved items: the error of the wake check, the end of  *)
(* the call, the rest of the chunk, or the next chunk.                         *)
pushNext(p) ==
  /\ At(p, "next")
  /\ \/ /\ call[p].err # "nil" \/ Rest(p) = 0
        /\ Return(p, call[p].err)
     \/ /\ call[p].err = "nil" /\ Rest(p) > 0
        /\ \/ Waits(p) /\ call[p].chunk > 0 /\ Go(p, <<S("attempt")>>)
                       /\ UNCHANGED call
           \/ Waits(p) /\ call[p].chunk = 0 /\ Go(p, <<S("betweenChunks")>>)
                       /\ UNCHANGED call
           \/ ~Waits(p) /\ call[p].chunk > 0 /\ Return(p, "ErrFull")
           \/ ~Waits(p) /\ call[p].chunk = 0 /\ NextChunk(p)
  /\ UNCHANGED <<consumerSide, producerSide, ring, done, clean>>

checkBetweenChunks(p) ==
  /\ \/ /\ At(p, "betweenChunks")
        /\ IF cWord.closed THEN Return(p, "ErrClosedDuringPush")
                           ELSE Go(p, <<S("chunkCtx")>>) /\ UNCHANGED call
     \/ /\ At(p, "chunkCtx")
        /\ IF call[p].ctxDone THEN Go(p, <<S("ctxError")>>) /\ UNCHANGED call
                              ELSE NextChunk(p)
  /\ UNCHANGED <<consumerSide, producerSide, ring, done, clean>>

(* Variant: the items pushed before the wait are forgotten.                    *)
closedWhileWaitingAlways(p) == "ErrClosed"

(* closedWhileWaiting: ErrClosed only when the call has pushed nothing.        *)
closedWhileWaiting(p) ==
  IF call[p].moved = 0 THEN "ErrClosed" ELSE "ErrClosedDuringPush"

(* Variant: the bit that Close sets last is read.                              *)
producerContextErrorLate(p) ==
  /\ At(p, "ctxError")
  /\ Return(p, IF pWord.closed THEN closedWhileWaiting(p) ELSE "ctx")
  /\ UNCHANGED <<consumerSide, producerSide, ring, done, clean>>

(* The bit that Close sets first is read, after the wait was left.             *)
producerContextError(p) ==
  /\ At(p, "ctxError")
  /\ Return(p, IF cWord.closed THEN closedWhileWaiting(p) ELSE "ctx")
  /\ UNCHANGED <<consumerSide, producerSide, ring, done, clean>>

(* Leave through `steps' and return the error of a wait cut short by Close.    *)
LeaveClosed(p, steps) ==
  /\ Go(p, steps \o <<S("return")>>)
  /\ call' = [call EXCEPT ![p].err = closedWhileWaiting(p)]

(* spinForRoom.                                                                *)
spinRoomClosed(p) ==
  /\ At(p, "spin") /\ Arg(p) < ProducerWait.Spins
  /\ IF pWord.closed THEN LeaveClosed(p, << >>)
     ELSE Go(p, <<<<"spinAttempt", Arg(p)>>>>) /\ UNCHANGED call
  /\ UNCHANGED <<consumerSide, producerSide, ring, done, clean>>

spinRoomAttempt(p) ==
  /\ At(p, "spinAttempt")
  /\ IF Arg(p) % contextCheckInterval = 0 /\ call[p].ctxDone
     THEN Go(p, <<S("ctxError")>>) /\ UNCHANGED <<ring, call>>
     ELSE enqueueAttempt(p, << >>, <<<<"spin", Arg(p) + 1>>>>)
  /\ UNCHANGED <<consumerSide, producerSide, done, clean>>

registerProducer(p) ==
  /\ At(p, "spin") /\ Arg(p) = ProducerWait.Spins
  /\ \/ /\ producers!register(p)
        /\ Go(p, <<<<"yield", ProducerWait.Yields>>>>)
        /\ UNCHANGED call
     \/ pWord.closed /\ LeaveClosed(p, << >>) /\ UNCHANGED producerSide
  /\ UNCHANGED <<consumerSide, ring, done, clean>>

(* attemptRegistered: one attempt of a registered producer.                    *)
roomClosed(p) ==
  /\ At(p, "yield")
  /\ Arg(p) > 0 \/ ProducerWait.NeverPark
  /\ IF pWord.closed THEN LeaveClosed(p, <<S("leavePolling")>>)
     ELSE Go(p, <<<<"poll", Arg(p)>>>>) /\ UNCHANGED call
  /\ UNCHANGED <<consumerSide, producerSide, ring, done, clean>>

roomAttempt(p) ==
  /\ At(p, "poll")
  /\ enqueueAttempt(p, <<S("leavePolling")>>, <<<<"pollRecheck", Arg(p)>>>>)
  /\ UNCHANGED <<consumerSide, producerSide, done, clean>>

roomRecheck(p) ==
  /\ At(p, "pollRecheck")
  /\ IF pWord.closed THEN LeaveClosed(p, <<S("leavePolling")>>)
     ELSE Go(p, <<<<"pollCtx", Arg(p)>>>>) /\ UNCHANGED call
  /\ UNCHANGED <<consumerSide, producerSide, ring, done, clean>>

roomCtx(p) ==
  /\ At(p, "pollCtx")
  /\ Go(p, IF call[p].ctxDone THEN <<S("leavePolling"), S("ctxError")>>
           ELSE <<<<"yield", Arg(p) - Least(Arg(p), 1)>>>>)
  /\ UNCHANGED <<consumerSide, producerSide, ring, done, call, clean>>

(* parkForRoom: a producer woken in this wait parks again at the oldest end.   *)
enlistProducer(p) ==
  /\ At(p, "yield") /\ Arg(p) = 0 /\ ~ProducerWait.NeverPark
  /\ producers!Unlocked
  /\ \/ /\ producers!enlist(p, call[p].woken)
        /\ Go(p, <<S("extra")>>)
        /\ UNCHANGED call
     \/ /\ pWord.closed
        /\ LeaveClosed(p, <<S("leavePolling")>>)
        /\ UNCHANGED producerSide
  /\ UNCHANGED <<consumerSide, ring, done, clean>>

extraEnqueue(p) ==
  /\ At(p, "extra")
  /\ enqueueAttempt(p, <<<<"leaveList", 1>>>>, <<S("select")>>)
  /\ UNCHANGED <<consumerSide, producerSide, done, clean>>

selectRoom(p) ==
  /\ At(p, "select")
  /\ \/ /\ producers!receiveToken(p)
        /\ Go(p, <<<<"yield", Polls(ProducerWait)>>>>)
        /\ call' = [call EXCEPT ![p].woken = TRUE]
     \/ /\ call[p].ctxDone
        /\ Go(p, <<<<"leaveList", 0>>, S("ctxError")>>)
        /\ UNCHANGED <<producerSide, call>>
     \/ done /\ LeaveClosed(p, <<<<"leaveList", 0>>>>) /\ UNCHANGED producerSide
  /\ UNCHANGED <<consumerSide, ring, done, clean>>

returnProducer(p) ==
  /\ At(p, "return")
  /\ Returned(p)
  /\ UNCHANGED <<consumerSide, producerSide, ring, done, clean>>

-----------------------------------------------------------------------------
(* Close, and the clients' contexts.                                           *)

Close(k) ==
  Begin(k, "Close", 0, <<S("closeConsumers"), S("closeProducers")>>)

Pending(c, names) == \E i \in DOMAIN pc[c] : pc[c][i][1] \in names

(* A producer that waits for room, spinning, polling or asleep, or a consumer  *)
(* that sleeps, until it has chosen what to return.                            *)
Waiting(c) ==
  IF c \in Producers
  THEN Pending(c, {"spin", "spinAttempt", "yield", "poll", "pollRecheck",
                   "pollCtx", "extra", "select", "ctxError"})
  ELSE Pending(c, {"select", "ctxExit"})

(* The histories that the first Close leaves: whether it came after every      *)
(* producer call, and whom it found waiting.                                   *)
NoteClose ==
  /\ clean' = IF cWord.closed THEN clean ELSE \A p \in Producers : Idle(p)
  /\ call' = IF cWord.closed THEN call
             ELSE [c \in Callers |-> [call[c] EXCEPT !.shut = Waiting(c)]]

(* Variant: the done channel is left open.                                     *)
closeConsumersQuietly(k) ==
  /\ At(k, "closeConsumers")
  /\ consumers!setClosedLocked
  /\ NoteClose
  /\ Go(k, << >>)
  /\ UNCHANGED <<producerSide, ring, done>>

(* The consumer side first, under its mutex, and done with it.                 *)
closeConsumers(k) ==
  /\ At(k, "closeConsumers")
  /\ consumers!setClosedLocked
  /\ done' = TRUE
  /\ NoteClose
  /\ Go(k, << >>)
  /\ UNCHANGED <<producerSide, ring>>

closeProducers(k) ==
  /\ At(k, "closeProducers")
  /\ producers!setClosedLocked
  /\ Returned(k)
  /\ UNCHANGED <<consumerSide, ring, done, clean>>

cancel(c) ==
  /\ ~Idle(c) /\ ~call[c].ctxDone
  /\ call' = [call EXCEPT ![c].ctxDone = TRUE]
  /\ UNCHANGED <<consumerSide, producerSide, ring, done, pc, clean>>

-----------------------------------------------------------------------------
(* The steps that consumers and producers share run under the caller's own     *)
(* step names, so each wakes the side its name says.                           *)
WakeStep(c) ==
  \/ wakeOneConsumer(c) \/ wakeOneProducer(c) \/ wakeConsumerGroup(c)
  \/ sendConsumerToken(c) \/ sendProducerToken(c)

ConsumerStep(c) ==
  \/ WakeStep(c) \/ wakeCheckProducers(c)
  \/ peekItems(c) \/ cleanupProbe(c) \/ leaveConsumerPolling(c)
  \/ leaveConsumerList(c) \/ replenishAfterList(c) \/ takeConsumerToken(c)
  \/ releaseItems(c) \/ consume(c) \/ receive(c) \/ tryReceive(c)
  \/ tryReceiveClosed(c) \/ drainCheck(c) \/ spinClosed(c) \/ spinAttempt(c)
  \/ registerConsumer(c) \/ pollClosed(c) \/ pollAttempt(c) \/ pollRecheck(c)
  \/ pollCtx(c) \/ enlistConsumer(c) \/ extraDequeue(c) \/ selectItems(c)
  \/ ctxExit(c) \/ handleBatch(c) \/ returnConsumer(c)

ProducerStep(p) ==
  \/ WakeStep(p) \/ wakeConsumersAfterPublication(p) \/ publicationProbe(p)
  \/ leaveProducerPolling(p) \/ peekRoom(p) \/ leaveProducerList(p)
  \/ checkRoomAfterList(p) \/ takeProducerToken(p)
  \/ push(p) \/ publishItems(p) \/ attempt(p) \/ pushNext(p)
  \/ checkBetweenChunks(p) \/ producerContextError(p)
  \/ spinRoomClosed(p) \/ spinRoomAttempt(p) \/ registerProducer(p)
  \/ roomClosed(p) \/ roomAttempt(p) \/ roomRecheck(p) \/ roomCtx(p)
  \/ enlistProducer(p) \/ extraEnqueue(p) \/ selectRoom(p) \/ returnProducer(p)

CloserStep(k) == closeConsumers(k) \/ closeProducers(k)

ConsumerCall(c) == Receive(c) \/ TryReceive(c) \/ Consume(c)

ProducerCall(p) == Push(p) \/ PushBatch(p) \/ TryPush(p) \/ TryPushBatch(p)

Next ==
  \/ \E c \in Consumers : ConsumerCall(c) \/ ConsumerStep(c)
  \/ \E p \in Producers : ProducerCall(p) \/ ProducerStep(p)
  \/ \E k \in Closers : Close(k) \/ CloserStep(k)
  \/ \E c \in Cancellable : cancel(c)

Spec == Init /\ [][Next]_vars

(* A goroutine inside a call keeps running: the Go scheduler is preemptive,    *)
(* and sync.Mutex hands itself to a waiter that has waited long, so a step     *)
(* that needs a mutex that is free again and again is taken.  Nothing obliges  *)
(* a client to make a call, to close the queue or to cancel a context.         *)
Fairness ==
  /\ \A c \in Consumers : SF_vars(ConsumerStep(c))
  /\ \A p \in Producers : SF_vars(ProducerStep(p))
  /\ \A k \in Closers : SF_vars(CloserStep(k))

FairSpec == Spec /\ Fairness

-----------------------------------------------------------------------------
SomeonePending(names) == \E c \in Callers : Pending(c, names)

(* c has moved something on its extra attempt, or may yet do so, and looks     *)
(* again when it leaves the list.                                              *)
MayMoveOn(c) ==
  At(c, "extra") \/ \E i \in DOMAIN pc[c] : pc[c][i] = <<"leaveList", 1>>

(* No lost wake for consumers ("Why a wake is not lost", wakeup.md).  While    *)
(* items are available and a consumer sleeps, someone is bound to look again:  *)
(* a registered or selected consumer, one about to make its extra attempt, the *)
(* cleanup of one that left, or the wake check of a push.                      *)
ItemsWatched ==
  engine!Available > 0 /\ (\E c \in Consumers : At(c, "select") /\ ~cToken[c]) =>
    \/ cWord.pollers > 0
    \/ \E c \in Consumers : MayMoveOn(c)
    \/ SomeonePending({"wakeConsumers", "publicationProbe", "wakeGroup",
                       "wakeOneConsumer", "replenish", "peekItems",
                       "cleanupProbe"})

(* No lost wake for producers: the same with room and the producer side.       *)
RoomWatched ==
  engine!Room > 0 /\ (\E p \in Producers : At(p, "select") /\ ~pToken[p]) =>
    \/ pWord.pollers > 0
    \/ \E p \in Producers : MayMoveOn(p)
    \/ SomeonePending({"wakeProducers", "wakeOneProducer", "checkRoom", "peekRoom"})

(* Close after every producer call has returned loses nothing (queue.go,       *)
(* Close): a consumer is told ErrClosed only when no pushed item is left.      *)
DrainedMeansEmpty ==
  clean /\ (\E c \in Consumers : At(c, "return") /\ call[c].err = "ErrClosed") =>
    \A k \in DOMAIN ring : ring[k].st \in {"reading", "free"}

(* What a producer call tells its caller about its items is true (workq.go,    *)
(* ErrClosed, ErrClosedDuringPush, ErrFull): nil means all of them went in,    *)
(* ErrClosed none, ErrClosedDuringPush at least one and the queue is closed,   *)
(* ErrFull that a Try call left some out.                                      *)
PushOutcome ==
  \A p \in Producers : At(p, "return") =>
    CASE call[p].err = "nil" -> Rest(p) = 0
      [] call[p].err = "ErrClosed" -> call[p].moved = 0 /\ cWord.closed
      [] call[p].err = "ErrClosedDuringPush" -> call[p].moved > 0 /\ cWord.closed
      [] call[p].err = "ErrFull" -> Rest(p) > 0 /\ ~Waits(p)
      [] call[p].err = "ctx" -> Rest(p) > 0 /\ call[p].ctxDone

(* A call that begins once the queue is closed (queue.go, Close): a producer   *)
(* pushes nothing and gets ErrClosed; a Receive or TryReceive gets items or    *)
(* ErrClosed, and not its context's error.                                     *)
LateCalls ==
  \A c \in Consumers \cup Producers : At(c, "return") /\ call[c].late =>
    IF c \in Producers
    THEN call[c].err = "ErrClosed" /\ call[c].moved = 0
    ELSE \/ call[c].err = "ErrClosed"
         \/ call[c].err = "nil" /\ call[c].moved > 0
         \/ call[c].method = "Consume"

(* Close reaches whoever waits when it runs (queue.go, Close; wakeup.md on the *)
(* gap before the producer bit): a producer that was waiting for room is told  *)
(* that the queue is closed, whatever its context did meanwhile, and so is     *)
(* every consumer that slept, unless it got items.                             *)
CloseReachesWaiters ==
  \A c \in Consumers \cup Producers : At(c, "return") /\ call[c].shut =>
    IF c \in Producers
    THEN call[c].err \in {"ErrClosed", "ErrClosedDuringPush"}
    ELSE call[c].err = "ErrClosed" \/ call[c].moved > 0

(* Whatever a call returns, it has left the wait (pushWait, receiveWait): it   *)
(* owes its side no registration and no park, and its waiter is clean.         *)
ReturnLeavesWait ==
  /\ \A c \in Consumers : Idle(c) \/ At(c, "return") =>
       cPhase[c] = "out" /\ ~cToken[c]
  /\ \A p \in Producers : Idle(p) \/ At(p, "return") =>
       pPhase[p] = "out" /\ ~pToken[p]

(* Close ends every wait (queue.go, Close): a call that is running once Close  *)
(* has closed the consumer side returns.                                       *)
CloseReleases ==
  \A c \in Consumers \cup Producers : cWord.closed /\ ~Idle(c) ~> Idle(c)

(* A canceled call returns.                                                    *)
CancelReturns ==
  \A c \in Cancellable : call[c].ctxDone ~> Idle(c)

(* A sleeping consumer is not left asleep while items stay available, nor a    *)
(* sleeping producer while room does.                                          *)
SleepersWoken ==
  /\ \A c \in Consumers :
       At(c, "select") /\ engine!Available > 0
         ~> ~At(c, "select") \/ engine!Available = 0
  /\ \A p \in Producers :
       At(p, "select") /\ engine!Room > 0 ~> ~At(p, "select") \/ engine!Room = 0
=============================================================================
