------------------------------- MODULE Runner -------------------------------
(***************************************************************************)
(* The runner of workq/runner: submissions that feed a bounded queue,      *)
(* workers that take batches from it, call the application's handler and   *)
(* retry what failed, an abort that any of them or the owner may request,  *)
(* and the coordinator that joins them all, cleans the queue after an      *)
(* abort and publishes the final outcome.                                  *)
(*                                                                         *)
(* One step is one critical section of the lifecycle mutex, one atomic     *)
(* load or store, one wait for a channel, one queue operation or one       *)
(* return of an application function.  The queue is what the workq module  *)
(* promises: a bounded FIFO whose Receive takes what is there before it    *)
(* looks at the context.  An item stands for one accepted occurrence.  Of  *)
(* the errors only this is kept: whether a failure was recorded, and which *)
(* process's abort was the first.                                          *)
(***************************************************************************)
EXTENDS Integers, Sequences, FiniteSetsExt

CONSTANTS Submitters,    \* callers of SubmitBatch
          Batch,         \* Batch[s]: the items of submitter s, in order
          Workers,       \* the runner's own goroutines
          Owners,        \* callers of Shutdown and Abort
          Coordinator,   \* the goroutine that coordinate runs on
          Configs,       \* constructions, and who calls: see RunnerAssumption
          None           \* nil

Items == UNION {Range(Batch[s]) : s \in Submitters}

Procs == Submitters \cup Workers \cup Owners \cup {Coordinator}

ASSUME RunnerAssumption ==
    /\ \A k \in Configs :
         /\ k.callers \subseteq Submitters \cup Owners
         /\ k.workers \subseteq Workers /\ k.workers # {}
         /\ {k.capacity, k.batchLimit, k.maxAttempts} \subseteq Nat \ {0}
         /\ {k.callbacks, k.abortMode} \subseteq BOOLEAN
    /\ \A s \in Submitters : Batch[s] \in Seq(Range(Batch[s])) \ {<<>>}
    /\ IsFiniteSet(Procs) /\ None \notin Procs
    /\ Submitters \cap (Workers \cup Owners) = {} /\ Workers \cap Owners = {}
    /\ Coordinator \notin Submitters \cup Workers \cup Owners
    /\ \A k \in Configs : \A s, t \in Submitters \cap k.callers :
         \A i \in DOMAIN Batch[s], j \in DOMAIN Batch[t] :
           Batch[s][i] = Batch[t][j] => s = t /\ i = j

VARIABLES config,   \* Config: OnTerminal given?  FailureMode = Abort?  ...
          queue,    \* the items of the queue, oldest first
          closed,   \* the queue is closed
          life,     \* lifecycle: gate, channels, abort record and final outcome
          account,  \* accounting: counters and whether a failure was recorded
          pc, ret,  \* where each goroutine is, and where its abort returns to
          pushed,   \* items of the batch that PushBatch has moved
          held,     \* items a worker or the cleanup owns
          due,      \* held items that are to be handled or finalized now
          unclassified,  \* failed items classifyFailure has not seen
          outcome,  \* outcomes[position] of each item
          tried,    \* retryItem.attempts of each item
          terminal  \* how often each item was finalized

vars == <<config, queue, closed, life, account, pc, ret, pushed, held, due,
          unclassified, outcome, tried, terminal>>

work == <<held, due, unclassified, outcome, tried, terminal>>

-----------------------------------------------------------------------------
Init ==
    /\ config \in Configs
    /\ queue = <<>> /\ closed = FALSE
    /\ life = [stopped |-> FALSE, active |-> 0, admissionsDone |-> FALSE,
               abortRecord |-> None, cancelled |-> FALSE, aborting |-> FALSE,
               snapshot |-> FALSE, done |-> FALSE, finalErr |-> None,
               panicked |-> FALSE]
    /\ account = [accepted |-> 0, succeeded |-> 0, failed |-> 0, abandoned |-> 0,
                  attempts |-> 0, failures |-> FALSE]
    /\ pc = [p \in Procs |-> CASE p \in config.workers -> "loop"
                               [] p \in Workers \ config.workers -> "exited"
                               [] p \in config.callers -> "start"
                               [] p = Coordinator -> "unstarted"
                               [] OTHER -> "returned"]
    /\ ret = [p \in Procs |-> "none"]
    /\ pushed = [s \in Submitters |-> 0]
    /\ held = [p \in Workers \cup {Coordinator} |-> {}]
    /\ due = [p \in Workers \cup {Coordinator} |-> {}]
    /\ unclassified = [p \in Workers \cup {Coordinator} |-> {}]
    /\ outcome = [i \in Items |-> "none"]
    /\ tried = [i \in Items |-> 0]
    /\ terminal = [i \in Items |-> 0]

Go(p, label) == pc' = [pc EXCEPT ![p] = label]

\* awaitAbortPublication returns: no abort is committed, or it is published.
awaitNothing == TRUE
awaitAbortPublication == life.abortRecord = None \/ life.aborting

-----------------------------------------------------------------------------
(* The lifecycle, under its mutex. *)

closeAdmissionLocked(l) ==
    IF l.stopped THEN l
    ELSE [l EXCEPT !.stopped = TRUE,
                   !.admissionsDone = @ \/ l.active = 0,
                   !.panicked = @ \/ (l.active = 0 /\ l.admissionsDone)]

\* pc after startCoordinatorLocked, with the caller p at label.
startCoordinatorLocked(p, label) ==
    pc' = [pc EXCEPT ![p] = label,
                     ![Coordinator] = IF @ = "unstarted" THEN "coordinate" ELSE @]

stopAdmission(p, label) ==
    /\ life' = closeAdmissionLocked(life)
    /\ startCoordinatorLocked(p, label)

\* A call of abort by p, which goes on at label afterwards.
callAbort(p, label) ==
    /\ Go(p, "abort")
    /\ ret' = [ret EXCEPT ![p] = label]

Return(p) == Go(p, ret[p]) /\ ret' = [ret EXCEPT ![p] = "none"]

\* Variant: a request after completion is not turned away.
abortUnchecked(p) ==
    /\ pc[p] = "abort"
    /\ IF life.abortRecord # None
       THEN Go(p, "awaitAborting") /\ UNCHANGED life
       ELSE /\ life' = closeAdmissionLocked([life EXCEPT !.abortRecord = p])
            /\ startCoordinatorLocked(p, "cancel")
    /\ UNCHANGED <<config, queue, closed, account, ret, pushed, work>>

abort(p) ==
    /\ pc[p] = "abort"
    /\ CASE life.done -> Return(p) /\ UNCHANGED life
         [] ~life.done /\ life.abortRecord # None ->
              Go(p, "awaitAborting") /\ UNCHANGED <<life, ret>>
         [] OTHER ->
              /\ life' = closeAdmissionLocked([life EXCEPT !.abortRecord = p])
              /\ startCoordinatorLocked(p, "cancel")
              /\ UNCHANGED ret
    /\ UNCHANGED <<config, queue, closed, account, pushed, work>>

cancel(p) ==
    /\ pc[p] = "cancel"
    /\ life' = [life EXCEPT !.cancelled = TRUE]
    /\ Go(p, "closeAborting")
    /\ UNCHANGED <<config, queue, closed, account, ret, pushed, work>>

closeAborting(p) ==
    /\ pc[p] = "closeAborting"
    /\ life' = [life EXCEPT !.aborting = TRUE, !.panicked = @ \/ life.aborting]
    /\ Return(p)
    /\ UNCHANGED <<config, queue, closed, account, pushed, work>>

awaitAborting(p) ==
    /\ pc[p] = "awaitAborting" /\ life.aborting
    /\ Return(p)
    /\ UNCHANGED <<config, queue, closed, life, account, pushed, work>>

Aborts(p) == abort(p) \/ cancel(p) \/ closeAborting(p) \/ awaitAborting(p)

-----------------------------------------------------------------------------
(* The owner: Shutdown with a grace context, or Abort and Wait. *)

Shutdown(o) ==
    /\ pc[o] = "start"
    /\ stopAdmission(o, "grace")
    /\ UNCHANGED <<config, queue, closed, account, ret, pushed, work>>

Abort(o) ==
    /\ pc[o] = "start"
    /\ callAbort(o, "wait")
    /\ UNCHANGED <<config, queue, closed, life, account, pushed, work>>

\* The select of Shutdown on the grace context.
graceEnds(o) ==
    /\ pc[o] = "grace"
    /\ callAbort(o, "wait")
    /\ UNCHANGED <<config, queue, closed, life, account, pushed, work>>

Wait(o) ==
    /\ pc[o] \in {"grace", "wait"} /\ life.done
    /\ Go(o, "returned")
    /\ UNCHANGED <<config, queue, closed, life, account, ret, pushed, work>>

-----------------------------------------------------------------------------
(* SubmitBatch.  The caller's own context may end at any moment. *)

registerSubmission(s) ==
    /\ pc[s] = "start"
    /\ IF life.stopped
       THEN Go(s, "returned") /\ UNCHANGED life
       ELSE /\ life' = [life EXCEPT !.active = @ + 1]
            /\ Go(s, "registered")
    /\ UNCHANGED <<config, queue, closed, account, ret, pushed, work>>

\* Returned before the push: an empty batch, or a context that has ended.
submitNothing(s) ==
    /\ pc[s] = "registered"
    /\ Go(s, "unregister")
    /\ UNCHANGED <<config, queue, closed, life, account, ret, pushed, work>>

\* PushBatch moves one item when there is room; the first attempt looks at no
\* context, a later chunk follows checkBetweenChunks.
pushItem(s) ==
    /\ pc[s] \in {"registered", "push"}
    /\ ~closed /\ Len(queue) < config.capacity
    /\ queue' = Append(queue, Batch[s][pushed[s] + 1])
    /\ pushed' = [pushed EXCEPT ![s] = @ + 1]
    /\ Go(s, IF pushed[s] + 1 = Len(Batch[s]) THEN "record" ELSE "push")
    /\ UNCHANGED <<config, closed, life, account, ret, work>>

\* PushBatch returns early, between chunks or while it waits for room.
PushEnds(s) ==
    /\ \/ pc[s] = "push"
       \/ pc[s] = "registered" /\ (closed \/ Len(queue) = config.capacity)
    /\ Go(s, "record")
    /\ UNCHANGED <<config, queue, closed, life, account, ret, pushed, work>>

pushAborted(s) == (life.cancelled \/ closed) /\ PushEnds(s)

pushCanceled(s) == ~closed /\ PushEnds(s)

\* Variant: the submission is unregistered before its items are counted.
recordUnregistered(s) ==
    /\ pc[s] = "record"
    /\ life' = [life EXCEPT !.active = @ - 1,
                            !.admissionsDone = @ \/ (life.stopped /\ life.active = 1)]
    /\ Go(s, "returned")
    /\ UNCHANGED <<config, queue, closed, account, ret, pushed, work>>

\* recordAccepted, and classifyPushError of what PushBatch returned.
recordAccepted(s) ==
    /\ pc[s] = "record"
    /\ LET refused == closed /\ pushed[s] < Len(Batch[s]) IN
       /\ account' = [account EXCEPT !.accepted = @ + pushed[s],
                                     !.failures = @ \/ refused]
       /\ IF refused THEN callAbort(s, "unregister")
                     ELSE Go(s, "unregister") /\ UNCHANGED ret
    /\ UNCHANGED <<config, queue, closed, life, pushed, work>>

\* Variant: the last submission closes the channel whether or not the gate is.
unregisterAlways(s) ==
    /\ pc[s] = "unregister"
    /\ life' = [life EXCEPT !.active = @ - 1,
                            !.admissionsDone = @ \/ life.active = 1,
                            !.panicked = @ \/ (life.active = 1 /\ life.admissionsDone)]
    /\ Go(s, "returned")
    /\ UNCHANGED <<config, queue, closed, account, ret, pushed, work>>

unregisterSubmission(s) ==
    /\ pc[s] = "unregister"
    /\ LET last == life.stopped /\ life.active = 1 IN
       life' = [life EXCEPT !.active = @ - 1,
                            !.admissionsDone = @ \/ last,
                            !.panicked = @ \/ (last /\ life.admissionsDone)]
    /\ Go(s, "returned")
    /\ UNCHANGED <<config, queue, closed, account, ret, pushed, work>>

Submits(s) == pushItem(s) \/ pushAborted(s) \/ recordAccepted(s) \/ unregisterSubmission(s)

-----------------------------------------------------------------------------
(* The workers. *)

runWorker(w) ==
    /\ pc[w] = "loop"
    /\ Go(w, IF life.abortRecord # None THEN "exited" ELSE "receive")
    /\ UNCHANGED <<config, queue, closed, life, account, ret, pushed, work>>

\* p becomes the owner of the oldest items of the queue.
Take(p) ==
    LET n == Min({Len(queue), config.batchLimit})
        taken == Range(SubSeq(queue, 1, n)) IN
    /\ queue # <<>>
    /\ queue' = SubSeq(queue, n + 1, Len(queue))
    /\ held' = [held EXCEPT ![p] = taken]
    /\ due' = [due EXCEPT ![p] = taken]

\* The head of processHeldBatch's loop: an abort gives up what is held.
processHeldBatch == IF life.abortRecord # None THEN "abandon" ELSE "handle"

\* Receive: one attempt, then a wait that an item, Close or the context ends.
receive(w) ==
    /\ pc[w] \in {"receive", "receiveWait"}
    /\ Take(w)
    /\ Go(w, processHeldBatch)
    /\ UNCHANGED <<config, closed, life, account, ret, pushed, unclassified,
                   outcome, tried, terminal>>

receiveWait(w) ==
    /\ pc[w] = "receive" /\ queue = <<>>
    /\ Go(w, "receiveWait")
    /\ UNCHANGED <<config, queue, closed, life, account, ret, pushed, work>>

handleReceiveError(w) ==
    /\ pc[w] = "receiveWait"
    /\ \/ closed /\ queue = <<>> /\ Go(w, "exited") /\ UNCHANGED <<account, ret>>
       \/ /\ life.cancelled
          /\ IF life.abortRecord # None
             THEN Go(w, "exited") /\ UNCHANGED <<account, ret>>
             ELSE /\ account' = [account EXCEPT !.failures = TRUE]
                  /\ callAbort(w, "exited")
    /\ UNCHANGED <<config, queue, closed, life, pushed, work>>

Results == {"succeeded", "failed", "unattempted", "interrupted"}

\* A position may be unattempted only after an abort, and interrupted only when
\* the handler saw its context end.
validateResults(results) ==
    /\ "unattempted" \in Range(results) => life.abortRecord # None
    /\ "interrupted" \in Range(results) => life.cancelled

\* The handler returns.  An invalid response fails every position.
invokeHeld(w) ==
    /\ pc[w] = "handle"
    /\ \E results \in [due[w] -> Results] :
         LET valid == validateResults(results)
             attempted == {i \in due[w] : valid => results[i] # "unattempted"}
             failing == {i \in due[w] : results[i] = "failed"} IN
         /\ tried' = [i \in Items |-> tried[i] + IF i \in attempted THEN 1 ELSE 0]
         /\ outcome' = [i \in Items |->
              CASE i \notin due[w] -> outcome[i]
                [] i \in due[w] /\ (~valid \/ results[i] = "failed") -> "failed"
                [] i \in due[w] /\ valid /\ results[i] = "succeeded" -> "succeeded"
                [] OTHER -> "abandoned"]
         /\ unclassified' = [unclassified EXCEPT ![w] = IF valid THEN failing ELSE {}]
         /\ account' = [account EXCEPT !.failures = @ \/ ~valid]
         /\ IF valid THEN Go(w, "settle") /\ UNCHANGED ret
                     ELSE callAbort(w, "settle")
    /\ UNCHANGED <<config, queue, closed, life, pushed, held, due, terminal>>

\* One failed position: retried while the policy and maxAttempts allow it, an
\* abort on a negative delay and in the failure mode Abort.
classifyFailure(w) ==
    /\ pc[w] = "settle"
    /\ \E i \in unclassified[w], delay \in {"negative", "retry", "stop"} :
         LET asks == tried[i] < config.maxAttempts
             final == ~asks \/ delay # "retry" IN
         /\ asks \/ delay = "stop"
         /\ unclassified' = [unclassified EXCEPT ![w] = @ \ {i}]
         /\ outcome' = [outcome EXCEPT ![i] = IF final THEN @ ELSE "pending"]
         /\ account' = [account EXCEPT !.failures = @ \/ final]
         /\ IF final /\ (delay = "negative" \/ config.abortMode)
            THEN callAbort(w, "settle")
            ELSE UNCHANGED <<pc, ret>>
    /\ UNCHANGED <<config, queue, closed, life, pushed, held, due, tried, terminal>>

\* abandonHeld: every held item is to be finalized as abandoned.
abandonHeld(w) ==
    /\ pc[w] = "abandon" /\ awaitAbortPublication
    /\ outcome' = [i \in Items |-> IF i \in held[w] THEN "abandoned" ELSE outcome[i]]
    /\ due' = [due EXCEPT ![w] = held[w]]
    /\ Go(w, "settle")
    /\ UNCHANGED <<config, queue, closed, life, account, ret, pushed, held,
                   unclassified, tried, terminal>>

-----------------------------------------------------------------------------
(* Finalization, by a worker or by the cleanup after an abort. *)

Final(p) == {i \in due[p] : outcome[i] # "pending"}

\* publish(delta) of the finalized items, which p no longer owns.
publish(p, items) ==
    LET Of(state) == Cardinality({i \in items : outcome[i] = state}) IN
    /\ account' = [account EXCEPT !.succeeded = @ + Of("succeeded"),
                                  !.failed = @ + Of("failed"),
                                  !.abandoned = @ + Of("abandoned"),
                                  !.attempts = @ + MapThenSumSet(LAMBDA i : tried[i], items)]
    /\ terminal' = [i \in Items |-> terminal[i] + IF i \in items THEN 1 ELSE 0]
    /\ held' = [held EXCEPT ![p] = @ \ items]
    /\ due' = [due EXCEPT ![p] = @ \ items]

\* waitForRetry's first check.
waitForRetry == IF life.abortRecord # None THEN "abandon" ELSE "timer"

\* Where p goes once it has finalized what was due.
Onward(p, rest) ==
    CASE p = Coordinator -> "cleanup"
      [] p # Coordinator /\ rest # {} -> waitForRetry
      [] OTHER -> "loop"

\* Every position is classified.  Without a callback all that is final is
\* published at once; with one, each item is published and given to OnTerminal.
finalizeBatch(p) ==
    /\ pc[p] = "settle" /\ unclassified[p] = {}
    /\ awaitAbortPublication \/ (config.callbacks /\ Final(p) = {})
    /\ IF config.callbacks /\ Final(p) # {}
       THEN (\E i \in Final(p) : publish(p, {i})) /\ Go(p, "callback")
       ELSE publish(p, Final(p)) /\ Go(p, Onward(p, held[p] \ Final(p)))
    /\ UNCHANGED <<config, queue, closed, life, ret, pushed, unclassified, outcome, tried>>

OnTerminal(p) ==
    /\ pc[p] = "callback"
    /\ \/ Go(p, "settle") /\ UNCHANGED <<account, ret>>
       \/ account' = [account EXCEPT !.failures = TRUE] /\ callAbort(p, "settle")
    /\ UNCHANGED <<config, queue, closed, life, pushed, work>>

\* The select on the timer and the context; whatever is due by then is handled.
retryTimer(w) ==
    /\ pc[w] = "timer"
    /\ \/ life.cancelled /\ Go(w, "abandon") /\ UNCHANGED due
       \/ /\ \E items \in SUBSET held[w] \ {{}} : due' = [due EXCEPT ![w] = items]
          /\ Go(w, processHeldBatch)
    /\ UNCHANGED <<config, queue, closed, life, account, ret, pushed, held,
                   unclassified, outcome, tried, terminal>>

Works(w) ==
    \/ runWorker(w) \/ receive(w) \/ receiveWait(w) \/ handleReceiveError(w)
    \/ invokeHeld(w) \/ classifyFailure(w) \/ abandonHeld(w) \/ retryTimer(w)

Finalizes(p) == finalizeBatch(p) \/ OnTerminal(p)

-----------------------------------------------------------------------------
(* The coordinator. *)

At(label) == pc[Coordinator] = label

coordinate ==
    /\ At("coordinate") /\ life.admissionsDone
    /\ Go(Coordinator, "drain")
    /\ UNCHANGED <<config, queue, closed, life, account, ret, pushed, work>>

\* Without an abort the queue is closed, and the workers drain it.
drain ==
    /\ At("drain") /\ awaitAbortPublication
    /\ closed' = (closed \/ life.abortRecord = None)
    /\ Go(Coordinator, "join")
    /\ UNCHANGED <<config, queue, life, account, ret, pushed, work>>

\* All workers have returned; a second Close is one of an open queue after an
\* abort.
finishWorkers ==
    /\ At("join") /\ \A w \in Workers : pc[w] = "exited"
    /\ awaitAbortPublication
    /\ closed' = TRUE
    /\ Go(Coordinator, "finished")
    /\ UNCHANGED <<config, queue, life, account, ret, pushed, work>>

checkAbortCause ==
    /\ At("finished") /\ awaitAbortPublication
    /\ Go(Coordinator, IF life.abortRecord = None THEN "complete" ELSE "cleanup")
    /\ UNCHANGED <<config, queue, closed, life, account, ret, pushed, work>>

cleanupQueued ==
    /\ At("cleanup")
    /\ IF queue # <<>>
       THEN /\ Take(Coordinator)
            /\ outcome' = [i \in Items |->
                             IF i \in due'[Coordinator] THEN "abandoned" ELSE outcome[i]]
            /\ Go(Coordinator, "settle")
       ELSE Go(Coordinator, "complete") /\ UNCHANGED <<queue, held, due, outcome>>
    /\ UNCHANGED <<config, closed, life, account, ret, pushed, unclassified, tried, terminal>>

\* publishCompletion cancels the context and reads the accounting ...
snapshot ==
    /\ At("complete")
    /\ life' = [life EXCEPT !.cancelled = TRUE, !.snapshot = account.failures]
    /\ Go(Coordinator, "publish")
    /\ UNCHANGED <<config, queue, closed, account, ret, pushed, work>>

\* What Wait returns: the recorded failures, or the cause of the abort.
aggregateFailures(failures, cause) == IF failures THEN "failures" ELSE cause

\* ... and fixes the outcome once no abort is between its commit and its
\* publication.
publishCompletion ==
    /\ At("publish") /\ awaitAbortPublication
    /\ life' = [life EXCEPT !.done = TRUE, !.panicked = @ \/ life.done,
                            !.finalErr = aggregateFailures(life.snapshot, life.abortRecord)]
    /\ Go(Coordinator, "exited")
    /\ UNCHANGED <<config, queue, closed, account, ret, pushed, work>>

Coordinates ==
    \/ coordinate \/ drain \/ finishWorkers \/ checkAbortCause
    \/ cleanupQueued \/ snapshot \/ publishCompletion

-----------------------------------------------------------------------------
\* What a goroutine does by itself once it runs; the application's functions
\* and the timers return.
Runs(p) ==
    \/ Aborts(p)
    \/ p \in Submitters /\ Submits(p)
    \/ p \in Workers /\ (Works(p) \/ Finalizes(p))
    \/ p \in Owners /\ Wait(p)
    \/ p = Coordinator /\ (Coordinates \/ Finalizes(p))

\* A panic of any goroutine ends the program.
Next ==
    /\ ~life.panicked
    /\ \/ \E p \in Procs : Runs(p)
       \/ \E o \in Owners : Shutdown(o) \/ Abort(o) \/ graceEnds(o)
       \/ \E s \in Submitters : registerSubmission(s) \/ submitNothing(s) \/ pushCanceled(s)

Spec == Init /\ [][Next]_vars

Fairness == \A p \in Procs : WF_vars(~life.panicked /\ Runs(p))

FairSpec == Spec /\ Fairness

-----------------------------------------------------------------------------
Accepted == UNION {Range(SubSeq(Batch[s], 1, pushed[s])) : s \in Submitters}

(* "At completion Accepted equals Succeeded + Failed + Abandoned": once Done  *)
(* is closed every item that PushBatch moved was finalized exactly once, no   *)
(* other item was, and the counters say so, attempts included, although       *)
(* accepted items are counted only after workers may have finished them.     *)
Reconciled ==
    life.done =>
      /\ \A i \in Items : terminal[i] = IF i \in Accepted THEN 1 ELSE 0
      /\ account.accepted = Cardinality(Accepted)
      /\ account.accepted = account.succeeded + account.failed + account.abandoned
      /\ account.attempts = MapThenSumSet(LAMBDA i : tried[i], Items)

(* "Requests after completion have no effect", and one that comes before it   *)
(* is part of the outcome: what Wait returns is for ever what the recorded    *)
(* failures and the first cause say, and that abort was published.            *)
OutcomeFinal ==
    life.done =>
      /\ life.finalErr = aggregateFailures(account.failures, life.abortRecord)
      /\ (life.abortRecord # None => life.aborting) /\ life.stopped /\ life.active = 0

(* No item is given up before the abort is public: an item is finalized as    *)
(* abandoned, by a worker that held it, by its handler's answer or by the     *)
(* cleanup, only after Aborting was closed.                                   *)
AbandonedAfterAborting ==
    \A i \in Items : terminal[i] > 0 /\ outcome[i] = "abandoned" => life.aborting

(* Once the gate is closed, by StopAdmission or by any abort, Done closes:    *)
(* submissions blocked on a full queue are released, retries end, no          *)
(* goroutine waits for a channel that nobody closes, and none is closed       *)
(* twice, which would end the program.                                        *)
StopCompletes == life.stopped ~> life.done
=============================================================================
