------------------------------ MODULE Durable ------------------------------
(***************************************************************************)
(* workq/durable: callers hand commands to one coordinator, which commits  *)
(* them in groups, dispatches pending work to receivers, and may fail, be  *)
(* aborted or crash between any two steps.  A step is one critical section *)
(* of Queue.mu, or one transaction: only the coordinator uses the          *)
(* connection, so nobody sees the inside of a transaction, and a read from *)
(* the store is part of the critical section that follows it.              *)
(*                                                                         *)
(* disk is the sequence of committed stores a system crash may leave: its  *)
(* last element is what the process sees, its first what is surely on      *)
(* disk.  Retained bytes are counted in units of 128.                      *)
(***************************************************************************)
EXTENDS DurableStore, TLC

CONSTANTS Callers,   \* goroutines that call the Queue
          Configs    \* the constructions and workloads: see Init

VARIABLES config,         \* the chosen member of Configs
          disk,
          q,              \* the fields of Queue guarded by mu, and the epoch
          slots,          \* the commands of the two admission pools
          claims, deliveryQueue,
          coord,          \* where the coordinator is, and its group
          call,           \* the slot each caller holds, or None
          left,           \* calls the workload may still begin
          delivered,      \* tokens handed to the application, of any session
          fenced          \* tokens released, or of an earlier session

vars == <<config, disk, q, slots, claims, deliveryQueue, coord, call, left, delivered, fenced>>

db == Last(disk)

Pools == {"ordinary", "progress"}

Slots == {s \in Pools \X (1..2) : s[2] <= config.commands[s[1]]}

Free == [used |-> FALSE]

Closed ==
    [open |-> FALSE, epoch |-> 0, closing |-> FALSE, aborting |-> FALSE,
     maintenance |-> FALSE, admissionStopped |-> FALSE, deliveryStopped |-> FALSE,
     deliveryClosed |-> FALSE, deliveryDirty |-> FALSE, scanWrapped |-> FALSE, scanOrder |-> 0,
     pending |-> 0, lastAttempt |-> 0, lastSequence |-> 0, commandTurns |-> 0,
     deliveryRetained |-> 0, retained |-> [p \in Pools |-> 0], drained |-> FALSE]

Resting == [pc |-> "loop", rows |-> 0, index |-> 0, id |-> None, group |-> <<>>,
            answers |-> <<>>, store |-> None, err |-> None]

Init ==
    /\ config \in Configs
    /\ disk = <<EmptyStore>>
    /\ q = Closed
    /\ slots = [s \in Slots |-> Free]
    /\ claims = [i \in 1..config.deliveryItems |-> Free]
    /\ deliveryQueue = <<>>
    /\ coord = Resting
    /\ call = [c \in Callers |-> None]
    /\ left = config.calls
    /\ delivered = {}
    /\ fenced = {}

\* What a COMMIT leaves: durable at once, or only by the next synchronization.
Committed(before, d) == IF config.durability = "Synchronized" THEN <<d>> ELSE Append(before, d)

\* beforeWrite checkpoints a log that has grown; whether it had to is left open.
Checkpointed == {disk, <<db>>}

-----------------------------------------------------------------------------
(* Lifecycle *)

\* cutoffLocked and faultLocked, as functions of q.
cutoffLocked(r) ==
    [r EXCEPT !.deliveryStopped = TRUE, !.closing = TRUE, !.admissionStopped = TRUE]

faultLocked(r) == [cutoffLocked(r) EXCEPT !.aborting = TRUE]

enterMaintenanceLocked(r) == [r EXCEPT !.maintenance = TRUE, !.deliveryStopped = TRUE]

\* Variant: the new epoch is used but not written.
writeEpochInMemory(d) == d

\* The fencing transaction, always synchronized.
writeEpoch(d) == [d EXCEPT !.epoch = @ + 1]

\* Open: the store is validated and fenced before the coordinator starts, whose
\* first sample of the storage may fail or find the log too large.
Open ==
    /\ ~q.open /\ db.epoch < config.sessions
    /\ \A c \in Callers : call[c] = None
    /\ validateLogicalState(db)
    /\ disk' = <<writeEpoch(db)>>
    /\ fenced' = delivered
    /\ LET opened == [Closed EXCEPT !.open = TRUE, !.epoch = db.epoch + 1,
                                    !.deliveryDirty = TRUE, !.pending = db.counts.pending] IN
       \/ q' \in {Closed, opened}     \* Closed: a failure or a cancellation after the commit
       \/ config.faults /\ q' \in {faultLocked(opened), enterMaintenanceLocked(opened)}
    /\ slots' = [s \in Slots |-> Free]
    /\ UNCHANGED <<config, claims, deliveryQueue, coord, call, left, delivered>>

StopAdmission ==
    /\ q.open /\ "StopAdmission" \in config.stops
    /\ q' = [q EXCEPT !.admissionStopped = TRUE]
    /\ UNCHANGED <<config, disk, slots, claims, deliveryQueue, coord, call, left, delivered, fenced>>

StopDelivery ==
    /\ q.open /\ "StopDelivery" \in config.stops
    /\ q' = [q EXCEPT !.deliveryStopped = TRUE]
    /\ UNCHANGED <<config, disk, slots, claims, deliveryQueue, coord, call, left, delivered, fenced>>

Close ==
    /\ q.open /\ "Close" \in config.stops
    /\ q' = cutoffLocked(q)
    /\ UNCHANGED <<config, disk, slots, claims, deliveryQueue, coord, call, left, delivered, fenced>>

Abort ==
    /\ q.open /\ "Abort" \in config.stops
    /\ q' = faultLocked(q)
    /\ UNCHANGED <<config, disk, slots, claims, deliveryQueue, coord, call, left, delivered, fenced>>

\* The process dies at any moment and takes all but the disk; when the whole
\* system does, commits that were not synchronized may be lost, the last first.
crash ==
    /\ config.crashes
    /\ q.open \/ Len(disk) > 1
    /\ \E k \in DOMAIN disk : disk' = SubSeq(disk, 1, k)
    /\ q' = Closed
    /\ slots' = [s \in Slots |-> Free]
    /\ claims' = [i \in DOMAIN claims |-> Free]
    /\ deliveryQueue' = <<>>
    /\ coord' = Resting
    /\ call' = [c \in Callers |-> None]
    /\ UNCHANGED <<config, left, delivered, fenced>>

-----------------------------------------------------------------------------
(* Admission *)

gateLocked(submit) == q.closing \/ (submit /\ q.admissionStopped)

PoolOf(kind) == IF kind \in {"submit", "lookup"} THEN "ordinary" ELSE "progress"

\* The commands the application may issue now.
Command(kind, input, items) == [kind |-> kind, input |-> input, charge |-> 2 + items]

Commands ==
    {Command("submit", b, Len(b)) : b \in config.batches}
    \cup {Command("lookup", i, 1) : i \in config.lookups}
    \cup {Command("retire", i, 1) : i \in config.retirements}
    \cup (IF config.acks THEN {Command("ack", T, Cardinality(T)) : T \in kSubset(1, delivered)
                                                                   \cup kSubset(2, delivered)}
                         ELSE {})
    \cup (IF config.releases THEN {Command("release", t, 1) : t \in delivered} ELSE {})

\* reserve: the first free slot of the pool, within the retained budget.  A caller
\* that must wait, or that is refused, holds nothing.
reserve(c) ==
    /\ q.open /\ call[c] = None /\ left > 0
    /\ \E cmd \in Commands :
         LET pool == PoolOf(cmd.kind)
             free == {s \in Slots : s[1] = pool /\ ~slots[s].used} IN
         /\ ~gateLocked(cmd.kind = "submit")
         /\ q.retained[pool] <= config.retained[pool] - cmd.charge
         /\ free # {}
         /\ LET s == CHOOSE x \in free : \A y \in free : x[2] <= y[2] IN
            /\ slots' = [slots EXCEPT ![s] =
                 [used |-> TRUE, kind |-> cmd.kind, input |-> cmd.input, charge |-> cmd.charge,
                  handed |-> FALSE, finished |-> FALSE, abandoned |-> FALSE, sequence |-> 0,
                  result |-> None, committed |-> FALSE, refused |-> None]]
            /\ call' = [call EXCEPT ![c] = s]
         /\ q' = [q EXCEPT !.retained[pool] = @ + cmd.charge]
    /\ left' = left - 1
    /\ UNCHANGED <<config, disk, claims, deliveryQueue, coord, delivered, fenced>>

\* clearLocked, for the slots of S.
Cleared(S) == [s \in Slots |-> IF s \in S THEN Free ELSE slots[s]]

Unretained(r, S) ==
    [r EXCEPT !.retained = [p \in Pools |->
        @[p] - MapThenSumSet(LAMBDA s : slots[s].charge, {s \in S : s[1] = p})]]

\* handoff, and what its caller does when it is refused.
handoff(c) ==
    /\ call[c] # None /\ ~slots[call[c]].handed
    /\ LET s == call[c] IN
       \/ /\ q.open /\ ~gateLocked(slots[s].kind = "submit")
          /\ slots' = [slots EXCEPT ![s].handed = TRUE, ![s].sequence = q.lastSequence + 1]
          /\ q' = [q EXCEPT !.lastSequence = @ + 1]
          /\ UNCHANGED call
       \/ /\ \/ ~q.open \/ gateLocked(slots[s].kind = "submit")
             \/ config.cancels /\ slots[s].kind # "release"
          /\ slots' = Cleared({s})
          /\ q' = Unretained(q, {s})
          /\ call' = [call EXCEPT ![c] = None]
    /\ UNCHANGED <<config, disk, claims, deliveryQueue, coord, left, delivered, fenced>>

Answer(decision, err) == [decision |-> decision, err |-> err, status |-> None]

\* A caller takes its answer, or gives up: it is told Unknown, which the slot
\* keeps as a history.
await(c) ==
    /\ call[c] # None /\ slots[call[c]].handed
    /\ LET s == call[c] IN
       \/ /\ slots[s].finished
          /\ slots' = Cleared({s})
          /\ q' = Unretained(q, {s})
       \/ /\ ~slots[s].finished /\ config.cancels /\ slots[s].kind # "release"
          /\ slots' = [slots EXCEPT ![s].abandoned = TRUE,
                                    ![s].result = Answer("Unknown", "canceled")]
          /\ UNCHANGED q
    /\ call' = [call EXCEPT ![c] = None]
    /\ UNCHANGED <<config, disk, claims, deliveryQueue, coord, left, delivered, fenced>>

\* Variant: the slot of a caller that gave up stays taken.
finishLockedAlways(results) ==
    [s \in Slots |->
        IF s \in DOMAIN results THEN [slots[s] EXCEPT !.finished = TRUE, !.result = results[s]]
                                ELSE slots[s]]

\* finishLocked, for every slot with a result: the slot of a caller that gave up
\* is freed here, any other one by its caller.
finishLocked(results) ==
    [s \in Slots |->
        CASE s \notin DOMAIN results -> slots[s]
          [] s \in DOMAIN results /\ slots[s].abandoned -> Free
          [] OTHER -> [slots[s] EXCEPT !.finished = TRUE, !.result = results[s]]]

Abandoned(S) == {s \in S : slots[s].abandoned}

-----------------------------------------------------------------------------
(* Receivers *)

\* Variant: submissions that are still being executed are not looked at.
drainedByCount == q.admissionStopped /\ q.pending = 0

drainedLocked ==
    /\ q.admissionStopped /\ q.pending = 0
    /\ \A s \in Slots : slots[s].used /\ slots[s].kind = "submit" /\ slots[s].handed
                        => slots[s].finished

\* Receive acquires up to limit published claims, or learns that the store is
\* drained; with neither it waits, and a stopped delivery refuses it.
Receive ==
    /\ q.open /\ ~q.deliveryStopped
    /\ \/ \E limit \in 1..config.receiveItems :
            LET taken == SubSeq(deliveryQueue, 1, limit)
                got == {taken[k] : k \in DOMAIN taken} IN
            /\ limit <= Len(deliveryQueue)
            /\ deliveryQueue' = SubSeq(deliveryQueue, limit + 1, Len(deliveryQueue))
            /\ claims' = [i \in DOMAIN claims |->
                            IF i \in got THEN [claims[i] EXCEPT !.acquired = TRUE] ELSE claims[i]]
            /\ delivered' = delivered \cup {claims[i].token : i \in got}
            /\ UNCHANGED q
       \/ /\ deliveryQueue = <<>> /\ drainedLocked
          /\ q' = [q EXCEPT !.drained = TRUE]
          /\ UNCHANGED <<deliveryQueue, claims, delivered>>
    /\ UNCHANGED <<config, disk, slots, coord, call, left, fenced>>

-----------------------------------------------------------------------------
(* The coordinator's dispatch *)

Used == {i \in DOMAIN claims : claims[i].used}

\* clearClaimLocked, for the claims of S.
ClearedClaims(S) == [i \in DOMAIN claims |-> IF i \in S THEN Free ELSE claims[i]]

Undelivered(r, S) == [r EXCEPT !.deliveryRetained = @ - Cardinality(S \cap Used)]

Dispatching == q.deliveryDirty /\ ~q.deliveryStopped

beginDispatch ==
    /\ q.open /\ coord.pc = "loop" /\ Dispatching
    /\ coord' = [coord EXCEPT !.pc = "dispatch", !.rows = config.scanRows]
    /\ UNCHANGED <<config, disk, q, slots, claims, deliveryQueue, call, left, delivered, fenced>>

\* nextDeliveryID: pending work after the scan position, in acceptance order.
Beyond == {i \in Pending(db) : db.receipts[i].order > q.scanOrder}

nextDeliveryID == CHOOSE i \in Beyond :
                    \A j \in Beyond : db.receipts[i].order <= db.receipts[j].order

claimLocked(id) == \E i \in Used : claims[i].token.id = id

LeaveDispatch == [coord EXCEPT !.pc = "turn", !.rows = 0, !.index = 0, !.id = None]

NextRow == IF coord.rows = 0 THEN LeaveDispatch
           ELSE [coord EXCEPT !.pc = "dispatch", !.index = 0, !.id = None]

\* A row of the scan: the first free claim is chosen, ...
dispatch ==
    /\ coord.pc = "dispatch"
    /\ LET free == DOMAIN claims \ Used IN
       \/ /\ q.deliveryStopped
          /\ coord' = LeaveDispatch
          /\ UNCHANGED q
       \/ /\ ~q.deliveryStopped /\ free = {}
          /\ q' = [q EXCEPT !.deliveryDirty = FALSE, !.scanWrapped = FALSE]
          /\ coord' = LeaveDispatch
       \/ /\ ~q.deliveryStopped /\ free # {}
          /\ coord' = [coord EXCEPT !.pc = "scan", !.index = Min(free), !.rows = @ - 1]
          /\ UNCHANGED q
    /\ UNCHANGED <<config, disk, slots, claims, deliveryQueue, call, left, delivered, fenced>>

\* ... then the work for it.  A query that fails is a fault.
nextDelivery ==
    /\ coord.pc = "scan"
    /\ LET id == nextDeliveryID IN
       \/ /\ config.faults
          /\ q' = faultLocked(q)
          /\ coord' = LeaveDispatch
       \/ /\ Beyond = {}
          /\ q' = [q EXCEPT !.scanOrder = 0, !.deliveryDirty = ~q.scanWrapped,
                            !.scanWrapped = ~q.scanWrapped]
          /\ coord' = LeaveDispatch
       \/ /\ Beyond # {}
          /\ q' = [q EXCEPT !.scanOrder = db.receipts[id].order]
          /\ coord' = IF claimLocked(id) THEN NextRow
                      ELSE [coord EXCEPT !.pc = "load", !.id = id]
    /\ UNCHANGED <<config, disk, slots, claims, deliveryQueue, call, left, delivered, fenced>>

\* loadDelivery up to the claim, which is not yet published: delivery may have
\* stopped since the slot was chosen, and the budget may be used up.
loadDelivery ==
    /\ coord.pc = "load"
    /\ LET token == [epoch |-> q.epoch, id |-> coord.id, attempt |-> q.lastAttempt + 1]
           room == q.deliveryRetained < config.deliveryRetained IN
       \/ /\ config.faults
          /\ q' = faultLocked(q)
          /\ coord' = LeaveDispatch
          /\ UNCHANGED claims
       \/ /\ q.deliveryStopped \/ ~room
          /\ coord' = NextRow
          /\ UNCHANGED <<q, claims>>
       \/ /\ ~q.deliveryStopped /\ room
          /\ q' = [q EXCEPT !.lastAttempt = @ + 1, !.deliveryRetained = @ + 1]
          /\ claims' = [claims EXCEPT ![coord.index] = [used |-> TRUE, acquired |-> FALSE,
                                                       token |-> token]]
          /\ coord' = [coord EXCEPT !.pc = "publish", !.id = None]
    /\ UNCHANGED <<config, disk, slots, deliveryQueue, call, left, delivered, fenced>>

\* readDelivery and the publication of the claim, unless delivery has stopped
\* meanwhile; a read that fails is a fault.
publishDelivery ==
    /\ coord.pc = "publish"
    /\ \/ /\ ~q.deliveryStopped
          /\ deliveryQueue' = Append(deliveryQueue, coord.index)
          /\ coord' = NextRow
          /\ UNCHANGED <<q, claims>>
       \/ /\ q.deliveryStopped
          /\ claims' = ClearedClaims({coord.index})
          /\ q' = Undelivered(q, {coord.index})
          /\ coord' = NextRow
          /\ UNCHANGED deliveryQueue
       \/ /\ config.faults
          /\ claims' = ClearedClaims({coord.index})
          /\ q' = faultLocked(Undelivered(q, {coord.index}))
          /\ coord' = LeaveDispatch
          /\ UNCHANGED deliveryQueue
    /\ UNCHANGED <<config, disk, slots, call, left, delivered, fenced>>

\* closeDeliveryLocked: claims that nobody acquired are given back.
Published == {deliveryQueue[k] : k \in DOMAIN deliveryQueue}

AtTurn == q.open /\ (coord.pc = "turn" \/ (coord.pc = "loop" /\ ~Dispatching))

closeDeliveryLocked ==
    /\ AtTurn /\ q.deliveryStopped /\ ~q.deliveryClosed
    /\ q' = [Undelivered(q, Published) EXCEPT !.deliveryClosed = TRUE]
    /\ claims' = ClearedClaims(Published)
    /\ deliveryQueue' = <<>>
    /\ coord' = [coord EXCEPT !.pc = "turn"]
    /\ UNCHANGED <<config, disk, slots, call, left, delivered, fenced>>

-----------------------------------------------------------------------------
(* The coordinator's turn: a cleanup, a group, a command, or the end *)

Turn == AtTurn /\ (q.deliveryStopped => q.deliveryClosed)

Before(a, b) == slots[a].sequence < slots[b].sequence

\* nextLocked and nextAfterLocked: the commands handed over, in that order.
Ready == SetToSortSeq({s \in Slots : slots[s].used /\ slots[s].handed /\ ~slots[s].finished},
                      Before)

cleanupDue ==
    /\ db.counts.markers > 0
    /\ Ready = <<>> \/ q.commandTurns >= config.maxCommandTurns
    /\ ~q.aborting /\ ~q.closing /\ ~q.maintenance

cleanupTurn ==
    /\ Turn /\ cleanupDue
    /\ LET next == deleteRetiredReceipts(db, config.cleanupRows)
           rested == [q EXCEPT !.commandTurns = 0] IN
       \E before \in Checkpointed :
         \/ disk' = Committed(before, next) /\ q' = rested
         \/ /\ config.faults /\ disk' \in {before, Committed(before, next)}
            /\ q' \in {faultLocked(rested), enterMaintenanceLocked(rested)}
    /\ coord' = [coord EXCEPT !.pc = "loop"]
    /\ UNCHANGED <<config, slots, claims, deliveryQueue, call, left, delivered, fenced>>

\* Nothing to do: dispatch some more, or wait.
again ==
    /\ Turn /\ ~cleanupDue /\ Ready = <<>> /\ ~q.closing /\ coord.pc = "turn" /\ Dispatching
    /\ coord' = [coord EXCEPT !.pc = "loop"]
    /\ UNCHANGED <<config, disk, q, slots, claims, deliveryQueue, call, left, delivered, fenced>>

\* The ticker of a healthy, waiting coordinator.
idleCheckpoint ==
    /\ Turn /\ ~cleanupDue /\ Ready = <<>> /\ ~q.closing /\ ~Dispatching /\ ~q.maintenance
    /\ disk' \in Checkpointed
    /\ \/ UNCHANGED q
       \/ config.faults /\ q' \in {faultLocked(q), enterMaintenanceLocked(q)}
    /\ UNCHANGED <<config, slots, claims, deliveryQueue, coord, call, left, delivered, fenced>>

mutation(s) == slots[s].kind \in {"submit", "ack", "retire"}

\* command.work: the operations of a command, which its charge counts too.
Operations(group) == FoldLeft(LAMBDA n, s : n + slots[s].charge - 2, 0, group)

Groups ==
    {n \in 1..Min({Len(Ready), config.groupCommands}) :
       LET group == SubSeq(Ready, 1, n) IN
       /\ \A k \in 1..n : mutation(group[k])
       /\ n > 1 => Operations(group) <= config.groupOperations}

\* collectGroupLocked: with a delay, the timer may end the collection early.
collectGroupLocked ==
    /\ Turn /\ ~cleanupDue /\ Ready # <<>> /\ mutation(Head(Ready))
    /\ ~q.aborting /\ ~q.maintenance
    /\ \E n \in Groups :
         /\ config.maxDelay \/ n = Max(Groups)
         /\ coord' = [coord EXCEPT !.pc = "execute", !.group = SubSeq(Ready, 1, n)]
    /\ UNCHANGED <<config, disk, q, slots, claims, deliveryQueue, call, left, delivered, fenced>>

applyCommand(d, s) ==
    LET cmd == slots[s]
        current == {claims[i].token : i \in {j \in Used : claims[j].acquired}} IN
    CASE cmd.kind = "submit" -> applySubmit(d, cmd.input)
      [] cmd.kind = "retire" -> applyRetirement(d, cmd.input[1], cmd.input[2])
      [] OTHER -> applyAck(d, cmd.input, q.epoch, current)

\* The transaction after the first n commands of the group.
Applying(n) ==
    FoldLeft(LAMBDA tx, s :
               LET done == applyCommand(tx.store, s) IN
               [store |-> done.store,
                answers |-> Append(tx.answers,
                              IF done.err = None THEN Answer("Applied", None)
                                                 ELSE Answer("NotApplied", done.err))],
             [store |-> db, answers |-> <<>>], SubSeq(coord.group, 1, n))

\* commandGroup.fail: a rejection by validation stands, and what was not attempted
\* was not applied.
fail(answers, attempted, decision, err) ==
    [k \in DOMAIN coord.group |->
        CASE k > attempted -> Answer("NotApplied", err)
          [] k <= attempted /\ k \in DOMAIN answers /\ answers[k].err # None -> answers[k]
          [] OTHER -> Answer(decision, err)]

Settle(answers, err) ==
    coord' = [coord EXCEPT !.pc = "settle", !.answers = answers, !.err = err]

\* History: the commands that validation has rejected in this transaction.
Rejected(answers) ==
    [s \in Slots |->
        LET mine == {k \in DOMAIN answers : coord.group[k] = s /\ answers[k].err # None} IN
        IF mine = {} THEN slots[s] ELSE [slots[s] EXCEPT !.refused = answers[Min(mine)].err]]

\* executeGroup up to its COMMIT: beforeWrite, which may checkpoint, BEGIN, every
\* command, and the metadata.  Storage may fail at any of them, and the rollback too.
executeGroup ==
    /\ coord.pc = "execute"
    /\ LET all == Len(coord.group) IN
       \/ /\ q.aborting
          /\ Settle(fail(<<>>, 0, "NotApplied", "stopped"), "stopped")
          /\ UNCHANGED <<q, slots>>
       \/ /\ ~q.aborting
          /\ LET tx == Applying(all) IN
             /\ coord' = [coord EXCEPT !.pc = "commit", !.store = tx.store,
                                       !.answers = tx.answers]
             /\ slots' = Rejected(tx.answers)
          /\ UNCHANGED q
       \/ /\ ~q.aborting /\ config.faults
          /\ Settle(fail(<<>>, 0, "NotApplied", "maintenance"), "maintenance")
          /\ q' = enterMaintenanceLocked(q)
          /\ UNCHANGED slots
       \/ /\ ~q.aborting /\ config.faults
          /\ \E k \in 0..all + 1, decision \in {"NotApplied", "Unknown"} :
               LET answers == Applying(Max({k - 1, 0})).answers IN
               /\ Settle(fail(answers, k, decision, "storage"), "storage")
               /\ slots' = Rejected(answers)
          /\ UNCHANGED q
    /\ disk' \in Checkpointed
    /\ UNCHANGED <<config, claims, deliveryQueue, call, left, delivered, fenced>>

\* History: the effects of the group's accepted commands are in the store.
Marked ==
    [s \in Slots |->
        IF \E k \in DOMAIN coord.group : coord.group[k] = s /\ coord.answers[k].err = None
        THEN [slots[s] EXCEPT !.committed = TRUE] ELSE slots[s]]

\* Variant: a COMMIT that fails is taken to have had no effect.
commitFailureAnswers == fail(coord.answers, Len(coord.group), "NotApplied", "storage")

commitFailed == fail(coord.answers, Len(coord.group), "Unknown", "storage")

\* COMMIT, which may take effect and still fail.
commit ==
    /\ coord.pc = "commit"
    /\ \/ /\ disk' = Committed(disk, coord.store)
          /\ slots' = Marked
          /\ coord' = [coord EXCEPT !.pc = "settle", !.store = None]
       \/ /\ config.faults
          /\ coord' = [coord EXCEPT !.pc = "settle", !.store = None, !.err = "storage",
                                    !.answers = commitFailed]
          /\ \/ disk' = Committed(disk, coord.store) /\ slots' = Marked
             \/ UNCHANGED <<disk, slots>>
    /\ UNCHANGED <<config, q, claims, deliveryQueue, call, left, delivered, fenced>>

\* After the COMMIT: acknowledged claims are cleared, every command of the group
\* is finished, and a failure stops the queue.  The sample of the storage between
\* the two sections of the lock may fail by itself; they are one step here, since
\* only the coordinator touches an acquired claim or the pending count.
settle ==
    /\ coord.pc = "settle"
    /\ LET group == coord.group
           Of(s) == CHOOSE k \in DOMAIN group : group[k] = s
           results == [s \in {group[k] : k \in DOMAIN group} |-> coord.answers[Of(s)]]
           acked == UNION {slots[group[k]].input : k \in {j \in DOMAIN group :
                       slots[group[j]].kind = "ack" /\ coord.answers[j].err = None}}
           ended == {i \in Used : claims[i].acquired /\ claims[i].token \in acked}
           freed == Abandoned(DOMAIN results)
           r == [Undelivered(Unretained(q, freed), ended) EXCEPT
                   !.commandTurns = Min({@ + 1, config.maxCommandTurns}),
                   !.pending = IF coord.err = None THEN db.counts.pending ELSE @]
           woken == IF \E s \in DOMAIN results : results[s].err = None
                    THEN [r EXCEPT !.deliveryDirty = TRUE, !.scanWrapped = FALSE] ELSE r IN
       /\ slots' = finishLocked(results)
       /\ claims' = ClearedClaims(ended)
       /\ \/ coord.err \in {None, "maintenance"} /\ q' = woken
          \/ coord.err \notin {None, "maintenance"} /\ q' = faultLocked(woken)
          \/ /\ coord.err = None /\ config.faults
             /\ q' \in {faultLocked(woken), enterMaintenanceLocked(woken)}
    /\ coord' = Resting
    /\ UNCHANGED <<config, disk, deliveryQueue, call, left, delivered, fenced>>

\* A command that is no group: rejected, a release, or a lookup.
executeOne ==
    /\ Turn /\ ~cleanupDue /\ Ready # <<>>
    /\ LET s == Head(Ready)
           rested == [Unretained(q, Abandoned({s})) EXCEPT
                        !.commandTurns = Min({@ + 1, config.maxCommandTurns})]
           Finish(result) == slots' = finishLocked(s :> result)
           held == {i \in Used : claims[i].acquired /\ claims[i].token = slots[s].input} IN
       \/ /\ q.aborting \/ (q.maintenance /\ mutation(s))
          /\ Finish(Answer("NotApplied", "stopped"))
          /\ q' = rested
          /\ UNCHANGED <<claims, fenced>>
       \/ /\ ~q.aborting /\ slots[s].kind = "release" /\ held = {}
          /\ Finish(Answer("NotApplied", "stale"))
          /\ q' = rested
          /\ UNCHANGED <<claims, fenced>>
       \/ /\ ~q.aborting /\ slots[s].kind = "release" /\ held # {}
          /\ Finish(Answer("NotApplied", None))
          /\ q' = [Undelivered(rested, held) EXCEPT !.deliveryDirty = TRUE, !.scanWrapped = FALSE]
          /\ claims' = ClearedClaims(held)
          /\ fenced' = fenced \cup {slots[s].input}
       \/ /\ ~q.aborting /\ slots[s].kind = "lookup"
          /\ Finish([Answer("NotApplied", None) EXCEPT !.status = lookupID(db, slots[s].input)])
          /\ q' = rested
          /\ UNCHANGED <<claims, fenced>>
       \/ /\ ~q.aborting /\ slots[s].kind = "lookup" /\ config.faults
          /\ Finish(Answer("NotApplied", "storage"))
          /\ q' = faultLocked(rested)
          /\ UNCHANGED <<claims, fenced>>
    /\ coord' = [coord EXCEPT !.pc = "loop"]
    /\ UNCHANGED <<config, disk, deliveryQueue, call, left, delivered>>

\* The end of coordinate: claims are dropped, a session that was not aborted
\* synchronizes the store, and done is closed.
finish ==
    /\ Turn /\ Ready = <<>> /\ q.closing
    /\ disk' \in IF q.aborting THEN {disk}
                 ELSE {<<db>>} \cup (IF config.faults THEN {disk} ELSE {})
    /\ q' = [Closed EXCEPT !.retained = q.retained]
    /\ claims' = [i \in DOMAIN claims |-> Free]
    /\ deliveryQueue' = <<>>
    /\ coord' = Resting
    /\ UNCHANGED <<config, slots, call, left, delivered, fenced>>

-----------------------------------------------------------------------------
Next ==
    \/ Open \/ StopAdmission \/ StopDelivery \/ Close \/ Abort \/ crash
    \/ \E c \in Callers : reserve(c) \/ handoff(c) \/ await(c)
    \/ Receive
    \/ beginDispatch \/ dispatch \/ nextDelivery \/ loadDelivery \/ publishDelivery
    \/ closeDeliveryLocked
    \/ cleanupTurn \/ again \/ idleCheckpoint
    \/ collectGroupLocked \/ executeGroup \/ commit \/ settle \/ executeOne \/ finish

Spec == Init /\ [][Next]_vars

-----------------------------------------------------------------------------
(* Properties *)

\* Every store that a crash or a shutdown can leave is one that the next Open
\* accepts: its counts are exact, no pending work is at or below a retirement
\* floor, retired receipts that remain have a cleanup marker, and pending work has
\* its payload.
StoreValid == \A k \in DOMAIN disk : validateLogicalState(disk[k])

\* How far an ID has come; a status never goes back.
Rank == [absent |-> 0, pending |-> 1, acknowledged |-> 2, retired |-> 3]

HasEffect(cmd) ==
    CASE cmd.kind = "submit" -> \A k \in DOMAIN cmd.input :
           Rank[lookupID(db, cmd.input[k].id)] >= 1
      [] cmd.kind = "ack" -> \A t \in cmd.input : Rank[lookupID(db, t.id)] >= 2
      [] OTHER -> lookupID(db, cmd.input) = "retired"

\* What a caller is told is true, whatever failed, whoever aborted in between and
\* although a caller may give up before the end: Applied means that the whole
\* effect is in the store, NotApplied that nothing was changed, a command that
\* validation rejected keeps that answer when its group fails later
\* (commandGroup.fail), and a looked-up status is not ahead of the store.
AnswersTrue ==
    \A s \in Slots : slots[s].used /\ (slots[s].finished \/ slots[s].abandoned) =>
        LET cmd == slots[s] IN
        /\ cmd.result.decision = "Applied" => HasEffect(cmd)
        /\ cmd.result.decision = "NotApplied" => ~cmd.committed
        /\ cmd.finished /\ cmd.refused # None =>
             cmd.result = Answer("NotApplied", cmd.refused)
        /\ cmd.result.status # None =>
             Rank[cmd.result.status] <= Rank[lookupID(db, cmd.input)]

\* Work is acknowledged only by the attempt that still holds it: never with a token
\* that was released or that is of an earlier session, however the session ended.
FencedAcks ==
    [][\A i \in DOMAIN db'.receipts :
         db'.receipts[i].token # None
         /\ (i \notin DOMAIN db.receipts \/ db.receipts[i].token # db'.receipts[i].token)
         => db'.receipts[i].token \in delivered \ fenced]_vars

\* ErrDrained is final: once a receiver has seen it, no work is pending or will be
\* in this session, submissions handed over before StopAdmission included.
DrainedForGood == q.open /\ q.drained => Pending(db) = {}

Held(s) == Cardinality({c \in Callers : call[c] = s})

\* Every slot in use is freed by exactly one party, its caller or, once the caller
\* gave up, the coordinator, and the retained charges are those of the slots in
\* use.  An item has at most one claim, which outlives it only until its group is
\* settled or the queue is aborted, and the delivery queue holds each published claim once.
ResourcesOwned ==
    /\ \A s \in Slots : slots[s].used =>
         /\ Held(s) = IF slots[s].abandoned THEN 0 ELSE 1
         /\ slots[s].abandoned => slots[s].handed /\ ~slots[s].finished
    /\ \A p \in Pools :
         /\ q.retained[p] = MapThenSumSet(LAMBDA s : slots[s].charge,
                                          {s \in Slots : s[1] = p /\ slots[s].used})
         /\ q.retained[p] <= config.retained[p]
    /\ \A i, j \in Used : claims[i].token.id = claims[j].token.id => i = j
    /\ \A i \in Used : claims[i].token.id \in Pending(db) \/ coord.pc = "settle" \/ q.aborting
    /\ Len(deliveryQueue) = Cardinality(Published)
    /\ Published = {i \in Used : ~claims[i].acquired /\ i # coord.index}
    /\ q.deliveryRetained = Cardinality(Used)
=============================================================================
