----------------------------- MODULE MCDurable -----------------------------
(* Durable for TLC: see MCDurable.cfg. *)
EXTENDS Durable

CONSTANTS x, y

Limits == [pendingItems |-> 2, receipts |-> 2, producers |-> 2]

\* Two producers, sequences 0 and 1.
e(p, n, digest) == [id |-> <<p, n>>, digest |-> digest]

Base ==
    [sessions |-> 1, calls |-> 3, crashes |-> FALSE, faults |-> FALSE, cancels |-> FALSE,
     stops |-> {}, durability |-> "Synchronized", maxDelay |-> FALSE,
     commands |-> [ordinary |-> 1, progress |-> 1], retained |-> [ordinary |-> 4, progress |-> 4],
     deliveryItems |-> 1, deliveryRetained |-> 1, receiveItems |-> 1, scanRows |-> 2,
     groupCommands |-> 2, groupOperations |-> 3, maxCommandTurns |-> 1, cleanupRows |-> 1,
     batches |-> {<<e(1, 0, x)>>}, lookups |-> {}, retirements |-> {}, acks |-> FALSE,
     releases |-> FALSE]

\* Groups of submissions that conflict or exceed a limit, fail, are canceled,
\* aborted or cut by a crash.
Submitting ==
    [Base EXCEPT !.sessions = 2, !.crashes = TRUE, !.faults = TRUE, !.cancels = TRUE,
                 !.stops = {"Abort"}, !.maxDelay = TRUE,
                 !.commands.ordinary = 2, !.retained.ordinary = 7,
                 !.batches = {<<e(1, 0, x)>>, <<e(1, 0, y), e(2, 0, x)>>},
                 !.lookups = {<<1, 0>>}]

\* Deliveries that are acknowledged or released, in two sessions, with a crash.
Delivering ==
    [Base EXCEPT !.sessions = 2, !.calls = 4, !.crashes = TRUE, !.stops = {"StopDelivery"},
                 !.commands.progress = 2, !.retained.progress = 6,
                 !.deliveryItems = 2, !.receiveItems = 2,
                 !.acks = TRUE, !.releases = TRUE]

\* Retirement and its cleanup around pending and acknowledged work, and the same
\* with storage that fails.
Retiring ==
    [Base EXCEPT !.calls = 4,
                 !.commands.progress = 2, !.retained.progress = 7,
                 !.batches = {<<e(1, 0, x), e(1, 1, x)>>},
                 !.deliveryItems = 2, !.deliveryRetained = 2, !.receiveItems = 2,
                 !.retirements = {<<1, 0>>, <<1, 1>>, <<2, 0>>}, !.acks = TRUE]

Failing ==
    [Retiring EXCEPT !.calls = 3, !.faults = TRUE, !.retirements = {<<1, 1>>}]

\* A drain: admission stops while submissions are under way.
Draining ==
    [Base EXCEPT !.calls = 4, !.cancels = TRUE,
                 !.stops = {"StopAdmission", "Close"},
                 !.commands.ordinary = 2, !.retained.ordinary = 6,
                 !.batches = {<<e(1, 0, x)>>, <<e(2, 0, x)>>}, !.acks = TRUE]

\* Commits that only a checkpoint makes durable.
Unsynchronized ==
    [Base EXCEPT !.sessions = 3, !.crashes = TRUE, !.stops = {"Close"},
                 !.durability = "ProcessCrash", !.acks = TRUE]

Symmetry == Permutations(Callers)

Queues == {Submitting, Delivering, Retiring, Failing, Draining, Unsynchronized}
=============================================================================
