---------------------------- MODULE RunnerProofs ----------------------------
(***************************************************************************)
(* The runner for any number of workers, submitters, owners and items.     *)
(*                                                                         *)
(* AbandonedAfterAborting.  An item is finalized only when                 *)
(* awaitAbortPublication lets its owner through, so it is enough that an   *)
(* item is marked abandoned only once an abort is committed.  A handler    *)
(* may say so because it saw its context end, and the context also ends    *)
(* when the coordinator completes without any abort: the invariant must    *)
(* therefore say that no worker is left by then.  That an item keeps its   *)
(* mark once it is final needs the custody of items: each is not yet       *)
(* pushed, in the queue, held by one goroutine or final, and only its      *)
(* holder changes it.                                                      *)
(*                                                                         *)
(* OutcomeFinal.  The gate counts the submissions between their            *)
(* registration and their return, so the coordinator, which waits for      *)
(* admissionsDone, completes when no submission can still cause an abort.  *)
(*                                                                         *)
(* The last two sections state the bookkeeping invariant and what sums     *)
(* over finite sets are; RunnerBooks shows that every step keeps it.       *)
(***************************************************************************)
EXTENDS Runner, FiniteSetTheorems, WellFoundedInduction, TLAPS

\* An abort is committed: its record exists.
Committed == life.abortRecord # None

\* The fields of the lifecycle, so that life is a function of them.
LifeFields == {"stopped", "active", "admissionsDone", "abortRecord", "cancelled", "aborting",
               "snapshot", "done", "finalErr", "panicked"}

\* Where a call of abort returns to.
Resumed == {"none", "settle", "exited", "wait", "unregister"}

\* The values the variables range over, as far as the proofs need them.
Shapes ==
    /\ life = [f \in LifeFields |-> life[f]]
    /\ pc = [p \in Procs |-> pc[p]]
    /\ ret \in [Procs -> Resumed]
    /\ outcome = [i \in Items |-> outcome[i]]
    /\ terminal \in [Items -> Nat]

\* Where a goroutine is inside a call of abort.
Aborter == {"abort", "cancel", "closeAborting", "awaitAborting"}

\* A coordinator past the join leaves no worker behind, and one that cleans up or
\* calls back does so because of an abort.
Joined ==
    /\ pc[Coordinator] \notin {"unstarted", "coordinate", "drain", "join"} =>
         \A w \in Workers : pc[w] = "exited"
    /\ pc[Coordinator] \in {"cleanup", "settle", "callback"} \cup Aborter => Committed
    /\ pc[Coordinator] \in Aborter => ret[Coordinator] = "settle"

\* Who acts on an abort knows that one is committed.
Knowing ==
    /\ \A p \in Procs : pc[p] \in {"cancel", "closeAborting", "abandon"} => Committed
    /\ life.cancelled = TRUE => Committed \/ pc[Coordinator] \in {"publish", "exited"}

\* Nothing is marked abandoned before an abort is committed.
Marks == \A i \in Items : outcome[i] = "abandoned" => Committed

AbortInv == Shapes /\ Joined /\ Knowing /\ Marks /\ AbandonedAfterAborting

\* New returns a runner in which nothing is aborted and nobody runs past the join.
LEMMA InitAbort == Init => AbortInv
<1> SUFFICES ASSUME Init PROVE AbortInv
  OBVIOUS
<1>1. Coordinator \in Procs /\ Coordinator \notin Workers /\ Workers \subseteq Procs
  BY RunnerAssumption DEF Procs
<1>2. pc[Coordinator] = "unstarted"
  <2>1. config.workers \subseteq Workers /\ config.callers \subseteq Submitters \cup Owners
    BY RunnerAssumption DEF Init
  <2>2. Coordinator \notin config.workers /\ Coordinator \notin config.callers
    BY <2>1, RunnerAssumption
  <2> QED
    BY <1>1, <2>2 DEF Init
<1>3. \A p \in Procs : pc[p] \in {"loop", "exited", "start", "unstarted", "returned"}
  <2> SUFFICES ASSUME NEW p \in Procs
               PROVE  pc[p] \in {"loop", "exited", "start", "unstarted", "returned"}
    OBVIOUS
  <2> QED
    BY DEF Init
<1>4. life.abortRecord = None /\ life.cancelled = FALSE /\ life.aborting = FALSE
  BY DEF Init
<1>5. Shapes
  <2>1. life = [f \in LifeFields |-> life[f]]
    BY DEF Init, LifeFields
  <2>2. pc = [p \in Procs |-> pc[p]]
    BY <1>3 DEF Init
  <2> QED
    BY <2>1, <2>2 DEF Init, Shapes, Resumed
<1>6. Joined /\ Knowing
  BY <1>2, <1>3, <1>4 DEF Joined, Knowing, Aborter
<1>7. Marks /\ AbandonedAfterAborting
  BY DEF Init, Marks, AbandonedAfterAborting
<1> QED
  BY <1>5, <1>6, <1>7 DEF AbortInv

-----------------------------------------------------------------------------
(* What the lifecycle may do in any step: an abort stays committed and public, *)
(* and the context ends by an abort unless the coordinator completes.          *)
LifeGoesOn ==
    /\ life' = [f \in LifeFields |-> life'[f]]
    /\ Committed => Committed'
    /\ life.aborting => life'.aborting
    /\ life'.cancelled = TRUE => life.cancelled = TRUE \/ Committed'

\* A step that leaves the lifecycle alone.
LEMMA SameLife ==
  ASSUME AbortInv, UNCHANGED life
  PROVE  LifeGoesOn
  BY DEF AbortInv, Shapes, LifeGoesOn, Committed

\* Items and their marks stay as they are.
LEMMA SameMarks ==
  ASSUME AbortInv, LifeGoesOn, UNCHANGED <<outcome, terminal>>
  PROVE  /\ outcome' = [i \in Items |-> outcome'[i]] /\ terminal' \in [Items -> Nat]
         /\ Marks' /\ AbandonedAfterAborting'
  BY DEF AbortInv, Shapes, LifeGoesOn, Marks, AbandonedAfterAborting, Committed

\* A step of a goroutine other than the coordinator, which may start the latter.
LEMMA Moves ==
  ASSUME AbortInv, NEW p \in Procs \ {Coordinator}, NEW l, NEW k,
         pc[p] # "exited",
         pc' = [pc EXCEPT ![p] = l, ![Coordinator] = k],
         k = pc[Coordinator] \/ (pc[Coordinator] = "unstarted" /\ k = "coordinate"),
         ret' \in [Procs -> Resumed], ret'[Coordinator] = ret[Coordinator],
         LifeGoesOn,
         l \in {"cancel", "closeAborting", "abandon"} => Committed',
         outcome' = [i \in Items |-> outcome'[i]], terminal' \in [Items -> Nat],
         Marks', AbandonedAfterAborting'
  PROVE  AbortInv'
<1>1. Coordinator \in Procs /\ Workers \subseteq Procs /\ Coordinator \notin Workers
  BY RunnerAssumption DEF Procs
<1>2. /\ pc' = [x \in Procs |-> pc'[x]]
      /\ pc'[p] = l /\ pc'[Coordinator] = k
      /\ \A x \in Procs \ {p, Coordinator} : pc'[x] = pc[x]
  BY <1>1 DEF AbortInv, Shapes
<1>3. Shapes'
  BY <1>2 DEF AbortInv, Shapes, LifeGoesOn
<1>4. Joined'
  <2>1. ASSUME pc'[Coordinator] \notin {"unstarted", "coordinate", "drain", "join"}
        PROVE  \A w \in Workers : pc'[w] = "exited"
    <3>1. pc'[Coordinator] = pc[Coordinator]
      BY <1>2, <2>1
    <3>2. \A w \in Workers : pc[w] = "exited"
      BY <2>1, <3>1 DEF AbortInv, Joined
    <3> QED
      BY <1>1, <1>2, <3>2
  <2>2. pc'[Coordinator] \in {"cleanup", "settle", "callback"} \cup Aborter => Committed'
    BY <1>2 DEF AbortInv, Joined, LifeGoesOn, Aborter
  <2>3. pc'[Coordinator] \in Aborter => ret'[Coordinator] = "settle"
    BY <1>2 DEF AbortInv, Joined, Aborter
  <2> QED
    BY <2>1, <2>2, <2>3 DEF Joined
<1>5. Knowing'
  <2>1. ASSUME NEW x \in Procs, pc'[x] \in {"cancel", "closeAborting", "abandon"}
        PROVE  Committed'
    BY <1>1, <1>2, <2>1 DEF AbortInv, Knowing, LifeGoesOn
  <2>2. life'.cancelled = TRUE => Committed' \/ pc'[Coordinator] \in {"publish", "exited"}
    BY <1>2 DEF AbortInv, Knowing, LifeGoesOn
  <2> QED
    BY <2>1, <2>2 DEF Knowing
<1> QED
  BY <1>3, <1>4, <1>5 DEF AbortInv

\* A step that moves one goroutine, and may mark or finalize items.
LEMMA GoesMarking ==
  ASSUME AbortInv, NEW p \in Procs \ {Coordinator}, NEW l, pc[p] # "exited", Go(p, l),
         ret' = ret \/ \E r \in Resumed : ret' = [ret EXCEPT ![p] = r],
         LifeGoesOn,
         l \in {"cancel", "closeAborting", "abandon"} => Committed',
         outcome' = [i \in Items |-> outcome'[i]], terminal' \in [Items -> Nat],
         Marks', AbandonedAfterAborting'
  PROVE  AbortInv'
<1>1. pc' = [pc EXCEPT ![p] = l, ![Coordinator] = pc[Coordinator]]
  BY DEF AbortInv, Shapes, Go
<1>2. ret' \in [Procs -> Resumed] /\ ret'[Coordinator] = ret[Coordinator]
  <2>1. ret \in [Procs -> Resumed]
    BY DEF AbortInv, Shapes
  <2>2. ASSUME NEW r \in Resumed, ret' = [ret EXCEPT ![p] = r]
        PROVE  ret' \in [Procs -> Resumed] /\ ret'[Coordinator] = ret[Coordinator]
    <3> HIDE DEF Resumed
    <3> QED
      BY <2>1, <2>2
  <2> QED
    BY <2>1, <2>2
<1> QED
  BY <1>1, <1>2, Moves

\* A step that moves one goroutine and touches no item.
LEMMA Goes ==
  ASSUME AbortInv, NEW p \in Procs \ {Coordinator}, NEW l, pc[p] # "exited", Go(p, l),
         ret' = ret \/ \E r \in Resumed : ret' = [ret EXCEPT ![p] = r],
         LifeGoesOn,
         l \in {"cancel", "closeAborting", "abandon"} => Committed',
         UNCHANGED <<outcome, terminal>>
  PROVE  AbortInv'
  BY SameMarks, GoesMarking

\* A step of the coordinator.
LEMMA CoordinatorMoves ==
  ASSUME AbortInv, NEW l, Go(Coordinator, l),
         l \notin {"unstarted", "coordinate", "drain", "join"} => \A w \in Workers : pc[w] = "exited",
         l \in {"cleanup", "settle", "callback", "abandon"} \cup Aborter => Committed',
         l \in Aborter => ret'[Coordinator] = "settle",
         ret' \in [Procs -> Resumed],
         life' = [f \in LifeFields |-> life'[f]], Committed => Committed',
         \/ life'.cancelled # TRUE \/ Committed' \/ l \in {"publish", "exited"}
         \/ life.cancelled = TRUE /\ pc[Coordinator] \notin {"publish", "exited"},
         outcome' = [i \in Items |-> outcome'[i]], terminal' \in [Items -> Nat],
         Marks', AbandonedAfterAborting'
  PROVE  AbortInv'
<1>1. Coordinator \in Procs /\ Workers \subseteq Procs /\ Coordinator \notin Workers
  BY RunnerAssumption DEF Procs
<1>2. /\ pc' = [x \in Procs |-> pc'[x]]
      /\ pc'[Coordinator] = l /\ \A x \in Procs \ {Coordinator} : pc'[x] = pc[x]
  BY <1>1 DEF AbortInv, Shapes, Go
<1>3. Shapes'
  BY <1>2 DEF Shapes
<1>4. Joined'
  BY <1>1, <1>2 DEF Joined
<1>5. Knowing'
  <2>1. ASSUME NEW x \in Procs, pc'[x] \in {"cancel", "closeAborting", "abandon"}
        PROVE  Committed'
    BY <1>2, <2>1 DEF AbortInv, Knowing, Aborter
  <2>2. life'.cancelled = TRUE => Committed' \/ pc'[Coordinator] \in {"publish", "exited"}
    BY <1>2 DEF AbortInv, Knowing
  <2> QED
    BY <2>1, <2>2 DEF Knowing
<1> QED
  BY <1>3, <1>4, <1>5 DEF AbortInv

-----------------------------------------------------------------------------
(* The steps of abort, by any goroutine. *)

\* closeAdmissionLocked leaves the abort and the context as they are.
LEMMA ClosingAdmission ==
  ASSUME NEW l, l = [f \in LifeFields |-> l[f]]
  PROVE  LET k == closeAdmissionLocked(l) IN
         /\ k = [f \in LifeFields |-> k[f]]
         /\ k.abortRecord = l.abortRecord /\ k.cancelled = l.cancelled /\ k.aborting = l.aborting
  BY DEF closeAdmissionLocked, LifeFields

\* abort keeps the invariant: it commits before it cancels, and cancels before it
\* publishes.
LEMMA AbortsKeep ==
  ASSUME AbortInv, NEW p \in Procs, Aborts(p)
  PROVE  AbortInv'
<1>1. UNCHANGED <<outcome, terminal>>
  BY DEF Aborts, abort, cancel, closeAborting, awaitAborting, work
<1>2. pc[p] \in Aborter
  BY DEF Aborts, abort, cancel, closeAborting, awaitAborting, Aborter
<1>3. ret \in [Procs -> Resumed] /\ ret[p] \in Resumed
  BY DEF AbortInv, Shapes
<1>4. life = [f \in LifeFields |-> life[f]]
  BY DEF AbortInv, Shapes
<1>5. p # Coordinator => pc[p] # "exited" /\ p \in Procs \ {Coordinator}
  BY <1>2 DEF Aborter
<1>6. p = Coordinator => /\ Committed /\ ret[Coordinator] = "settle"
                         /\ \A w \in Workers : pc[w] = "exited"
  BY <1>2 DEF AbortInv, Joined, Aborter
<1>7. ASSUME Return(p), LifeGoesOn, pc[p] # "cancel"
      PROVE  AbortInv'
  <2>1. Go(p, ret[p]) /\ ret' = [ret EXCEPT ![p] = "none"]
    BY <1>7 DEF Return
  <2>2. CASE p # Coordinator
    BY <1>1, <1>3, <1>5, <1>7, <2>1, <2>2, Goes DEF Resumed
  <2>3. CASE p = Coordinator
    <3>1. ret' \in [Procs -> Resumed]
      BY <1>3, <2>1 DEF Resumed
    <3> QED
      BY <1>1, <1>2, <1>6, <1>7, <2>1, <2>3, <3>1, SameMarks, CoordinatorMoves
         DEF LifeGoesOn, Aborter
  <2> QED
    BY <2>2, <2>3
<1>8. ASSUME ~life.done, life.abortRecord = None, pc[p] = "abort",
             life' = closeAdmissionLocked([life EXCEPT !.abortRecord = p]),
             startCoordinatorLocked(p, "cancel"), UNCHANGED ret
      PROVE  AbortInv'
  <2>1. p # Coordinator /\ p # None
    BY <1>6, <1>8, RunnerAssumption DEF Committed
  <2>2. LifeGoesOn /\ Committed'
    <3> DEFINE l == [life EXCEPT !.abortRecord = p]
    <3>1. /\ l = [f \in LifeFields |-> l[f]]
          /\ l.abortRecord = p /\ l.cancelled = life.cancelled /\ l.aborting = life.aborting
      BY <1>4 DEF LifeFields
    <3> HIDE DEF l
    <3>2. life' = closeAdmissionLocked(l)
      BY <1>8 DEF l
    <3> QED
      BY <2>1, <3>1, <3>2, ClosingAdmission DEF LifeGoesOn, Committed
  <2>3. PICK k : /\ pc' = [pc EXCEPT ![p] = "cancel", ![Coordinator] = k]
                 /\ k = pc[Coordinator] \/ (pc[Coordinator] = "unstarted" /\ k = "coordinate")
    BY <1>8, <2>1 DEF startCoordinatorLocked, AbortInv, Shapes
  <2> QED
    BY <1>1, <1>3, <1>5, <1>8, <2>1, <2>2, <2>3, SameMarks, Moves
<1>9. CASE abort(p)
  <2>1. CASE life.done
    BY <1>7, <1>9, <2>1, SameLife DEF abort
  <2>2. CASE ~life.done /\ life.abortRecord # None
    <3>1. Go(p, "awaitAborting") /\ UNCHANGED <<life, ret>>
      BY <1>9, <2>2 DEF abort
    <3>2. CASE p # Coordinator
      BY <1>1, <1>5, <3>1, <3>2, SameLife, Goes
    <3>3. CASE p = Coordinator
      <4>1. LifeGoesOn
        BY <3>1, SameLife
      <4> QED
        BY <1>1, <1>2, <1>3, <1>6, <3>1, <3>3, <4>1, SameMarks, CoordinatorMoves
           DEF LifeGoesOn, Aborter
    <3> QED
      BY <3>2, <3>3
  <2>3. CASE ~life.done /\ ~(life.abortRecord # None)
    BY <1>8, <1>9, <2>3 DEF abort
  <2> QED
    BY <2>1, <2>2, <2>3
<1>10. CASE cancel(p)
  <2>1. Committed /\ Go(p, "closeAborting") /\ UNCHANGED ret
    BY <1>10 DEF cancel, AbortInv, Knowing
  <2>2. LifeGoesOn /\ Committed'
    BY <1>4, <1>10, <2>1 DEF cancel, LifeGoesOn, Committed, LifeFields
  <2>3. CASE p # Coordinator
    BY <1>1, <1>5, <2>1, <2>2, <2>3, Goes
  <2>4. CASE p = Coordinator
    BY <1>1, <1>3, <1>6, <2>1, <2>2, <2>4, SameMarks, CoordinatorMoves DEF LifeGoesOn, Aborter
  <2> QED
    BY <2>3, <2>4
<1>11. CASE closeAborting(p)
  <2>1. LifeGoesOn
    BY <1>4, <1>11 DEF closeAborting, LifeGoesOn, Committed, LifeFields
  <2> QED
    BY <1>7, <1>11, <2>1 DEF closeAborting
<1>12. CASE awaitAborting(p)
  BY <1>7, <1>12, SameLife DEF awaitAborting
<1> QED
  BY <1>9, <1>10, <1>11, <1>12 DEF Aborts

-----------------------------------------------------------------------------
(* The custody of items. *)

Holders == Workers \cup {Coordinator}

\* Nobody owns i, and it is not final.
Loose(i) == terminal[i] = 0 /\ \A p \in Holders : i \notin held[p]

Held ==
    /\ held \in [Holders -> SUBSET Items] /\ due \in [Holders -> SUBSET Items]
    /\ terminal \in [Items -> Nat]
    /\ \A p \in Holders : due[p] \subseteq held[p]
    /\ \A p, r \in Holders : p # r => held[p] \cap held[r] = {}
    /\ \A p \in Holders : \A i \in held[p] : terminal[i] = 0
    /\ \A i \in Items : terminal[i] <= 1

Queued ==
    /\ queue \in Seq(Items)
    /\ \A j, k \in 1..Len(queue) : queue[j] = queue[k] => j = k
    /\ \A j \in 1..Len(queue) : Loose(queue[j])

Unpushed ==
    /\ config \in Configs
    /\ pushed \in [Submitters -> Nat]
    /\ \A s \in Submitters :
         /\ pc[s] = "start" => s \in config.callers /\ pushed[s] = 0
         /\ pc[s] \in {"registered", "push"} => s \in config.callers /\ pushed[s] < Len(Batch[s])
    /\ \A s \in Submitters \cap config.callers : \A j \in 1..Len(Batch[s]) :
         j > pushed[s] => /\ Loose(Batch[s][j])
                          /\ \A k \in 1..Len(queue) : queue[k] # Batch[s][j]

Custody == Held /\ Queued /\ Unpushed

\* A batch is a non-empty sequence of items.
LEMMA BatchItems ==
  \A s \in Submitters : /\ Len(Batch[s]) \in Nat \ {0}
                        /\ \A j \in 1..Len(Batch[s]) : Batch[s][j] \in Items
<1> SUFFICES ASSUME NEW s \in Submitters
             PROVE  /\ Len(Batch[s]) \in Nat \ {0}
                    /\ \A j \in 1..Len(Batch[s]) : Batch[s][j] \in Items
  OBVIOUS
<1>1. Batch[s] \in Seq(Range(Batch[s])) /\ Batch[s] # <<>>
  BY RunnerAssumption
<1>2. \A j \in 1..Len(Batch[s]) : Batch[s][j] \in Range(Batch[s])
  BY <1>1
<1> QED
  BY <1>1, <1>2 DEF Items

\* At first no item has been pushed, and nobody holds one.
LEMMA InitCustody == Init => Custody
<1> SUFFICES ASSUME Init PROVE Custody
  OBVIOUS
<1>1. Held
  BY DEF Init, Held, Holders
<1>2. Queued
  BY DEF Init, Queued
<1>3. \A i \in Items : Loose(i)
  BY DEF Init, Loose, Holders
<1>4. ASSUME NEW s \in Submitters
      PROVE  /\ pc[s] = "start" => s \in config.callers /\ pushed[s] = 0
             /\ pc[s] \notin {"registered", "push"}
  <2>1. s \in Procs /\ s \notin Workers /\ s # Coordinator
    BY RunnerAssumption DEF Procs
  <2>2. s \notin config.workers
    BY <2>1, RunnerAssumption DEF Init
  <2>3. pc[s] = IF s \in config.callers THEN "start" ELSE "returned"
    BY <2>1, <2>2 DEF Init
  <2> QED
    BY <2>3 DEF Init
<1>5. Unpushed
  BY <1>3, <1>4, BatchItems DEF Init, Unpushed
<1> QED
  BY <1>1, <1>2, <1>5 DEF Custody

\* No submission comes to push but from its start.
CallersStay ==
    \A s \in Submitters :
        \/ pc'[s] = pc[s]
        \/ pc'[s] \notin {"start", "registered", "push"}
        \/ pc[s] = "start" /\ pc'[s] = "registered"

ItemsStay == UNCHANGED <<config, queue, held, due, pushed, terminal>>

\* A step that moves no item.
LEMMA CustodyKept ==
  ASSUME Custody, ItemsStay, CallersStay
  PROVE  Custody'
<1> USE DEF ItemsStay, CallersStay
<1>1. Held' /\ Queued'
  BY DEF Custody, Held, Queued, Loose
<1>2. \A i : Loose(i) => Loose(i)'
  BY DEF Loose
<1>3. ASSUME NEW s \in Submitters
      PROVE  /\ pc'[s] = "start" => s \in config.callers /\ pushed[s] = 0
             /\ pc'[s] \in {"registered", "push"} =>
                  s \in config.callers /\ pushed[s] < Len(Batch[s])
  BY BatchItems DEF Custody, Unpushed
<1>4. Unpushed'
  BY <1>2, <1>3 DEF Custody, Unpushed
<1> QED
  BY <1>1, <1>4 DEF Custody

\* A step of one goroutine leaves the others where they are.
LEMMA OneMoves ==
  ASSUME AbortInv, NEW p \in Procs, NEW l, Go(p, l)
  PROVE  pc'[p] = l /\ \A x \in Procs \ {p} : pc'[x] = pc[x]
  BY DEF AbortInv, Shapes, Go

\* abort moves no item.
LEMMA AbortsCustody ==
  ASSUME AbortInv, Custody, NEW p \in Procs, Aborts(p)
  PROVE  Custody'
<1>1. UNCHANGED <<config, queue, held, due, pushed, terminal>>
  BY DEF Aborts, abort, cancel, closeAborting, awaitAborting, work
<1>2. ret[p] \in Resumed
  BY DEF AbortInv, Shapes
<1>3. \/ \E l \in Resumed \cup {"awaitAborting", "closeAborting"} : Go(p, l)
      \/ startCoordinatorLocked(p, "cancel")
  <2>1. Return(p) => \E l \in Resumed : Go(p, l)
    BY <1>2 DEF Return
  <2>2. abort(p) => \/ Return(p) \/ Go(p, "awaitAborting") \/ startCoordinatorLocked(p, "cancel")
    BY DEF abort
  <2> QED
    BY <2>1, <2>2 DEF Aborts, cancel, closeAborting, awaitAborting
<1>4. ASSUME NEW s \in Submitters
      PROVE  pc'[s] = pc[s] \/ pc'[s] \notin {"start", "registered", "push"}
  <2>1. s \in Procs /\ s # Coordinator /\ Coordinator \in Procs
    BY RunnerAssumption DEF Procs
  <2>2. ASSUME NEW l \in Resumed \cup {"awaitAborting", "closeAborting"}, Go(p, l)
        PROVE  pc'[s] = pc[s] \/ pc'[s] \notin {"start", "registered", "push"}
    BY <2>1, <2>2, OneMoves DEF Resumed
  <2>3. ASSUME startCoordinatorLocked(p, "cancel")
        PROVE  pc'[s] = pc[s] \/ pc'[s] = "cancel"
    BY <2>1, <2>3 DEF startCoordinatorLocked, AbortInv, Shapes
  <2> QED
    BY <1>3, <2>2, <2>3
<1>5. ItemsStay /\ CallersStay
  BY <1>1, <1>4 DEF ItemsStay, CallersStay
<1> QED
  BY <1>5, CustodyKept

-----------------------------------------------------------------------------
(* The callers of Shutdown, Abort and SubmitBatch. *)

\* The calls of the owner.
LEMMA OwnersKeep ==
  ASSUME AbortInv, Custody, NEW o \in Owners,
         Shutdown(o) \/ Abort(o) \/ graceEnds(o) \/ Wait(o)
  PROVE  AbortInv' /\ Custody'
<1>1. /\ o \in Procs \ {Coordinator} /\ o \notin Submitters
      /\ Coordinator \in Procs /\ Coordinator \notin Submitters /\ Submitters \subseteq Procs
  BY RunnerAssumption DEF Procs
<1>2. /\ UNCHANGED <<config, queue, held, due, pushed, terminal, outcome>>
      /\ pc[o] \in {"start", "grace", "wait"}
  BY DEF Shutdown, Abort, graceEnds, Wait, work
<1>3. CASE Shutdown(o)
  <2>1. LifeGoesOn
    BY <1>3, ClosingAdmission
       DEF Shutdown, stopAdmission, AbortInv, Shapes, LifeGoesOn, Committed
  <2>2. PICK k : /\ pc' = [pc EXCEPT ![o] = "grace", ![Coordinator] = k]
                 /\ k = pc[Coordinator] \/ (pc[Coordinator] = "unstarted" /\ k = "coordinate")
    BY <1>1, <1>3 DEF Shutdown, stopAdmission, startCoordinatorLocked, AbortInv, Shapes
  <2>3. AbortInv'
    <3>1. ret' \in [Procs -> Resumed] /\ ret'[Coordinator] = ret[Coordinator]
      BY <1>3 DEF Shutdown, AbortInv, Shapes
    <3> QED
      BY <1>1, <1>2, <2>1, <2>2, <3>1, SameMarks, Moves
  <2>4. \A s \in Submitters : pc'[s] = pc[s]
    BY <1>1, <2>2 DEF AbortInv, Shapes
  <2>5. ItemsStay /\ CallersStay
    BY <1>2, <2>4 DEF ItemsStay, CallersStay
  <2> QED
    BY <2>3, <2>5, CustodyKept
<1>4. CASE Abort(o) \/ graceEnds(o) \/ Wait(o)
  <2>1. LifeGoesOn
    BY <1>4, SameLife DEF Abort, graceEnds, Wait
  <2>2. PICK l \in {"abort", "returned"} :
          Go(o, l) /\ (ret' = ret \/ \E r \in Resumed : ret' = [ret EXCEPT ![o] = r])
    BY <1>4 DEF Abort, graceEnds, Wait, callAbort, Resumed
  <2>3. AbortInv'
    BY <1>1, <1>2, <2>1, <2>2, Goes
  <2>4. ItemsStay /\ CallersStay
    BY <1>1, <1>2, <2>2, OneMoves DEF ItemsStay, CallersStay
  <2> QED
    BY <2>3, <2>4, CustodyKept
<1> QED
  BY <1>3, <1>4

-----------------------------------------------------------------------------
(* The steps that move items. *)

\* What Min gives for the length of the queue and the batch limit.
LEMMA MinOfTwo ==
  ASSUME NEW a \in Nat, NEW b \in Nat
  PROVE  Min({a, b}) \in {a, b} /\ Min({a, b}) <= a /\ Min({a, b}) <= b
<1>1. \E x \in {a, b} : \A y \in {a, b} : x <= y
  <2>1. CASE a <= b
    BY <2>1
  <2>2. CASE ~(a <= b)
    BY <2>2
  <2> QED
    BY <2>1, <2>2
<1> QED
  BY <1>1 DEF Min

\* Take gives the oldest items of the queue to one holder.
LEMMA TakeMoves ==
  ASSUME Custody, NEW p \in Holders, Take(p),
         UNCHANGED <<config, pushed, terminal>>,
         \A s \in Submitters : pc'[s] = pc[s]
  PROVE  Custody' /\ due'[p] \in SUBSET Items /\ \A i \in due'[p] : terminal[i] = 0
<1> DEFINE n == Min({Len(queue), config.batchLimit})
           taken == Range(SubSeq(queue, 1, n))
<1>1. /\ Len(queue) \in Nat /\ config.batchLimit \in Nat
      /\ n \in Nat /\ n <= Len(queue)
  <2>1. Len(queue) \in Nat /\ config.batchLimit \in Nat
    BY RunnerAssumption DEF Custody, Queued, Unpushed
  <2> QED
    BY <2>1, MinOfTwo
<1>2. /\ queue' = SubSeq(queue, n + 1, Len(queue))
      /\ held' = [held EXCEPT ![p] = taken] /\ due' = [due EXCEPT ![p] = taken]
  BY DEF Take
<1> HIDE DEF n
<1>3. /\ queue \in Seq(Items) /\ held \in [Holders -> SUBSET Items]
      /\ due \in [Holders -> SUBSET Items]
  BY DEF Custody, Queued, Held
<1>4. taken = {queue[j] : j \in 1..n}
  <2>1. SubSeq(queue, 1, n) \in Seq(Items) /\ Len(SubSeq(queue, 1, n)) = n
    BY <1>1, <1>3
  <2>2. \A j \in 1..n : SubSeq(queue, 1, n)[j] = queue[j]
    BY <1>1, <1>3
  <2>3. DOMAIN SubSeq(queue, 1, n) = 1..n
    BY <2>1
  <2> QED
    BY <2>2, <2>3 DEF Range
<1>5. /\ queue' \in Seq(Items) /\ Len(queue') = Len(queue) - n
      /\ \A j \in 1..Len(queue) - n : queue'[j] = queue[n + j]
  BY <1>1, <1>2, <1>3
<1> HIDE DEF taken
<1>6. taken \subseteq Items /\ \A i \in taken : Loose(i)
  BY <1>1, <1>3, <1>4 DEF Custody, Queued
<1>7. /\ held'[p] = taken /\ due'[p] = taken
      /\ \A r \in Holders \ {p} : held'[r] = held[r] /\ due'[r] = due[r]
      /\ held' \in [Holders -> SUBSET Items] /\ due' \in [Holders -> SUBSET Items]
  BY <1>2, <1>3, <1>6
<1>8. Held'
  BY <1>6, <1>7 DEF Custody, Held, Loose
<1>9. \A i \in Items : Loose(i) /\ i \notin taken => Loose(i)'
  BY <1>7 DEF Loose
<1>10. Queued'
  <2>1. ASSUME NEW j \in 1..Len(queue'), NEW k \in 1..Len(queue'), queue'[j] = queue'[k]
        PROVE  j = k
    <3>1. queue[n + j] = queue[n + k] /\ n + j \in 1..Len(queue) /\ n + k \in 1..Len(queue)
      BY <1>1, <1>5, <2>1
    <3>2. n + j = n + k
      BY <3>1 DEF Custody, Queued
    <3> QED
      BY <1>1, <3>2
  <2>2. ASSUME NEW j \in 1..Len(queue')
        PROVE  Loose(queue[j])'
    <3>1. queue'[j] = queue[n + j] /\ n + j \in 1..Len(queue) /\ j \in Nat \ {0}
      <4>1. j \in 1..Len(queue) - n
        BY <1>5
      <4> QED
        BY <1>1, <1>5, <4>1
    <3>2. \A k \in 1..n : queue[n + j] # queue[k]
      <4> SUFFICES ASSUME NEW k \in 1..n, queue[n + j] = queue[k] PROVE FALSE
        OBVIOUS
      <4>1. k \in 1..Len(queue) /\ k # n + j
        BY <1>1, <3>1
      <4> QED
        BY <3>1, <4>1 DEF Custody, Queued
    <3>3. queue[n + j] \notin taken
      BY <1>4, <3>2 DEF taken
    <3>4. Loose(queue[n + j]) /\ queue[n + j] \in Items
      BY <1>3, <3>1 DEF Custody, Queued
    <3>5. terminal'[queue[n + j]] = 0 /\ \A r \in Holders : queue[n + j] \notin held'[r]
      BY <1>9, <3>3, <3>4 DEF Loose
    <3> QED
      BY <3>1, <3>5 DEF Loose
  <2> QED
    BY <1>5, <2>1, <2>2 DEF Queued
<1>11. Unpushed'
  <2>1. ASSUME NEW s \in Submitters \cap config.callers, NEW j \in 1..Len(Batch[s]), j > pushed[s]
        PROVE  /\ Loose(Batch[s][j])'
               /\ \A k \in 1..Len(queue') : queue'[k] # Batch[s][j]
    <3>1. Loose(Batch[s][j]) /\ \A k \in 1..Len(queue) : queue[k] # Batch[s][j]
      BY <2>1 DEF Custody, Unpushed
    <3>2. Batch[s][j] \notin taken /\ Batch[s][j] \in Items
      BY <1>1, <1>4, <3>1, BatchItems DEF taken
    <3>3. \A k \in 1..Len(queue') : n + k \in 1..Len(queue) /\ queue'[k] = queue[n + k]
      BY <1>1, <1>5
    <3> QED
      BY <1>9, <3>1, <3>2, <3>3
  <2> QED
    BY <2>1 DEF Custody, Unpushed
<1> QED
  BY <1>6, <1>7, <1>8, <1>10, <1>11 DEF Custody, Loose

\* The steps of a submission that move no item.
LEMMA SubmissionsKeep ==
  ASSUME AbortInv, Custody, NEW s \in Submitters,
         \/ registerSubmission(s) \/ submitNothing(s) \/ PushEnds(s)
         \/ recordAccepted(s) \/ unregisterSubmission(s)
  PROVE  AbortInv' /\ Custody'
<1>1. s \in Procs \ {Coordinator} /\ Submitters \subseteq Procs
  BY RunnerAssumption DEF Procs
<1>2. ItemsStay /\ UNCHANGED outcome
  BY DEF registerSubmission, submitNothing, PushEnds, recordAccepted, unregisterSubmission,
         work, ItemsStay
<1>3. LifeGoesOn
  <2>1. life = [f \in LifeFields |-> life[f]]
    BY DEF AbortInv, Shapes
  <2>2. CASE UNCHANGED life
    BY <2>2, SameLife
  <2>3. CASE life' = [life EXCEPT !.active = @ + 1]
    BY <2>1, <2>3 DEF LifeGoesOn, LifeFields, Committed
  <2>4. CASE unregisterSubmission(s)
    BY <2>1, <2>4 DEF unregisterSubmission, LifeGoesOn, LifeFields, Committed
  <2> QED
    BY <2>2, <2>3, <2>4 DEF registerSubmission, submitNothing, PushEnds, recordAccepted
<1>4. PICK l : /\ Go(s, l)
               /\ \/ l \in {"returned", "unregister", "record", "abort"}
                  \/ l = "registered" /\ pc[s] = "start"
  BY DEF registerSubmission, submitNothing, PushEnds, recordAccepted, unregisterSubmission,
         callAbort
<1>5. ret' = ret \/ \E r \in Resumed : ret' = [ret EXCEPT ![s] = r]
  BY DEF registerSubmission, submitNothing, PushEnds, recordAccepted, unregisterSubmission,
         callAbort, Resumed
<1>6. pc[s] # "exited"
  BY DEF registerSubmission, submitNothing, PushEnds, recordAccepted, unregisterSubmission
<1>7. AbortInv'
  BY <1>1, <1>2, <1>3, <1>4, <1>5, <1>6, Goes DEF ItemsStay
<1>8. CallersStay
  BY <1>1, <1>4, OneMoves DEF CallersStay
<1> QED
  BY <1>2, <1>7, <1>8, CustodyKept

\* PushBatch moves the next item of a batch to the end of the queue.
LEMMA PushKeeps ==
  ASSUME AbortInv, Custody, NEW s \in Submitters, pushItem(s)
  PROVE  AbortInv' /\ Custody'
<1> DEFINE x == Batch[s][pushed[s] + 1]
           n == Len(queue)
<1>1. s \in Procs \ {Coordinator} /\ Submitters \subseteq Procs
  BY RunnerAssumption DEF Procs
<1>2. /\ config' = config /\ held' = held /\ due' = due /\ terminal' = terminal
      /\ outcome' = outcome /\ life' = life /\ ret' = ret
      /\ queue' = Append(queue, x) /\ pushed' = [pushed EXCEPT ![s] = @ + 1]
      /\ Go(s, IF pushed[s] + 1 = Len(Batch[s]) THEN "record" ELSE "push")
      /\ pc[s] # "exited"
  BY DEF pushItem, work
<1>3. AbortInv'
  BY <1>1, <1>2, SameLife, Goes
<1>4. /\ pushed \in [Submitters -> Nat] /\ queue \in Seq(Items) /\ n \in Nat
      /\ config \in Configs /\ s \in config.callers /\ pushed[s] < Len(Batch[s])
      /\ pushed[s] + 1 \in 1..Len(Batch[s]) /\ x \in Items
  <2>1. /\ pushed \in [Submitters -> Nat] /\ queue \in Seq(Items)
        /\ config \in Configs /\ s \in config.callers /\ pushed[s] < Len(Batch[s])
    BY DEF pushItem, Custody, Unpushed, Queued
  <2> QED
    BY <2>1, BatchItems
<1>5. Loose(x) /\ \A k \in 1..n : queue[k] # x
  BY <1>4 DEF Custody, Unpushed
<1>6. \A i : Loose(i) => Loose(i)'
  BY <1>2 DEF Loose
<1>7. /\ queue' \in Seq(Items) /\ Len(queue') = n + 1 /\ queue'[n + 1] = x
      /\ \A k \in 1..n : queue'[k] = queue[k]
  BY <1>2, <1>4
<1> HIDE DEF x, n
<1>8. Held'
  BY <1>2 DEF Custody, Held
<1>9. Queued'
  <2>1. ASSUME NEW j \in 1..Len(queue'), NEW k \in 1..Len(queue'), queue'[j] = queue'[k]
        PROVE  j = k
    <3>1. j \in 1..n \/ j = n + 1
      BY <1>4, <1>7
    <3>2. k \in 1..n \/ k = n + 1
      BY <1>4, <1>7
    <3>3. CASE j \in 1..n /\ k \in 1..n
      BY <1>7, <2>1, <3>3 DEF Custody, Queued, n
    <3> QED
      BY <1>5, <1>7, <2>1, <3>1, <3>2, <3>3
  <2>2. ASSUME NEW j \in 1..Len(queue')
        PROVE  Loose(queue[j])'
    <3>1. queue'[j] = x \/ (j \in 1..n /\ queue'[j] = queue[j])
      BY <1>4, <1>7
    <3>2. Loose(queue'[j])
      BY <1>5, <3>1 DEF Custody, Queued, n
    <3> QED
      BY <1>2, <3>2 DEF Loose
  <2> QED
    BY <1>7, <2>1, <2>2 DEF Queued
<1>10. /\ pushed' \in [Submitters -> Nat] /\ pushed'[s] = pushed[s] + 1
       /\ \A t \in Submitters \ {s} : pushed'[t] = pushed[t]
  BY <1>2, <1>4
<1>11. ASSUME NEW t \in Submitters
       PROVE  /\ pc'[t] = "start" => t \in config.callers /\ pushed'[t] = 0
              /\ pc'[t] \in {"registered", "push"} =>
                   t \in config.callers /\ pushed'[t] < Len(Batch[t])
  <2>1. CASE t = s
    <3>1. pc'[s] = IF pushed[s] + 1 = Len(Batch[s]) THEN "record" ELSE "push"
      BY <1>1, <1>2, OneMoves
    <3> QED
      BY <1>4, <1>10, <2>1, <3>1, BatchItems
  <2>2. CASE t # s
    <3>1. pc'[t] = pc[t]
      BY <1>1, <1>2, <2>2, OneMoves
    <3> QED
      BY <1>10, <2>2, <3>1 DEF Custody, Unpushed
  <2> QED
    BY <2>1, <2>2
<1>12. ASSUME NEW t \in Submitters \cap config.callers, NEW j \in 1..Len(Batch[t]), j > pushed'[t]
       PROVE  /\ Loose(Batch[t][j])'
              /\ \A k \in 1..Len(queue') : queue'[k] # Batch[t][j]
  <2>1. j > pushed[t] /\ (t = s => j # pushed[s] + 1)
    BY <1>4, <1>10, <1>12, BatchItems
  <2>2. Loose(Batch[t][j]) /\ \A k \in 1..n : queue[k] # Batch[t][j]
    BY <2>1 DEF Custody, Unpushed, n
  <2>3. Batch[t][j] # x
    <3>1. DOMAIN Batch[s] = 1..Len(Batch[s]) /\ DOMAIN Batch[t] = 1..Len(Batch[t])
      BY RunnerAssumption
    <3> QED
      BY <1>4, <2>1, <3>1, RunnerAssumption DEF x
  <2>4. \A k \in 1..Len(queue') : queue'[k] # Batch[t][j]
    BY <1>4, <1>7, <2>2, <2>3
  <2> QED
    BY <1>6, <2>2, <2>4
<1>13. Unpushed'
  BY <1>2, <1>4, <1>10, <1>11, <1>12 DEF Unpushed
<1> QED
  BY <1>3, <1>8, <1>9, <1>13 DEF Custody

-----------------------------------------------------------------------------
(* The workers, and finalization. *)

\* A holder chooses which of its items are due.
LEMMA DueChosen ==
  ASSUME Custody, UNCHANGED <<config, queue, held, pushed, terminal>>, CallersStay,
         NEW p \in Holders, NEW items \in SUBSET held[p], due' = [due EXCEPT ![p] = items]
  PROVE  Custody'
<1>1. Held'
  BY DEF Custody, Held
<1>2. Queued'
  BY DEF Custody, Queued, Loose
<1>3. \A i : Loose(i) => Loose(i)'
  BY DEF Loose
<1>4. ASSUME NEW s \in Submitters
      PROVE  /\ pc'[s] = "start" => s \in config.callers /\ pushed[s] = 0
             /\ pc'[s] \in {"registered", "push"} =>
                  s \in config.callers /\ pushed[s] < Len(Batch[s])
  BY BatchItems DEF Custody, Unpushed, CallersStay
<1>5. Unpushed'
  BY <1>3, <1>4 DEF Custody, Unpushed
<1> QED
  BY <1>1, <1>2, <1>5 DEF Custody

\* publish finalizes items that are due, and lets go of them.
LEMMA PublishMoves ==
  ASSUME AbortInv, Custody, NEW p \in Holders, NEW items \in SUBSET due[p], publish(p, items),
         UNCHANGED <<config, queue, pushed, outcome, life>>, CallersStay,
         items # {} => awaitAbortPublication
  PROVE  /\ Custody' /\ Marks' /\ AbandonedAfterAborting'
         /\ outcome' = [i \in Items |-> outcome'[i]] /\ terminal' \in [Items -> Nat]
<1>1. /\ terminal' = [i \in Items |-> terminal[i] + IF i \in items THEN 1 ELSE 0]
      /\ held' = [held EXCEPT ![p] = @ \ items]
      /\ due' = [due EXCEPT ![p] = @ \ items]
  BY DEF publish
<1>2. /\ held \in [Holders -> SUBSET Items] /\ due \in [Holders -> SUBSET Items]
      /\ terminal \in [Items -> Nat] /\ items \subseteq held[p] /\ items \subseteq Items
  BY DEF Custody, Held
<1>3. /\ terminal' \in [Items -> Nat]
      /\ \A i \in Items \ items : terminal'[i] = terminal[i]
  BY <1>1, <1>2
<1>4. /\ held' \in [Holders -> SUBSET Items] /\ due' \in [Holders -> SUBSET Items]
      /\ held'[p] = held[p] \ items /\ due'[p] = due[p] \ items
      /\ \A r \in Holders \ {p} : held'[r] = held[r] /\ due'[r] = due[r]
  BY <1>1, <1>2
<1>5. Held'
  <2>1. \A r \in Holders : due'[r] \subseteq held'[r] /\ held'[r] \subseteq held[r]
    BY <1>4 DEF Custody, Held
  <2>2. \A r \in Holders : \A i \in held'[r] : i \notin items /\ i \in Items
    BY <1>2, <1>4 DEF Custody, Held
  <2>3. \A q, r \in Holders : q # r => held'[q] \cap held'[r] = {}
    BY <2>1 DEF Custody, Held
  <2>4. \A r \in Holders : \A i \in held'[r] : terminal'[i] = 0
    BY <1>3, <2>1, <2>2 DEF Custody, Held
  <2>5. \A i \in Items : terminal'[i] <= 1
    BY <1>1, <1>2, <1>3 DEF Custody, Held
  <2> QED
    BY <1>3, <1>4, <2>1, <2>3, <2>4, <2>5 DEF Held
<1>6. \A i \in Items : Loose(i) => Loose(i)'
  BY <1>2, <1>3, <1>4 DEF Loose
<1>7. Queued'
  BY <1>6 DEF Custody, Queued
<1>8. ASSUME NEW s \in Submitters
      PROVE  /\ pc'[s] = "start" => s \in config.callers /\ pushed[s] = 0
             /\ pc'[s] \in {"registered", "push"} =>
                  s \in config.callers /\ pushed[s] < Len(Batch[s])
  BY BatchItems DEF Custody, Unpushed, CallersStay
<1>9. Unpushed'
  BY <1>6, <1>8, BatchItems DEF Custody, Unpushed
<1>10. Marks' /\ outcome' = [i \in Items |-> outcome'[i]]
  BY DEF AbortInv, Marks, Shapes, Committed
<1>11. AbandonedAfterAborting'
  <2> SUFFICES ASSUME NEW i \in Items, terminal'[i] > 0, outcome[i] = "abandoned"
               PROVE  life.aborting
    BY DEF AbandonedAfterAborting
  <2>1. CASE i \in items
    BY <2>1 DEF awaitAbortPublication, AbortInv, Marks, Committed
  <2>2. CASE i \notin items
    BY <1>3, <2>2 DEF AbortInv, AbandonedAfterAborting
  <2> QED
    BY <2>1, <2>2
<1> QED
  BY <1>3, <1>5, <1>7, <1>9, <1>10, <1>11 DEF Custody

\* Workers are neither submissions nor the coordinator, and while one of them runs
\* its context ends by an abort only.
LEMMA WorkerFacts ==
  ASSUME AbortInv, NEW w \in Workers, pc[w] # "exited"
  PROVE  /\ w \in Procs \ {Coordinator} /\ w \in Holders /\ w \notin Submitters
         /\ \A l : Go(w, l) => CallersStay
         /\ life.cancelled = TRUE => Committed
<1>1. w \in Procs \ {Coordinator} /\ w \in Holders /\ w \notin Submitters /\ Submitters \subseteq Procs
  BY RunnerAssumption DEF Procs, Holders
<1>2. ASSUME NEW l, Go(w, l)
      PROVE  CallersStay
  BY <1>1, <1>2, OneMoves DEF CallersStay
<1>3. pc[Coordinator] \notin {"publish", "exited"}
  BY DEF AbortInv, Joined
<1> QED
  BY <1>1, <1>2, <1>3 DEF AbortInv, Knowing

\* The steps of a worker that leave every item where it is, with the mark it has.
LEMMA WorkersWait ==
  ASSUME AbortInv, Custody, NEW w \in Workers,
         runWorker(w) \/ receiveWait(w) \/ handleReceiveError(w) \/ OnTerminal(w)
  PROVE  AbortInv' /\ Custody'
<1>1. pc[w] # "exited"
  BY DEF runWorker, receiveWait, handleReceiveError, OnTerminal
<1>2. ItemsStay /\ UNCHANGED <<outcome, life>>
  BY DEF runWorker, receiveWait, handleReceiveError, OnTerminal, work, ItemsStay
<1>3. PICK l \in {"exited", "receive", "receiveWait", "abort", "settle"} : Go(w, l)
  BY DEF runWorker, receiveWait, handleReceiveError, OnTerminal, callAbort
<1>4. ret' = ret \/ \E r \in Resumed : ret' = [ret EXCEPT ![w] = r]
  BY DEF runWorker, receiveWait, handleReceiveError, OnTerminal, callAbort, Resumed
<1>5. AbortInv'
  BY <1>1, <1>2, <1>3, <1>4, WorkerFacts, SameLife, Goes DEF ItemsStay
<1>6. CallersStay
  BY <1>1, <1>3, WorkerFacts
<1> QED
  BY <1>2, <1>5, <1>6, CustodyKept

\* A received batch, and a batch whose retries are due.
LEMMA WorkersOwn ==
  ASSUME AbortInv, Custody, NEW w \in Workers, receive(w) \/ retryTimer(w)
  PROVE  AbortInv' /\ Custody'
<1>1. pc[w] # "exited"
  BY DEF receive, retryTimer
<1>2. UNCHANGED <<config, pushed, terminal, outcome, life, ret>>
  BY DEF receive, retryTimer
<1>3. PICK l : Go(w, l) /\ (l \in {"cancel", "closeAborting", "abandon"} => Committed)
  <2>1. CASE receive(w)
    BY <2>1 DEF receive, processHeldBatch, Committed
  <2>2. CASE retryTimer(w)
    <3>1. (life.cancelled /\ Go(w, "abandon")) \/ Go(w, processHeldBatch)
      BY <2>2 DEF retryTimer
    <3>2. life.cancelled => Committed
      BY <1>1, WorkerFacts
    <3> QED
      BY <3>1, <3>2 DEF processHeldBatch, Committed
  <2> QED
    BY <2>1, <2>2
<1>4. LifeGoesOn /\ (Committed => Committed')
  BY <1>2, SameLife DEF LifeGoesOn
<1>5. AbortInv'
  BY <1>1, <1>2, <1>3, <1>4, WorkerFacts, Goes
<1>6. CallersStay
  BY <1>1, <1>3, WorkerFacts
<1>7. CASE receive(w)
  <2>1. Take(w)
    BY <1>7 DEF receive
  <2>2. \A s \in Submitters : pc'[s] = pc[s]
    BY <1>1, <1>3, WorkerFacts, OneMoves DEF Procs
  <2> QED
    BY <1>1, <1>2, <1>5, <2>1, <2>2, WorkerFacts, TakeMoves
<1>8. CASE retryTimer(w)
  <2>1. UNCHANGED <<queue, held>>
    BY <1>8 DEF retryTimer
  <2>2. \E items \in SUBSET held[w] : due' = [due EXCEPT ![w] = items]
    <3>1. CASE due' = due
      <4>1. due[w] \in SUBSET held[w] /\ due' = [due EXCEPT ![w] = due[w]]
        BY <1>1, <3>1, WorkerFacts DEF Custody, Held
      <4> QED
        BY <4>1
    <3> QED
      BY <1>8, <3>1 DEF retryTimer
  <2> QED
    BY <1>1, <1>2, <1>5, <1>6, <2>1, <2>2, WorkerFacts, DueChosen
<1> QED
  BY <1>7, <1>8

\* The handler's answer: it marks an item abandoned only after an abort, and only
\* the items that it was given.
LEMMA HandlerMarks ==
  ASSUME AbortInv, Custody, NEW w \in Workers, invokeHeld(w)
  PROVE  /\ Marks' /\ AbandonedAfterAborting' /\ outcome' = [i \in Items |-> outcome'[i]]
<1>1. w \in Holders /\ (life.cancelled => Committed) /\ life' = life /\ terminal' = terminal
  BY WorkerFacts DEF invokeHeld
<1>2. PICK results \in [due[w] -> Results] :
        outcome' = [i \in Items |->
              CASE i \notin due[w] -> outcome[i]
                [] i \in due[w] /\ (~validateResults(results) \/ results[i] = "failed") -> "failed"
                [] i \in due[w] /\ validateResults(results) /\ results[i] = "succeeded" -> "succeeded"
                [] OTHER -> "abandoned"]
  BY DEF invokeHeld
<1>3. ASSUME NEW i \in Items, outcome'[i] = "abandoned", i \in due[w]
      PROVE  Committed
  <2>1. validateResults(results) /\ results[i] # "failed" /\ results[i] # "succeeded"
    BY <1>2, <1>3
  <2>2. results[i] \in {"unattempted", "interrupted"} /\ results[i] \in Range(results)
    BY <1>3, <2>1 DEF Results, Range
  <2> QED
    BY <1>1, <2>1, <2>2 DEF validateResults, Committed
<1>4. \A i \in Items : i \notin due[w] => outcome'[i] = outcome[i]
  BY <1>2
<1>5. Marks'
  BY <1>1, <1>3, <1>4 DEF AbortInv, Marks, Committed
<1>6. \A i \in due[w] : terminal[i] = 0
  BY <1>1 DEF Custody, Held
<1>7. AbandonedAfterAborting'
  BY <1>1, <1>4, <1>6 DEF AbortInv, AbandonedAfterAborting
<1>8. outcome' = [i \in Items |-> outcome'[i]]
  BY <1>2
<1> QED
  BY <1>5, <1>7, <1>8

\* The steps that mark items: the handler's answer, its classification, and what a
\* worker abandons.
LEMMA WorkersMark ==
  ASSUME AbortInv, Custody, NEW w \in Workers,
         invokeHeld(w) \/ classifyFailure(w) \/ abandonHeld(w)
  PROVE  AbortInv' /\ Custody'
<1>1. pc[w] # "exited"
  BY DEF invokeHeld, classifyFailure, abandonHeld
<1>2. UNCHANGED <<config, queue, held, pushed, terminal, life>>
  BY DEF invokeHeld, classifyFailure, abandonHeld
<1>3. PICK l \in {"settle", "abort"} : Go(w, l)
  <2>1. UNCHANGED pc /\ pc[w] = "settle" => Go(w, "settle")
    BY <1>1, WorkerFacts DEF AbortInv, Shapes, Go
  <2>2. classifyFailure(w) => Go(w, "abort") \/ (UNCHANGED pc /\ pc[w] = "settle")
    BY DEF classifyFailure, callAbort
  <2> QED
    BY <2>1, <2>2 DEF invokeHeld, abandonHeld, callAbort
<1>4. ret' = ret \/ \E r \in Resumed : ret' = [ret EXCEPT ![w] = r]
  BY DEF invokeHeld, classifyFailure, abandonHeld, callAbort, Resumed
<1>5. LifeGoesOn /\ terminal' \in [Items -> Nat]
  BY <1>2, SameLife DEF AbortInv, Shapes
<1>6. /\ Marks' /\ AbandonedAfterAborting' /\ outcome' = [i \in Items |-> outcome'[i]]
  <2>1. CASE invokeHeld(w)
    BY <2>1, HandlerMarks
  <2>2. CASE classifyFailure(w)
    <3>1. PICK i \in unclassified[w], delay \in {"negative", "retry", "stop"} :
             outcome' = [outcome EXCEPT ![i] =
                           IF ~(tried[i] < config.maxAttempts) \/ delay # "retry"
                           THEN @ ELSE "pending"]
      BY <2>2 DEF classifyFailure
    <3>2. /\ outcome' = [x \in Items |-> outcome'[x]]
          /\ \A x \in Items : outcome'[x] = outcome[x] \/ outcome'[x] = "pending"
      BY <3>1 DEF AbortInv, Shapes
    <3> QED
      BY <1>2, <3>2 DEF AbortInv, Marks, AbandonedAfterAborting, Committed
  <2>3. CASE abandonHeld(w)
    <3>1. outcome' = [i \in Items |-> IF i \in held[w] THEN "abandoned" ELSE outcome[i]]
      BY <2>3 DEF abandonHeld
    <3>2. Committed
      BY <1>1, <2>3, WorkerFacts DEF abandonHeld, AbortInv, Knowing
    <3>3. \A i \in held[w] : terminal[i] = 0
      BY <1>1, WorkerFacts DEF Custody, Held
    <3> QED
      BY <1>2, <3>1, <3>2, <3>3 DEF AbortInv, Marks, AbandonedAfterAborting, Committed
  <2> QED
    BY <2>1, <2>2, <2>3
<1>7. AbortInv'
  BY <1>1, <1>3, <1>4, <1>5, <1>6, WorkerFacts, GoesMarking
<1>8. CallersStay
  BY <1>1, <1>3, WorkerFacts
<1>9. \E items \in SUBSET held[w] : due' = [due EXCEPT ![w] = items]
  <2>1. CASE due' = due
    <3>1. due[w] \in SUBSET held[w] /\ due' = [due EXCEPT ![w] = due[w]]
      BY <1>1, <2>1, WorkerFacts DEF Custody, Held
    <3> QED
      BY <3>1
  <2>2. CASE due' = [due EXCEPT ![w] = held[w]]
    BY <2>2
  <2> QED
    BY <2>1, <2>2 DEF invokeHeld, classifyFailure, abandonHeld
<1> QED
  BY <1>1, <1>2, <1>7, <1>8, <1>9, WorkerFacts, DueChosen

\* The coordinator is neither a worker nor a submission.
LEMMA CoordinatorFacts ==
  /\ Coordinator \in Procs /\ Coordinator \in Holders
  /\ Coordinator \notin Workers /\ Coordinator \notin Submitters
  /\ AbortInv => \A l : Go(Coordinator, l) => \A s \in Submitters : pc'[s] = pc[s]
<1>1. /\ Coordinator \in Procs /\ Coordinator \in Holders
      /\ Coordinator \notin Workers /\ Coordinator \notin Submitters /\ Submitters \subseteq Procs
  BY RunnerAssumption DEF Procs, Holders
<1>2. ASSUME AbortInv, NEW l, Go(Coordinator, l), NEW s \in Submitters
      PROVE  pc'[s] = pc[s]
  BY <1>1, <1>2, OneMoves
<1> QED
  BY <1>1, <1>2

\* A goroutine finalizes what is due.
LEMMA FinalizeKeeps ==
  ASSUME AbortInv, Custody, NEW p \in Holders, finalizeBatch(p)
  PROVE  AbortInv' /\ Custody'
<1>1. pc[p] = "settle" /\ UNCHANGED <<config, queue, life, ret, pushed, outcome>>
  BY DEF finalizeBatch
<1>2. PICK items \in SUBSET due[p], l \in {"callback", Onward(p, held[p] \ Final(p))} :
        /\ publish(p, items) /\ Go(p, l)
        /\ items # {} => awaitAbortPublication
  <2>1. Final(p) \in SUBSET due[p] /\ \A i \in Final(p) : {i} \in SUBSET due[p]
    BY DEF Final
  <2>2. CASE config.callbacks /\ Final(p) # {}
    <3>1. PICK i \in Final(p) : publish(p, {i})
      BY <2>2 DEF finalizeBatch
    <3>2. Go(p, "callback") /\ awaitAbortPublication
      BY <2>2 DEF finalizeBatch
    <3> QED
      BY <2>1, <3>1, <3>2
  <2>3. CASE ~(config.callbacks /\ Final(p) # {})
    <3>1. /\ publish(p, Final(p)) /\ Go(p, Onward(p, held[p] \ Final(p)))
          /\ awaitAbortPublication \/ Final(p) = {}
      BY <2>3 DEF finalizeBatch
    <3> QED
      BY <2>1, <3>1
  <2> QED
    BY <2>2, <2>3
<1>3. LifeGoesOn /\ ret' = ret
  BY <1>1, SameLife
<1>4. p \in Workers \/ p = Coordinator
  BY DEF Holders
<1>5. CASE p \in Workers
  <2>1. p # Coordinator
    BY <1>5, CoordinatorFacts
  <2>2. l \in {"cancel", "closeAborting", "abandon"} => Committed
    BY <1>2, <2>1 DEF Onward, waitForRetry, Committed
  <2>3. CallersStay /\ p \in Procs \ {Coordinator} /\ pc[p] # "exited"
    BY <1>1, <1>2, <1>5, WorkerFacts
  <2>4. /\ Custody' /\ Marks' /\ AbandonedAfterAborting'
        /\ outcome' = [i \in Items |-> outcome'[i]] /\ terminal' \in [Items -> Nat]
    BY <1>1, <1>2, <2>3, PublishMoves
  <2>5. Committed => Committed'
    BY <1>3 DEF LifeGoesOn
  <2> QED
    BY <1>2, <1>3, <2>2, <2>3, <2>4, <2>5, GoesMarking
<1>6. CASE p = Coordinator
  <2>1. l \in {"callback", "cleanup"}
    BY <1>2, <1>6 DEF Onward
  <2>2. Committed /\ \A w \in Workers : pc[w] = "exited"
    BY <1>1, <1>6 DEF AbortInv, Joined
  <2>3. CallersStay
    BY <1>2, <1>6, CoordinatorFacts DEF CallersStay
  <2>4. /\ Custody' /\ Marks' /\ AbandonedAfterAborting'
        /\ outcome' = [i \in Items |-> outcome'[i]] /\ terminal' \in [Items -> Nat]
    BY <1>1, <1>2, <2>3, PublishMoves
  <2>5. ret' \in [Procs -> Resumed]
    BY <1>3 DEF AbortInv, Shapes
  <2> QED
    BY <1>2, <1>3, <1>6, <2>1, <2>2, <2>4, <2>5, CoordinatorMoves DEF LifeGoesOn, Aborter
<1> QED
  BY <1>4, <1>5, <1>6

-----------------------------------------------------------------------------
(* The coordinator. *)

\* The steps of the coordinator that leave every item where it is.
LEMMA CoordinatorWaits ==
  ASSUME AbortInv, Custody,
         \/ coordinate \/ drain \/ finishWorkers \/ checkAbortCause
         \/ snapshot \/ publishCompletion \/ OnTerminal(Coordinator)
  PROVE  AbortInv' /\ Custody'
<1>1. ItemsStay /\ UNCHANGED outcome
  BY DEF coordinate, drain, finishWorkers, checkAbortCause, snapshot, publishCompletion,
         OnTerminal, work, ItemsStay
<1>2. /\ life' = [f \in LifeFields |-> life'[f]]
      /\ life'.abortRecord = life.abortRecord /\ life'.aborting = life.aborting
      /\ life'.cancelled = life.cancelled \/ snapshot
  <2>1. life = [f \in LifeFields |-> life[f]]
    BY DEF AbortInv, Shapes
  <2>2. CASE snapshot
    BY <2>1, <2>2 DEF snapshot, LifeFields
  <2>3. CASE publishCompletion
    <3>1. PICK a, b, c : life' = [life EXCEPT !.done = a, !.panicked = b, !.finalErr = c]
      BY <2>3 DEF publishCompletion
    <3> QED
      BY <2>1, <3>1 DEF LifeFields
  <2>4. CASE UNCHANGED life
    BY <2>1, <2>4
  <2> QED
    BY <2>2, <2>3, <2>4 DEF coordinate, drain, finishWorkers, checkAbortCause, OnTerminal
<1>3. /\ outcome' = [i \in Items |-> outcome'[i]] /\ terminal' \in [Items -> Nat]
      /\ Marks' /\ AbandonedAfterAborting' /\ (Committed => Committed')
  BY <1>1, <1>2 DEF ItemsStay, AbortInv, Shapes, Marks, AbandonedAfterAborting, Committed
<1>4. PICK l : /\ Go(Coordinator, l)
               /\ \/ /\ l \in {"drain", "join"} /\ pc[Coordinator] \in {"coordinate", "drain"}
                     /\ UNCHANGED ret
                  \/ /\ l = "finished" /\ pc[Coordinator] = "join" /\ UNCHANGED ret
                     /\ \A w \in Workers : pc[w] = "exited"
                  \/ l = "complete" /\ pc[Coordinator] = "finished" /\ UNCHANGED ret
                  \/ l = "cleanup" /\ pc[Coordinator] = "finished" /\ Committed /\ UNCHANGED ret
                  \/ l = "publish" /\ pc[Coordinator] = "complete" /\ UNCHANGED ret
                  \/ l = "exited" /\ pc[Coordinator] = "publish" /\ UNCHANGED ret
                  \/ l = "settle" /\ pc[Coordinator] = "callback" /\ UNCHANGED ret
                  \/ /\ l = "abort" /\ pc[Coordinator] = "callback"
                     /\ ret' = [ret EXCEPT ![Coordinator] = "settle"]
  BY DEF coordinate, drain, finishWorkers, checkAbortCause, snapshot, publishCompletion,
         OnTerminal, callAbort, At, Committed
<1>5. l \notin {"unstarted", "coordinate", "drain", "join"} => \A w \in Workers : pc[w] = "exited"
  BY <1>4 DEF AbortInv, Joined
<1>6. l \in {"cleanup", "settle", "callback", "abandon"} \cup Aborter => Committed
  BY <1>4 DEF AbortInv, Joined, Aborter
<1>7. ret' \in [Procs -> Resumed] /\ (l \in Aborter => ret'[Coordinator] = "settle")
  BY <1>4, CoordinatorFacts DEF AbortInv, Shapes, Resumed, Aborter
<1>8. \/ life'.cancelled # TRUE \/ Committed' \/ l \in {"publish", "exited"}
      \/ life.cancelled = TRUE /\ pc[Coordinator] \notin {"publish", "exited"}
  <2>1. CASE snapshot
    <3>1. Go(Coordinator, "publish")
      BY <2>1 DEF snapshot
    <3>2. l = "publish"
      BY <1>4, <3>1, CoordinatorFacts, OneMoves
    <3> QED
      BY <3>2
  <2>2. CASE life'.cancelled = life.cancelled
    BY <1>3, <1>4, <2>2 DEF AbortInv, Knowing
  <2> QED
    BY <1>2, <2>1, <2>2
<1>9. AbortInv'
  BY <1>2, <1>3, <1>4, <1>5, <1>6, <1>7, <1>8, CoordinatorMoves
<1>10. CallersStay
  BY <1>4, CoordinatorFacts DEF CallersStay
<1> QED
  BY <1>1, <1>9, <1>10, CustodyKept

\* The cleanup after an abort takes what is left in the queue.
LEMMA CleanupKeeps ==
  ASSUME AbortInv, Custody, cleanupQueued
  PROVE  AbortInv' /\ Custody'
<1>1. /\ Committed /\ \A w \in Workers : pc[w] = "exited"
      /\ UNCHANGED <<config, life, ret, pushed, terminal>>
  BY DEF cleanupQueued, At, AbortInv, Joined
<1>2. ret' \in [Procs -> Resumed] /\ life' = [f \in LifeFields |-> life'[f]] /\ Committed'
  BY <1>1 DEF AbortInv, Shapes, Committed
<1>3. CASE queue # <<>>
  <2>1. /\ Take(Coordinator) /\ Go(Coordinator, "settle")
        /\ outcome' = [i \in Items |-> IF i \in due'[Coordinator] THEN "abandoned" ELSE outcome[i]]
    BY <1>3 DEF cleanupQueued
  <2>2. Custody' /\ \A i \in due'[Coordinator] : terminal[i] = 0
    BY <1>1, <2>1, CoordinatorFacts, TakeMoves
  <2>3. /\ outcome' = [i \in Items |-> outcome'[i]] /\ terminal' \in [Items -> Nat]
        /\ Marks' /\ AbandonedAfterAborting'
    BY <1>1, <1>2, <2>1, <2>2 DEF AbortInv, Shapes, Marks, AbandonedAfterAborting
  <2> QED
    BY <1>1, <1>2, <2>1, <2>2, <2>3, CoordinatorMoves DEF Aborter
<1>4. CASE queue = <<>>
  <2>1. Go(Coordinator, "complete") /\ UNCHANGED <<queue, held, due, outcome>>
    BY <1>4 DEF cleanupQueued
  <2>2. LifeGoesOn /\ ItemsStay
    BY <1>1, <2>1, SameLife DEF ItemsStay
  <2>3. CallersStay
    BY <2>1, CoordinatorFacts DEF CallersStay
  <2>4. AbortInv'
    <3>1. /\ outcome' = [i \in Items |-> outcome'[i]] /\ terminal' \in [Items -> Nat]
          /\ Marks' /\ AbandonedAfterAborting'
      BY <1>1, <2>1, <2>2, SameMarks
    <3> QED
      BY <1>1, <1>2, <2>1, <3>1, CoordinatorMoves DEF Aborter
  <2> QED
    BY <2>2, <2>3, <2>4, CustodyKept
<1> QED
  BY <1>3, <1>4

-----------------------------------------------------------------------------
\* The inductive invariant.
LEMMA Inductive == Spec => [](AbortInv /\ Custody)
<1>1. Init => AbortInv /\ Custody
  BY InitAbort, InitCustody
<1>2. AbortInv /\ Custody /\ [Next]_vars => (AbortInv /\ Custody)'
  <2> SUFFICES ASSUME AbortInv, Custody, [Next]_vars
               PROVE  AbortInv' /\ Custody'
    OBVIOUS
  <2>1. ASSUME NEW p \in Procs, Runs(p)
        PROVE  AbortInv' /\ Custody'
    <3>1. CASE Aborts(p)
      BY <3>1, AbortsKeep, AbortsCustody
    <3>2. CASE p \in Submitters /\ Submits(p)
      BY <3>2, PushKeeps, SubmissionsKeep DEF Submits, pushAborted
    <3>3. CASE p \in Workers /\ (Works(p) \/ Finalizes(p))
      BY <3>3, WorkersWait, WorkersOwn, WorkersMark, FinalizeKeeps
         DEF Works, Finalizes, Holders
    <3>4. CASE p \in Owners /\ Wait(p)
      BY <3>4, OwnersKeep
    <3>5. CASE p = Coordinator /\ (Coordinates \/ Finalizes(p))
      BY <3>5, CoordinatorWaits, CleanupKeeps, FinalizeKeeps, CoordinatorFacts
         DEF Coordinates, Finalizes
    <3> QED
      BY <2>1, <3>1, <3>2, <3>3, <3>4, <3>5 DEF Runs
  <2>2. ASSUME NEW o \in Owners, Shutdown(o) \/ Abort(o) \/ graceEnds(o)
        PROVE  AbortInv' /\ Custody'
    BY <2>2, OwnersKeep
  <2>3. ASSUME NEW s \in Submitters, registerSubmission(s) \/ submitNothing(s) \/ pushCanceled(s)
        PROVE  AbortInv' /\ Custody'
    BY <2>3, SubmissionsKeep DEF pushCanceled
  <2>4. CASE UNCHANGED vars
    <3>1. AbortInv'
      BY <2>4 DEF vars, AbortInv, Shapes, Joined, Knowing, Marks, AbandonedAfterAborting, Committed
    <3>2. ItemsStay /\ CallersStay
      BY <2>4 DEF vars, ItemsStay, CallersStay
    <3> QED
      BY <3>1, <3>2, CustodyKept
  <2> QED
    BY <2>1, <2>2, <2>3, <2>4 DEF Next
<1> QED
  BY <1>1, <1>2, PTL DEF Spec

(* An item is finalized as abandoned, by a worker that held it, by its        *)
(* handler's answer or by the cleanup of the queue, only after Aborting was   *)
(* closed: for any number of goroutines, batches and configurations.          *)
THEOREM AbandonedOnlyWhenPublic == Spec => []AbandonedAfterAborting
<1>1. AbortInv /\ Custody => AbandonedAfterAborting
  BY DEF AbortInv
<1> QED
  BY <1>1, Inductive, PTL

(* Every accepted item has one owner at a time, and is finalized at most once *)
(* however its retries, an abort and the cleanup of the queue interleave: a   *)
(* queued item is in the queue once and nobody holds it, two goroutines never *)
(* hold the same item, and an item that is held is not final.                 *)
THEOREM OneOwner == Spec => [](Held /\ Queued)
<1>1. AbortInv /\ Custody => Held /\ Queued
  BY DEF Custody
<1> QED
  BY <1>1, Inductive, PTL

-----------------------------------------------------------------------------
(* The gate. *)

\* Where a submission is between registerSubmission and unregisterSubmission.
Admitted == {"registered", "push", "record", "unregister"} \cup Aborter

\* The submissions the gate counts.
Active == {s \in Submitters : pc[s] \in Admitted}

\* The admission gate: it counts the submissions inside, admissionsDone is closed
\* exactly when it is shut and empty, and the coordinator goes on only then.
Gate ==
    /\ life.stopped \in BOOLEAN /\ life.admissionsDone \in BOOLEAN
    /\ life.active = Cardinality(Active)
    /\ life.admissionsDone <=> life.stopped /\ life.active = 0
    /\ pc[Coordinator] \notin {"unstarted", "coordinate"} => life.admissionsDone
    /\ \A s \in Submitters : pc[s] \in {"start", "returned"} \cup Admitted
    /\ \A s \in Submitters : pc[s] \in Aborter => ret[s] = "unregister"

\* What completion fixes: Done is closed by the coordinator's last step, with the
\* error that the recorded failures and the first cause add up to.
Ending ==
    /\ life.done \in BOOLEAN
    /\ life.done <=> pc[Coordinator] = "exited"
    /\ pc[Coordinator] = "publish" => life.snapshot = account.failures
    /\ life.done =>
         /\ life.finalErr = aggregateFailures(account.failures, life.abortRecord)
         /\ life.abortRecord # None => life.aborting

\* There are finitely many submissions.
LEMMA ActiveFinite == IsFiniteSet(Active) /\ Cardinality(Active) \in Nat /\ IsFiniteSet(Submitters)
<1>1. Submitters \in SUBSET Procs /\ IsFiniteSet(Procs)
  BY RunnerAssumption DEF Procs
<1>2. IsFiniteSet(Submitters)
  BY <1>1, FS_Subset
<1>3. Active \in SUBSET Submitters
  BY DEF Active
<1>4. IsFiniteSet(Active)
  BY <1>2, <1>3, FS_Subset
<1> QED
  BY <1>2, <1>4, FS_CardinalityType

\* A step that neither admits nor dismisses a submission, nor closes the gate.
LEMMA GateKept ==
  ASSUME Gate,
         life'.active = life.active, life'.stopped = life.stopped,
         life'.admissionsDone = life.admissionsDone,
         \A s \in Submitters :
            \/ pc'[s] = pc[s] /\ ret'[s] = ret[s]
            \/ /\ pc[s] \in Admitted /\ pc'[s] \in Admitted
               /\ pc'[s] \in Aborter => ret'[s] = "unregister",
         pc'[Coordinator] \notin {"unstarted", "coordinate"} =>
            pc[Coordinator] \notin {"unstarted", "coordinate"} \/ life.admissionsDone
  PROVE  Gate'
<1>1. Active' = Active
  BY DEF Active
<1>2. \A s \in Submitters : /\ pc'[s] \in {"start", "returned"} \cup Admitted
                            /\ pc'[s] \in Aborter => ret'[s] = "unregister"
  BY DEF Gate
<1> QED
  BY <1>1, <1>2 DEF Gate

\* A step that closes the gate.
LEMMA GateCloses ==
  ASSUME Gate, NEW l, l = [f \in LifeFields |-> l[f]],
         l.active = life.active, l.stopped = life.stopped,
         l.admissionsDone = life.admissionsDone,
         life' = closeAdmissionLocked(l),
         \A s \in Submitters :
            \/ pc'[s] = pc[s] /\ ret'[s] = ret[s]
            \/ /\ pc[s] \in Admitted /\ pc'[s] \in Admitted
               /\ pc'[s] \in Aborter => ret'[s] = "unregister",
         pc'[Coordinator] \notin {"unstarted", "coordinate"} =>
            pc[Coordinator] \notin {"unstarted", "coordinate"}
  PROVE  Gate'
<1>1. Active' = Active
  BY DEF Active
<1>2. \A s \in Submitters : /\ pc'[s] \in {"start", "returned"} \cup Admitted
                            /\ pc'[s] \in Aborter => ret'[s] = "unregister"
  BY DEF Gate
<1>3. /\ life'.active = life.active /\ life'.stopped = TRUE
      /\ life'.admissionsDone = (life.admissionsDone \/ life.active = 0)
  <2>1. CASE life.stopped
    <3>1. life' = l
      BY <2>1 DEF closeAdmissionLocked
    <3> QED
      BY <2>1, <3>1 DEF Gate
  <2>2. CASE ~life.stopped
    <3>1. life' = [l EXCEPT !.stopped = TRUE,
                   !.admissionsDone = @ \/ l.active = 0,
                   !.panicked = @ \/ (l.active = 0 /\ l.admissionsDone)]
      BY <2>2 DEF closeAdmissionLocked
    <3> QED
      BY <3>1 DEF LifeFields, Gate
  <2> QED
    BY <2>1, <2>2 DEF Gate
<1> QED
  BY <1>1, <1>2, <1>3 DEF Gate

\* A step that neither ends the run nor records a failure once nobody else runs.
LEMMA EndingKept ==
  ASSUME Ending,
         life'.done = life.done, life'.snapshot = life.snapshot, life'.finalErr = life.finalErr,
         life.aborting => life'.aborting,
         life.done => life'.abortRecord = life.abortRecord,
         pc'[Coordinator] = "exited" <=> pc[Coordinator] = "exited",
         pc'[Coordinator] = "publish" => pc[Coordinator] = "publish",
         pc[Coordinator] \in {"publish", "exited"} => account'.failures = account.failures
  PROVE  Ending'
<1>1. life'.done <=> pc'[Coordinator] = "exited"
  BY DEF Ending
<1>2. pc'[Coordinator] = "publish" => life'.snapshot = account'.failures
  BY DEF Ending
<1>3. ASSUME life'.done
      PROVE  /\ life'.finalErr = aggregateFailures(account'.failures, life'.abortRecord)
             /\ life'.abortRecord # None => life'.aborting
  BY <1>3 DEF Ending
<1> QED
  BY <1>1, <1>2, <1>3 DEF Ending

-----------------------------------------------------------------------------
(* What the steps of abort do. *)
AbortStep(p) ==
    /\ UNCHANGED <<config, queue, closed, account, pushed, work>>
    /\ pc[p] \in Aborter
    /\ \/ pc'[p] \in Aborter /\ ret'[p] = ret[p]
       \/ pc'[p] = ret[p]
    /\ \A x \in Procs \ {p} : ret'[x] = ret[x]
    /\ \A x \in Procs \ {p, Coordinator} : pc'[x] = pc[x]
    /\ p # Coordinator => \/ pc'[Coordinator] = pc[Coordinator]
                          \/ pc[Coordinator] = "unstarted" /\ pc'[Coordinator] = "coordinate"

\* What one step of an abort does to the gate and to what has ended.
LEMMA AbortSteps ==
  ASSUME AbortInv, NEW p \in Procs, Aborts(p)
  PROVE  /\ AbortStep(p)
         /\ \/ /\ \A f \in LifeFields \ {"cancelled", "aborting", "panicked"} : life'[f] = life[f]
               /\ life.aborting => life'.aborting
            \/ /\ ~life.done /\ life.abortRecord = None
               /\ life' = closeAdmissionLocked([life EXCEPT !.abortRecord = p])
<1>1. /\ UNCHANGED <<config, queue, closed, account, pushed, work>> /\ pc[p] \in Aborter
  BY DEF Aborts, abort, cancel, closeAborting, awaitAborting, Aborter
<1>2. /\ life = [f \in LifeFields |-> life[f]]
      /\ pc = [x \in Procs |-> pc[x]] /\ ret \in [Procs -> Resumed] /\ Coordinator \in Procs
  BY CoordinatorFacts DEF AbortInv, Shapes
<1>3. ASSUME Return(p) PROVE AbortStep(p)
  BY <1>1, <1>2, <1>3 DEF Return, Go, AbortStep
<1>4. ASSUME NEW l \in Aborter, Go(p, l), UNCHANGED ret PROVE AbortStep(p)
  BY <1>1, <1>2, <1>4 DEF Go, AbortStep
<1>5. ASSUME startCoordinatorLocked(p, "cancel"), UNCHANGED ret PROVE AbortStep(p)
  <2>1. pc'[p] = "cancel"
    <3>1. CASE p = Coordinator
      BY <1>1, <1>2, <1>5, <3>1 DEF startCoordinatorLocked, Aborter
    <3>2. CASE p # Coordinator
      BY <1>1, <1>2, <1>5, <3>2 DEF startCoordinatorLocked
    <3> QED
      BY <3>1, <3>2
  <2>2. \A x \in Procs \ {p, Coordinator} : pc'[x] = pc[x]
    BY <1>2, <1>5 DEF startCoordinatorLocked
  <2>3. p # Coordinator => \/ pc'[Coordinator] = pc[Coordinator]
                           \/ pc[Coordinator] = "unstarted" /\ pc'[Coordinator] = "coordinate"
    BY <1>2, <1>5 DEF startCoordinatorLocked
  <2> QED
    BY <1>1, <1>2, <1>5, <2>1, <2>2, <2>3 DEF AbortStep, Aborter
<1>6. CASE abort(p)
  <2>1. CASE life.done
    BY <1>3, <1>6, <2>1 DEF abort
  <2>2. CASE ~life.done /\ life.abortRecord # None
    BY <1>4, <1>6, <2>2 DEF abort, Aborter
  <2>3. CASE ~life.done /\ ~(life.abortRecord # None)
    BY <1>5, <1>6, <2>3 DEF abort
  <2> QED
    BY <2>1, <2>2, <2>3
<1>7. CASE cancel(p)
  <2>1. AbortStep(p)
    BY <1>4, <1>7 DEF cancel, Aborter
  <2>2. life' = [life EXCEPT !.cancelled = TRUE]
    BY <1>7 DEF cancel
  <2> QED
    BY <1>2, <2>1, <2>2 DEF LifeFields
<1>8. CASE closeAborting(p)
  <2>1. AbortStep(p)
    BY <1>3, <1>8 DEF closeAborting
  <2>2. PICK b : life' = [life EXCEPT !.aborting = TRUE, !.panicked = b]
    BY <1>8 DEF closeAborting
  <2> QED
    BY <1>2, <2>1, <2>2 DEF LifeFields
<1>9. CASE awaitAborting(p)
  BY <1>3, <1>9 DEF awaitAborting
<1> QED
  BY <1>6, <1>7, <1>8, <1>9 DEF Aborts

\* abort keeps the gate, and has no effect once the outcome is fixed.
LEMMA AbortsEnd ==
  ASSUME AbortInv, Gate, Ending, NEW p \in Procs, Aborts(p)
  PROVE  Gate' /\ Ending'
<1>1. AbortStep(p)
  BY AbortSteps
<1>2. /\ Coordinator \in Procs /\ Submitters \subseteq Procs /\ Coordinator \notin Submitters
      /\ life = [f \in LifeFields |-> life[f]]
  BY RunnerAssumption DEF Procs, AbortInv, Shapes
<1>3. \A s \in Submitters :
         \/ pc'[s] = pc[s] /\ ret'[s] = ret[s]
         \/ /\ pc[s] \in Admitted /\ pc'[s] \in Admitted
            /\ pc'[s] \in Aborter => ret'[s] = "unregister"
  BY <1>1, <1>2 DEF AbortStep, Gate, Admitted, Aborter
<1>4. p = Coordinator => /\ pc[Coordinator] \notin {"unstarted", "coordinate", "publish", "exited"}
                         /\ pc'[Coordinator] \notin {"publish", "exited"}
  BY <1>1 DEF AbortStep, AbortInv, Joined, Aborter
<1>5. /\ pc'[Coordinator] \notin {"unstarted", "coordinate"} =>
            pc[Coordinator] \notin {"unstarted", "coordinate"}
      /\ pc'[Coordinator] = "exited" <=> pc[Coordinator] = "exited"
      /\ pc'[Coordinator] = "publish" => pc[Coordinator] = "publish"
  BY <1>1, <1>4 DEF AbortStep
<1>6. account' = account
  BY <1>1 DEF AbortStep
<1>7. CASE /\ \A f \in LifeFields \ {"cancelled", "aborting", "panicked"} : life'[f] = life[f]
           /\ life.aborting => life'.aborting
  <2>1. /\ life'.active = life.active /\ life'.stopped = life.stopped
        /\ life'.admissionsDone = life.admissionsDone
        /\ life'.done = life.done /\ life'.snapshot = life.snapshot
        /\ life'.finalErr = life.finalErr /\ life'.abortRecord = life.abortRecord
    BY <1>7 DEF LifeFields
  <2>2. Gate'
    BY <1>3, <1>5, <2>1, GateKept
  <2>3. Ending'
    BY <1>5, <1>6, <1>7, <2>1, EndingKept
  <2> QED
    BY <2>2, <2>3
<1>8. CASE /\ ~life.done /\ life.abortRecord = None
           /\ life' = closeAdmissionLocked([life EXCEPT !.abortRecord = p])
  <2> DEFINE l == [life EXCEPT !.abortRecord = p]
  <2>1. /\ l = [f \in LifeFields |-> l[f]]
        /\ l.active = life.active /\ l.stopped = life.stopped
        /\ l.admissionsDone = life.admissionsDone /\ l.aborting = life.aborting
        /\ l.done = life.done /\ l.snapshot = life.snapshot /\ l.finalErr = life.finalErr
    BY <1>2 DEF LifeFields
  <2>2. life' = closeAdmissionLocked(l)
    BY <1>8
  <2> HIDE DEF l
  <2>3. Gate'
    BY <1>3, <1>5, <2>1, <2>2, GateCloses
  <2>4. /\ life'.done = life.done /\ life'.snapshot = life.snapshot
        /\ life'.finalErr = life.finalErr /\ life'.aborting = life.aborting
    BY <2>1, <2>2 DEF closeAdmissionLocked, LifeFields
  <2>5. Ending'
    BY <1>5, <1>6, <1>8, <2>4, EndingKept
  <2> QED
    BY <2>3, <2>5
<1> QED
  BY <1>7, <1>8, AbortSteps

\* A step that changes neither the lifecycle nor where the coordinator and the
\* submissions are.
LEMMA ElsewhereEnd ==
  ASSUME Gate, Ending, life' = life,
         pc'[Coordinator] = pc[Coordinator],
         \A s \in Submitters : pc'[s] = pc[s] /\ ret'[s] = ret[s],
         pc[Coordinator] \in {"publish", "exited"} => account'.failures = account.failures
  PROVE  Gate' /\ Ending'
  BY GateKept, EndingKept

\* The calls of the owner.
LEMMA OwnersEnd ==
  ASSUME AbortInv, Gate, Ending, NEW o \in Owners,
         Shutdown(o) \/ Abort(o) \/ graceEnds(o) \/ Wait(o)
  PROVE  Gate' /\ Ending'
<1>1. /\ o \in Procs \ {Coordinator} /\ o \notin Submitters /\ Submitters \subseteq Procs
      /\ Coordinator \in Procs /\ Coordinator \notin Submitters
      /\ life = [f \in LifeFields |-> life[f]]
      /\ pc = [x \in Procs |-> pc[x]] /\ ret \in [Procs -> Resumed]
  BY RunnerAssumption DEF Procs, AbortInv, Shapes
<1>2. CASE Shutdown(o)
  <2>1. /\ life' = closeAdmissionLocked(life) /\ account' = account /\ ret' = ret
        /\ startCoordinatorLocked(o, "grace")
    BY <1>2 DEF Shutdown, stopAdmission
  <2>2. /\ \A s \in Submitters : pc'[s] = pc[s] /\ ret'[s] = ret[s]
        /\ \/ pc'[Coordinator] = pc[Coordinator]
           \/ pc[Coordinator] = "unstarted" /\ pc'[Coordinator] = "coordinate"
    BY <1>1, <2>1 DEF startCoordinatorLocked
  <2>3. Gate'
    BY <1>1, <2>1, <2>2, GateCloses
  <2>4. /\ life'.done = life.done /\ life'.snapshot = life.snapshot
        /\ life'.finalErr = life.finalErr /\ life'.aborting = life.aborting
        /\ life'.abortRecord = life.abortRecord
    BY <1>1, <2>1 DEF closeAdmissionLocked, LifeFields
  <2>5. Ending'
    BY <2>1, <2>2, <2>4, EndingKept
  <2> QED
    BY <2>3, <2>5
<1>3. CASE Abort(o) \/ graceEnds(o) \/ Wait(o)
  <2>1. life' = life /\ account' = account
    BY <1>3 DEF Abort, graceEnds, Wait
  <2>2. PICK l, r : pc' = [pc EXCEPT ![o] = l] /\ ret' = [ret EXCEPT ![o] = r]
    <3>1. ret = [ret EXCEPT ![o] = ret[o]]
      BY <1>1
    <3> QED
      BY <1>3, <3>1 DEF Abort, graceEnds, Wait, callAbort, Go
  <2>3. /\ pc'[Coordinator] = pc[Coordinator]
        /\ \A s \in Submitters : pc'[s] = pc[s] /\ ret'[s] = ret[s]
    BY <1>1, <2>2
  <2> QED
    BY <2>1, <2>3, ElsewhereEnd
<1> QED
  BY <1>2, <1>3

\* While a submission is registered the coordinator waits for it.
LEMMA ActiveHolds ==
  ASSUME Gate, NEW s \in Active
  PROVE  pc[Coordinator] \in {"unstarted", "coordinate"} /\ life.active # 0
<1>1. life.active # 0
  BY ActiveFinite, FS_EmptySet DEF Gate
<1> QED
  BY <1>1 DEF Gate

\* Submissions are counted while they are registered, and the last one to leave a
\* closed gate says so.
LEMMA SubmissionsEnd ==
  ASSUME AbortInv, Gate, Ending, NEW s \in Submitters,
         \/ registerSubmission(s) \/ submitNothing(s) \/ pushItem(s) \/ PushEnds(s)
         \/ recordAccepted(s) \/ unregisterSubmission(s)
  PROVE  Gate' /\ Ending'
<1>1. /\ s \in Procs \ {Coordinator} /\ Submitters \subseteq Procs
      /\ Coordinator \in Procs /\ Coordinator \notin Submitters
      /\ life = [f \in LifeFields |-> life[f]]
      /\ pc = [x \in Procs |-> pc[x]] /\ ret \in [Procs -> Resumed]
  BY RunnerAssumption DEF Procs, AbortInv, Shapes
<1>2. ASSUME NEW l, Go(s, l)
      PROVE  /\ pc'[s] = l /\ pc'[Coordinator] = pc[Coordinator]
             /\ \A t \in Submitters \ {s} : pc'[t] = pc[t]
  BY <1>1, <1>2 DEF Go
<1>3. CASE registerSubmission(s) /\ life.stopped
  <2>1. Go(s, "returned") /\ life' = life /\ account' = account /\ ret' = ret /\ pc[s] = "start"
    BY <1>3 DEF registerSubmission
  <2>2. /\ pc'[s] = "returned" /\ pc'[Coordinator] = pc[Coordinator]
        /\ \A t \in Submitters \ {s} : pc'[t] = pc[t]
    BY <1>2, <2>1
  <2>3. Active' = Active
    BY <2>1, <2>2 DEF Active, Admitted, Aborter
  <2>4. \A t \in Submitters : /\ pc'[t] \in {"start", "returned"} \cup Admitted
                              /\ pc'[t] \in Aborter => ret'[t] = "unregister"
    BY <2>1, <2>2 DEF Gate, Aborter
  <2>5. Gate'
    BY <2>1, <2>2, <2>3, <2>4 DEF Gate
  <2>6. Ending'
    BY <2>1, <2>2, EndingKept
  <2> QED
    BY <2>5, <2>6
<1>4. CASE registerSubmission(s) /\ ~life.stopped
  <2>1. /\ Go(s, "registered") /\ life' = [life EXCEPT !.active = @ + 1]
        /\ account' = account /\ ret' = ret /\ pc[s] = "start"
    BY <1>4 DEF registerSubmission
  <2>2. /\ pc'[s] = "registered" /\ pc'[Coordinator] = pc[Coordinator]
        /\ \A t \in Submitters \ {s} : pc'[t] = pc[t]
    BY <1>2, <2>1
  <2>3. Active' = Active \cup {s} /\ s \notin Active
    BY <2>1, <2>2 DEF Active, Admitted, Aborter
  <2>4. \A t \in Submitters : /\ pc'[t] \in {"start", "returned"} \cup Admitted
                              /\ pc'[t] \in Aborter => ret'[t] = "unregister"
    BY <2>1, <2>2 DEF Gate, Aborter, Admitted
  <2>5. /\ life'.active = life.active + 1
        /\ \A f \in LifeFields \ {"active"} : life'[f] = life[f]
    BY <1>1, <2>1 DEF LifeFields
  <2>6. Cardinality(Active') = Cardinality(Active) + 1
    BY <2>3, ActiveFinite, FS_AddElement
  <2>7. /\ life'.stopped = life.stopped /\ life'.admissionsDone = life.admissionsDone
        /\ life'.done = life.done /\ life'.snapshot = life.snapshot
        /\ life'.finalErr = life.finalErr /\ life'.aborting = life.aborting
        /\ life'.abortRecord = life.abortRecord
    BY <2>5 DEF LifeFields
  <2>8. life.admissionsDone = FALSE /\ life.stopped = FALSE
    BY <1>4 DEF Gate
  <2>9. Gate'
    BY <2>2, <2>4, <2>5, <2>6, <2>7, <2>8 DEF Gate
  <2>10. Ending'
    BY <2>1, <2>2, <2>7, EndingKept
  <2> QED
    BY <2>9, <2>10
<1>5. CASE submitNothing(s) \/ pushItem(s) \/ PushEnds(s) \/ recordAccepted(s)
  <2>1. pc[s] \in Admitted /\ life' = life
    BY <1>5 DEF submitNothing, pushItem, PushEnds, recordAccepted, Admitted
  <2>2. PICK l \in {"unregister", "push", "record", "abort"} :
          /\ Go(s, l)
          /\ \/ l # "abort" /\ ret' = ret
             \/ l = "abort" /\ ret' = [ret EXCEPT ![s] = "unregister"]
    BY <1>5 DEF submitNothing, pushItem, PushEnds, recordAccepted, callAbort
  <2>3. /\ pc'[s] = l /\ pc'[Coordinator] = pc[Coordinator]
        /\ \A t \in Submitters \ {s} : pc'[t] = pc[t] /\ ret'[t] = ret[t]
        /\ l = "abort" => ret'[s] = "unregister"
    BY <1>1, <1>2, <2>2
  <2>4. pc'[s] \in Admitted /\ (pc'[s] \in Aborter => ret'[s] = "unregister")
    BY <2>3 DEF Admitted, Aborter
  <2>5. Gate'
    BY <2>1, <2>3, <2>4, GateKept
  <2>6. pc[Coordinator] \in {"unstarted", "coordinate"}
    BY <2>1, ActiveHolds DEF Active
  <2>7. Ending'
    BY <2>1, <2>3, <2>6, EndingKept
  <2> QED
    BY <2>5, <2>7
<1>6. CASE unregisterSubmission(s)
  <2> DEFINE last == life.stopped /\ life.active = 1
  <2>1. /\ Go(s, "returned") /\ account' = account /\ ret' = ret /\ pc[s] = "unregister"
        /\ life' = [life EXCEPT !.active = @ - 1,
                            !.admissionsDone = @ \/ last,
                            !.panicked = @ \/ (last /\ life.admissionsDone)]
    BY <1>6 DEF unregisterSubmission
  <2>2. /\ pc'[s] = "returned" /\ pc'[Coordinator] = pc[Coordinator]
        /\ \A t \in Submitters \ {s} : pc'[t] = pc[t]
    BY <1>2, <2>1
  <2>3. Active' = Active \ {s} /\ s \in Active
    BY <2>1, <2>2 DEF Active, Admitted, Aborter
  <2>4. \A t \in Submitters : /\ pc'[t] \in {"start", "returned"} \cup Admitted
                              /\ pc'[t] \in Aborter => ret'[t] = "unregister"
    BY <2>1, <2>2 DEF Gate, Aborter, Admitted
  <2>5. /\ life'.active = life.active - 1 /\ life'.admissionsDone = (life.admissionsDone \/ last)
        /\ life'.stopped = life.stopped
        /\ life'.done = life.done /\ life'.snapshot = life.snapshot
        /\ life'.finalErr = life.finalErr /\ life'.aborting = life.aborting
        /\ life'.abortRecord = life.abortRecord
    <3>1. PICK a, b, c : /\ life' = [life EXCEPT !.active = a, !.admissionsDone = b, !.panicked = c]
                         /\ a = life.active - 1 /\ b = (life.admissionsDone \/ last)
      BY <2>1
    <3> HIDE DEF last
    <3> QED
      BY <1>1, <3>1 DEF LifeFields
  <2>6. Cardinality(Active') = Cardinality(Active) - 1
    BY <2>3, ActiveFinite, FS_RemoveElement
  <2>7. life.active # 0 /\ life.active \in Nat /\ life.admissionsDone = FALSE
    BY <2>3, ActiveHolds, ActiveFinite DEF Gate
  <2>8. Gate'
    <3>1. life'.active = Cardinality(Active')
      BY <2>5, <2>6 DEF Gate
    <3>2. life'.admissionsDone = (life.stopped /\ life'.active = 0) /\ life'.admissionsDone \in BOOLEAN
      BY <2>5, <2>7 DEF Gate
    <3>3. pc'[Coordinator] \in {"unstarted", "coordinate"}
      BY <2>2, <2>3, ActiveHolds
    <3> QED
      BY <2>4, <2>5, <3>1, <3>2, <3>3 DEF Gate
  <2>9. Ending'
    BY <2>1, <2>2, <2>5, EndingKept
  <2> QED
    BY <2>8, <2>9
<1> QED
  BY <1>3, <1>4, <1>5, <1>6

\* Workers leave the lifecycle alone, and the outcome is fixed when they are gone.
LEMMA WorkersEnd ==
  ASSUME AbortInv, Gate, Ending, NEW w \in Workers, Works(w) \/ Finalizes(w)
  PROVE  Gate' /\ Ending'
<1>1. pc[w] # "exited" /\ life' = life
  BY DEF Works, Finalizes, runWorker, receive, receiveWait, handleReceiveError, invokeHeld,
         classifyFailure, abandonHeld, retryTimer, finalizeBatch, OnTerminal
<1>2. /\ w \in Procs \ {Coordinator} /\ w \notin Submitters /\ Submitters \subseteq Procs
      /\ Coordinator \in Procs /\ Coordinator \notin Submitters
      /\ pc = [x \in Procs |-> pc[x]] /\ ret \in [Procs -> Resumed]
  BY RunnerAssumption DEF Procs, AbortInv, Shapes
<1>3. pc[Coordinator] \notin {"publish", "exited"}
  BY <1>1 DEF AbortInv, Joined
<1>4. PICK l, r : pc' = [pc EXCEPT ![w] = l] /\ ret' = [ret EXCEPT ![w] = r]
  <2>1. ret = [ret EXCEPT ![w] = ret[w]] /\ pc = [pc EXCEPT ![w] = pc[w]]
    BY <1>2
  <2>2. ASSUME NEW l, Go(w, l), ret' = ret
        PROVE  \E k, r : pc' = [pc EXCEPT ![w] = k] /\ ret' = [ret EXCEPT ![w] = r]
    BY <2>1, <2>2 DEF Go
  <2>3. ASSUME NEW l, callAbort(w, l)
        PROVE  \E k, r : pc' = [pc EXCEPT ![w] = k] /\ ret' = [ret EXCEPT ![w] = r]
    BY <2>3 DEF Go, callAbort
  <2>4. CASE runWorker(w) \/ receive(w) \/ receiveWait(w) \/ abandonHeld(w) \/ retryTimer(w)
    BY <2>2, <2>4 DEF runWorker, receive, receiveWait, abandonHeld, retryTimer
  <2>5. CASE handleReceiveError(w) \/ OnTerminal(w)
    BY <2>2, <2>3, <2>5 DEF handleReceiveError, OnTerminal
  <2>6. CASE invokeHeld(w)
    <3>1. (\E l : callAbort(w, l)) \/ (\E l : Go(w, l) /\ ret' = ret)
      BY <2>6 DEF invokeHeld
    <3> QED
      BY <2>2, <2>3, <3>1
  <2>7. CASE classifyFailure(w)
    <3>1. (\E l : callAbort(w, l)) \/ UNCHANGED <<pc, ret>>
      BY <2>7 DEF classifyFailure
    <3> QED
      BY <2>1, <2>3, <3>1
  <2>8. CASE finalizeBatch(w)
    <3>1. \E l : Go(w, l) /\ ret' = ret
      BY <2>8 DEF finalizeBatch
    <3> QED
      BY <2>2, <3>1
  <2> QED
    BY <2>4, <2>5, <2>6, <2>7, <2>8 DEF Works, Finalizes
<1>5. /\ pc'[Coordinator] = pc[Coordinator]
      /\ \A s \in Submitters : pc'[s] = pc[s] /\ ret'[s] = ret[s]
  BY <1>2, <1>4
<1> QED
  BY <1>1, <1>3, <1>5, ElsewhereEnd

\* The coordinator fixes the outcome when nobody else can change it.
LEMMA CoordinatorEnds ==
  ASSUME AbortInv, Gate, Ending, Coordinates \/ Finalizes(Coordinator)
  PROVE  Gate' /\ Ending'
<1>1. /\ Submitters \subseteq Procs /\ Coordinator \in Procs /\ Coordinator \notin Submitters
      /\ pc = [x \in Procs |-> pc[x]] /\ ret \in [Procs -> Resumed]
      /\ life = [f \in LifeFields |-> life[f]]
  BY RunnerAssumption DEF Procs, AbortInv, Shapes
<1>2. ASSUME NEW l, Go(Coordinator, l)
      PROVE  pc'[Coordinator] = l /\ \A s \in Submitters : pc'[s] = pc[s]
  BY <1>1, <1>2 DEF Go
<1>3. CASE coordinate \/ drain \/ finishWorkers \/ checkAbortCause \/ cleanupQueued
           \/ finalizeBatch(Coordinator) \/ OnTerminal(Coordinator)
  <2>1. life' = life /\ pc[Coordinator] \notin {"publish", "exited"}
    BY <1>3 DEF coordinate, drain, finishWorkers, checkAbortCause, cleanupQueued, finalizeBatch,
                OnTerminal, At
  <2>2. /\ pc[Coordinator] # "unstarted"
        /\ pc[Coordinator] = "coordinate" => life.admissionsDone
    BY <1>3 DEF coordinate, drain, finishWorkers, checkAbortCause, cleanupQueued, finalizeBatch,
                OnTerminal, At
  <2>3. PICK l \in {"drain", "join", "finished", "complete", "cleanup", "settle", "callback", "abort"} :
          /\ Go(Coordinator, l)
          /\ ret' = ret \/ \E r : ret' = [ret EXCEPT ![Coordinator] = r]
    BY <1>3 DEF coordinate, drain, finishWorkers, checkAbortCause, cleanupQueued, finalizeBatch,
                OnTerminal, callAbort, Onward
  <2>4. \A s \in Submitters : ret'[s] = ret[s]
    BY <1>1, <2>3
  <2>5. pc'[Coordinator] = l /\ \A s \in Submitters : pc'[s] = pc[s]
    BY <1>2, <2>3
  <2>6. Gate'
    BY <2>1, <2>2, <2>4, <2>5, GateKept
  <2>7. Ending'
    BY <2>1, <2>3, <2>5, EndingKept
  <2> QED
    BY <2>6, <2>7
<1>4. CASE snapshot
  <2>1. /\ pc[Coordinator] = "complete" /\ Go(Coordinator, "publish")
        /\ life' = [life EXCEPT !.cancelled = TRUE, !.snapshot = account.failures]
        /\ account' = account /\ ret' = ret
    BY <1>4 DEF snapshot, At
  <2>2. pc'[Coordinator] = "publish" /\ \A s \in Submitters : pc'[s] = pc[s]
    BY <1>2, <2>1
  <2>3. /\ life'.active = life.active /\ life'.stopped = life.stopped
        /\ life'.admissionsDone = life.admissionsDone
        /\ life'.done = life.done /\ life'.snapshot = account.failures
    BY <1>1, <2>1 DEF LifeFields
  <2>4. Gate'
    BY <2>1, <2>2, <2>3, GateKept
  <2>5. Ending'
    BY <2>1, <2>2, <2>3 DEF Ending
  <2> QED
    BY <2>4, <2>5
<1>5. CASE publishCompletion
  <2>1. /\ pc[Coordinator] = "publish" /\ Go(Coordinator, "exited") /\ awaitAbortPublication
        /\ account' = account /\ ret' = ret
    BY <1>5 DEF publishCompletion, At
  <2>2. PICK b, e : /\ life' = [life EXCEPT !.done = TRUE, !.panicked = b, !.finalErr = e]
                    /\ e = aggregateFailures(life.snapshot, life.abortRecord)
    BY <1>5 DEF publishCompletion
  <2>3. pc'[Coordinator] = "exited" /\ \A s \in Submitters : pc'[s] = pc[s]
    BY <1>2, <2>1
  <2>4. /\ life'.active = life.active /\ life'.stopped = life.stopped
        /\ life'.admissionsDone = life.admissionsDone
        /\ life'.done = TRUE /\ life'.finalErr = e
        /\ life'.abortRecord = life.abortRecord /\ life'.aborting = life.aborting
    BY <1>1, <2>2 DEF LifeFields
  <2>5. Gate'
    BY <2>1, <2>3, <2>4, GateKept
  <2>6. life.snapshot = account.failures
    BY <2>1 DEF Ending
  <2>7. Ending'
    BY <2>1, <2>2, <2>3, <2>4, <2>6 DEF Ending, awaitAbortPublication
  <2> QED
    BY <2>5, <2>7
<1> QED
  BY <1>3, <1>4, <1>5 DEF Coordinates, Finalizes


-----------------------------------------------------------------------------
(* No channel is closed twice. *)

Requests == {"cancel", "closeAborting"}

\* Between the commit of an abort and the close of Aborting is only who committed it.
Once ==
    /\ life.panicked = FALSE
    /\ life.aborting \in BOOLEAN
    /\ life.aborting => Committed
    /\ \A p \in Procs : pc[p] \in Requests => life.abortRecord = p /\ life.aborting = FALSE

\* A step that neither commits nor publishes an abort.
LEMMA OnceKept ==
  ASSUME Once, life'.panicked = FALSE, life'.aborting = life.aborting,
         life'.abortRecord = life.abortRecord,
         \A x \in Procs : pc'[x] = pc[x] \/ pc'[x] \notin Requests
  PROVE  Once'
<1>1. \A x \in Procs : pc'[x] \in Requests => life'.abortRecord = x /\ life'.aborting = FALSE
  BY DEF Once
<1> QED
  BY <1>1 DEF Once, Committed

\* Closing the gate closes admissionsDone at most once.
LEMMA CloseOnce ==
  ASSUME Gate, NEW l, l = [f \in LifeFields |-> l[f]],
         l.active = life.active, l.stopped = life.stopped,
         l.admissionsDone = life.admissionsDone, l.panicked = FALSE
  PROVE  /\ closeAdmissionLocked(l).panicked = FALSE
         /\ closeAdmissionLocked(l).abortRecord = l.abortRecord
         /\ closeAdmissionLocked(l).aborting = l.aborting
<1>1. CASE l.stopped
  BY <1>1 DEF closeAdmissionLocked
<1>2. CASE ~l.stopped
  <2>1. l.admissionsDone = FALSE
    BY <1>2 DEF Gate
  <2>2. PICK a, b : /\ closeAdmissionLocked(l) = [l EXCEPT !.stopped = TRUE, !.admissionsDone = a,
                                                  !.panicked = b]
                    /\ b = FALSE
    BY <1>2, <2>1 DEF closeAdmissionLocked
  <2> QED
    BY <2>2 DEF LifeFields
<1> QED
  BY <1>1, <1>2

\* Only the first abort is committed, and only who committed it publishes it.
LEMMA AbortsOnce ==
  ASSUME AbortInv, Gate, Once, NEW p \in Procs, Aborts(p)
  PROVE  Once'
<1>1. /\ life = [f \in LifeFields |-> life[f]] /\ pc = [x \in Procs |-> pc[x]]
      /\ ret \in [Procs -> Resumed] /\ Coordinator \in Procs
  BY CoordinatorFacts DEF AbortInv, Shapes
<1>2. ASSUME NEW l, Go(p, l) PROVE pc'[p] = l /\ \A x \in Procs \ {p} : pc'[x] = pc[x]
  BY <1>2, OneMoves
<1>3. ASSUME Return(p) PROVE pc'[p] \notin Requests /\ \A x \in Procs \ {p} : pc'[x] = pc[x]
  BY <1>1, <1>2, <1>3 DEF Return, Resumed, Requests
<1>4. CASE (abort(p) /\ (life.done \/ life.abortRecord # None)) \/ awaitAborting(p)
  <2>1. life' = life /\ (Return(p) \/ Go(p, "awaitAborting"))
    BY <1>4 DEF abort, awaitAborting
  <2>2. \A x \in Procs : pc'[x] = pc[x] \/ pc'[x] \notin Requests
    BY <1>2, <1>3, <2>1 DEF Requests
  <2> QED
    BY <2>1, <2>2, OnceKept DEF Once
<1>5. CASE abort(p) /\ ~(life.done \/ life.abortRecord # None)
  <2> DEFINE l == [life EXCEPT !.abortRecord = p]
  <2>1. life' = closeAdmissionLocked(l) /\ startCoordinatorLocked(p, "cancel") /\ pc[p] = "abort"
    BY <1>5 DEF abort
  <2>2. /\ l = [f \in LifeFields |-> l[f]]
        /\ l.active = life.active /\ l.stopped = life.stopped
        /\ l.admissionsDone = life.admissionsDone /\ l.aborting = life.aborting
        /\ l.panicked = life.panicked /\ l.abortRecord = p
    BY <1>1 DEF LifeFields
  <2> HIDE DEF l
  <2>3. life'.panicked = FALSE /\ life'.abortRecord = p /\ life'.aborting = life.aborting
    BY <2>1, <2>2, CloseOnce DEF Once
  <2>4. life.aborting = FALSE
    BY <1>5 DEF Once, Committed
  <2>5. \A x \in Procs \ {p} : pc'[x] \notin Requests
    <3>1. \A x \in Procs \ {p} : pc'[x] = pc[x] \/ pc'[x] = "coordinate"
      BY <1>1, <2>1 DEF startCoordinatorLocked
    <3>2. \A x \in Procs : pc[x] \notin Requests
      BY <1>5, RunnerAssumption DEF Once
    <3> QED
      BY <3>1, <3>2 DEF Requests
  <2>6. p # None
    BY RunnerAssumption
  <2> QED
    BY <2>3, <2>4, <2>5, <2>6 DEF Once, Committed
<1>6. CASE cancel(p)
  <2>1. /\ pc[p] = "cancel" /\ life' = [life EXCEPT !.cancelled = TRUE] /\ Go(p, "closeAborting")
    BY <1>6 DEF cancel
  <2>2. /\ life'.panicked = life.panicked /\ life'.abortRecord = life.abortRecord
        /\ life'.aborting = life.aborting
    BY <1>1, <2>1 DEF LifeFields
  <2>3. \A x \in Procs : pc'[x] \in Requests => pc[x] \in Requests
    BY <1>2, <2>1 DEF Requests
  <2>4. \A x \in Procs : pc'[x] \in Requests => life'.abortRecord = x /\ life'.aborting = FALSE
    BY <2>2, <2>3 DEF Once
  <2> QED
    BY <2>2, <2>4 DEF Once, Committed
<1>7. CASE closeAborting(p)
  <2>1. pc[p] = "closeAborting" /\ Return(p) /\ life.abortRecord = p /\ life.aborting = FALSE
    BY <1>7 DEF closeAborting, Once, Requests
  <2>2. PICK b : life' = [life EXCEPT !.aborting = TRUE, !.panicked = b] /\ b = FALSE
    BY <1>7, <2>1 DEF closeAborting, Once
  <2>3. life'.panicked = FALSE /\ life'.aborting = TRUE /\ life'.abortRecord = p
    BY <1>1, <2>1, <2>2 DEF LifeFields
  <2>4. \A x \in Procs \ {p} : pc'[x] \notin Requests
    BY <1>3, <2>1 DEF Once
  <2>5. pc'[p] \notin Requests /\ p # None
    BY <1>3, <2>1, RunnerAssumption
  <2> QED
    BY <2>3, <2>4, <2>5 DEF Once, Committed
<1> QED
  BY <1>4, <1>5, <1>6, <1>7 DEF Aborts

\* The other steps of a goroutine.
LEMMA GoesOnce ==
  ASSUME AbortInv, Once, NEW p \in Procs, NEW l, Go(p, l), l \notin Requests,
         life'.panicked = FALSE, life'.aborting = life.aborting,
         life'.abortRecord = life.abortRecord
  PROVE  Once'
<1>1. \A x \in Procs : pc'[x] = pc[x] \/ pc'[x] \notin Requests
  BY OneMoves
<1> QED
  BY <1>1, OnceKept

\* The callers of Shutdown, Abort and Wait close a channel at most once.
LEMMA OwnersOnce ==
  ASSUME AbortInv, Gate, Once, NEW o \in Owners,
         Shutdown(o) \/ Abort(o) \/ graceEnds(o) \/ Wait(o)
  PROVE  Once'
<1>1. /\ o \in Procs /\ Coordinator \in Procs /\ o # Coordinator
      /\ life = [f \in LifeFields |-> life[f]] /\ pc = [x \in Procs |-> pc[x]]
  BY RunnerAssumption DEF Procs, AbortInv, Shapes
<1>2. CASE Shutdown(o)
  <2>1. life' = closeAdmissionLocked(life) /\ startCoordinatorLocked(o, "grace")
    BY <1>2 DEF Shutdown, stopAdmission
  <2>2. /\ life'.panicked = FALSE /\ life'.aborting = life.aborting
        /\ life'.abortRecord = life.abortRecord
    BY <1>1, <2>1, CloseOnce DEF Once
  <2>3. \A x \in Procs : pc'[x] = pc[x] \/ pc'[x] \notin Requests
    BY <1>1, <2>1 DEF startCoordinatorLocked, Requests
  <2> QED
    BY <2>2, <2>3, OnceKept
<1>3. CASE Abort(o) \/ graceEnds(o) \/ Wait(o)
  <2>1. life' = life /\ \E l \in {"abort", "returned"} : Go(o, l)
    BY <1>3 DEF Abort, graceEnds, Wait, callAbort
  <2> QED
    BY <1>1, <2>1, GoesOnce DEF Once, Requests
<1> QED
  BY <1>2, <1>3

\* So do submissions, the last of which closes admissionsDone.
LEMMA SubmissionsOnce ==
  ASSUME AbortInv, Gate, Once, NEW s \in Submitters,
         \/ registerSubmission(s) \/ submitNothing(s) \/ pushItem(s) \/ PushEnds(s)
         \/ recordAccepted(s) \/ unregisterSubmission(s)
  PROVE  Once'
<1>1. s \in Procs /\ life = [f \in LifeFields |-> life[f]]
  BY DEF Procs, AbortInv, Shapes
<1>2. PICK l \in {"returned", "registered", "unregister", "push", "record", "abort"} : Go(s, l)
  BY DEF registerSubmission, submitNothing, pushItem, PushEnds, recordAccepted,
         unregisterSubmission, callAbort
<1>3. /\ life'.panicked = FALSE /\ life'.aborting = life.aborting
      /\ life'.abortRecord = life.abortRecord
  <2>1. CASE life' = life
    BY <2>1 DEF Once
  <2>2. CASE life' = [life EXCEPT !.active = @ + 1]
    <3>1. PICK a : life' = [life EXCEPT !.active = a]
      BY <2>2
    <3> QED
      BY <1>1, <3>1 DEF LifeFields, Once
  <2>3. CASE unregisterSubmission(s)
    <3>1. s \in Active
      BY <2>3 DEF unregisterSubmission, Active, Admitted
    <3>2. life.admissionsDone = FALSE
      BY <3>1, ActiveHolds DEF Gate
    <3>3. PICK a, b, c : /\ life' = [life EXCEPT !.active = a, !.admissionsDone = b, !.panicked = c]
                         /\ c = FALSE
      BY <2>3, <3>2 DEF unregisterSubmission, Once
    <3> QED
      BY <1>1, <3>3 DEF LifeFields
  <2> QED
    BY <2>1, <2>2, <2>3
       DEF registerSubmission, submitNothing, pushItem, PushEnds, recordAccepted
<1> QED
  BY <1>1, <1>2, <1>3, GoesOnce DEF Requests

\* So do workers, through the aborts their handlers cause.
LEMMA WorkersOnce ==
  ASSUME AbortInv, Once, NEW w \in Workers, Works(w) \/ Finalizes(w)
  PROVE  Once'
<1>1. life' = life /\ w \in Procs /\ w # Coordinator
  BY RunnerAssumption
     DEF Works, Finalizes, runWorker, receive, receiveWait, handleReceiveError, invokeHeld,
         classifyFailure, abandonHeld, retryTimer, finalizeBatch, OnTerminal, Procs
<1>2. \/ \E l \in {"exited", "receive", "receiveWait", "abandon", "handle", "settle", "callback",
                   "timer", "loop", "abort"} : Go(w, l)
      \/ pc' = pc
  <2>1. CASE runWorker(w) \/ receive(w) \/ receiveWait(w) \/ abandonHeld(w) \/ retryTimer(w)
    BY <2>1 DEF runWorker, receive, receiveWait, abandonHeld, retryTimer, processHeldBatch
  <2>2. CASE handleReceiveError(w) \/ OnTerminal(w)
    BY <2>2 DEF handleReceiveError, OnTerminal, callAbort
  <2>3. CASE invokeHeld(w)
    BY <2>3 DEF invokeHeld, callAbort
  <2>4. CASE classifyFailure(w)
    BY <2>4 DEF classifyFailure, callAbort
  <2>5. CASE finalizeBatch(w)
    <3>1. \A rest : Onward(w, rest) \in {"abandon", "timer", "loop"}
      BY <1>1 DEF Onward, waitForRetry
    <3>2. Go(w, "callback") \/ \E rest : Go(w, Onward(w, rest))
      BY <2>5 DEF finalizeBatch
    <3> QED
      BY <3>1, <3>2
  <2> QED
    BY <2>1, <2>2, <2>3, <2>4, <2>5 DEF Works, Finalizes
<1>3. CASE pc' = pc
  BY <1>1, <1>3, OnceKept DEF Once
<1> QED
  BY <1>1, <1>2, <1>3, GoesOnce DEF Once, Requests

\* So does the coordinator, which alone closes Done.
LEMMA CoordinatorOnce ==
  ASSUME AbortInv, Ending, Once, Coordinates \/ Finalizes(Coordinator)
  PROVE  Once'
<1>1. life = [f \in LifeFields |-> life[f]] /\ Coordinator \in Procs
  BY DEF Procs, AbortInv, Shapes
<1>2. PICK l \in {"drain", "join", "finished", "complete", "cleanup", "settle", "callback", "abort",
                  "publish", "exited"} : Go(Coordinator, l)
  BY DEF Coordinates, Finalizes, coordinate, drain, finishWorkers, checkAbortCause, cleanupQueued,
         snapshot, publishCompletion, finalizeBatch, OnTerminal, callAbort, Onward
<1>3. /\ life'.panicked = FALSE /\ life'.aborting = life.aborting
      /\ life'.abortRecord = life.abortRecord
  <2>1. CASE life' = life
    BY <2>1 DEF Once
  <2>2. CASE snapshot
    <3>1. PICK f : life' = [life EXCEPT !.cancelled = TRUE, !.snapshot = f]
      BY <2>2 DEF snapshot
    <3> QED
      BY <1>1, <3>1 DEF LifeFields, Once
  <2>3. CASE publishCompletion
    <3>1. life.done = FALSE
      BY <2>3 DEF publishCompletion, At, Ending
    <3>2. PICK b, e : life' = [life EXCEPT !.done = TRUE, !.panicked = b, !.finalErr = e] /\ b = FALSE
      BY <2>3, <3>1 DEF publishCompletion, Once
    <3> QED
      BY <1>1, <3>2 DEF LifeFields
  <2> QED
    BY <2>1, <2>2, <2>3 DEF Coordinates, Finalizes, coordinate, drain, finishWorkers,
         checkAbortCause, cleanupQueued, finalizeBatch, OnTerminal
<1> QED
  BY <1>1, <1>2, <1>3, GoesOnce DEF Requests

-----------------------------------------------------------------------------
\* At first the gate is open, nobody has submitted and nothing has ended.
LEMMA InitEnds == Init => Gate /\ Ending /\ Once
<1> SUFFICES ASSUME Init PROVE Gate /\ Ending /\ Once
  OBVIOUS
<1>1. pc[Coordinator] = "unstarted"
  <2>1. Coordinator \notin config.workers /\ Coordinator \notin config.callers
        /\ Coordinator \notin Workers /\ Coordinator \in Procs
    BY RunnerAssumption DEF Init, Procs
  <2> QED
    BY <2>1 DEF Init
<1>2. \A p \in Procs : pc[p] \in {"loop", "exited", "start", "unstarted", "returned"}
  <2> SUFFICES ASSUME NEW p \in Procs
               PROVE  pc[p] \in {"loop", "exited", "start", "unstarted", "returned"}
    OBVIOUS
  <2> QED
    BY DEF Init
<1>3. \A s \in Submitters : pc[s] \in {"start", "returned"}
  <2> SUFFICES ASSUME NEW s \in Submitters PROVE pc[s] \in {"start", "returned"}
    OBVIOUS
  <2>1. s \in Procs /\ s \notin Workers /\ s # Coordinator /\ s \notin config.workers
    BY RunnerAssumption DEF Procs, Init
  <2> QED
    BY <2>1 DEF Init
<1>4. Active = {}
  BY <1>3 DEF Active, Admitted, Aborter
<1>5. life.active = Cardinality(Active)
  BY <1>4, FS_EmptySet DEF Init
<1>6. Gate
  BY <1>1, <1>3, <1>5 DEF Gate, Init, Aborter
<1>7. Ending
  BY <1>1 DEF Ending, Init
<1>8. Once
  BY <1>2 DEF Once, Init, Requests, Committed
<1> QED
  BY <1>6, <1>7, <1>8

\* The gate, the outcome and the channels, along every behaviour.
LEMMA Ends == Spec => [](AbortInv /\ Custody /\ Gate /\ Ending /\ Once)
<1>1. Init => Gate /\ Ending /\ Once
  BY InitEnds
<1>2. AbortInv /\ Gate /\ Ending /\ Once /\ [Next]_vars => (Gate /\ Ending /\ Once)'
  <2> SUFFICES ASSUME AbortInv, Gate, Ending, Once, [Next]_vars
               PROVE  Gate' /\ Ending' /\ Once'
    OBVIOUS
  <2>1. ASSUME NEW p \in Procs, Runs(p)
        PROVE  Gate' /\ Ending' /\ Once'
    <3>1. CASE Aborts(p)
      BY <3>1, AbortsEnd, AbortsOnce
    <3>2. CASE p \in Submitters /\ Submits(p)
      BY <3>2, SubmissionsEnd, SubmissionsOnce DEF Submits, pushAborted
    <3>3. CASE p \in Workers /\ (Works(p) \/ Finalizes(p))
      BY <3>3, WorkersEnd, WorkersOnce
    <3>4. CASE p \in Owners /\ Wait(p)
      BY <3>4, OwnersEnd, OwnersOnce
    <3>5. CASE p = Coordinator /\ (Coordinates \/ Finalizes(p))
      BY <3>5, CoordinatorEnds, CoordinatorOnce
    <3> QED
      BY <2>1, <3>1, <3>2, <3>3, <3>4, <3>5 DEF Runs
  <2>2. ASSUME NEW o \in Owners, Shutdown(o) \/ Abort(o) \/ graceEnds(o)
        PROVE  Gate' /\ Ending' /\ Once'
    BY <2>2, OwnersEnd, OwnersOnce
  <2>3. ASSUME NEW s \in Submitters, registerSubmission(s) \/ submitNothing(s) \/ pushCanceled(s)
        PROVE  Gate' /\ Ending' /\ Once'
    BY <2>3, SubmissionsEnd, SubmissionsOnce DEF pushCanceled
  <2>4. CASE UNCHANGED vars
    <3>1. life' = life /\ pc' = pc /\ ret' = ret /\ account' = account
      BY <2>4 DEF vars
    <3>2. Active' = Active
      BY <3>1 DEF Active
    <3> QED
      BY <3>1, <3>2 DEF Gate, Ending, Once, Committed
  <2> QED
    BY <2>1, <2>2, <2>3, <2>4 DEF Next
<1> QED
  BY <1>1, <1>2, Inductive, PTL DEF Spec

(* Requests after completion have no effect: what Wait returns is for ever    *)
(* what the recorded failures and the first cause say, an abort that came     *)
(* before was published, the gate is closed and no submission is inside.      *)
THEOREM OutcomeForGood == Spec => []OutcomeFinal
<1>1. Gate /\ Ending => OutcomeFinal
  <2> SUFFICES ASSUME Gate, Ending, life.done PROVE OutcomeFinal
    BY DEF OutcomeFinal
  <2>1. life.stopped /\ life.active = 0
    BY DEF Gate, Ending
  <2> QED
    BY <2>1 DEF Ending, OutcomeFinal
<1> QED
  BY <1>1, Ends, PTL

(* No goroutine panics: admissionsDone, Aborting and Done are each closed at  *)
(* most once, by whoever closes the gate last, by the first abort and by the  *)
(* coordinator.                                                               *)
THEOREM NeverPanics == Spec => [](life.panicked = FALSE)
<1>1. Once => life.panicked = FALSE
  BY DEF Once
<1> QED
  BY <1>1, Ends, PTL



(* Sums over finite sets. *)

\* Induction over the naturals, for membership in a set.
LEMMA Induct ==
  ASSUME NEW S, 0 \in S, \A n \in Nat : n \in S => n + 1 \in S
  PROVE  Nat \subseteq S
<1> DEFINE T == Nat \ S
           R == {p \in Nat \X Nat : p[1] < p[2]}
<1>1. SUFFICES ASSUME T # {} PROVE FALSE
  OBVIOUS
<1>2. IsWellFoundedOn(OpToRel(<, Nat), Nat)
  BY NatLessThanWellFounded
<1>3. OpToRel(<, Nat) = R
  BY DEF OpToRel
<1>4. PICK m \in T : \A k \in T : ~(<<k, m>> \in R)
  BY <1>1, <1>2, <1>3, WFMin
<1>5. m \in Nat /\ m # 0
  OBVIOUS
<1>6. m - 1 \in Nat /\ m - 1 < m /\ (m - 1) + 1 = m
  BY <1>5
<1>7. <<m - 1, m>> \in R
  BY <1>5, <1>6
<1>8. m - 1 \in S
  BY <1>4, <1>6, <1>7
<1> QED
  BY <1>5, <1>6, <1>8

\* The element of a set that a fold takes next.
Some(s) == CHOOSE x \in s : TRUE

\* g sums f over the sets of D, element by element.
Sums(f, D, g) == g = [s \in D |-> IF s = {} THEN 0 ELSE f[Some(s)] + g[s \ {Some(s)}]]

\* The sum of f over S.
Total(f, S) == (CHOOSE g : Sums(f, SUBSET S, g))[S]

\* MapThenSumSet of a function.
LEMMA SumIsTotal ==
  ASSUME NEW f, NEW S
  PROVE  MapThenSumSet(LAMBDA i : f[i], S) = Total(f, S)
  BY DEF MapThenSumSet, MapThenFoldSet, Total, Sums, Some

\* A fold takes an element of the set.
LEMMA SomeIn == \A s : s # {} => Some(s) \in s
  BY DEF Some

\* A subset of a finite set, with and without one of its elements.
LEMMA Parts ==
  ASSUME NEW S, IsFiniteSet(S)
  PROVE  /\ Cardinality(S) \in Nat
         /\ \A s \in SUBSET S : /\ Cardinality(s) \in Nat /\ Cardinality(s) <= Cardinality(S)
                                /\ (s = {} <=> Cardinality(s) = 0)
                                /\ \A x \in s : /\ s \ {x} \in SUBSET S
                                                /\ Cardinality(s \ {x}) = Cardinality(s) - 1
<1>1. ASSUME NEW s \in SUBSET S
      PROVE  /\ IsFiniteSet(s) /\ Cardinality(s) \in Nat /\ Cardinality(s) <= Cardinality(S)
             /\ (s = {} <=> Cardinality(s) = 0)
  <2>1. IsFiniteSet(s) /\ Cardinality(s) <= Cardinality(S)
    BY FS_Subset
  <2> QED
    BY <2>1, FS_CardinalityType, FS_EmptySet
<1>2. ASSUME NEW s \in SUBSET S, NEW x \in s
      PROVE  s \ {x} \in SUBSET S /\ Cardinality(s \ {x}) = Cardinality(s) - 1
  BY <1>1, FS_RemoveElement
<1> QED
  BY <1>1, <1>2, FS_CardinalityType

\* There is a function that sums f over the subsets of a finite set.
LEMMA SumsExist ==
  ASSUME NEW f, NEW S, IsFiniteSet(S), \A x \in S : f[x] \in Nat
  PROVE  \E g \in [SUBSET S -> Nat] : Sums(f, SUBSET S, g)
<1> DEFINE Level(n) == {s \in SUBSET S : Cardinality(s) <= n}
           M == {n \in Nat : \E g \in [Level(n) -> Nat] : Sums(f, Level(n), g)}
<1>1. 0 \in M
  <2>1. Level(0) = {{}}
    BY Parts, FS_EmptySet
  <2>2. Sums(f, Level(0), [s \in Level(0) |-> 0])
    BY <2>1 DEF Sums
  <2> QED
    BY <2>1, <2>2
<1>2. ASSUME NEW n \in Nat, n \in M
      PROVE  n + 1 \in M
  <2>1. PICK g \in [Level(n) -> Nat] : Sums(f, Level(n), g)
    BY <1>2
  <2> DEFINE h == [s \in Level(n + 1) |-> IF s = {} THEN 0 ELSE f[Some(s)] + g[s \ {Some(s)}]]
  <2>2. ASSUME NEW s \in Level(n + 1), s # {}
        PROVE  /\ Some(s) \in s /\ f[Some(s)] \in Nat
               /\ s \ {Some(s)} \in Level(n) /\ g[s \ {Some(s)}] \in Nat
    <3>1. s \in SUBSET S /\ Some(s) \in s /\ f[Some(s)] \in Nat
      BY <2>2, SomeIn
    <3>2. s \ {Some(s)} \in SUBSET S /\ Cardinality(s \ {Some(s)}) = Cardinality(s) - 1
          /\ Cardinality(s) \in Nat
      BY <3>1, Parts
    <3>3. s \ {Some(s)} \in Level(n)
      BY <2>2, <3>2
    <3> QED
      BY <3>1, <3>3
  <2>3. h \in [Level(n + 1) -> Nat]
    BY <2>2
  <2>4. \A s \in Level(n) : s \in Level(n + 1) /\ h[s] = g[s]
    <3> SUFFICES ASSUME NEW s \in Level(n) PROVE s \in Level(n + 1) /\ h[s] = g[s]
      OBVIOUS
    <3>1. s \in Level(n + 1)
      BY Parts
    <3>2. g[s] = IF s = {} THEN 0 ELSE f[Some(s)] + g[s \ {Some(s)}]
      BY <2>1 DEF Sums
    <3> QED
      BY <3>1, <3>2
  <2>5. Sums(f, Level(n + 1), h)
    <3>1. \A s \in Level(n + 1) : s # {} => h[s \ {Some(s)}] = g[s \ {Some(s)}]
      BY <2>2, <2>4
    <3> HIDE DEF Level
    <3> QED
      BY <3>1 DEF Sums
  <2> HIDE DEF h, Level
  <2> QED
    BY <2>3, <2>5
<1>3. Cardinality(S) \in Nat /\ Level(Cardinality(S)) = SUBSET S
  BY Parts
<1>4. Nat \subseteq M
  <2> HIDE DEF M
  <2> QED
    BY <1>1, <1>2, Induct
<1>5. Cardinality(S) \in M
  BY <1>3, <1>4
<1>6. \E g \in [Level(Cardinality(S)) -> Nat] : Sums(f, Level(Cardinality(S)), g)
  BY <1>5
<1> HIDE DEF Level
<1> QED
  BY <1>3, <1>6

\* It is the only one, and Total is what it gives.
LEMMA TotalSums ==
  ASSUME NEW f, NEW S, IsFiniteSet(S), \A x \in S : f[x] \in Nat
  PROVE  /\ \A A \in SUBSET S : Total(f, A) \in Nat
         /\ Total(f, {}) = 0
         /\ \A A \in SUBSET S : A # {} =>
              Some(A) \in A /\ Total(f, A) = f[Some(A)] + Total(f, A \ {Some(A)})
<1>1. PICK g \in [SUBSET S -> Nat] : Sums(f, SUBSET S, g)
  BY SumsExist
<1>2. \A s \in SUBSET S : g[s] = IF s = {} THEN 0 ELSE f[Some(s)] + g[s \ {Some(s)}]
  BY <1>1 DEF Sums
<1>3. ASSUME NEW A \in SUBSET S
      PROVE  Total(f, A) = g[A]
  <2> DEFINE h == CHOOSE k : Sums(f, SUBSET A, k)
             r == [s \in SUBSET A |-> g[s]]
  <2>1. Sums(f, SUBSET A, r)
    <3>1. \A s \in SUBSET A : /\ s \in SUBSET S /\ s \ {Some(s)} \in SUBSET A
                              /\ r[s] = g[s] /\ r[s \ {Some(s)}] = g[s \ {Some(s)}]
      OBVIOUS
    <3>2. \A s \in SUBSET A : r[s] = IF s = {} THEN 0 ELSE f[Some(s)] + r[s \ {Some(s)}]
      BY <1>2, <3>1
    <3>3. r = [s \in SUBSET A |-> r[s]]
      OBVIOUS
    <3> HIDE DEF r
    <3> QED
      BY <3>2, <3>3 DEF Sums
  <2>2. Sums(f, SUBSET A, h)
    BY <2>1
  <2> HIDE DEF h
  <2>3. \A s \in SUBSET A : h[s] = IF s = {} THEN 0 ELSE f[Some(s)] + h[s \ {Some(s)}]
    BY <2>2 DEF Sums
  <2> DEFINE M == {n \in Nat : \A s \in SUBSET A : Cardinality(s) <= n => h[s] = g[s]}
  <2>4. 0 \in M
    <3>1. \A s \in SUBSET A : Cardinality(s) <= 0 => s = {}
      BY Parts
    <3>2. h[{}] = 0 /\ g[{}] = 0
      BY <1>2, <2>3
    <3> QED
      BY <3>1, <3>2
  <2>5. ASSUME NEW n \in Nat, n \in M
        PROVE  n + 1 \in M
    <3> SUFFICES ASSUME NEW s \in SUBSET A, Cardinality(s) <= n + 1 PROVE h[s] = g[s]
      OBVIOUS
    <3>1. CASE s = {}
      BY <1>2, <2>3, <3>1
    <3>2. CASE s # {}
      <4>1. Some(s) \in s /\ s \in SUBSET S
        BY <3>2, SomeIn
      <4>2. Cardinality(s \ {Some(s)}) = Cardinality(s) - 1 /\ Cardinality(s) \in Nat
        BY <4>1, Parts
      <4>3. s \ {Some(s)} \in SUBSET A /\ Cardinality(s \ {Some(s)}) <= n
        BY <4>1, <4>2
      <4>4. h[s \ {Some(s)}] = g[s \ {Some(s)}]
        BY <2>5, <4>3
      <4> QED
        BY <1>2, <2>3, <3>2, <4>1, <4>4
    <3> QED
      BY <3>1, <3>2
  <2>6. Nat \subseteq M
    <3> HIDE DEF M
    <3> QED
      BY <2>4, <2>5, Induct
  <2>7. Cardinality(A) \in Nat /\ A \in SUBSET A
    BY Parts
  <2>8. Cardinality(A) \in M /\ Cardinality(A) <= Cardinality(A)
    BY <2>6, <2>7
  <2>9. h[A] = g[A]
    BY <2>7, <2>8
  <2> QED
    BY <2>9 DEF Total, h
<1>4. \A A \in SUBSET S : A # {} => Some(A) \in A /\ A \ {Some(A)} \in SUBSET S
  BY SomeIn
<1>5. {} \in SUBSET S /\ g[{}] = 0
  BY <1>2
<1>6. ASSUME NEW A \in SUBSET S, A # {}
      PROVE  Some(A) \in A /\ Total(f, A) = f[Some(A)] + Total(f, A \ {Some(A)})
  <2>1. Some(A) \in A /\ A \ {Some(A)} \in SUBSET S
    BY <1>4, <1>6
  <2>2. g[A] = f[Some(A)] + g[A \ {Some(A)}]
    BY <1>2, <1>6
  <2> QED
    BY <1>3, <2>1, <2>2
<1> QED
  BY <1>3, <1>5, <1>6

\* The elements may be taken in any order.
LEMMA TotalRemove ==
  ASSUME NEW f, NEW S, IsFiniteSet(S), \A x \in S : f[x] \in Nat
  PROVE  \A A \in SUBSET S : \A x \in A : Total(f, A) = f[x] + Total(f, A \ {x})
<1> DEFINE M == {n \in Nat : \A A \in SUBSET S : Cardinality(A) <= n =>
                               \A x \in A : Total(f, A) = f[x] + Total(f, A \ {x})}
<1>1. 0 \in M
  <2>1. \A A \in SUBSET S : Cardinality(A) <= 0 => A = {}
    BY Parts
  <2> QED
    BY <2>1
<1>2. ASSUME NEW n \in Nat, n \in M
      PROVE  n + 1 \in M
  <2> SUFFICES ASSUME NEW A \in SUBSET S, Cardinality(A) <= n + 1, NEW x \in A
               PROVE  Total(f, A) = f[x] + Total(f, A \ {x})
    OBVIOUS
  <2> DEFINE y == Some(A)
  <2>1. y \in A /\ Total(f, A) = f[y] + Total(f, A \ {y})
    BY TotalSums
  <2> HIDE DEF y
  <2>2. CASE x = y
    BY <2>1, <2>2
  <2>3. CASE x # y
    <3>1. /\ A \ {x} \in SUBSET S /\ A \ {y} \in SUBSET S
          /\ Cardinality(A \ {x}) <= n /\ Cardinality(A \ {y}) <= n
      <4>1. /\ Cardinality(A) \in Nat /\ Cardinality(A \ {x}) = Cardinality(A) - 1
            /\ Cardinality(A \ {y}) = Cardinality(A) - 1
        BY <2>1, Parts
      <4> QED
        BY <4>1
    <3>2. Total(f, A \ {y}) = f[x] + Total(f, (A \ {y}) \ {x})
      BY <1>2, <2>3, <3>1
    <3>3. Total(f, A \ {x}) = f[y] + Total(f, (A \ {x}) \ {y})
      BY <1>2, <2>1, <2>3, <3>1
    <3>4. (A \ {x}) \ {y} = (A \ {y}) \ {x} /\ (A \ {x}) \ {y} \in SUBSET S
      OBVIOUS
    <3>5. f[x] \in Nat /\ f[y] \in Nat /\ Total(f, (A \ {x}) \ {y}) \in Nat
      BY <2>1, <3>4, TotalSums
    <3> DEFINE r == Total(f, (A \ {x}) \ {y})
    <3>6. /\ Total(f, A \ {y}) = f[x] + r /\ Total(f, A \ {x}) = f[y] + r
      BY <3>2, <3>3, <3>4
    <3> HIDE DEF r
    <3>7. Total(f, A) = f[y] + (f[x] + r)
      BY <2>1, <3>6
    <3>8. f[x] \in Nat /\ f[y] \in Nat /\ r \in Nat
      BY <3>5 DEF r
    <3> QED
      BY <3>6, <3>7, <3>8
  <2> QED
    BY <2>2, <2>3
<1>3. Nat \subseteq M
  <2> HIDE DEF M
  <2> QED
    BY <1>1, <1>2, Induct
<1> SUFFICES ASSUME NEW A \in SUBSET S, NEW x \in A
             PROVE  Total(f, A) = f[x] + Total(f, A \ {x})
  OBVIOUS
<1>4. Cardinality(A) \in Nat
  BY Parts
<1>5. Cardinality(A) \in M /\ Cardinality(A) <= Cardinality(A)
  BY <1>3, <1>4
<1> QED
  BY <1>5

\* Disjoint sets add up.
LEMMA TotalUnion ==
  ASSUME NEW f, NEW S, IsFiniteSet(S), \A x \in S : f[x] \in Nat,
         NEW A \in SUBSET S, NEW B \in SUBSET S, A \cap B = {}
  PROVE  Total(f, A \cup B) = Total(f, A) + Total(f, B)
<1> DEFINE M == {n \in Nat : \A C \in SUBSET S : Cardinality(C) <= n /\ A \cap C = {} =>
                               Total(f, A \cup C) = Total(f, A) + Total(f, C)}
<1>1. 0 \in M
  <2> SUFFICES ASSUME NEW C \in SUBSET S, Cardinality(C) <= 0
               PROVE  Total(f, A \cup C) = Total(f, A) + Total(f, C)
    OBVIOUS
  <2>1. C = {} /\ A \cup {} = A
    BY Parts
  <2>2. Total(f, A) \in Nat /\ Total(f, {}) = 0
    BY TotalSums
  <2> QED
    BY <2>1, <2>2
<1>2. ASSUME NEW n \in Nat, n \in M
      PROVE  n + 1 \in M
  <2> SUFFICES ASSUME NEW C \in SUBSET S, Cardinality(C) <= n + 1, A \cap C = {}
               PROVE  Total(f, A \cup C) = Total(f, A) + Total(f, C)
    OBVIOUS
  <2>1. CASE C = {}
    <3>1. A \cup {} = A
      OBVIOUS
    <3> QED
      BY <2>1, <3>1, TotalSums
  <2>2. CASE C # {}
    <3>1. PICK x \in C : TRUE
      BY <2>2
    <3>2. /\ C \ {x} \in SUBSET S /\ Cardinality(C \ {x}) <= n /\ A \cap (C \ {x}) = {}
      <4>1. Cardinality(C) \in Nat /\ Cardinality(C \ {x}) = Cardinality(C) - 1
        BY Parts
      <4> QED
        BY <4>1
    <3>3. Total(f, A \cup (C \ {x})) = Total(f, A) + Total(f, C \ {x})
      BY <1>2, <3>2
    <3>4. /\ x \in A \cup C /\ A \cup C \in SUBSET S /\ (A \cup C) \ {x} = A \cup (C \ {x})
      OBVIOUS
    <3>5. Total(f, A \cup C) = f[x] + Total(f, (A \cup C) \ {x})
      BY <3>4, TotalRemove
    <3>6. Total(f, C) = f[x] + Total(f, C \ {x})
      BY TotalRemove
    <3>7. f[x] \in Nat /\ Total(f, A) \in Nat /\ Total(f, C \ {x}) \in Nat
      BY <3>2, TotalSums
    <3> QED
      BY <3>3, <3>4, <3>5, <3>6, <3>7
  <2> QED
    BY <2>1, <2>2
<1>3. Nat \subseteq M
  <2> HIDE DEF M
  <2> QED
    BY <1>1, <1>2, Induct
<1>4. Cardinality(B) \in Nat
  BY Parts
<1>5. Cardinality(B) \in M /\ Cardinality(B) <= Cardinality(B)
  BY <1>3, <1>4
<1> QED
  BY <1>5

\* Only the values on the set count.
LEMMA TotalAgrees ==
  ASSUME NEW f, NEW h, NEW S, IsFiniteSet(S), \A x \in S : f[x] \in Nat /\ h[x] = f[x]
  PROVE  Total(h, S) = Total(f, S)
<1> DEFINE M == {n \in Nat : \A A \in SUBSET S : Cardinality(A) <= n => Total(h, A) = Total(f, A)}
<1>1. 0 \in M
  <2>1. \A A \in SUBSET S : Cardinality(A) <= 0 => A = {}
    BY Parts
  <2>2. Total(f, {}) = 0 /\ Total(h, {}) = 0
    BY TotalSums
  <2> QED
    BY <2>1, <2>2
<1>2. ASSUME NEW n \in Nat, n \in M
      PROVE  n + 1 \in M
  <2> SUFFICES ASSUME NEW A \in SUBSET S, Cardinality(A) <= n + 1 PROVE Total(h, A) = Total(f, A)
    OBVIOUS
  <2>1. CASE A = {}
    BY <2>1, TotalSums
  <2>2. CASE A # {}
    <3> DEFINE y == Some(A)
    <3>1. /\ y \in A /\ Total(f, A) = f[y] + Total(f, A \ {y})
      BY <2>2, TotalSums
    <3>2. Total(h, A) = h[y] + Total(h, A \ {y})
      BY <2>2, TotalSums
    <3> HIDE DEF y
    <3>3. A \ {y} \in SUBSET S /\ Cardinality(A \ {y}) <= n
      <4>1. Cardinality(A) \in Nat /\ Cardinality(A \ {y}) = Cardinality(A) - 1
        BY <3>1, Parts
      <4> QED
        BY <4>1
    <3>4. Total(h, A \ {y}) = Total(f, A \ {y})
      BY <1>2, <3>3
    <3> QED
      BY <3>1, <3>2, <3>4
  <2> QED
    BY <2>1, <2>2
<1>3. Nat \subseteq M
  <2> HIDE DEF M
  <2> QED
    BY <1>1, <1>2, Induct
<1>4. Cardinality(S) \in Nat
  BY Parts
<1>5. Cardinality(S) \in M /\ Cardinality(S) <= Cardinality(S)
  BY <1>3, <1>4
<1> QED
  BY <1>5

\* Zeros count for nothing.
LEMMA TotalZero ==
  ASSUME NEW f, NEW S, IsFiniteSet(S), \A x \in S : f[x] = 0
  PROVE  Total(f, S) = 0
<1> DEFINE M == {n \in Nat : \A A \in SUBSET S : Cardinality(A) <= n => Total(f, A) = 0}
<1>1. 0 \in M
  <2>1. \A A \in SUBSET S : Cardinality(A) <= 0 => A = {}
    BY Parts
  <2>2. Total(f, {}) = 0
    BY TotalSums
  <2> QED
    BY <2>1, <2>2
<1>2. ASSUME NEW n \in Nat, n \in M
      PROVE  n + 1 \in M
  <2> SUFFICES ASSUME NEW A \in SUBSET S, Cardinality(A) <= n + 1 PROVE Total(f, A) = 0
    OBVIOUS
  <2>1. CASE A = {}
    BY <2>1, TotalSums
  <2>2. CASE A # {}
    <3> DEFINE y == Some(A)
    <3>1. y \in A /\ Total(f, A) = f[y] + Total(f, A \ {y})
      BY <2>2, TotalSums
    <3> HIDE DEF y
    <3>2. A \ {y} \in SUBSET S /\ Cardinality(A \ {y}) <= n
      <4>1. Cardinality(A) \in Nat /\ Cardinality(A \ {y}) = Cardinality(A) - 1
        BY <3>1, Parts
      <4> QED
        BY <4>1
    <3>3. Total(f, A \ {y}) = 0
      BY <1>2, <3>2
    <3> QED
      BY <3>1, <3>3
  <2> QED
    BY <2>1, <2>2
<1>3. Nat \subseteq M
  <2> HIDE DEF M
  <2> QED
    BY <1>1, <1>2, Induct
<1>4. Cardinality(S) \in Nat
  BY Parts
<1>5. Cardinality(S) \in M /\ Cardinality(S) <= Cardinality(S)
  BY <1>3, <1>4
<1> QED
  BY <1>5

-----------------------------------------------------------------------------
(* Where the items are. *)

\* What PushBatch has moved of the batch of s.
PartOf(s) == {Batch[s][j] : j \in 1..pushed[s]}

\* A push moves a prefix of the batch, of a submission that was made.
Prefixes ==
    \A s \in Submitters : /\ pushed[s] <= Len(Batch[s])
                          /\ pushed[s] # 0 => s \in config.callers
                          /\ pc[s] = "registered" => pushed[s] = 0

InQueue(i) == \E k \in 1..Len(queue) : queue[k] = i

SomeHolds(i) == \E p \in Holders : i \in held[p]

\* An accepted item is queued, held or final, and no other item is.
Located ==
    \A i \in Items : (\E s \in Submitters : i \in PartOf(s)) <=>
                       InQueue(i) \/ SomeHolds(i) \/ terminal[i] = 1

(* What each goroutine has in its hands. *)

Settling(p) == pc[p] \in {"settle", "callback"} \cup Aborter

Settled == {"succeeded", "failed", "abandoned", "pending"}

\* A worker holds nothing when it receives or has returned, the coordinator when it
\* does not settle; what is being settled has an outcome.
HandOf(p) ==
    /\ unclassified[p] \subseteq due[p]
    /\ pc[p] \notin {"settle"} \cup Aborter => unclassified[p] = {}
    /\ Settling(p) => \A i \in due[p] : outcome[i] \in Settled
    /\ p # Coordinator => /\ pc[p] \in {"loop", "exited", "receive", "receiveWait"} => held[p] = {}
                          /\ pc[p] \in Aborter => ret[p] = "settle"
    /\ p = Coordinator => /\ ~Settling(p) => held[p] = {}
                          /\ due[p] = held[p]
                          /\ \A i \in held[p] : outcome[i] = "abandoned"

\* The hands of all the workers and of the coordinator.
Hands == unclassified \in [Holders -> SUBSET Items] /\ \A p \in Holders : HandOf(p)

\* The queue is closed before the workers are joined and empty before the outcome
\* is fixed: without an abort, by the workers, who return from an empty closed queue.
Closing ==
    /\ pc[Coordinator] \notin {"unstarted", "coordinate", "drain", "join"} => closed
    /\ pc[Coordinator] \in {"complete", "publish", "exited"} => queue = <<>>
    /\ (\E w \in config.workers : pc[w] = "exited") => Committed \/ (closed /\ queue = <<>>)

(* The counters. *)

AccountFields == {"accepted", "succeeded", "failed", "abandoned", "attempts", "failures"}

Uncounted == {"start", "registered", "push", "record"}

Counted == {i \in Items : \E s \in Submitters : pc[s] \notin Uncounted /\ i \in PartOf(s)}

Ended == {i \in Items : terminal[i] = 1}

\* Each counter equals what it counts: the items a submission has recorded, the
\* final ones, and the attempts made for those.
Counters ==
    /\ account = [f \in AccountFields |-> account[f]]
    /\ \A f \in AccountFields \ {"failures"} : account[f] \in Nat
    /\ tried \in [Items -> Nat]
    /\ account.accepted = Cardinality(Counted)
    /\ account.succeeded + account.failed + account.abandoned = Cardinality(Ended)
    /\ account.attempts = Total(tried, Ended)
    /\ \A i \in Items : tried[i] # 0 => terminal[i] = 1 \/ SomeHolds(i)

\* The bookkeeping invariant.
Books == Prefixes /\ Located /\ Hands /\ Closing /\ Counters

\* There are finitely many items.
LEMMA ItemsFinite == IsFiniteSet(Items)
<1> DEFINE R == {Range(Batch[s]) : s \in Submitters}
<1>1. IsFiniteSet(R)
  <2> DEFINE f == [s \in Submitters |-> Range(Batch[s])]
  <2>1. f \in Surjection(Submitters, R)
    BY DEF Surjection
  <2>2. IsFiniteSet(Submitters)
    BY ActiveFinite
  <2> QED
    BY <2>1, <2>2, FS_Surjection
<1>2. ASSUME NEW s \in Submitters
      PROVE  IsFiniteSet(Range(Batch[s]))
  <2>1. Batch[s] \in Seq(Range(Batch[s]))
    BY RunnerAssumption
  <2> DEFINE n == Len(Batch[s])
  <2>2. n \in Nat /\ DOMAIN Batch[s] = 1..n /\ Batch[s] \in [1..n -> Range(Batch[s])]
    BY <2>1
  <2>3. Range(Batch[s]) = {Batch[s][j] : j \in 1..n}
    BY <2>2 DEF Range
  <2> HIDE DEF n
  <2>4. Batch[s] \in Surjection(1..n, Range(Batch[s]))
    BY <2>2, <2>3 DEF Surjection
  <2>5. IsFiniteSet(1..n)
    BY <2>2, FS_Interval
  <2> QED
    BY <2>4, <2>5, FS_Surjection
<1>3. \A x \in R : IsFiniteSet(x)
  BY <1>2
<1> HIDE DEF R
<1>4. IsFiniteSet(UNION R)
  BY <1>1, <1>3, FS_UNION
<1> QED
  BY <1>4 DEF Items, R

\* What was pushed of a batch.
LEMMA PartItems ==
  ASSUME Custody, Prefixes
  PROVE  \A s \in Submitters :
           /\ pushed[s] \in Nat /\ 1..pushed[s] \subseteq 1..Len(Batch[s])
           /\ PartOf(s) \subseteq Items
           /\ PartOf(s) = Range(SubSeq(Batch[s], 1, pushed[s]))
<1> SUFFICES ASSUME NEW s \in Submitters
             PROVE  /\ pushed[s] \in Nat /\ 1..pushed[s] \subseteq 1..Len(Batch[s])
                    /\ PartOf(s) \subseteq Items
                    /\ PartOf(s) = Range(SubSeq(Batch[s], 1, pushed[s]))
  OBVIOUS
<1> DEFINE n == pushed[s]
           b == Batch[s]
<1>1. n \in Nat /\ n <= Len(b) /\ b \in Seq(Range(b)) /\ Len(b) \in Nat
  BY RunnerAssumption, BatchItems DEF Custody, Unpushed, Prefixes
<1>2. 1..n \subseteq 1..Len(b)
  BY <1>1
<1>3. PartOf(s) \subseteq Items
  BY <1>2, BatchItems DEF PartOf
<1>4. PartOf(s) = Range(SubSeq(b, 1, n))
  <2>1. Len(SubSeq(b, 1, n)) = n /\ SubSeq(b, 1, n) \in Seq(Range(b))
    BY <1>1
  <2>2. \A j \in 1..n : SubSeq(b, 1, n)[j] = b[j]
    BY <1>1
  <2>3. DOMAIN SubSeq(b, 1, n) = 1..n
    BY <2>1
  <2> QED
    BY <2>2, <2>3 DEF Range, PartOf
<1> QED
  BY <1>1, <1>2, <1>3, <1>4

\* As many items as PushBatch has moved.
LEMMA PartCount ==
  ASSUME Custody, Prefixes, NEW s \in Submitters
  PROVE  IsFiniteSet(PartOf(s)) /\ Cardinality(PartOf(s)) = pushed[s]
<1> DEFINE n == pushed[s]
           f == [j \in 1..n |-> Batch[s][j]]
<1>1. n \in Nat /\ 1..n \subseteq 1..Len(Batch[s])
  BY PartItems
<1>2. CASE n = 0
  <2>1. PartOf(s) = {}
    BY <1>2 DEF PartOf
  <2> QED
    BY <1>2, <2>1, FS_EmptySet
<1>3. CASE n # 0
  <2>1. s \in config.callers /\ config \in Configs
    BY <1>3 DEF Custody, Unpushed, Prefixes
  <2>2. DOMAIN Batch[s] = 1..Len(Batch[s])
    BY RunnerAssumption
  <2>3. \A j, k \in 1..n : Batch[s][j] = Batch[s][k] => j = k
    BY <1>1, <2>1, <2>2, RunnerAssumption
  <2>4. f \in Bijection(1..n, PartOf(s))
    BY <2>3 DEF Bijection, Injection, Surjection, IsInjective, PartOf
  <2>5. ExistsBijection(1..n, PartOf(s))
    BY <2>4 DEF ExistsBijection
  <2>6. IsFiniteSet(1..n) /\ Cardinality(1..n) = n
    BY <1>1, <1>3, FS_Interval
  <2> QED
    BY <2>5, <2>6, FS_Bijection
<1> QED
  BY <1>2, <1>3

=============================================================================
