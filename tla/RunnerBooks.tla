----------------------------- MODULE RunnerBooks -----------------------------
(***************************************************************************)
(* Every step of the runner keeps its books (Books of RunnerProofs), so    *)
(* they reconcile at completion.  An accepted item is queued, in           *)
(* somebody's hands or final; at completion the queue is empty, because    *)
(* the workers drained it or the cleanup did, and every hand is empty, so  *)
(* each accepted item is final.  The counters follow the items: a          *)
(* submission adds its pushed prefix before it leaves the gate, and        *)
(* publish adds each item when it becomes final.                           *)
(***************************************************************************)
EXTENDS RunnerProofs

-----------------------------------------------------------------------------
(* Steps that leave things as they are. *)

LEMMA PlacesKept ==
  ASSUME Custody, Prefixes, Located, UNCHANGED <<config, queue, pushed, held, terminal>>,
         \A s \in Submitters : pc'[s] = "registered" => pc[s] \in {"start", "registered"}
  PROVE  Prefixes' /\ Located'
<1>1. Prefixes'
  BY DEF Prefixes, Custody, Unpushed
<1>2. \A s \in Submitters : PartOf(s)' = PartOf(s)
  BY DEF PartOf
<1>3. \A i \in Items : (InQueue(i)' <=> InQueue(i)) /\ (SomeHolds(i)' <=> SomeHolds(i))
  BY DEF InQueue, SomeHolds
<1>4. Located'
  BY <1>2, <1>3 DEF Located
<1> QED
  BY <1>1, <1>4

\* One goroutine's hands stay as they are.
LEMMA HandKept ==
  ASSUME Custody, NEW p \in Holders, HandOf(p),
         held'[p] = held[p], due'[p] = due[p], unclassified'[p] = unclassified[p],
         ret'[p] = ret[p],
         \/ pc'[p] = pc[p]
         \/ pc[p] \in {"unstarted", "coordinate"} /\ pc'[p] = "coordinate" /\ p = Coordinator,
         \A i \in held[p] : outcome'[i] = outcome[i]
  PROVE  HandOf(p)'
<1>1. due[p] \subseteq held[p]
  BY DEF Custody, Held
<1> QED
  BY <1>1 DEF HandOf, Settling, Aborter

\* A step of one holder.
LEMMA HandsKept ==
  ASSUME Custody, Hands, NEW p \in Holders, HandOf(p)',
         unclassified' \in [Holders -> SUBSET Items],
         \A r \in Holders \ {p} :
            /\ held'[r] = held[r] /\ due'[r] = due[r] /\ unclassified'[r] = unclassified[r]
            /\ pc'[r] = pc[r] /\ ret'[r] = ret[r]
            /\ \A i \in held[r] : outcome'[i] = outcome[i]
  PROVE  Hands'
<1>1. \A r \in Holders \ {p} : HandOf(r)'
  BY HandKept DEF Hands
<1> QED
  BY <1>1 DEF Hands

\* The coordinator gets no further and nobody touches the queue.
LEMMA ClosingKept ==
  ASSUME Closing, config' = config, closed' = closed, queue' = queue, Committed => Committed',
         \A w \in config.workers : pc'[w] = "exited" =>
            pc[w] = "exited" \/ Committed' \/ (closed /\ queue = <<>>),
         pc'[Coordinator] \notin {"unstarted", "coordinate", "drain", "join"} => closed,
         pc'[Coordinator] \in {"complete", "publish", "exited"} => queue = <<>>
  PROVE  Closing'
  BY DEF Closing

\* Nothing that is counted changes, and neither does the account.
LEMMA CountersKept ==
  ASSUME Custody, Counters, UNCHANGED <<pushed, terminal, tried, held>>,
         account' = [f \in AccountFields |-> account'[f]],
         \A f \in AccountFields \ {"failures"} : account'[f] = account[f],
         \A s \in Submitters : pushed[s] = 0 \/ (pc'[s] \in Uncounted <=> pc[s] \in Uncounted)
  PROVE  Counters'
<1>1. \A s \in Submitters : PartOf(s)' = PartOf(s) /\ (pushed[s] = 0 => PartOf(s) = {})
  BY DEF PartOf
<1>2. Counted' = Counted
  BY <1>1 DEF Counted
<1>3. Ended' = Ended /\ \A i \in Items : SomeHolds(i)' <=> SomeHolds(i)
  BY DEF Ended, SomeHolds
<1>4. /\ account'.accepted = account.accepted /\ account'.succeeded = account.succeeded
      /\ account'.failed = account.failed /\ account'.abandoned = account.abandoned
      /\ account'.attempts = account.attempts
  BY DEF AccountFields
<1> QED
  BY <1>2, <1>3, <1>4 DEF Counters

\* A step that moves no item, closes nothing and counts nothing.
LEMMA BooksKept ==
  ASSUME Custody, Books,
         UNCHANGED <<config, queue, closed, pushed, held, due, unclassified, outcome, tried, terminal>>,
         account' = [f \in AccountFields |-> account'[f]],
         \A f \in AccountFields \ {"failures"} : account'[f] = account[f],
         Committed => Committed',
         \A p \in Holders : /\ ret'[p] = ret[p]
                            /\ \/ pc'[p] = pc[p]
                               \/ /\ pc[p] \in {"unstarted", "coordinate"} /\ pc'[p] = "coordinate"
                                  /\ p = Coordinator,
         \A s \in Submitters :
            /\ pc'[s] = "registered" => pc[s] \in {"start", "registered"}
            /\ pushed[s] = 0 \/ (pc'[s] \in Uncounted <=> pc[s] \in Uncounted)
  PROVE  Books'
<1>1. Prefixes' /\ Located'
  BY PlacesKept DEF Books
<1>2. \A p \in Holders : HandOf(p)'
  BY HandKept DEF Books, Hands
<1>3. Hands'
  BY <1>2 DEF Books, Hands
<1>4. Coordinator \in Holders /\ Coordinator \notin config.workers /\ config.workers \subseteq Holders
  BY RunnerAssumption DEF Holders, Custody, Unpushed
<1>5. Closing'
  BY <1>4, ClosingKept DEF Books, Closing
<1>6. Counters'
  BY CountersKept DEF Books
<1> QED
  BY <1>1, <1>3, <1>5, <1>6 DEF Books

-----------------------------------------------------------------------------
(* abort, the owners and the submissions. *)

LEMMA AbortsBook ==
  ASSUME AbortInv, Custody, Gate, Books, NEW p \in Procs, Aborts(p)
  PROVE  Books'
<1>1. AbortStep(p)
  BY AbortSteps
<1>2. /\ config' = config /\ queue' = queue /\ closed' = closed /\ account' = account
      /\ pushed' = pushed /\ held' = held /\ due' = due /\ unclassified' = unclassified
      /\ outcome' = outcome /\ tried' = tried /\ terminal' = terminal
  BY <1>1 DEF AbortStep, work
<1>3. Committed => Committed'
  <2>1. /\ life = [f \in LifeFields |-> life[f]]
        /\ p # None
    BY RunnerAssumption DEF AbortInv, Shapes
  <2>2. CASE \A f \in LifeFields \ {"cancelled", "aborting", "panicked"} : life'[f] = life[f]
    BY <2>2 DEF LifeFields, Committed
  <2>3. CASE life.abortRecord = None
    BY <2>3 DEF Committed
  <2> QED
    BY <2>2, <2>3, AbortSteps
<1>4. /\ Coordinator \in Procs /\ Submitters \subseteq Procs /\ Coordinator \notin Submitters
      /\ Holders \subseteq Procs /\ Submitters \cap Holders = {} /\ Coordinator \in Holders
  BY RunnerAssumption DEF Procs, Holders
<1>5. /\ account' = [f \in AccountFields |-> account'[f]]
      /\ \A f \in AccountFields \ {"failures"} : account'[f] = account[f]
  BY <1>2 DEF Books, Counters
<1>6. \A s \in Submitters :
         /\ pc'[s] = "registered" => pc[s] \in {"start", "registered"}
         /\ pushed[s] = 0 \/ (pc'[s] \in Uncounted <=> pc[s] \in Uncounted)
  BY <1>1, <1>4 DEF AbortStep, Gate, Aborter, Uncounted
<1>7. CASE p \notin Holders
  <2>1. \A r \in Holders : /\ ret'[r] = ret[r]
                           /\ \/ pc'[r] = pc[r]
                              \/ /\ pc[r] \in {"unstarted", "coordinate"} /\ pc'[r] = "coordinate"
                                 /\ r = Coordinator
    BY <1>1, <1>4, <1>7 DEF AbortStep
  <2> QED
    BY <1>2, <1>3, <1>5, <1>6, <2>1, BooksKept
<1>8. CASE p \in Holders
  <2>1. Prefixes' /\ Located' /\ Counters'
    BY <1>2, <1>5, <1>6, PlacesKept, CountersKept DEF Books
  <2>2. /\ pc[p] \in Aborter /\ ret[p] = "settle"
        /\ \/ pc'[p] \in Aborter /\ ret'[p] = ret[p]
           \/ pc'[p] = "settle"
    BY <1>1, <1>8 DEF AbortStep, Books, Hands, HandOf, AbortInv, Joined
  <2>3. HandOf(p)'
    <3>1. HandOf(p)
      BY <1>8 DEF Books, Hands
    <3>2. held'[p] = held[p] /\ due'[p] = due[p] /\ unclassified'[p] = unclassified[p]
      BY <1>2
    <3>3. Settling(p) /\ Settling(p)' /\ pc'[p] \in {"settle"} \cup Aborter
      BY <2>2 DEF Settling
    <3>4. pc'[p] \notin {"loop", "exited", "receive", "receiveWait"}
      BY <3>3 DEF Aborter
    <3> QED
      BY <1>2, <2>2, <3>1, <3>2, <3>3, <3>4 DEF HandOf, Aborter
  <2>4. \A r \in Holders \ {p} : HandOf(r)'
    <3> SUFFICES ASSUME NEW r \in Holders \ {p} PROVE HandOf(r)'
      OBVIOUS
    <3>1. /\ ret'[r] = ret[r]
          /\ \/ pc'[r] = pc[r]
             \/ pc[r] \in {"unstarted", "coordinate"} /\ pc'[r] = "coordinate" /\ r = Coordinator
      BY <1>1, <1>4 DEF AbortStep
    <3>2. held'[r] = held[r] /\ due'[r] = due[r] /\ unclassified'[r] = unclassified[r]
      BY <1>2
    <3> QED
      BY <1>2, <3>1, <3>2, HandKept DEF Books, Hands
  <2>5. Hands'
    BY <1>2, <2>3, <2>4 DEF Books, Hands
  <2>6. Closing'
    <3>1. Closing
      BY DEF Books
    <3>2. config.workers \subseteq Holders \ {Coordinator}
      BY RunnerAssumption DEF Holders, Custody, Unpushed
    <3>3. \A w \in config.workers : pc'[w] = "exited" => pc[w] = "exited"
      BY <1>1, <1>4, <2>2, <3>2 DEF AbortStep, Aborter
    <3>4. /\ pc'[Coordinator] \notin {"unstarted", "coordinate", "drain", "join"} => closed
          /\ pc'[Coordinator] \in {"complete", "publish", "exited"} => queue = <<>>
      <4>1. CASE p = Coordinator
        BY <2>2, <3>1, <4>1 DEF Closing, Aborter
      <4>2. CASE p # Coordinator
        BY <1>1, <3>1, <4>2 DEF AbortStep, Closing
      <4> QED
        BY <4>1, <4>2
    <3> QED
      BY <1>2, <1>3, <3>1, <3>3, <3>4, ClosingKept
  <2> QED
    BY <2>1, <2>5, <2>6 DEF Books
<1> QED
  BY <1>7, <1>8

\* The callers of Shutdown, Abort and Wait touch no item.
LEMMA OwnersBook ==
  ASSUME AbortInv, Custody, Books, NEW o \in Owners,
         Shutdown(o) \/ Abort(o) \/ graceEnds(o) \/ Wait(o)
  PROVE  Books'
<1>1. /\ o \in Procs \ {Coordinator} /\ o \notin Submitters /\ Submitters \subseteq Procs
      /\ Coordinator \in Procs /\ Coordinator \notin Submitters
      /\ o \notin Holders /\ Holders \subseteq Procs
      /\ life = [f \in LifeFields |-> life[f]]
      /\ pc = [x \in Procs |-> pc[x]] /\ ret \in [Procs -> Resumed]
  BY RunnerAssumption DEF Procs, AbortInv, Shapes, Holders
<1>2. /\ config' = config /\ queue' = queue /\ closed' = closed /\ account' = account
      /\ pushed' = pushed /\ held' = held /\ due' = due /\ unclassified' = unclassified
      /\ outcome' = outcome /\ tried' = tried /\ terminal' = terminal
  BY DEF Shutdown, Abort, graceEnds, Wait, work
<1>3. life'.abortRecord = life.abortRecord
  BY <1>1 DEF Shutdown, Abort, graceEnds, Wait, stopAdmission, closeAdmissionLocked, LifeFields
<1>4. /\ \A x \in Procs \ {o} :
            /\ ret'[x] = ret[x]
            /\ \/ pc'[x] = pc[x]
               \/ pc[x] \in {"unstarted", "coordinate"} /\ pc'[x] = "coordinate" /\ x = Coordinator
  <2>1. CASE Shutdown(o)
    BY <1>1, <2>1 DEF Shutdown, stopAdmission, startCoordinatorLocked
  <2>2. CASE Abort(o) \/ graceEnds(o) \/ Wait(o)
    BY <1>1, <2>2 DEF Abort, graceEnds, Wait, callAbort, Go
  <2> QED
    BY <2>1, <2>2
<1>5. /\ account' = [f \in AccountFields |-> account'[f]]
      /\ \A f \in AccountFields \ {"failures"} : account'[f] = account[f]
  BY <1>2 DEF Books, Counters
<1>6. \A s \in Submitters : pc'[s] = pc[s]
  BY <1>1, <1>4
<1>7. \A r \in Holders : /\ ret'[r] = ret[r]
                         /\ \/ pc'[r] = pc[r]
                            \/ /\ pc[r] \in {"unstarted", "coordinate"} /\ pc'[r] = "coordinate"
                               /\ r = Coordinator
  BY <1>1, <1>4
<1>8. Committed => Committed'
  BY <1>3 DEF Committed
<1>9. \A s \in Submitters :
         /\ pc'[s] = "registered" => pc[s] \in {"start", "registered"}
         /\ pushed[s] = 0 \/ (pc'[s] \in Uncounted <=> pc[s] \in Uncounted)
  BY <1>6
<1> QED
  BY <1>2, <1>5, <1>7, <1>8, <1>9, BooksKept

\* The steps of a submission that neither push nor count.
LEMMA SubmissionsBook ==
  ASSUME AbortInv, Custody, Books, NEW s \in Submitters,
         registerSubmission(s) \/ submitNothing(s) \/ PushEnds(s) \/ unregisterSubmission(s)
  PROVE  Books'
<1>1. /\ s \in Procs /\ s \notin Holders /\ Holders \subseteq Procs /\ Submitters \subseteq Procs
      /\ life = [f \in LifeFields |-> life[f]]
  BY RunnerAssumption DEF Procs, AbortInv, Shapes, Holders
<1>2. /\ config' = config /\ queue' = queue /\ closed' = closed /\ account' = account
      /\ pushed' = pushed /\ held' = held /\ due' = due /\ unclassified' = unclassified
      /\ outcome' = outcome /\ tried' = tried /\ terminal' = terminal /\ ret' = ret
  BY DEF registerSubmission, submitNothing, PushEnds, unregisterSubmission, work
<1>3. life'.abortRecord = life.abortRecord
  <2>1. CASE unregisterSubmission(s)
    <3>1. PICK a, b, c : life' = [life EXCEPT !.active = a, !.admissionsDone = b, !.panicked = c]
      BY <2>1 DEF unregisterSubmission
    <3> QED
      BY <1>1, <3>1 DEF LifeFields
  <2>2. CASE ~unregisterSubmission(s)
    BY <1>1, <2>2 DEF registerSubmission, submitNothing, PushEnds, LifeFields
  <2> QED
    BY <2>1, <2>2
<1>4. PICK l \in {"registered", "returned", "unregister", "record"} :
        /\ Go(s, l)
        /\ l = "registered" => pc[s] = "start"
        /\ pushed[s] = 0 \/ (l \in Uncounted <=> pc[s] \in Uncounted)
  <2>1. CASE registerSubmission(s)
    <3>1. pushed[s] = 0
      BY <2>1 DEF registerSubmission, Custody, Unpushed
    <3> QED
      BY <2>1, <3>1 DEF registerSubmission
  <2>2. CASE submitNothing(s)
    <3>1. pushed[s] = 0
      BY <2>2 DEF submitNothing, Books, Prefixes
    <3> QED
      BY <2>2, <3>1 DEF submitNothing
  <2>3. CASE PushEnds(s)
    BY <2>3 DEF PushEnds, Uncounted
  <2>4. CASE unregisterSubmission(s)
    BY <2>4 DEF unregisterSubmission, Uncounted
  <2> QED
    BY <2>1, <2>2, <2>3, <2>4
<1>5. pc'[s] = l /\ \A x \in Procs \ {s} : pc'[x] = pc[x]
  BY <1>1, <1>4, OneMoves
<1>6. /\ account' = [f \in AccountFields |-> account'[f]]
      /\ \A f \in AccountFields \ {"failures"} : account'[f] = account[f]
  BY <1>2 DEF Books, Counters
<1>7. \A r \in Holders : ret'[r] = ret[r] /\ pc'[r] = pc[r]
  BY <1>1, <1>2, <1>5
<1>8. Committed => Committed'
  BY <1>3 DEF Committed
<1>9. \A t \in Submitters :
         /\ pc'[t] = "registered" => pc[t] \in {"start", "registered"}
         /\ pushed[t] = 0 \/ (pc'[t] \in Uncounted <=> pc[t] \in Uncounted)
  BY <1>1, <1>4, <1>5
<1> QED
  BY <1>2, <1>6, <1>7, <1>8, <1>9, BooksKept

\* Accepted items are counted once, when PushBatch has returned.
LEMMA RecordBooks ==
  ASSUME AbortInv, Custody, Gate, Books, NEW s \in Submitters, recordAccepted(s)
  PROVE  Books'
<1>1. /\ s \in Procs /\ s \notin Holders /\ Holders \subseteq Procs /\ Submitters \subseteq Procs
      /\ ret \in [Procs -> Resumed]
  BY RunnerAssumption DEF Procs, AbortInv, Shapes, Holders
<1>2. /\ config' = config /\ queue' = queue /\ closed' = closed /\ life' = life
      /\ pushed' = pushed /\ held' = held /\ due' = due /\ unclassified' = unclassified
      /\ outcome' = outcome /\ tried' = tried /\ terminal' = terminal /\ pc[s] = "record"
  BY DEF recordAccepted, work
<1>3. PICK a, b : account' = [account EXCEPT !.accepted = a, !.failures = b]
                  /\ a = account.accepted + pushed[s]
  BY DEF recordAccepted
<1>4. PICK l \in {"unregister", "abort"} :
        Go(s, l) /\ (ret' = ret \/ ret' = [ret EXCEPT ![s] = "unregister"])
  BY DEF recordAccepted, callAbort
<1>5. /\ pc'[s] = l /\ \A x \in Procs \ {s} : pc'[x] = pc[x] /\ ret'[x] = ret[x]
  BY <1>1, <1>4, OneMoves
<1>6. Prefixes' /\ Located'
  <2>1. \A t \in Submitters : pc'[t] = "registered" => pc[t] \in {"start", "registered"}
    BY <1>1, <1>5
  <2> QED
    BY <1>2, <2>1, PlacesKept DEF Books
<1>7. Hands'
  <2>1. ASSUME NEW r \in Holders PROVE HandOf(r)'
    <3>1. pc'[r] = pc[r] /\ ret'[r] = ret[r]
      BY <1>1, <1>5
    <3>2. held'[r] = held[r] /\ due'[r] = due[r] /\ unclassified'[r] = unclassified[r]
      BY <1>2
    <3> QED
      BY <1>2, <3>1, <3>2, HandKept DEF Books, Hands
  <2> QED
    BY <1>2, <2>1 DEF Books, Hands
<1>8. Closing'
  <2>1. config.workers \subseteq Holders /\ Coordinator \in Holders
    BY RunnerAssumption DEF Holders, Custody, Unpushed
  <2>2. \A r \in Holders : pc'[r] = pc[r]
    BY <1>1, <1>5
  <2> QED
    BY <1>2, <2>1, <2>2 DEF Books, Closing, Committed
<1>9. Counters'
  <2>1. /\ account' = [f \in AccountFields |-> account'[f]]
        /\ account'.accepted = account.accepted + pushed[s]
        /\ account'.succeeded = account.succeeded /\ account'.failed = account.failed
        /\ account'.abandoned = account.abandoned /\ account'.attempts = account.attempts
    BY <1>3 DEF Books, Counters, AccountFields
  <2>2. \A t \in Submitters : PartOf(t)' = PartOf(t)
    BY <1>2 DEF PartOf
  <2>3. Counted' = Counted \cup PartOf(s)
    <3>1. pc'[s] \notin Uncounted /\ pc[s] \in Uncounted
      BY <1>2, <1>5 DEF Uncounted
    <3>2. \A t \in Submitters \ {s} : pc'[t] = pc[t]
      BY <1>1, <1>5
    <3>3. PartOf(s) \subseteq Items
      BY PartItems DEF Books
    <3> QED
      BY <2>2, <3>1, <3>2, <3>3 DEF Counted
  <2>4. Counted \cap PartOf(s) = {}
    <3> SUFFICES ASSUME NEW i \in Counted, i \in PartOf(s) PROVE FALSE
      OBVIOUS
    <3>1. PICK t \in Submitters : pc[t] \notin Uncounted /\ i \in PartOf(t)
      BY DEF Counted
    <3>2. t # s
      BY <1>2, <3>1 DEF Uncounted
    <3>3. PICK j \in 1..pushed[s] : Batch[s][j] = i
      BY DEF PartOf
    <3>4. PICK k \in 1..pushed[t] : Batch[t][k] = i
      BY <3>1 DEF PartOf
    <3>5. pushed[s] # 0 /\ pushed[t] # 0 /\ pushed[s] \in Nat /\ pushed[t] \in Nat
      BY <3>3, <3>4, PartItems DEF Books
    <3>6. s \in config.callers /\ t \in config.callers /\ config \in Configs
      BY <3>5 DEF Books, Prefixes, Custody, Unpushed
    <3>7. j \in DOMAIN Batch[s] /\ k \in DOMAIN Batch[t]
      <4>1. DOMAIN Batch[s] = 1..Len(Batch[s]) /\ DOMAIN Batch[t] = 1..Len(Batch[t])
        BY RunnerAssumption
      <4> QED
        BY <4>1, PartItems DEF Books
    <3> QED
      BY <3>2, <3>3, <3>4, <3>6, <3>7, RunnerAssumption
  <2>5. Cardinality(Counted') = Cardinality(Counted) + pushed[s]
    <3>1. IsFiniteSet(Counted)
      <4>1. Counted \in SUBSET Items
        BY DEF Counted
      <4> QED
        BY <4>1, ItemsFinite, FS_Subset
    <3>2. IsFiniteSet(PartOf(s)) /\ Cardinality(PartOf(s)) = pushed[s]
      BY PartCount DEF Books
    <3>3. Cardinality(Counted \cup PartOf(s)) = Cardinality(Counted) + Cardinality(PartOf(s)) - 0
      BY <2>4, <3>1, <3>2, FS_Union, FS_EmptySet
    <3>4. Cardinality(Counted) \in Nat /\ pushed[s] \in Nat
      BY <3>1, FS_CardinalityType, PartItems DEF Books
    <3> QED
      BY <2>3, <3>2, <3>3, <3>4
  <2>6. Ended' = Ended /\ \A i \in Items : SomeHolds(i)' <=> SomeHolds(i)
    BY <1>2 DEF Ended, SomeHolds
  <2>7. \A f \in AccountFields \ {"failures"} : account'[f] \in Nat
    <3>1. account.accepted \in Nat /\ pushed[s] \in Nat
      BY PartItems DEF Books, Counters, AccountFields
    <3> QED
      BY <2>1, <3>1 DEF Books, Counters, AccountFields
  <2> QED
    BY <1>2, <2>1, <2>5, <2>6, <2>7 DEF Books, Counters
<1> QED
  BY <1>6, <1>7, <1>8, <1>9 DEF Books

\* An item that PushBatch moves is accepted and queued.
LEMMA PushBooks ==
  ASSUME AbortInv, Custody, Gate, Books, NEW s \in Submitters, pushItem(s)
  PROVE  Books'
<1> DEFINE x == Batch[s][pushed[s] + 1]
           n == Len(queue)
<1>1. /\ s \in Procs /\ s \notin Holders /\ Holders \subseteq Procs /\ Submitters \subseteq Procs
      /\ config.workers \subseteq Holders /\ Coordinator \in Holders
  BY RunnerAssumption DEF Procs, Holders, Custody, Unpushed
<1>2. /\ config' = config /\ closed' = closed /\ life' = life /\ account' = account
      /\ held' = held /\ due' = due /\ unclassified' = unclassified
      /\ outcome' = outcome /\ tried' = tried /\ terminal' = terminal /\ ret' = ret
      /\ ~closed /\ pc[s] \in {"registered", "push"}
      /\ queue' = Append(queue, x) /\ pushed' = [pushed EXCEPT ![s] = @ + 1]
  BY DEF pushItem, work
<1>3. PICK l \in {"record", "push"} : Go(s, l)
  BY DEF pushItem
<1>4. pc'[s] = l /\ \A y \in Procs \ {s} : pc'[y] = pc[y]
  BY <1>1, <1>3, OneMoves
<1>5. /\ pushed[s] \in Nat /\ s \in config.callers /\ pushed[s] < Len(Batch[s])
      /\ Len(Batch[s]) \in Nat /\ queue \in Seq(Items) /\ n \in Nat
  BY <1>2, BatchItems DEF Custody, Unpushed, Queued
<1>6. x \in Items
  BY <1>5, BatchItems
<1>7. /\ pushed'[s] = pushed[s] + 1
      /\ \A t \in Submitters \ {s} : pushed'[t] = pushed[t]
  BY <1>2 DEF Custody, Unpushed
<1>8. /\ Len(queue') = n + 1 /\ queue'[n + 1] = x /\ \A k \in 1..n : queue'[k] = queue[k]
  BY <1>2, <1>5, <1>6
<1> HIDE DEF x, n
<1>9. PartOf(s)' = PartOf(s) \cup {x} /\ \A t \in Submitters \ {s} : PartOf(t)' = PartOf(t)
  <2>1. 1..(pushed[s] + 1) = (1..pushed[s]) \cup {pushed[s] + 1}
    BY <1>5
  <2> QED
    BY <1>7, <2>1 DEF PartOf, x
<1>10. \A i : InQueue(i)' <=> InQueue(i) \/ i = x
  <2>1. Len(queue) = n
    BY DEF n
  <2>2. \A k \in 1..(n + 1) : k \in 1..n \/ k = n + 1
    BY <1>5
  <2>3. n + 1 \in 1..(n + 1) /\ 1..n \subseteq 1..(n + 1)
    BY <1>5
  <2> QED
    BY <1>8, <2>1, <2>2, <2>3 DEF InQueue
<1>11. \A i : SomeHolds(i)' <=> SomeHolds(i)
  BY <1>2 DEF SomeHolds
<1>12. Located'
  <2> SUFFICES ASSUME NEW i \in Items
               PROVE  (\E t \in Submitters : i \in PartOf(t)') <=>
                         InQueue(i)' \/ SomeHolds(i)' \/ terminal'[i] = 1
    BY DEF Located
  <2>1. (\E t \in Submitters : i \in PartOf(t)') <=> (\E t \in Submitters : i \in PartOf(t)) \/ i = x
    BY <1>9
  <2>2. (\E t \in Submitters : i \in PartOf(t)) <=> InQueue(i) \/ SomeHolds(i) \/ terminal[i] = 1
    BY DEF Books, Located
  <2> QED
    BY <1>2, <1>10, <1>11, <2>1, <2>2
<1>13. Prefixes'
  <2> SUFFICES ASSUME NEW t \in Submitters
               PROVE  /\ pushed'[t] <= Len(Batch[t])
                      /\ pushed'[t] # 0 => t \in config.callers
                      /\ pc'[t] = "registered" => pushed'[t] = 0
    BY <1>2 DEF Prefixes
  <2>1. CASE t = s
    BY <1>3, <1>4, <1>5, <1>7, <2>1
  <2>2. CASE t # s
    BY <1>1, <1>4, <1>7, <2>2 DEF Books, Prefixes
  <2> QED
    BY <2>1, <2>2
<1>14. Hands'
  <2>1. ASSUME NEW r \in Holders PROVE HandOf(r)'
    <3>1. pc'[r] = pc[r] /\ ret'[r] = ret[r]
      BY <1>1, <1>2, <1>4
    <3>2. held'[r] = held[r] /\ due'[r] = due[r] /\ unclassified'[r] = unclassified[r]
      BY <1>2
    <3> QED
      BY <1>2, <3>1, <3>2, HandKept DEF Books, Hands
  <2> QED
    BY <1>2, <2>1 DEF Books, Hands
<1>15. Closing'
  <2>1. \A r \in Holders : pc'[r] = pc[r]
    BY <1>1, <1>4
  <2>2. pc[Coordinator] \in {"unstarted", "coordinate"}
    <3>1. s \in Active
      BY <1>2 DEF Active, Admitted
    <3> QED
      BY <3>1, ActiveHolds
  <2> QED
    BY <1>1, <1>2, <2>1, <2>2 DEF Books, Closing, Committed
<1>16. Counters'
  <2>1. Counted' = Counted
    <3>1. pc'[s] \in Uncounted /\ pc[s] \in Uncounted
      BY <1>2, <1>3, <1>4 DEF Uncounted
    <3>2. \A t \in Submitters \ {s} : pc'[t] = pc[t]
      BY <1>1, <1>4
    <3> QED
      BY <1>9, <3>1, <3>2 DEF Counted
  <2>2. Ended' = Ended
    BY <1>2 DEF Ended
  <2> QED
    BY <1>2, <1>11, <2>1, <2>2 DEF Books, Counters
<1> QED
  BY <1>12, <1>13, <1>14, <1>15, <1>16 DEF Books

-----------------------------------------------------------------------------
(* The workers. *)

\* While a worker runs the coordinator has not joined them.
LEMMA WorkerRuns ==
  ASSUME AbortInv, Custody, NEW w \in Workers, pc[w] # "exited"
  PROVE  /\ pc[Coordinator] \in {"unstarted", "coordinate", "drain", "join"}
         /\ w \in Procs /\ w \in Holders /\ w # Coordinator /\ w \notin Submitters
         /\ Holders \subseteq Procs /\ Submitters \subseteq Procs
         /\ Coordinator \in Holders \ {w} /\ Submitters \cap Holders = {}
         /\ config.workers \subseteq Workers
  BY RunnerAssumption DEF AbortInv, Joined, Procs, Holders, Custody, Unpushed

\* A step of a worker that neither takes items nor finalizes them.
LEMMA WorkerBooks ==
  ASSUME AbortInv, Custody, Books, NEW w \in Workers, pc[w] # "exited",
         UNCHANGED <<config, queue, closed, life, pushed, held, terminal>>,
         \A x \in Procs \ {w} : pc'[x] = pc[x] /\ ret'[x] = ret[x],
         \A r \in Holders \ {w} : due'[r] = due[r] /\ unclassified'[r] = unclassified[r],
         unclassified' \in [Holders -> SUBSET Items], tried' \in [Items -> Nat],
         \A i \in Items \ held[w] : outcome'[i] = outcome[i] /\ tried'[i] = tried[i],
         account' = [f \in AccountFields |-> account'[f]],
         \A f \in AccountFields \ {"failures"} : account'[f] = account[f],
         HandOf(w)',
         pc'[w] = "exited" => Committed \/ (closed /\ queue = <<>>)
  PROVE  Books'
<1>1. /\ pc[Coordinator] \in {"unstarted", "coordinate", "drain", "join"}
      /\ w \in Procs /\ w \in Holders /\ w # Coordinator /\ w \notin Submitters
      /\ Holders \subseteq Procs /\ Submitters \subseteq Procs
      /\ Coordinator \in Holders \ {w} /\ Submitters \cap Holders = {}
      /\ config.workers \subseteq Workers
  BY WorkerRuns
<1>2. \A s \in Submitters : pc'[s] = pc[s]
  BY <1>1
<1>3. Prefixes' /\ Located'
  BY <1>2, PlacesKept DEF Books
<1>4. Hands'
  <2>1. ASSUME NEW r \in Holders \ {w}
        PROVE  /\ held'[r] = held[r] /\ due'[r] = due[r] /\ unclassified'[r] = unclassified[r]
               /\ pc'[r] = pc[r] /\ ret'[r] = ret[r]
               /\ \A i \in held[r] : outcome'[i] = outcome[i]
    <3>1. held[r] \subseteq Items \ held[w]
      BY <1>1 DEF Custody, Held
    <3> QED
      BY <1>1, <3>1
  <2> QED
    BY <1>1, <2>1, HandsKept DEF Books
<1>5. Closing'
  <2>1. \A v \in config.workers : pc'[v] = "exited" =>
          pc[v] = "exited" \/ Committed' \/ (closed /\ queue = <<>>)
    <3>1. Committed' <=> Committed
      BY DEF Committed
    <3>2. config.workers \subseteq Procs
      BY <1>1 DEF Holders
    <3> QED
      BY <3>1, <3>2
  <2>2. pc'[Coordinator] = pc[Coordinator] /\ (Committed => Committed')
    BY <1>1 DEF Committed
  <2> QED
    BY <1>1, <2>1, <2>2, ClosingKept DEF Books
<1>6. Counters'
  <2>1. Counted' = Counted
    <3>1. \A s \in Submitters : PartOf(s)' = PartOf(s)
      BY DEF PartOf
    <3> QED
      BY <1>2, <3>1 DEF Counted
  <2>2. Ended' = Ended /\ \A i \in Items : SomeHolds(i)' <=> SomeHolds(i)
    BY DEF Ended, SomeHolds
  <2>3. Total(tried', Ended) = Total(tried, Ended)
    <3>1. Ended \in SUBSET Items /\ \A i \in Ended : i \notin held[w]
      BY <1>1 DEF Ended, Custody, Held
    <3>2. IsFiniteSet(Ended)
      BY <3>1, ItemsFinite, FS_Subset
    <3>3. \A i \in Ended : tried[i] \in Nat /\ tried'[i] = tried[i]
      BY <3>1 DEF Books, Counters
    <3> QED
      BY <3>2, <3>3, TotalAgrees
  <2>4. \A i \in Items : tried'[i] # 0 => terminal'[i] = 1 \/ SomeHolds(i)'
    <3> SUFFICES ASSUME NEW i \in Items, tried'[i] # 0, ~SomeHolds(i)
                 PROVE  terminal[i] = 1
      BY <2>2
    <3>1. i \notin held[w]
      BY <1>1 DEF SomeHolds
    <3> QED
      BY <3>1 DEF Books, Counters
  <2>5. /\ account'.accepted = account.accepted /\ account'.succeeded = account.succeeded
        /\ account'.failed = account.failed /\ account'.abandoned = account.abandoned
        /\ account'.attempts = account.attempts
    BY DEF AccountFields
  <2> QED
    BY <2>1, <2>2, <2>3, <2>4, <2>5 DEF Books, Counters
<1> QED
  BY <1>3, <1>4, <1>5, <1>6 DEF Books

\* What a step of a worker may do to the accounting but finalize.
LEMMA FailuresOnly ==
  ASSUME Books, account' = account \/ \E b : account' = [account EXCEPT !.failures = b]
  PROVE  /\ account' = [f \in AccountFields |-> account'[f]]
         /\ \A f \in AccountFields \ {"failures"} : account'[f] = account[f]
  BY DEF Books, Counters, AccountFields

\* The steps of a worker between two batches.
LEMMA WorkersLoop ==
  ASSUME AbortInv, Custody, Books, NEW w \in Workers,
         runWorker(w) \/ receiveWait(w) \/ handleReceiveError(w)
  PROVE  Books'
<1>1. pc[w] \in {"loop", "receive", "receiveWait"}
  BY DEF runWorker, receiveWait, handleReceiveError
<1>2. /\ w \in Procs /\ w \in Holders /\ w # Coordinator /\ (life.cancelled = TRUE => Committed)
  BY <1>1, WorkerFacts, WorkerRuns
<1>3. /\ UNCHANGED <<config, queue, closed, life, pushed, held, terminal>>
      /\ due' = due /\ unclassified' = unclassified /\ outcome' = outcome /\ tried' = tried
  BY DEF runWorker, receiveWait, handleReceiveError, work
<1>4. account' = account /\ ret' = ret
  BY <1>2 DEF runWorker, receiveWait, handleReceiveError, Committed
<1>5. PICK l \in {"exited", "receive", "receiveWait"} :
        Go(w, l) /\ (l = "exited" => Committed \/ (closed /\ queue = <<>>))
  BY <1>2 DEF runWorker, receiveWait, handleReceiveError, Committed
<1>6. pc'[w] = l /\ \A x \in Procs \ {w} : pc'[x] = pc[x] /\ ret'[x] = ret[x]
  BY <1>2, <1>4, <1>5, OneMoves
<1>7. HandOf(w)'
  <2>1. HandOf(w)
    BY <1>2 DEF Books, Hands
  <2>2. /\ held'[w] = held[w] /\ due'[w] = due[w] /\ unclassified'[w] = unclassified[w]
        /\ held[w] = {} /\ unclassified[w] = {}
    BY <1>1, <1>2, <1>3, <2>1 DEF HandOf, Aborter
  <2> QED
    BY <1>2, <1>6, <2>2 DEF HandOf, Settling, Aborter
<1>8. unclassified' \in [Holders -> SUBSET Items] /\ tried' \in [Items -> Nat]
  BY <1>3 DEF Books, Hands, Counters
<1>9. /\ account' = [f \in AccountFields |-> account'[f]]
      /\ \A f \in AccountFields \ {"failures"} : account'[f] = account[f]
  BY <1>4, FailuresOnly
<1> QED
  BY <1>1, <1>3, <1>5, <1>6, <1>7, <1>8, <1>9, WorkerBooks

\* The handler returns.
LEMMA InvokeBooks ==
  ASSUME AbortInv, Custody, Books, NEW w \in Workers, invokeHeld(w)
  PROVE  Books'
<1>1. pc[w] = "handle" /\ UNCHANGED <<config, queue, closed, life, pushed, held, terminal>>
      /\ due' = due
  BY DEF invokeHeld
<1>2. /\ w \in Procs /\ w \in Holders /\ w # Coordinator /\ ret \in [Procs -> Resumed]
  BY <1>1, WorkerRuns DEF AbortInv, Shapes
<1>3. due[w] \subseteq held[w] /\ held[w] \subseteq Items /\ due[w] \subseteq Items
  BY <1>2 DEF Custody, Held
<1>4. PICK results \in [due[w] -> Results], attempted \in SUBSET due[w], failing \in SUBSET due[w] :
        /\ tried' = [i \in Items |-> tried[i] + IF i \in attempted THEN 1 ELSE 0]
        /\ outcome' = [i \in Items |->
             CASE i \notin due[w] -> outcome[i]
               [] i \in due[w] /\ (~validateResults(results) \/ results[i] = "failed") -> "failed"
               [] i \in due[w] /\ validateResults(results) /\ results[i] = "succeeded" -> "succeeded"
               [] OTHER -> "abandoned"]
        /\ unclassified' = [unclassified EXCEPT ![w] = failing]
        /\ \E b : account' = [account EXCEPT !.failures = b]
        /\ \/ Go(w, "settle") /\ ret' = ret
           \/ Go(w, "abort") /\ ret' = [ret EXCEPT ![w] = "settle"]
  <2>1. PICK results \in [due[w] -> Results] :
         LET valid == validateResults(results)
             attempted == {i \in due[w] : valid => results[i] # "unattempted"}
             failing == {i \in due[w] : results[i] = "failed"} IN
         /\ tried' = [i \in Items |-> tried[i] + IF i \in attempted THEN 1 ELSE 0]
         /\ outcome' = [i \in Items |->
              CASE i \notin due[w] -> outcome[i]
                [] i \in due[w] /\ (~valid \/ results[i] = "failed") -> "failed"
                [] i \in due[w] /\ valid /\ results[i] = "succeeded" -> "succeeded"
                [] OTHER -> "abandoned"]
         /\ unclassified' = [unclassified EXCEPT ![w] = IF valid THEN failing ELSE {}]
         /\ account' = [account EXCEPT !.failures = @ \/ ~valid]
         /\ IF valid THEN Go(w, "settle") /\ UNCHANGED ret
                     ELSE callAbort(w, "settle")
    BY DEF invokeHeld
  <2> DEFINE valid == validateResults(results)
             attempted == {i \in due[w] : valid => results[i] # "unattempted"}
             failing == IF valid THEN {i \in due[w] : results[i] = "failed"} ELSE {}
             b == account.failures \/ ~valid
  <2>2. attempted \in SUBSET due[w] /\ failing \in SUBSET due[w]
    OBVIOUS
  <2>3. /\ tried' = [i \in Items |-> tried[i] + IF i \in attempted THEN 1 ELSE 0]
        /\ unclassified' = [unclassified EXCEPT ![w] = failing]
        /\ account' = [account EXCEPT !.failures = b]
    BY <2>1
  <2>4. outcome' = [i \in Items |->
             CASE i \notin due[w] -> outcome[i]
               [] i \in due[w] /\ (~valid \/ results[i] = "failed") -> "failed"
               [] i \in due[w] /\ valid /\ results[i] = "succeeded" -> "succeeded"
               [] OTHER -> "abandoned"]
    BY <2>1
  <2>5. \/ Go(w, "settle") /\ ret' = ret
        \/ Go(w, "abort") /\ ret' = [ret EXCEPT ![w] = "settle"]
    BY <2>1 DEF callAbort
  <2> HIDE DEF attempted, failing, b
  <2> QED
    BY <2>2, <2>3, <2>4, <2>5
<1>5. \A i \in Items \ held[w] : outcome'[i] = outcome[i] /\ tried'[i] = tried[i]
  BY <1>3, <1>4 DEF Books, Counters
<1>6. \A i \in due[w] : outcome'[i] \in Settled
  BY <1>3, <1>4 DEF Settled
<1>7. tried' \in [Items -> Nat]
  BY <1>4 DEF Books, Counters
<1>8. /\ unclassified' \in [Holders -> SUBSET Items] /\ unclassified'[w] = failing
      /\ \A r \in Holders \ {w} : due'[r] = due[r] /\ unclassified'[r] = unclassified[r]
  BY <1>1, <1>2, <1>3, <1>4 DEF Books, Hands
<1>9. /\ pc'[w] \in {"settle", "abort"} /\ (pc'[w] = "abort" => ret'[w] = "settle")
      /\ \A x \in Procs \ {w} : pc'[x] = pc[x] /\ ret'[x] = ret[x]
  BY <1>2, <1>4, OneMoves
<1>10. HandOf(w)'
  <2>1. held'[w] = held[w] /\ due'[w] = due[w] /\ unclassified'[w] \subseteq due[w]
    BY <1>1, <1>8
  <2> QED
    BY <1>2, <1>6, <1>9, <2>1 DEF HandOf, Settling, Aborter
<1>11. /\ account' = [f \in AccountFields |-> account'[f]]
       /\ \A f \in AccountFields \ {"failures"} : account'[f] = account[f]
  BY <1>4, FailuresOnly
<1> QED
  BY <1>1, <1>5, <1>7, <1>8, <1>9, <1>10, <1>11, WorkerBooks

\* A failed position is classified.
LEMMA ClassifyBooks ==
  ASSUME AbortInv, Custody, Books, NEW w \in Workers, classifyFailure(w)
  PROVE  Books'
<1>1. /\ pc[w] = "settle" /\ UNCHANGED <<config, queue, closed, life, pushed, held, terminal>>
      /\ due' = due /\ tried' = tried
  BY DEF classifyFailure
<1>2. /\ w \in Procs /\ w \in Holders /\ w # Coordinator /\ ret \in [Procs -> Resumed]
  BY <1>1, WorkerRuns DEF AbortInv, Shapes
<1>3. /\ due[w] \subseteq held[w] /\ held[w] \subseteq Items /\ unclassified[w] \subseteq due[w]
      /\ \A i \in due[w] : outcome[i] \in Settled
      /\ unclassified \in [Holders -> SUBSET Items]
  BY <1>1, <1>2 DEF Custody, Held, Books, Hands, HandOf, Settling
<1>4. PICK i \in unclassified[w], o \in {outcome[j] : j \in unclassified[w]} \cup {"pending"} :
        /\ unclassified' = [unclassified EXCEPT ![w] = @ \ {i}]
        /\ o \in {outcome[i], "pending"}
        /\ outcome' = [outcome EXCEPT ![i] = o]
        /\ \E b : account' = [account EXCEPT !.failures = b]
        /\ \/ pc' = pc /\ ret' = ret
           \/ Go(w, "abort") /\ ret' = [ret EXCEPT ![w] = "settle"]
  <2>1. PICK i \in unclassified[w], delay \in {"negative", "retry", "stop"} :
         LET asks == tried[i] < config.maxAttempts
             final == ~asks \/ delay # "retry" IN
         /\ unclassified' = [unclassified EXCEPT ![w] = @ \ {i}]
         /\ outcome' = [outcome EXCEPT ![i] = IF final THEN @ ELSE "pending"]
         /\ account' = [account EXCEPT !.failures = @ \/ final]
         /\ IF final /\ (delay = "negative" \/ config.abortMode)
            THEN callAbort(w, "settle")
            ELSE UNCHANGED <<pc, ret>>
    BY DEF classifyFailure
  <2> DEFINE final == ~(tried[i] < config.maxAttempts) \/ delay # "retry"
             o == IF final THEN outcome[i] ELSE "pending"
  <2>2. o \in {outcome[i], "pending"} /\ o \in {outcome[j] : j \in unclassified[w]} \cup {"pending"}
    OBVIOUS
  <2>3. /\ unclassified' = [unclassified EXCEPT ![w] = @ \ {i}]
        /\ outcome' = [outcome EXCEPT ![i] = o]
        /\ \E b : account' = [account EXCEPT !.failures = b]
    BY <2>1
  <2>4. \/ pc' = pc /\ ret' = ret
        \/ Go(w, "abort") /\ ret' = [ret EXCEPT ![w] = "settle"]
    BY <2>1 DEF callAbort
  <2> HIDE DEF o, final
  <2> QED
    BY <2>2, <2>3, <2>4
<1>5. /\ \A j \in Items \ {i} : outcome'[j] = outcome[j]
      /\ i \in Items => outcome'[i] = o
  BY <1>4 DEF AbortInv, Shapes
<1>6. i \in due[w] /\ i \in held[w] /\ i \in Items
  BY <1>3
<1>7. \A j \in due[w] : outcome'[j] \in Settled
  <2>1. o \in Settled
    BY <1>3, <1>4, <1>6 DEF Settled
  <2> QED
    BY <1>3, <1>5, <1>6, <2>1
<1>8. /\ unclassified' \in [Holders -> SUBSET Items] /\ unclassified'[w] \subseteq due[w]
      /\ \A r \in Holders \ {w} : due'[r] = due[r] /\ unclassified'[r] = unclassified[r]
  BY <1>1, <1>2, <1>3, <1>4
<1>9. /\ pc'[w] \in {"settle", "abort"} /\ (pc'[w] = "abort" => ret'[w] = "settle")
      /\ \A x \in Procs \ {w} : pc'[x] = pc[x] /\ ret'[x] = ret[x]
  BY <1>1, <1>2, <1>4, OneMoves
<1>10. HandOf(w)'
  <2>1. held'[w] = held[w] /\ due'[w] = due[w]
    BY <1>1
  <2> QED
    BY <1>2, <1>7, <1>8, <1>9, <2>1 DEF HandOf, Settling, Aborter
<1>11. /\ account' = [f \in AccountFields |-> account'[f]]
       /\ \A f \in AccountFields \ {"failures"} : account'[f] = account[f]
  BY <1>4, FailuresOnly
<1>12. tried' \in [Items -> Nat] /\ \A j \in Items \ held[w] : outcome'[j] = outcome[j] /\ tried'[j] = tried[j]
  BY <1>1, <1>5, <1>6 DEF Books, Counters
<1> QED
  BY <1>1, <1>8, <1>9, <1>10, <1>11, <1>12, WorkerBooks

\* A worker gives up what it holds, or waits for what is to be retried.
LEMMA DueBooks ==
  ASSUME AbortInv, Custody, Books, NEW w \in Workers, abandonHeld(w) \/ retryTimer(w)
  PROVE  Books'
<1>1. /\ pc[w] \in {"abandon", "timer"} /\ UNCHANGED <<config, queue, closed, life, pushed, held, terminal>>
      /\ account' = account /\ ret' = ret /\ unclassified' = unclassified /\ tried' = tried
  BY DEF abandonHeld, retryTimer
<1>2. /\ w \in Procs /\ w \in Holders /\ w # Coordinator /\ ret \in [Procs -> Resumed]
  BY <1>1, WorkerRuns DEF AbortInv, Shapes
<1>3. /\ held[w] \subseteq Items /\ unclassified[w] = {} /\ due \in [Holders -> SUBSET Items]
  BY <1>1, <1>2 DEF Custody, Held, Books, Hands, HandOf, Aborter
<1>4. PICK l \in {"settle", "abandon", "handle"} :
        /\ Go(w, l)
        /\ l = "settle" => abandonHeld(w)
        /\ due' = due \/ \E items : due' = [due EXCEPT ![w] = items]
        /\ outcome' = outcome \/
             outcome' = [i \in Items |-> IF i \in held[w] THEN "abandoned" ELSE outcome[i]]
  BY DEF abandonHeld, retryTimer, processHeldBatch
<1>5. /\ pc'[w] = l /\ \A x \in Procs \ {w} : pc'[x] = pc[x] /\ ret'[x] = ret[x]
  BY <1>1, <1>2, <1>4, OneMoves
<1>6. \A r \in Holders \ {w} : due'[r] = due[r] /\ unclassified'[r] = unclassified[r]
  BY <1>1, <1>3, <1>4
<1>7. \A i \in Items \ held[w] : outcome'[i] = outcome[i] /\ tried'[i] = tried[i]
  BY <1>1, <1>4
<1>8. l = "settle" => \A i \in due'[w] : outcome'[i] \in Settled
  <2> SUFFICES ASSUME abandonHeld(w) PROVE \A i \in due'[w] : outcome'[i] \in Settled
    BY <1>4
  <2>1. due'[w] = held[w]
    BY <1>2, <1>3 DEF abandonHeld
  <2>2. \A i \in held[w] : outcome'[i] = "abandoned"
    BY <1>3 DEF abandonHeld
  <2> QED
    BY <2>1, <2>2 DEF Settled
<1>9. HandOf(w)'
  <2>1. held'[w] = held[w] /\ unclassified'[w] = {}
    BY <1>1, <1>3
  <2> QED
    BY <1>2, <1>5, <1>8, <2>1 DEF HandOf, Settling, Aborter
<1>10. /\ account' = [f \in AccountFields |-> account'[f]]
       /\ \A f \in AccountFields \ {"failures"} : account'[f] = account[f]
       /\ unclassified' \in [Holders -> SUBSET Items] /\ tried' \in [Items -> Nat]
  BY <1>1, FailuresOnly DEF Books, Hands, Counters
<1> QED
  BY <1>1, <1>5, <1>6, <1>7, <1>9, <1>10, WorkerBooks

-----------------------------------------------------------------------------
(* Taking items from the queue, and finalizing them. *)

LEMMA TakeBooks ==
  ASSUME AbortInv, Custody, Books, NEW p \in Holders, NEW l, Take(p), Go(p, l), held[p] = {},
         UNCHANGED <<config, closed, life, account, ret, pushed, unclassified, tried, terminal>>,
         \A r \in Holders \ {p} : \A i \in held[r] : outcome'[i] = outcome[i],
         HandOf(p)', pc[p] # "exited", l \notin {"exited", "complete", "publish"},
         p = Coordinator => closed
  PROVE  Books'
<1> DEFINE n == Min({Len(queue), config.batchLimit})
           taken == Range(SubSeq(queue, 1, n))
<1>1. /\ Len(queue) \in Nat /\ queue \in Seq(Items) /\ n \in Nat /\ n <= Len(queue)
  <2>1. Len(queue) \in Nat /\ queue \in Seq(Items) /\ config.batchLimit \in Nat
    BY RunnerAssumption DEF Custody, Queued, Unpushed
  <2> QED
    BY <2>1, MinOfTwo
<1>2. /\ queue' = SubSeq(queue, n + 1, Len(queue)) /\ queue # <<>>
      /\ held' = [held EXCEPT ![p] = taken] /\ due' = [due EXCEPT ![p] = taken]
  BY DEF Take
<1> HIDE DEF n
<1>3. taken = {queue[j] : j \in 1..n}
  <2>1. SubSeq(queue, 1, n) \in Seq(Items) /\ Len(SubSeq(queue, 1, n)) = n
    BY <1>1
  <2>2. \A j \in 1..n : SubSeq(queue, 1, n)[j] = queue[j]
    BY <1>1
  <2>3. DOMAIN SubSeq(queue, 1, n) = 1..n
    BY <2>1
  <2> QED
    BY <2>2, <2>3 DEF Range
<1>4. /\ Len(queue') = Len(queue) - n
      /\ \A j \in 1..(Len(queue) - n) : queue'[j] = queue[n + j]
  BY <1>1, <1>2
<1> HIDE DEF taken
<1>5. /\ held'[p] = taken /\ due'[p] = taken
      /\ \A r \in Holders \ {p} : held'[r] = held[r] /\ due'[r] = due[r]
  BY <1>2 DEF Custody, Held
<1>6. /\ p \in Procs /\ p \notin Submitters /\ Holders \subseteq Procs /\ Submitters \subseteq Procs
      /\ Coordinator \in Holders /\ config.workers \subseteq Holders \ {Coordinator}
  BY RunnerAssumption DEF Procs, Holders, Custody, Unpushed
<1>7. pc'[p] = l /\ \A x \in Procs \ {p} : pc'[x] = pc[x]
  BY <1>6, OneMoves
<1>8. \A s \in Submitters : pc'[s] = pc[s] /\ PartOf(s)' = PartOf(s)
  BY <1>6, <1>7 DEF PartOf
<1>9. \A i : SomeHolds(i)' <=> SomeHolds(i) \/ i \in taken
  BY <1>5 DEF SomeHolds
<1>10. \A i : InQueue(i) <=> InQueue(i)' \/ i \in taken
  <2> SUFFICES ASSUME NEW i PROVE InQueue(i) <=> InQueue(i)' \/ i \in taken
    OBVIOUS
  <2>1. ASSUME InQueue(i), i \notin taken PROVE InQueue(i)'
    <3>1. PICK k \in 1..Len(queue) : queue[k] = i
      BY <2>1 DEF InQueue
    <3>2. ~(k \in 1..n)
      BY <1>3, <2>1, <3>1
    <3>3. k - n \in 1..(Len(queue) - n) /\ n + (k - n) = k
      BY <1>1, <3>2
    <3> QED
      BY <1>4, <3>1, <3>3 DEF InQueue
  <2>2. ASSUME InQueue(i)' PROVE InQueue(i)
    <3>1. PICK k \in 1..(Len(queue) - n) : queue[n + k] = i
      BY <1>4, <2>2 DEF InQueue
    <3>2. n + k \in 1..Len(queue)
      BY <1>1
    <3> QED
      BY <3>1, <3>2 DEF InQueue
  <2>3. ASSUME i \in taken PROVE InQueue(i)
    <3>1. PICK k \in 1..n : queue[k] = i
      BY <1>3, <2>3
    <3>2. k \in 1..Len(queue)
      BY <1>1
    <3> QED
      BY <3>1, <3>2 DEF InQueue
  <2> QED
    BY <2>1, <2>2, <2>3
<1>11. Located'
  <2> SUFFICES ASSUME NEW i \in Items
               PROVE  (\E s \in Submitters : i \in PartOf(s)') <=>
                         InQueue(i)' \/ SomeHolds(i)' \/ terminal'[i] = 1
    BY DEF Located
  <2>1. (\E s \in Submitters : i \in PartOf(s)) <=> InQueue(i) \/ SomeHolds(i) \/ terminal[i] = 1
    BY DEF Books, Located
  <2> QED
    BY <1>8, <1>9, <1>10, <2>1
<1>12. Prefixes'
  BY <1>8 DEF Books, Prefixes
<1>13. Hands'
  <2>1. \A r \in Holders \ {p} :
          /\ held'[r] = held[r] /\ due'[r] = due[r] /\ unclassified'[r] = unclassified[r]
          /\ pc'[r] = pc[r] /\ ret'[r] = ret[r]
          /\ \A i \in held[r] : outcome'[i] = outcome[i]
    BY <1>5, <1>6, <1>7
  <2>2. unclassified' \in [Holders -> SUBSET Items]
    BY DEF Books, Hands
  <2> QED
    BY <2>1, <2>2, HandsKept DEF Books
<1>14. Closing'
  <2>1. (\E w \in config.workers : pc'[w] = "exited") => Committed
    <3>1. \A w \in config.workers : pc'[w] = "exited" => pc[w] = "exited"
      BY <1>6, <1>7
    <3> QED
      BY <1>2, <3>1 DEF Books, Closing
  <2>2. pc'[Coordinator] \notin {"unstarted", "coordinate", "drain", "join"} => closed
    BY <1>6, <1>7 DEF Books, Closing
  <2>3. pc'[Coordinator] \notin {"complete", "publish", "exited"}
    BY <1>2, <1>6, <1>7 DEF Books, Closing
  <2> QED
    BY <2>1, <2>2, <2>3 DEF Closing, Committed
<1>15. Counters'
  <2>1. Counted' = Counted
    BY <1>8 DEF Counted
  <2>2. Ended' = Ended
    BY DEF Ended
  <2> QED
    BY <1>9, <2>1, <2>2 DEF Books, Counters
<1> QED
  BY <1>11, <1>12, <1>13, <1>14, <1>15 DEF Books

\* A finite set of items that have an outcome.
LEMMA ThreeKinds ==
  ASSUME NEW S, IsFiniteSet(S), NEW f, \A x \in S : f[x] \in {"succeeded", "failed", "abandoned"}
  PROVE  /\ Cardinality(S) = Cardinality({x \in S : f[x] = "succeeded"})
                               + Cardinality({x \in S : f[x] = "failed"})
                               + Cardinality({x \in S : f[x] = "abandoned"})
         /\ Cardinality({x \in S : f[x] = "succeeded"}) \in Nat
         /\ Cardinality({x \in S : f[x] = "failed"}) \in Nat
         /\ Cardinality({x \in S : f[x] = "abandoned"}) \in Nat
<1> DEFINE A == {x \in S : f[x] = "succeeded"}
           B == {x \in S : f[x] = "failed"}
           C == {x \in S : f[x] = "abandoned"}
<1>1. A \in SUBSET S /\ B \in SUBSET S /\ C \in SUBSET S
  OBVIOUS
<1>2. S = (A \cup B) \cup C /\ A \cap B = {} /\ (A \cup B) \cap C = {}
  OBVIOUS
<1> HIDE DEF A, B, C
<1>3. IsFiniteSet(A) /\ IsFiniteSet(B) /\ IsFiniteSet(C)
  BY <1>1, FS_Subset
<1>4. IsFiniteSet(A \cup B) /\ Cardinality(A \cup B) = Cardinality(A) + Cardinality(B) - 0
  BY <1>2, <1>3, FS_Union, FS_EmptySet
<1>5. Cardinality(S) = Cardinality(A \cup B) + Cardinality(C) - 0
  BY <1>2, <1>3, <1>4, FS_Union, FS_EmptySet
<1>6. Cardinality(A) \in Nat /\ Cardinality(B) \in Nat /\ Cardinality(C) \in Nat
  BY <1>3, FS_CardinalityType
<1>7. Cardinality(S) = Cardinality(A) + Cardinality(B) + Cardinality(C)
  BY <1>4, <1>5, <1>6
<1> QED
  BY <1>6, <1>7 DEF A, B, C

\* What is finalized is counted once, with its attempts.
LEMMA PublishBooks ==
  ASSUME AbortInv, Custody, Books, NEW p \in Holders, NEW l, NEW items \in SUBSET Final(p),
         Settling(p), publish(p, items), Go(p, l),
         UNCHANGED <<config, queue, closed, life, ret, pushed, unclassified, outcome, tried>>,
         HandOf(p)', pc[p] # "exited", l \notin {"exited", "complete", "publish"},
         p = Coordinator => closed
  PROVE  Books'
<1>1. /\ terminal' = [i \in Items |-> terminal[i] + IF i \in items THEN 1 ELSE 0]
      /\ held' = [held EXCEPT ![p] = @ \ items]
      /\ due' = [due EXCEPT ![p] = @ \ items]
  BY DEF publish
<1>2. /\ held \in [Holders -> SUBSET Items] /\ due \in [Holders -> SUBSET Items]
      /\ terminal \in [Items -> Nat] /\ due[p] \subseteq held[p]
      /\ \A i \in held[p] : terminal[i] = 0
  BY DEF Custody, Held
<1>3. items \subseteq due[p] /\ items \subseteq held[p] /\ items \in SUBSET Items
      /\ \A i \in items : outcome[i] \in {"succeeded", "failed", "abandoned"} /\ terminal[i] = 0
  <2>1. \A i \in due[p] : outcome[i] \in Settled
    BY DEF Books, Hands, HandOf
  <2> QED
    BY <1>2, <2>1 DEF Final, Settled
<1>4. /\ \A i \in Items : terminal'[i] = 1 <=> terminal[i] = 1 \/ i \in items
  BY <1>1, <1>2, <1>3
<1>5. /\ held'[p] = held[p] \ items
      /\ \A r \in Holders \ {p} : held'[r] = held[r] /\ due'[r] = due[r]
  BY <1>1, <1>2
<1>6. /\ p \in Procs /\ p \notin Submitters /\ Holders \subseteq Procs /\ Submitters \subseteq Procs
      /\ Coordinator \in Holders /\ config.workers \subseteq Holders \ {Coordinator}
  BY RunnerAssumption DEF Procs, Holders, Custody, Unpushed
<1>7. pc'[p] = l /\ \A x \in Procs \ {p} : pc'[x] = pc[x]
  BY <1>6, OneMoves
<1>8. \A s \in Submitters : pc'[s] = pc[s] /\ PartOf(s)' = PartOf(s)
  BY <1>6, <1>7 DEF PartOf
<1>9. \A i \in Items : /\ SomeHolds(i) <=> SomeHolds(i)' \/ i \in items
                       /\ InQueue(i)' <=> InQueue(i)
  <2>1. \A i \in Items : InQueue(i)' <=> InQueue(i)
    BY DEF InQueue
  <2>2. \A i \in Items : SomeHolds(i) <=> SomeHolds(i)' \/ i \in items
    BY <1>3, <1>5 DEF SomeHolds
  <2> QED
    BY <2>1, <2>2
<1>10. Prefixes' /\ Located'
  <2>1. Prefixes'
    BY <1>8 DEF Books, Prefixes
  <2> SUFFICES ASSUME NEW i \in Items
               PROVE  (\E s \in Submitters : i \in PartOf(s)') <=>
                         InQueue(i)' \/ SomeHolds(i)' \/ terminal'[i] = 1
    BY <2>1 DEF Located
  <2>2. (\E s \in Submitters : i \in PartOf(s)) <=> InQueue(i) \/ SomeHolds(i) \/ terminal[i] = 1
    BY DEF Books, Located
  <2> QED
    BY <1>4, <1>8, <1>9, <2>2
<1>11. Hands'
  <2>1. \A r \in Holders \ {p} :
          /\ held'[r] = held[r] /\ due'[r] = due[r] /\ unclassified'[r] = unclassified[r]
          /\ pc'[r] = pc[r] /\ ret'[r] = ret[r]
          /\ \A i \in held[r] : outcome'[i] = outcome[i]
    BY <1>5, <1>6, <1>7
  <2>2. unclassified' \in [Holders -> SUBSET Items]
    BY DEF Books, Hands
  <2> QED
    BY <2>1, <2>2, HandsKept DEF Books
<1>12. Closing'
  <2>1. \A w \in config.workers : pc'[w] = "exited" => pc[w] = "exited"
    BY <1>6, <1>7
  <2>2. pc'[Coordinator] \notin {"unstarted", "coordinate", "drain", "join"} => closed
    BY <1>6, <1>7 DEF Books, Closing
  <2>3. pc'[Coordinator] \in {"complete", "publish", "exited"} => queue = <<>>
    BY <1>6, <1>7 DEF Books, Closing
  <2>4. Committed' <=> Committed
    BY DEF Committed
  <2> QED
    BY <2>1, <2>2, <2>3, <2>4, ClosingKept DEF Books
<1>13. Counters'
  <2> DEFINE Of(state) == Cardinality({i \in items : outcome[i] = state})
  <2>1. IsFiniteSet(items) /\ IsFiniteSet(Ended) /\ Ended \in SUBSET Items
    <3>1. Ended \in SUBSET Items
      BY DEF Ended
    <3> QED
      BY <1>3, <3>1, ItemsFinite, FS_Subset
  <2>2. /\ Cardinality(items) = Of("succeeded") + Of("failed") + Of("abandoned")
        /\ Of("succeeded") \in Nat /\ Of("failed") \in Nat /\ Of("abandoned") \in Nat
    <3>1. \A i \in items : outcome[i] \in {"succeeded", "failed", "abandoned"}
      BY <1>3
    <3> QED
      BY <2>1, <3>1, ThreeKinds
  <2>3. Ended' = Ended \cup items /\ Ended \cap items = {}
    BY <1>3, <1>4 DEF Ended
  <2>4. Cardinality(Ended') = Cardinality(Ended) + Cardinality(items) - 0
    BY <2>1, <2>3, FS_Union, FS_EmptySet
  <2>5. \A i \in Items : tried[i] \in Nat
    BY DEF Books, Counters
  <2>6. Total(tried, Ended') = Total(tried, Ended) + Total(tried, items)
    <3>1. items \in SUBSET Items
      BY <1>3
    <3>2. Total(tried, Ended \cup items) = Total(tried, Ended) + Total(tried, items)
      BY <2>1, <2>3, <2>5, <3>1, ItemsFinite, TotalUnion
    <3> QED
      BY <2>3, <3>2, Zenon
  <2>7. Total(tried, items) \in Nat
    BY <1>3, <2>5, ItemsFinite, TotalSums
  <2>8. PICK a, b, c, d :
          /\ account' = [account EXCEPT !.succeeded = a, !.failed = b, !.abandoned = c, !.attempts = d]
          /\ a = account.succeeded + Of("succeeded") /\ b = account.failed + Of("failed")
          /\ c = account.abandoned + Of("abandoned")
          /\ d = account.attempts + Total(tried, items)
    <3>1. MapThenSumSet(LAMBDA i : tried[i], items) = Total(tried, items)
      BY SumIsTotal
    <3>2. account' = [account EXCEPT !.succeeded = @ + Of("succeeded"),
                                     !.failed = @ + Of("failed"),
                                     !.abandoned = @ + Of("abandoned"),
                                     !.attempts = @ + MapThenSumSet(LAMBDA i : tried[i], items)]
      BY DEF publish
    <3>3. account' = [account EXCEPT !.succeeded = @ + Of("succeeded"),
                                     !.failed = @ + Of("failed"),
                                     !.abandoned = @ + Of("abandoned"),
                                     !.attempts = @ + Total(tried, items)]
      BY <3>1, <3>2, Zenon
    <3> HIDE DEF Of
    <3> QED
      BY <3>3
  <2> HIDE DEF Of
  <2>9. /\ account' = [f \in AccountFields |-> account'[f]]
        /\ account'.accepted = account.accepted /\ account'.succeeded = a /\ account'.failed = b
        /\ account'.abandoned = c /\ account'.attempts = d
    BY <2>8 DEF Books, Counters, AccountFields
  <2>10. /\ account.accepted \in Nat /\ account.succeeded \in Nat /\ account.failed \in Nat
         /\ account.abandoned \in Nat /\ account.attempts \in Nat
    BY DEF Books, Counters, AccountFields
  <2>11. a \in Nat /\ b \in Nat /\ c \in Nat /\ d \in Nat
    BY <2>2, <2>7, <2>8, <2>10
  <2>12. \A f \in AccountFields \ {"failures"} : account'[f] \in Nat
    BY <2>9, <2>10, <2>11 DEF AccountFields
  <2>13. Counted' = Counted
    BY <1>8 DEF Counted
  <2>14. account.succeeded + account.failed + account.abandoned = Cardinality(Ended)
         /\ account.attempts = Total(tried, Ended)
    BY DEF Books, Counters
  <2>15. a + b + c = Cardinality(Ended')
    <3>1. Cardinality(Ended) \in Nat
      BY <2>1, FS_CardinalityType
    <3> QED
      BY <2>2, <2>4, <2>8, <2>10, <2>14, <3>1
  <2>16. d = Total(tried, Ended')
    BY <2>6, <2>8, <2>14
  <2>17. \A i \in Items : tried[i] # 0 => terminal'[i] = 1 \/ SomeHolds(i)'
    BY <1>4, <1>9 DEF Books, Counters
  <2> QED
    BY <2>9, <2>12, <2>13, <2>15, <2>16, <2>17 DEF Books, Counters
<1> QED
  BY <1>10, <1>11, <1>12, <1>13 DEF Books

\* Receive: a worker that holds nothing takes a batch.
LEMMA ReceiveBooks ==
  ASSUME AbortInv, Custody, Books, NEW w \in Workers, receive(w)
  PROVE  Books'
<1>1. /\ pc[w] \in {"receive", "receiveWait"} /\ Take(w)
      /\ UNCHANGED <<config, closed, life, account, ret, pushed, unclassified, tried, terminal>>
      /\ outcome' = outcome
  BY DEF receive
<1>2. PICK l \in {"abandon", "handle"} : Go(w, l)
  BY DEF receive, processHeldBatch
<1>3. w \in Procs /\ w \in Holders /\ w # Coordinator
  BY <1>1, WorkerRuns
<1>4. held[w] = {} /\ unclassified[w] = {}
  BY <1>1, <1>3 DEF Books, Hands, HandOf, Aborter
<1>5. pc'[w] = l
  BY <1>2, <1>3, OneMoves
<1>6. HandOf(w)'
  <2>1. unclassified'[w] = {}
    BY <1>1, <1>4
  <2> QED
    BY <1>3, <1>5, <2>1 DEF HandOf, Settling, Aborter
<1> QED
  BY <1>1, <1>2, <1>3, <1>4, <1>6, TakeBooks

\* What is final is published, and nothing else leaves the holder's hands.
LEMMA FinalizeBooks ==
  ASSUME AbortInv, Custody, Books, NEW p \in Holders, finalizeBatch(p)
  PROVE  Books'
<1>1. /\ pc[p] = "settle" /\ unclassified[p] = {} /\ Settling(p) /\ HandOf(p)
      /\ UNCHANGED <<config, queue, closed, life, ret, pushed, unclassified, outcome, tried>>
  BY DEF finalizeBatch, Settling, Books, Hands
<1>2. PICK items \in SUBSET Final(p), l \in {"callback", "cleanup", "abandon", "timer", "loop"} :
        /\ publish(p, items) /\ Go(p, l)
        /\ l = "callback" \/ (items = Final(p) /\ l = Onward(p, held[p] \ Final(p)))
  <2>1. Onward(p, held[p] \ Final(p)) \in {"cleanup", "abandon", "timer", "loop"}
    BY DEF Onward, waitForRetry
  <2>2. CASE config.callbacks /\ Final(p) # {}
    <3>1. PICK i \in Final(p) : publish(p, {i})
      BY <2>2 DEF finalizeBatch
    <3>2. {i} \in SUBSET Final(p) /\ Go(p, "callback")
      BY <2>2 DEF finalizeBatch
    <3> QED
      BY <3>1, <3>2
  <2>3. CASE ~(config.callbacks /\ Final(p) # {})
    BY <2>1, <2>3 DEF finalizeBatch
  <2> QED
    BY <2>2, <2>3
<1>3. p \in Procs
  BY RunnerAssumption DEF Procs, Holders
<1>4. pc'[p] = l
  BY <1>2, <1>3, OneMoves
<1>5. /\ held'[p] = held[p] \ items /\ due'[p] = due[p] \ items /\ due[p] \subseteq held[p]
  BY <1>2 DEF publish, Custody, Held
<1>6. p = Coordinator => /\ l \in {"callback", "cleanup"} /\ closed /\ Final(p) = held[p]
                         /\ due[p] = held[p] /\ \A i \in held[p] : outcome[i] = "abandoned"
  <2> SUFFICES ASSUME p = Coordinator
               PROVE  /\ l \in {"callback", "cleanup"} /\ closed /\ Final(p) = held[p]
                      /\ due[p] = held[p] /\ \A i \in held[p] : outcome[i] = "abandoned"
    OBVIOUS
  <2>1. due[p] = held[p] /\ \A i \in held[p] : outcome[i] = "abandoned"
    BY <1>1 DEF HandOf
  <2>2. l \in {"callback", "cleanup"}
    BY <1>2 DEF Onward
  <2>3. closed
    BY <1>1 DEF Books, Closing
  <2> QED
    BY <2>1, <2>2, <2>3 DEF Final
<1>7. p # Coordinator /\ l = "loop" => held'[p] = {}
  <2> SUFFICES ASSUME p # Coordinator, l = "loop" PROVE held'[p] = {}
    OBVIOUS
  <2>1. items = Final(p) /\ Onward(p, held[p] \ Final(p)) = "loop"
    BY <1>2
  <2>2. held[p] \ Final(p) = {}
    BY <2>1 DEF Onward, waitForRetry
  <2> QED
    BY <1>5, <2>1, <2>2
<1>8. HandOf(p)'
  <2>1. unclassified'[p] = {} /\ outcome' = outcome
    BY <1>1
  <2>2. Settling(p)' <=> l = "callback"
    BY <1>2, <1>4 DEF Settling, Aborter
  <2>3. \A i \in due'[p] : outcome[i] \in Settled
    BY <1>1, <1>5 DEF HandOf
  <2>4. CASE p # Coordinator
    BY <1>2, <1>4, <1>7, <2>1, <2>3, <2>4 DEF HandOf, Aborter
  <2>5. CASE p = Coordinator
    <3>1. l = "cleanup" => held'[p] = {}
      BY <1>2, <1>5, <1>6, <2>5
    <3>2. due'[p] = held'[p] /\ \A i \in held'[p] : outcome[i] = "abandoned"
      BY <1>5, <1>6, <2>5
    <3> QED
      BY <1>6, <2>1, <2>2, <2>3, <2>5, <3>1, <3>2 DEF HandOf
  <2> QED
    BY <2>4, <2>5
<1> QED
  BY <1>1, <1>2, <1>6, <1>8, PublishBooks

-----------------------------------------------------------------------------
(* The coordinator. *)

\* A step of the coordinator that neither takes items nor finalizes them.
LEMMA CoordinatorBooks ==
  ASSUME AbortInv, Custody, Books, NEW l, Go(Coordinator, l),
         UNCHANGED <<config, queue, pushed, held, due, unclassified, outcome, tried, terminal>>,
         \A x \in Procs \ {Coordinator} : ret'[x] = ret[x],
         account' = [f \in AccountFields |-> account'[f]],
         \A f \in AccountFields \ {"failures"} : account'[f] = account[f],
         closed => closed', Committed <=> Committed',
         HandOf(Coordinator)',
         l \notin {"unstarted", "coordinate", "drain", "join"} => closed',
         l \in {"complete", "publish", "exited"} => queue = <<>>
  PROVE  Books'
<1>1. /\ Coordinator \in Procs /\ Coordinator \in Holders /\ Coordinator \notin Submitters
      /\ Holders \subseteq Procs /\ Submitters \subseteq Procs
      /\ config.workers \subseteq Holders \ {Coordinator}
  BY RunnerAssumption DEF Procs, Holders, Custody, Unpushed
<1>2. pc'[Coordinator] = l /\ \A x \in Procs \ {Coordinator} : pc'[x] = pc[x]
  BY <1>1, OneMoves
<1>3. \A s \in Submitters : pc'[s] = pc[s]
  BY <1>1, <1>2
<1>4. Prefixes' /\ Located' /\ Counters'
  BY <1>3, PlacesKept, CountersKept DEF Books
<1>5. Hands'
  <2>1. \A r \in Holders \ {Coordinator} :
          /\ held'[r] = held[r] /\ due'[r] = due[r] /\ unclassified'[r] = unclassified[r]
          /\ pc'[r] = pc[r] /\ ret'[r] = ret[r]
          /\ \A i \in held[r] : outcome'[i] = outcome[i]
    BY <1>1, <1>2
  <2>2. unclassified' \in [Holders -> SUBSET Items]
    BY DEF Books, Hands
  <2> QED
    BY <1>1, <2>1, <2>2, HandsKept DEF Books
<1>6. Closing'
  <2>1. \A w \in config.workers : pc'[w] = pc[w]
    BY <1>1, <1>2
  <2> QED
    BY <1>2, <2>1 DEF Books, Closing
<1> QED
  BY <1>4, <1>5, <1>6 DEF Books

\* The coordinator's own steps.
LEMMA CoordinatesBooks ==
  ASSUME AbortInv, Custody, Books, Coordinates
  PROVE  Books'
<1>1. /\ Coordinator \in Procs /\ Coordinator \in Holders /\ HandOf(Coordinator)
      /\ life = [f \in LifeFields |-> life[f]]
  BY DEF Procs, Holders, Books, Hands, AbortInv, Shapes
<1>2. CASE cleanupQueued /\ queue # <<>>
  <2>1. /\ At("cleanup") /\ Take(Coordinator) /\ Go(Coordinator, "settle")
        /\ UNCHANGED <<config, closed, life, account, ret, pushed, unclassified, tried, terminal>>
        /\ outcome' = [i \in Items |-> IF i \in due'[Coordinator] THEN "abandoned" ELSE outcome[i]]
    BY <1>2 DEF cleanupQueued
  <2>2. held[Coordinator] = {} /\ unclassified[Coordinator] = {} /\ closed
    BY <1>1, <2>1 DEF At, HandOf, Settling, Aborter, Books, Closing
  <2>3. /\ due'[Coordinator] \in SUBSET Items /\ \A i \in due'[Coordinator] : terminal[i] = 0
        /\ Custody'
    <3>1. \A s \in Submitters : pc'[s] = pc[s]
      <4>1. Submitters \subseteq Procs \ {Coordinator}
        BY RunnerAssumption DEF Procs
      <4> QED
        BY <1>1, <2>1, <4>1, OneMoves
    <3> QED
      BY <1>1, <2>1, <3>1, TakeMoves
  <2>4. /\ held'[Coordinator] = due'[Coordinator]
        /\ \A r \in Holders \ {Coordinator} : held'[r] = held[r]
    BY <1>1, <2>1 DEF Take, Custody, Held
  <2>5. \A r \in Holders \ {Coordinator} : \A i \in held[r] : outcome'[i] = outcome[i]
    <3> SUFFICES ASSUME NEW r \in Holders \ {Coordinator}, NEW i \in held[r]
                 PROVE  outcome'[i] = outcome[i]
      OBVIOUS
    <3>1. i \in Items
      BY DEF Custody, Held
    <3>2. i \notin held'[Coordinator]
      BY <1>1, <2>3, <2>4 DEF Custody, Held
    <3> QED
      BY <2>1, <2>4, <3>1, <3>2
  <2>6. \A i \in due'[Coordinator] : outcome'[i] = "abandoned"
    BY <2>1, <2>3
  <2>7. HandOf(Coordinator)'
    <3>1. unclassified'[Coordinator] = {} /\ pc'[Coordinator] = "settle"
      BY <1>1, <2>1, <2>2, OneMoves
    <3> QED
      BY <2>4, <2>6, <3>1 DEF HandOf, Settling, Settled
  <2>8. pc[Coordinator] # "exited"
    BY <2>1 DEF At
  <2> QED
    BY <1>1, <2>1, <2>2, <2>5, <2>7, <2>8, TakeBooks
<1>3. CASE ~(cleanupQueued /\ queue # <<>>)
  <2>1. /\ config' = config /\ queue' = queue /\ pushed' = pushed /\ held' = held /\ due' = due
        /\ unclassified' = unclassified /\ outcome' = outcome /\ tried' = tried
        /\ terminal' = terminal /\ account' = account /\ ret' = ret
    BY <1>3 DEF Coordinates, coordinate, drain, finishWorkers, checkAbortCause, cleanupQueued,
                snapshot, publishCompletion, work
  <2>2. life'.abortRecord = life.abortRecord
    <3>1. CASE snapshot
      <4>1. PICK f : life' = [life EXCEPT !.cancelled = TRUE, !.snapshot = f]
        BY <3>1 DEF snapshot
      <4> QED
        BY <1>1, <4>1 DEF LifeFields
    <3>2. CASE publishCompletion
      <4>1. PICK b, e : life' = [life EXCEPT !.done = TRUE, !.panicked = b, !.finalErr = e]
        BY <3>2 DEF publishCompletion
      <4> QED
        BY <1>1, <4>1 DEF LifeFields
    <3> QED
      BY <1>3, <3>1, <3>2 DEF Coordinates, coordinate, drain, finishWorkers, checkAbortCause,
                              cleanupQueued
  <2>3. PICK l \in {"drain", "join", "finished", "complete", "cleanup", "publish", "exited"} :
          /\ Go(Coordinator, l)
          /\ ~Settling(Coordinator)
          /\ closed => closed'
          /\ l \notin {"drain", "join"} => closed'
          /\ l \in {"complete", "publish", "exited"} => queue = <<>>
    <3>1. CASE coordinate
      BY <3>1 DEF coordinate, At, Settling, Aborter
    <3>2. CASE drain
      BY <3>2 DEF drain, At, Settling, Aborter
    <3>3. CASE finishWorkers
      BY <3>3 DEF finishWorkers, At, Settling, Aborter
    <3>4. CASE checkAbortCause
      <4>1. pc[Coordinator] = "finished" /\ closed' = closed /\ ~Settling(Coordinator) /\ closed
        BY <3>4 DEF checkAbortCause, At, Settling, Aborter, Books, Closing
      <4>2. Committed \/ queue = <<>>
        <5>1. \A w \in Workers : pc[w] = "exited"
          BY <4>1 DEF AbortInv, Joined
        <5>2. config.workers \subseteq Workers /\ config.workers # {}
          BY RunnerAssumption DEF Custody, Unpushed
        <5> QED
          BY <5>1, <5>2 DEF Books, Closing
      <4> QED
        BY <3>4, <4>1, <4>2 DEF checkAbortCause, Committed
    <3>5. CASE cleanupQueued
      BY <1>3, <3>5 DEF cleanupQueued, At, Settling, Aborter, Books, Closing
    <3>6. CASE snapshot \/ publishCompletion
      BY <3>6 DEF snapshot, publishCompletion, At, Settling, Aborter, Books, Closing
    <3> QED
      BY <3>1, <3>2, <3>3, <3>4, <3>5, <3>6 DEF Coordinates
  <2>4. pc'[Coordinator] = l
    BY <1>1, <2>3, OneMoves
  <2>5. HandOf(Coordinator)'
    <3>1. held[Coordinator] = {} /\ unclassified[Coordinator] = {} /\ due[Coordinator] = {}
      BY <1>1, <2>3 DEF HandOf, Settling
    <3>2. ~Settling(Coordinator)'
      BY <2>3, <2>4 DEF Settling, Aborter
    <3>3. held'[Coordinator] = {} /\ unclassified'[Coordinator] = {} /\ due'[Coordinator] = {}
      BY <2>1, <3>1
    <3> QED
      BY <3>2, <3>3 DEF HandOf
  <2>6. Committed <=> Committed'
    BY <2>2 DEF Committed
  <2>7. /\ account' = [f \in AccountFields |-> account'[f]]
        /\ \A f \in AccountFields \ {"failures"} : account'[f] = account[f]
    BY <2>1, FailuresOnly
  <2> QED
    BY <2>1, <2>3, <2>5, <2>6, <2>7, CoordinatorBooks
<1> QED
  BY <1>2, <1>3

\* The callback returns, or panics.
LEMMA CallbackBooks ==
  ASSUME AbortInv, Custody, Books, NEW p \in Holders, OnTerminal(p)
  PROVE  Books'
<1>1. /\ pc[p] = "callback" /\ Settling(p) /\ HandOf(p)
      /\ UNCHANGED <<config, queue, closed, life, pushed>>
      /\ held' = held /\ due' = due /\ unclassified' = unclassified /\ outcome' = outcome
      /\ tried' = tried /\ terminal' = terminal
  BY DEF OnTerminal, work, Settling, Books, Hands
<1>2. p \in Procs /\ ret \in [Procs -> Resumed]
  BY RunnerAssumption DEF Procs, Holders, AbortInv, Shapes
<1>3. PICK l \in {"settle", "abort"} :
        /\ Go(p, l)
        /\ account' = account \/ \E b : account' = [account EXCEPT !.failures = b]
        /\ ret' = ret \/ ret' = [ret EXCEPT ![p] = "settle"]
        /\ l = "abort" => ret' = [ret EXCEPT ![p] = "settle"]
  BY DEF OnTerminal, callAbort
<1>4. /\ account' = [f \in AccountFields |-> account'[f]]
      /\ \A f \in AccountFields \ {"failures"} : account'[f] = account[f]
  BY <1>3, FailuresOnly
<1>5. /\ pc'[p] = l /\ \A x \in Procs \ {p} : pc'[x] = pc[x] /\ ret'[x] = ret[x]
      /\ l = "abort" => ret'[p] = "settle"
  BY <1>2, <1>3, OneMoves
<1>6. HandOf(p)'
  <2>1. held'[p] = held[p] /\ due'[p] = due[p] /\ unclassified'[p] = unclassified[p]
    BY <1>1
  <2>2. Settling(p)' /\ pc'[p] \notin {"loop", "exited", "receive", "receiveWait"}
    BY <1>5 DEF Settling, Aborter
  <2>3. pc'[p] \in Aborter => ret'[p] = "settle"
    BY <1>5 DEF Aborter
  <2>4. pc'[p] \in {"settle"} \cup Aborter
    BY <1>5 DEF Aborter
  <2> QED
    BY <1>1, <2>1, <2>2, <2>3, <2>4 DEF HandOf
<1>7. unclassified' \in [Holders -> SUBSET Items] /\ tried' \in [Items -> Nat]
  BY <1>1 DEF Books, Hands, Counters
<1>8. CASE p # Coordinator
  <2>1. p \in Workers /\ pc[p] # "exited" /\ pc'[p] # "exited"
    BY <1>1, <1>5, <1>8 DEF Holders
  <2> QED
    BY <1>1, <1>4, <1>5, <1>6, <1>7, <2>1, WorkerBooks
<1>9. CASE p = Coordinator
  <2>1. closed /\ (Committed <=> Committed')
    BY <1>1, <1>9 DEF Books, Closing, Committed
  <2> QED
    BY <1>1, <1>3, <1>4, <1>5, <1>6, <1>9, <2>1, CoordinatorBooks
<1> QED
  BY <1>8, <1>9

-----------------------------------------------------------------------------
\* At first nothing has been pushed, held or counted.
LEMMA InitBooks == Init => Books
<1> SUFFICES ASSUME Init PROVE Books
  OBVIOUS
<1>1. pc[Coordinator] = "unstarted" /\ Coordinator \in Holders
  <2>1. Coordinator \notin config.workers /\ Coordinator \notin config.callers
        /\ Coordinator \notin Workers /\ Coordinator \in Procs
    BY RunnerAssumption DEF Init, Procs
  <2> QED
    BY <2>1 DEF Init, Holders
<1>2. \A w \in Workers : pc[w] \in {"loop", "exited"} /\ (w \in config.workers => pc[w] = "loop")
  <2> SUFFICES ASSUME NEW w \in Workers
               PROVE  pc[w] \in {"loop", "exited"} /\ (w \in config.workers => pc[w] = "loop")
    OBVIOUS
  <2>1. w \in Procs /\ w \notin config.callers /\ w # Coordinator
    BY RunnerAssumption DEF Procs, Init
  <2>2. CASE w \in config.workers
    BY <2>1, <2>2 DEF Init
  <2>3. CASE w \notin config.workers
    BY <2>1, <2>3 DEF Init
  <2> QED
    BY <2>2, <2>3
<1>3. Prefixes
  BY BatchItems DEF Init, Prefixes
<1>4. \A s \in Submitters : PartOf(s) = {}
  <2>1. \A s \in Submitters : pushed[s] = 0
    BY DEF Init
  <2>2. 1..0 = {}
    OBVIOUS
  <2> QED
    BY <2>1, <2>2 DEF PartOf
<1>5. Located
  BY <1>4 DEF Init, Located, InQueue, SomeHolds, Holders
<1>6. Hands
  <2>1. ASSUME NEW p \in Holders PROVE HandOf(p)
    <3>1. held[p] = {} /\ due[p] = {} /\ unclassified[p] = {}
      BY DEF Init, Holders
    <3>2. pc[p] \in {"loop", "exited", "unstarted"}
      BY <1>1, <1>2 DEF Holders
    <3> QED
      BY <3>1, <3>2 DEF HandOf, Settling, Aborter
  <2>2. unclassified \in [Holders -> SUBSET Items]
    BY DEF Init, Holders
  <2> QED
    BY <2>1, <2>2 DEF Hands
<1>7. Closing
  <2>1. config.workers \subseteq Workers
    BY RunnerAssumption DEF Init
  <2> QED
    BY <1>1, <1>2, <2>1 DEF Closing
<1>8. Counters
  <2>1. Counted = {} /\ Ended = {}
    BY <1>4 DEF Counted, Ended, Init
  <2>2. Cardinality({}) = 0 /\ Total(tried, {}) = 0
    BY FS_EmptySet, TotalSums
  <2>3. /\ account = [f \in AccountFields |-> account[f]]
        /\ \A f \in AccountFields \ {"failures"} : account[f] \in Nat
        /\ account.accepted = 0 /\ account.succeeded = 0 /\ account.failed = 0
        /\ account.abandoned = 0 /\ account.attempts = 0
    BY DEF Init, AccountFields
  <2>4. tried \in [Items -> Nat] /\ \A i \in Items : tried[i] = 0
    BY DEF Init
  <2> QED
    BY <2>1, <2>2, <2>3, <2>4 DEF Counters
<1> QED
  BY <1>3, <1>5, <1>6, <1>7, <1>8 DEF Books

\* The books are kept along every behaviour.
LEMMA BooksHold == Spec => [](AbortInv /\ Custody /\ Gate /\ Ending /\ Books)
<1>1. Init => Books
  BY InitBooks
<1>2. AbortInv /\ Custody /\ Gate /\ Books /\ [Next]_vars => Books'
  <2> SUFFICES ASSUME AbortInv, Custody, Gate, Books, [Next]_vars
               PROVE  Books'
    OBVIOUS
  <2>1. ASSUME NEW p \in Procs, Runs(p)
        PROVE  Books'
    <3>1. CASE Aborts(p)
      BY <3>1, AbortsBook
    <3>2. CASE p \in Submitters /\ Submits(p)
      BY <3>2, PushBooks, RecordBooks, SubmissionsBook DEF Submits, pushAborted
    <3>3. CASE p \in Workers /\ (Works(p) \/ Finalizes(p))
      BY <3>3, WorkersLoop, ReceiveBooks, InvokeBooks, ClassifyBooks, DueBooks, FinalizeBooks,
         CallbackBooks DEF Works, Finalizes, Holders
    <3>4. CASE p \in Owners /\ Wait(p)
      BY <3>4, OwnersBook
    <3>5. CASE p = Coordinator /\ (Coordinates \/ Finalizes(p))
      BY <3>5, CoordinatesBooks, FinalizeBooks, CallbackBooks DEF Finalizes, Holders
    <3> QED
      BY <2>1, <3>1, <3>2, <3>3, <3>4, <3>5 DEF Runs
  <2>2. ASSUME NEW o \in Owners, Shutdown(o) \/ Abort(o) \/ graceEnds(o)
        PROVE  Books'
    BY <2>2, OwnersBook
  <2>3. ASSUME NEW s \in Submitters, registerSubmission(s) \/ submitNothing(s) \/ pushCanceled(s)
        PROVE  Books'
    BY <2>3, SubmissionsBook DEF pushCanceled
  <2>4. CASE UNCHANGED vars
    <3>1. /\ UNCHANGED <<config, queue, closed, pushed, held, due, unclassified, outcome, tried,
                         terminal>>
          /\ account' = account /\ pc' = pc /\ ret' = ret /\ life' = life
      BY <2>4 DEF vars
    <3>2. /\ account' = [f \in AccountFields |-> account'[f]]
          /\ \A f \in AccountFields \ {"failures"} : account'[f] = account[f]
      BY <3>1, FailuresOnly
    <3>3. Committed => Committed'
      BY <3>1 DEF Committed
    <3> QED
      BY <3>1, <3>2, <3>3, BooksKept
  <2> QED
    BY <2>1, <2>2, <2>3, <2>4 DEF Next
<1> QED
  BY <1>1, <1>2, Ends, PTL DEF Spec

(* At completion Accepted equals Succeeded + Failed + Abandoned: every item   *)
(* that PushBatch moved was finalized exactly once and no other item was, and *)
(* the counters say so, attempts included, for any number of goroutines,      *)
(* batches and configurations, and however submissions, retries, an abort and *)
(* the cleanup of the queue interleave.                                       *)
THEOREM BooksReconcile == Spec => []Reconciled
<1>1. AbortInv /\ Custody /\ Gate /\ Ending /\ Books => Reconciled
  <2> SUFFICES ASSUME AbortInv, Custody, Gate, Ending, Books, life.done PROVE Reconciled
    BY DEF Reconciled
  <2>1. pc[Coordinator] = "exited" /\ queue = <<>> /\ \A w \in Workers : pc[w] = "exited"
    BY DEF Ending, Books, Closing, AbortInv, Joined
  <2>2. \A i \in Items : ~SomeHolds(i) /\ ~InQueue(i)
    <3>1. \A p \in Holders : held[p] = {}
      BY <2>1 DEF Books, Hands, HandOf, Holders, Settling, Aborter
    <3> QED
      BY <2>1, <3>1 DEF SomeHolds, InQueue
  <2>3. \A i \in Items : i \in Accepted <=> \E s \in Submitters : i \in PartOf(s)
    BY PartItems DEF Accepted, Books
  <2>4. \A i \in Items : i \in Accepted <=> terminal[i] = 1
    BY <2>2, <2>3 DEF Books, Located
  <2>5. \A i \in Items : terminal[i] = IF i \in Accepted THEN 1 ELSE 0
    <3>1. \A i \in Items : terminal[i] \in Nat /\ terminal[i] <= 1
      BY DEF Custody, Held
    <3> QED
      BY <2>4, <3>1
  <2>6. Accepted \subseteq Items
    BY PartItems DEF Accepted, Books
  <2>7. Accepted = Ended
    BY <2>4, <2>6 DEF Ended
  <2>8. Accepted = Counted
    <3>1. \A s \in Submitters : pc[s] \in Uncounted => PartOf(s) = {}
      <4> SUFFICES ASSUME NEW s \in Submitters, pc[s] \in Uncounted PROVE PartOf(s) = {}
        OBVIOUS
      <4>1. s \notin Active
        BY <2>1, ActiveHolds
      <4>2. pc[s] = "start"
        BY <4>1 DEF Gate, Active, Uncounted
      <4>3. pushed[s] = 0 /\ 1..0 = {}
        BY <4>2 DEF Custody, Unpushed
      <4> QED
        BY <4>3 DEF PartOf
    <3> QED
      BY <2>3, <2>6, <3>1 DEF Counted
  <2>9. account.attempts = MapThenSumSet(LAMBDA i : tried[i], Items)
    <3> DEFINE Rest == Items \ Ended
    <3>1. Ended \in SUBSET Items /\ Rest \in SUBSET Items /\ Ended \cap Rest = {}
          /\ Ended \cup Rest = Items
      BY DEF Ended
    <3>2. \A i \in Items : tried[i] \in Nat
      BY DEF Books, Counters
    <3>3. Total(tried, Ended \cup Rest) = Total(tried, Ended) + Total(tried, Rest)
      BY <3>1, <3>2, ItemsFinite, TotalUnion
    <3>4. \A i \in Rest : tried[i] = 0
      BY <2>2 DEF Books, Counters, Ended
    <3> HIDE DEF Rest
    <3>5. Total(tried, Rest) = 0
      <4>1. IsFiniteSet(Rest)
        BY <3>1, ItemsFinite, FS_Subset
      <4> QED
        BY <3>4, <4>1, TotalZero
    <3>6. Total(tried, Ended) \in Nat
      BY <3>1, <3>2, ItemsFinite, TotalSums
    <3>7. account.attempts = Total(tried, Items)
      <4>1. Total(tried, Items) = Total(tried, Ended \cup Rest)
        BY <3>1, Zenon
      <4>2. Total(tried, Ended \cup Rest) = Total(tried, Ended)
        BY <3>3, <3>5, <3>6
      <4>3. account.attempts = Total(tried, Ended)
        BY DEF Books, Counters
      <4> QED
        BY <4>1, <4>2, <4>3
    <3>8. MapThenSumSet(LAMBDA i : tried[i], Items) = Total(tried, Items)
      BY SumIsTotal
    <3> QED
      BY <3>7, <3>8
  <2>10. /\ account.accepted = Cardinality(Accepted)
         /\ account.accepted = account.succeeded + account.failed + account.abandoned
    BY <2>7, <2>8 DEF Books, Counters
  <2> QED
    BY <2>5, <2>9, <2>10, Zenon DEF Reconciled
<1> QED
  BY <1>1, BooksHold, PTL

=============================================================================
