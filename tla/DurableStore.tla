---------------------------- MODULE DurableStore ----------------------------
(***************************************************************************)
(* The logical store of workq/durable as a value: what the SQL statements  *)
(* of one transaction read and write.  A store d is a record               *)
(*   epoch      the session that last fenced it                            *)
(*   lastOrder  the last acceptance order given out                        *)
(*   receipts   a function on the accepted IDs; token is None while the    *)
(*              work is pending                                            *)
(*   payloads   the IDs that still have a payload row                      *)
(*   producers  a function on the known producers                          *)
(*   counts     the five stored counts of records                          *)
(* An ID is <<producer, sequence>>, and a digest is a model value: two     *)
(* entries agree when codec and payload do.  Payload bytes and their       *)
(* count, the row formats and the identity of the store are left out.      *)
(***************************************************************************)
EXTENDS Integers, FiniteSets, FiniteSetsExt, SequencesExt

CONSTANTS None,     \* SQL NULL, and no error
          Policy    \* DurablePolicy: pendingItems, receipts and producers allowed

ASSUME PolicyAssumption ==
    {Policy.pendingItems, Policy.receipts, Policy.producers} \subseteq Nat

EmptyStore ==
    [epoch |-> 0, lastOrder |-> 0, receipts |-> <<>>, payloads |-> {}, producers |-> <<>>,
     counts |-> [pending |-> 0, receipts |-> 0, producers |-> 0, retired |-> 0, markers |-> 0]]

\* The function f with g's values where g has them.
With(f, g) == [x \in DOMAIN f \cup DOMAIN g |-> IF x \in DOMAIN g THEN g[x] ELSE f[x]]

Pending(d) == {i \in DOMAIN d.receipts : d.receipts[i].token = None}

AtOrBelowFloor(d, id) ==
    /\ id[1] \in DOMAIN d.producers
    /\ d.producers[id[1]].has /\ id[2] <= d.producers[id[1]].floor

\* lookupID: the status of one ID.
lookupID(d, id) ==
    CASE AtOrBelowFloor(d, id) -> "retired"
      [] ~AtOrBelowFloor(d, id) /\ id \notin DOMAIN d.receipts -> "absent"
      [] ~AtOrBelowFloor(d, id) /\ id \in Pending(d) -> "pending"
      [] OTHER -> "acknowledged"

-----------------------------------------------------------------------------
(* One command inside a transaction.  Each returns the next store, or the    *)
(* same store with the error that rejects the command.                       *)

Accept(d) == [store |-> d, err |-> None]

Reject(d, err) == [store |-> d, err |-> err]

Fresh(d, entries) == SelectSeq(entries, LAMBDA e : e.id \notin DOMAIN d.receipts)

\* The rows insertEntry adds for the fresh entries, with their order.
insertEntries(d, fresh) ==
    LET ids == {fresh[k].id : k \in DOMAIN fresh}
        At(i) == CHOOSE k \in DOMAIN fresh : fresh[k].id = i
        unknown == {i[1] : i \in ids} \ DOMAIN d.producers IN
    [d EXCEPT
       !.lastOrder = @ + Len(fresh),
       !.receipts = With(@, [i \in ids |-> [digest |-> fresh[At(i)].digest, token |-> None,
                                            order |-> d.lastOrder + At(i)]]),
       !.payloads = @ \cup ids,
       !.producers = With(@, [p \in unknown |-> [has |-> FALSE, floor |-> 0, cleanup |-> FALSE]]),
       !.counts.pending = @ + Len(fresh),
       !.counts.receipts = @ + Len(fresh),
       !.counts.producers = @ + Cardinality(unknown)]

\* validateStoredSubmit and the inserts: the whole batch, or nothing of it.
applySubmit(d, entries) ==
    LET next == insertEntries(d, Fresh(d, entries))
        Clash(e) == e.id \in DOMAIN d.receipts /\ d.receipts[e.id].digest # e.digest
        bad == {k \in DOMAIN entries : AtOrBelowFloor(d, entries[k].id) \/ Clash(entries[k])} IN
    CASE bad # {} -> Reject(d, IF AtOrBelowFloor(d, entries[Min(bad)].id) THEN "retired"
                                                                         ELSE "conflict")
      [] bad = {} /\ (\/ next.counts.pending > Policy.pendingItems
                      \/ next.counts.receipts > Policy.receipts
                      \/ next.counts.producers > Policy.producers) -> Reject(d, "capacity")
      [] OTHER -> Accept(next)

\* validateAck and applyAck.  The receipts show the acknowledgments of earlier
\* commands of the group, the claims do not yet: current is the set of tokens of
\* acquired claims.
applyAck(d, tokens, epoch, current) ==
    LET Known(t) == t.id \in DOMAIN d.receipts /\ t.epoch = epoch
        Again(t) == d.receipts[t.id].token = t
        First(t) == t.id \in Pending(d) /\ t \in current
        done == {t \in tokens : t.id \in Pending(d)}
        Of(i) == CHOOSE t \in done : t.id = i IN
    IF \A t \in tokens : Known(t) /\ (Again(t) \/ First(t))
    THEN Accept([d EXCEPT
           !.receipts = [i \in DOMAIN @ |-> IF \E t \in done : t.id = i
                                            THEN [@[i] EXCEPT !.token = Of(i)] ELSE @[i]],
           !.payloads = @ \ {t.id : t \in done},
           !.counts.pending = @ - Cardinality(done)])
    ELSE Reject(d, "stale")

\* Variant: the floor is raised over pending work.
applyRetirementAnyway(d, p, floor) ==
    Accept([d EXCEPT
       !.producers = With(@, p :> [has |-> TRUE, floor |-> floor, cleanup |-> TRUE]),
       !.counts.producers = @ + IF p \in DOMAIN d.producers THEN 0 ELSE 1,
       !.counts.retired = @ + IF p \in DOMAIN d.producers /\ d.producers[p].has THEN 0 ELSE 1,
       !.counts.markers = @ + IF p \in DOMAIN d.producers /\ d.producers[p].cleanup THEN 0 ELSE 1])

applyRetirement(d, p, floor) ==
    LET known == p \in DOMAIN d.producers
        has == known /\ d.producers[p].has
        marked == known /\ d.producers[p].cleanup IN
    CASE has /\ floor <= d.producers[p].floor -> Accept(d)
      [] ~known /\ d.counts.producers = Policy.producers -> Reject(d, "capacity")
      [] \E i \in Pending(d) : i[1] = p /\ i[2] <= floor -> Reject(d, "conflict")
      [] OTHER -> Accept([d EXCEPT
           !.producers = With(@, p :> [has |-> TRUE, floor |-> floor, cleanup |-> TRUE]),
           !.counts.producers = @ + IF known THEN 0 ELSE 1,
           !.counts.retired = @ + IF has THEN 0 ELSE 1,
           !.counts.markers = @ + IF marked THEN 0 ELSE 1])

\* One turn of the receipt cleanup: at most limit rows of the first marked
\* producer, and its marker once no row is left.
deleteRetiredReceipts(d, limit) ==
    LET p == Min({x \in DOMAIN d.producers : d.producers[x].cleanup})
        eligible == {i \in DOMAIN d.receipts \ Pending(d) : i[1] = p /\ AtOrBelowFloor(d, i)}
        deleted == {i \in eligible :
                      Cardinality({j \in eligible : j[2] < i[2]}) < limit}
        finished == deleted = eligible IN
    [d EXCEPT
       !.receipts = [i \in DOMAIN @ \ deleted |-> @[i]],
       !.producers = [@ EXCEPT ![p].cleanup = ~finished],
       !.counts.receipts = @ - Cardinality(deleted),
       !.counts.markers = @ - IF finished THEN 1 ELSE 0]

-----------------------------------------------------------------------------
(* validate: what startup demands of a store before it opens it. *)

validateProducer(d, p) ==
    LET row == d.producers[p] IN ~row.has => row.floor = 0 /\ ~row.cleanup

validateReceipt(d, i) ==
    LET row == d.receipts[i] IN
    /\ row.order \in 1..d.lastOrder
    /\ i[1] \in DOMAIN d.producers
    /\ AtOrBelowFloor(d, i) => row.token # None /\ d.producers[i[1]].cleanup
    /\ IF row.token = None
       THEN i \in d.payloads
       ELSE row.token.id = i /\ row.token.epoch \in 1..d.epoch /\ row.token.attempt >= 1

Counted(d) ==
    [pending |-> Cardinality(Pending(d)), receipts |-> Cardinality(DOMAIN d.receipts),
     producers |-> Cardinality(DOMAIN d.producers),
     retired |-> Cardinality({p \in DOMAIN d.producers : d.producers[p].has}),
     markers |-> Cardinality({p \in DOMAIN d.producers : d.producers[p].cleanup})]

validateLogicalState(d) ==
    /\ \A p \in DOMAIN d.producers : validateProducer(d, p)
    /\ \A i \in DOMAIN d.receipts : validateReceipt(d, i)
    /\ Cardinality(d.payloads) = d.counts.pending
    /\ d.counts = Counted(d)
    /\ d.counts.pending <= Policy.pendingItems
    /\ d.counts.receipts <= Policy.receipts
    /\ d.counts.producers <= Policy.producers
=============================================================================
