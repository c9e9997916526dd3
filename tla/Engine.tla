------------------------------- MODULE Engine -------------------------------
(* What workq asks of the ring it runs on (the engine interface of            *)
(* workq/engine.go, and A1 and A4 of workq/wakeup.md): a bounded FIFO whose   *)
(* operations claim a run of positions first and finish with it later.        *)
(*                                                                            *)
(* `ring' holds the positions from the oldest one not yet reusable to the     *)
(* newest one claimed.  A position is claimed for writing, becomes ready when *)
(* its producer completes, is claimed for reading, and is free when its       *)
(* consumer releases it.  A ready position behind one still being written is  *)
(* not available, and a free one behind one still being read is not room.     *)
EXTENDS Integers, Sequences, FiniteSetsExt

CONSTANTS Producers, Consumers, Items, Capacity

VARIABLE ring

Nobody == "nobody"

Init == ring = << >>

Claimed(st, who) ==
  {k \in DOMAIN ring : ring[k].st = st /\ ring[k].by = who}

Taken == {k \in DOMAIN ring : ring[k].st \in {"reading", "free"}}

(* Ready positions up to the first one still being written.                   *)
AvailableRun ==
  {k \in DOMAIN ring \ Taken :
     \A j \in DOMAIN ring \ Taken : j <= k => ring[j].st = "ready"}

Available == Cardinality(AvailableRun)

Room == Capacity - Len(ring)

(* An enqueue claims the next positions for its items ...                     *)
reserve(p, items) ==
  /\ Len(items) \in 1..Room
  /\ ring' = ring \o [k \in 1..Len(items) |->
                        [st |-> "writing", by |-> p, item |-> items[k]]]

(* ... and completes them all at once, after the copy.                        *)
complete(p) ==
  ring' = [k \in DOMAIN ring |->
             IF k \in Claimed("writing", p)
             THEN [ring[k] EXCEPT !.st = "ready", !.by = Nobody]
             ELSE ring[k]]

(* A dequeue claims the oldest n available positions ...                      *)
take(c, n) ==
  /\ n \in 1..Available
  /\ ring' = [k \in DOMAIN ring |->
                IF k \in AvailableRun /\ k < Min(AvailableRun) + n
                THEN [ring[k] EXCEPT !.st = "reading", !.by = c]
                ELSE ring[k]]

(* ... and releases them all at once, after the copy.  A free prefix of the   *)
(* ring is room again.                                                        *)
release(c) ==
  LET after == [k \in DOMAIN ring |->
                  IF k \in Claimed("reading", c)
                  THEN [ring[k] EXCEPT !.st = "free", !.by = Nobody]
                  ELSE ring[k]]
      held == {k \in DOMAIN after : after[k].st # "free"}
      first == IF held = {} THEN Len(after) + 1 ELSE Min(held)
  IN  ring' = SubSeq(after, first, Len(after))

(* Reset, between uses: nobody is inside an operation.  workq never calls it. *)
reset ==
  /\ \A k \in DOMAIN ring : ring[k].st = "ready"
  /\ ring' = << >>

(* What a ring does, with at most one operation of each caller in progress.   *)
Step ==
  \/ \E p \in Producers :
       \/ /\ Claimed("writing", p) = {}
          /\ \E n \in 1..Room : \E items \in [1..n -> Items] : reserve(p, items)
       \/ complete(p)
  \/ \E c \in Consumers :
       \/ /\ Claimed("reading", c) = {}
          /\ \E n \in 1..Capacity : take(c, n)
       \/ release(c)
  \/ reset

(* A step that is not a stutter.                                              *)
Next == ring' # ring /\ Step

Spec == Init /\ [][Next]_ring
=============================================================================
