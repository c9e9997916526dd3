--------------------------- MODULE MCFrontierOwned ---------------------------
(* The SPMC and MPSC queues of ring/frontier for TLC.                         *)
EXTENDS FrontierOwned, TLC

CONSTANTS p1, p2, c1, c2, o1, o2

New(queue, callers, exact, max, enqueues, dequeues, moved) ==
  [queue |-> queue, callers |-> callers, exact |-> exact, max |-> max,
   lengths |-> [producer |-> enqueues, consumer |-> dequeues],
   moved |-> moved]

(* Two concurrent callers against an owner; exact counts and a batch limit of *)
(* one; a Count beside two producers and a consumer; two Counts whose proofs  *)
(* meet at the compare-and-swap of mpscPublishProof.                          *)
Queues ==
  {New("SPMC", {p1, c1, c2}, FALSE, Capacity, {2}, {2}, 2),
   New("MPSC", {p1, p2, c1}, FALSE, Capacity, {2}, {2}, 2),
   New("SPMC", {p1, c1}, TRUE, 1, {0, 2}, {0, 2}, 3),
   New("MPSC", {p1, c1}, TRUE, 1, {0, 2}, {0, 2}, 3),
   New("MPSC", {p1, p2, c1, o1}, FALSE, 1, {}, {0}, 2),
   New("MPSC", {p1, c1, o1, o2}, FALSE, 1, {}, {}, 2)}

Symmetry ==
  Permutations({p1, p2}) \cup Permutations({c1, c2}) \cup Permutations({o1, o2})
=============================================================================
