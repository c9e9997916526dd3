-------------------------- MODULE MCFrontierMPMC --------------------------
(* Small rings that go round more than once, for some mixes of calls.         *)
EXTENDS FrontierMPMC, TLC

Bulk(n) == [req |-> n, fixed |-> TRUE, exact |-> FALSE]
ExactBurst == [req |-> 2, fixed |-> FALSE, exact |-> TRUE]
Count == Bulk(0)

EnqueueMix == {Bulk(1), Bulk(2), ExactBurst}
DequeueMix == {Bulk(1), Count}

EnqueueBulks == {Bulk(1), Bulk(3)}
DequeueBulks == {Bulk(1), Bulk(2)}

Symmetry == Permutations(Producers) \cup Permutations(Consumers)
=============================================================================
