---------------------------- MODULE MCWorkQueue ----------------------------
(* Instances of WorkQueue small enough to explore completely.                 *)
EXTENDS WorkQueue, TLC

ParkAtOnce == [Spins |-> 0, Yields |-> 0, NeverPark |-> FALSE]
SpinThenPark == [Spins |-> 1, Yields |-> 0, NeverPark |-> FALSE]
KeepPolling == [Spins |-> 0, Yields |-> 1, NeverPark |-> TRUE]

Symmetry == Permutations(Consumers) \cup Permutations(Producers)
=============================================================================
