----------------------------- MODULE MCDpdkRing -----------------------------
(* Rings of two and four slots that cross the wrap of their words, for the    *)
(* options that matter to the protocol.                                       *)
EXTENDS DpdkRing, TLC

CONSTANTS p1, p2, p3, c1, c2

Set(name) == [name |-> name]
SetTo(name, n) == [name |-> name, n |-> n]
New(queue, options, who) == [queue |-> queue, options |-> options, callers |-> who]

RelaxedProducers == <<Set("relaxProducers"), SetTo("producerDistance", 1)>>
RelaxedConsumers == <<Set("relaxConsumers"), SetTo("consumerDistance", 1)>>

(* A relaxed side with the default distance, which is 0 below eight slots,    *)
(* and others with a distance of 1.                                           *)
Rings ==
  {New(SPSCQueue, <<Set("exact"), Set("keep")>>, {p1, p2, c1}),
   New(MPSCQueue, RelaxedProducers \o <<SetTo("maxEnqueue", 1)>>, {p1, p2, c1}),
   New(SPMCQueue, RelaxedConsumers \o <<SetTo("maxDequeue", 1)>>, {p1, c1, c2}),
   New(SPMCQueue, <<Set("relaxConsumers"), SetTo("maxBatch", 1)>>, {p1, c1, c2}),
   New(MPMCQueue, <<SetTo("maxEnqueue", 1)>>, {p1, c1, c2}),
   New(MPMCQueue, <<SetTo("maxBatch", 1)>>, {p1, p2, c1})}

(* Three relaxed producers, with room to be in flight together: the least     *)
(* with which the order of the loads in publishRelaxed matters to the tail.   *)
RelaxedRings ==
  {New(MPSCQueue, <<Set("relaxProducers"), SetTo("producerDistance", 2),
                    SetTo("maxEnqueue", 1)>>, {p1, p2, p3, c1})}

(* The order of the checks that the comment on NewMPMCQueue promises.         *)
ASSUME ValidationOrder ==
  /\ resolveConfig(MPMCQueue, 3, <<SetTo("maxBatch", 9)>>).err = {"ErrInvalidCount"}
  /\ resolveConfig(SPSCQueue, 2, <<SetTo("spins", 1), SetTo("maxDequeue", 3)>>).err
       = {"ErrInvalidMaxBatch"}
  /\ resolveConfig(SPSCQueue, 2, <<SetTo("spins", 1), SetTo("consumerDistance", -1)>>).err
       = {"ErrUnsupportedOption"}
  /\ resolveConfig(SPSCQueue, 2, <<SetTo("consumerDistance", Word)>>).err
       = {"ErrInvalidMaxHeadTailDistance"}
  /\ resolveConfig(MPMCQueue, 2, <<SetTo("producerDistance", 1)>>).err
       = {"ErrHeadTailDistanceRequiresRelaxed"}
  /\ resolveConfig(MPSCQueue, 2, <<SetTo("maxBatch", 3), SetTo("maxEnqueue", 1),
                                   SetTo("maxDequeue", 2)>>).err = {}

Symmetry == Permutations(Producers) \cup Permutations(Consumers)
=============================================================================
