------------------------- MODULE FrontierRefinement -------------------------
(***************************************************************************)
(* That the multi-producer multi-consumer ring of ring/frontier is an      *)
(* Engine: the bounded queue with reserved and completed cells on which    *)
(* the blocking queue of workq is built.                                   *)
(*                                                                         *)
(* The cells run from the end of the consumers' finished run to the        *)
(* producers' head.  A winning claim reserves or takes cells, publishing   *)
(* the oldest interval completes or releases all that is finished behind   *)
(* it, and every other step, whatever it loads, leaves the cells alone.    *)
(* RingInv says who owns which position; EntriesTrue adds that the slots   *)
(* hold what was put into them, and WithinItems bounds the items.          *)
(***************************************************************************)
EXTENDS FrontierProofs, FiniteSetTheorems

\* The positions whose item is in its slot: claimed by a producer that has
\* copied, and not yet read by a consumer.
Kept ==
  ((head["consumer"]..head["producer"] - 1)
     \ UNION {Owned(c) : c \in {d \in Producers : op[d].pc = "copy"}})
  \cup UNION {Owned(c) : c \in {d \in Consumers : op[d].pc = "copy"}}

\* No slot is overwritten or cleared while its item is kept.
EntriesTrue == \A p \in Kept : entries[Slot(p)] = ValueAt(p)

\* The producers that may still claim.
Looking == {c \in Producers : op[c].pc \notin {"idle", "copy", "publish"}}

\* The producers stop in time: each claims at most one more batch.
WithinItems ==
  head["producer"] + MaxBatch * Cardinality(Looking)
    <= MaxPosition + MaxBatch * Cardinality(Producers)

\* The invariant of the refinement.
FullInv == RingInv /\ EntriesTrue /\ WithinItems

-----------------------------------------------------------------------------
(* The finished run of a side.                                                *)

\* It ends at the head, or at the oldest interval that is still held.
FinishedFacts ==
  \A s \in Sides :
    /\ Finished(s) \in Nat /\ head[s] \in Nat
    /\ Clear(s, Finished(s)) /\ frontier[s] <= Finished(s)
    /\ Finished(s) = head[s] \/ \E d \in Holders(s) : op[d].head = Finished(s)

\* The finished run of either side.
LEMMA FinishedIs == RingInv => FinishedFacts
<1> SUFFICES ASSUME RingInv, NEW s \in Sides
             PROVE  /\ Finished(s) \in Nat /\ head[s] \in Nat
                    /\ Clear(s, Finished(s)) /\ frontier[s] <= Finished(s)
                    /\ Finished(s) = head[s] \/ \E d \in Holders(s) : op[d].head = Finished(s)
  BY DEF FinishedFacts
<1>1. head[s] \in Nat /\ frontier[s] <= Finished(s)
  BY InvFrontiersSound DEF RingInv, Typed, FrontiersSound
<1>2. ASSUME NEW d \in Holders(s)
      PROVE  op[d].head \in Unfinished(s) /\ op[d].head < head[s] /\ op[d].head \in Nat
  <2>1. d \in Callers /\ Side(d) = s /\ Holding(op[d])
    BY DEF Holders
  <2>2. op[d].head \in Nat /\ op[d].count \in 1..MaxBatch /\ op[d].head + op[d].count <= head[s]
    BY <2>1 DEF RingInv, Typed, Locals, Claimed
  <2>4. MaxBatch \in Nat
    BY RingAssumption
  <2>3. op[d].head \in Owned(d)
    BY <2>1, <2>2, <2>4 DEF Owned, Holding
  <2> QED
    BY <1>1, <2>1, <2>2, <2>3, <2>4 DEF Unfinished
<1>3. CASE Unfinished(s) = {}
  <2>1. Finished(s) = head[s] /\ Holders(s) = {}
    BY <1>2, <1>3 DEF Finished
  <2> QED
    BY <1>1, <2>1 DEF Clear
<1>4. CASE Unfinished(s) # {}
  <2>1. \A p \in Unfinished(s) : p \in Nat
    BY OwnedIs DEF Unfinished
  <2>2. PICK m : m = Finished(s) /\ m \in Unfinished(s) /\ \A k \in Unfinished(s) : m <= k
    BY <1>4, <2>1, MinOf DEF Finished
  <2>3. PICK d \in Callers : Side(d) = s /\ m \in Owned(d)
    BY <2>2 DEF Unfinished
  <2>4. d \in Holders(s) /\ op[d].head <= m /\ m < head[s] /\ op[d].head \in Nat /\ m \in Nat
    BY <2>3, OwnedIs
  <2>5. op[d].head = m
    BY <1>2, <2>2, <2>4
  <2>6. Clear(s, m)
    BY <1>1, <1>2, <2>2, <2>4 DEF Clear
  <2> QED
    BY <1>1, <2>2, <2>4, <2>5, <2>6
<1> QED
  BY <1>3, <1>4

\* Nothing else does.
FinishedOnly ==
  \A s \in Sides : \A e \in Nat :
    /\ Clear(s, e)
    /\ e = head[s] \/ \E d \in Holders(s) : op[d].head = e
    => Finished(s) = e

\* The position that ends it is unique.
LEMMA FinishedUnique == RingInv => FinishedOnly
<1> SUFFICES ASSUME RingInv, NEW s \in Sides, NEW e \in Nat, Clear(s, e),
                    e = head[s] \/ \E d \in Holders(s) : op[d].head = e
             PROVE  Finished(s) = e
  BY DEF FinishedOnly
<1>1. /\ Finished(s) \in Nat /\ head[s] \in Nat /\ Clear(s, Finished(s))
      /\ Finished(s) = head[s] \/ \E d \in Holders(s) : op[d].head = Finished(s)
  BY FinishedIs DEF FinishedFacts
<1>2. e <= Finished(s) /\ Finished(s) <= e
  BY <1>1 DEF Clear
<1> QED
  BY <1>1, <1>2

-----------------------------------------------------------------------------
(* The cells of the mapping.                                                  *)

\* A cell of the engine for position p.
CellOf(st, by, p) == [st |-> st, by |-> by, item |-> ValueAt(p)]

\* Nobody owns position p.
Unowned(p) == \A c \in Callers : p \notin Owned(c)

\* What a cell is, by who owns its position.
CellFacts ==
  \A p \in Finished("consumer")..head["producer"] - 1 :
    /\ \A c \in Producers : p \in Owned(c) => Cell(p) = CellOf("writing", c, p)
    /\ \A c \in Consumers : p \in Owned(c) => Cell(p) = CellOf("reading", c, p)
    /\ Unowned(p) /\ p < head["consumer"] => Cell(p) = CellOf("free", "nobody", p)
    /\ Unowned(p) /\ p >= head["consumer"] => Cell(p) = CellOf("ready", "nobody", p)

\* Where the owners of positions are.
OwnerFacts ==
  /\ \A c, d \in Callers : Owned(c) \cap Owned(d) # {} => c = d
  /\ \A c \in Producers : \A p \in Owned(c) :
       /\ p \in Nat /\ head["consumer"] <= p /\ Finished("producer") <= p
       /\ p < head["producer"]
  /\ \A c \in Consumers : \A p \in Owned(c) :
       p \in Nat /\ Finished("consumer") <= p /\ p < head["consumer"]
  /\ Finished("consumer") <= head["consumer"]
  /\ head["consumer"] <= Finished("producer")
  /\ Finished("producer") <= head["producer"]
  /\ head["producer"] <= Finished("consumer") + Capacity

\* Owned positions are among the cells.
LEMMA OwnersAre == RingInv => OwnerFacts
<1> SUFFICES ASSUME RingInv PROVE OwnerFacts
  OBVIOUS
<1>0. Capacity \in Nat
  BY RingAssumption
<1>1. FinishedFacts
  BY FinishedIs
<1>2. \A s \in Sides :
        /\ Finished(s) \in Nat /\ head[s] \in Nat /\ frontier[s] \in Nat
        /\ Finished(s) <= head[s] /\ frontier[s] <= Finished(s)
        /\ \A d \in Holders(s) : Finished(s) <= op[d].head
  BY <1>1 DEF FinishedFacts, Clear, RingInv, Typed
<1>3. /\ Finished("consumer") <= head["consumer"]
      /\ head["consumer"] <= Finished("producer")
      /\ Finished("producer") <= head["producer"]
      /\ head["producer"] <= Finished("consumer") + Capacity
  BY <1>0, <1>2 DEF RingInv, PositionsOrdered, Sides
<1>4. ASSUME NEW c \in Callers, NEW p \in Owned(c)
      PROVE  p \in Nat /\ Finished(Side(c)) <= p /\ p < head[Side(c)]
  <2>1. /\ p \in Nat /\ c \in Holders(Side(c)) /\ op[c].head \in Nat
        /\ op[c].head <= p /\ p < head[Side(c)]
    BY OwnedIs
  <2>2. Finished(Side(c)) \in Nat /\ Finished(Side(c)) <= op[c].head
    BY <1>2, <2>1, SidesOf
  <2> QED
    BY <2>1, <2>2
<1>5. \A c \in Producers : \A p \in Owned(c) :
        /\ p \in Nat /\ head["consumer"] <= p /\ Finished("producer") <= p
        /\ p < head["producer"]
  BY <1>2, <1>3, <1>4 DEF Side, Callers, Sides
<1>6. \A c \in Consumers : \A p \in Owned(c) :
        p \in Nat /\ Finished("consumer") <= p /\ p < head["consumer"]
  BY <1>4, RingAssumption DEF Side, Callers
<1>7. \A c, d \in Callers : Owned(c) \cap Owned(d) # {} => c = d
  BY InvSlotsExclusive DEF SlotsExclusive
<1> QED
  BY <1>3, <1>5, <1>6, <1>7 DEF OwnerFacts

\* The cells, read off the ring's own state.
LEMMA CellsAre == RingInv /\ EntriesTrue => CellFacts
<1> SUFFICES ASSUME RingInv, EntriesTrue,
                    NEW p \in Finished("consumer")..head["producer"] - 1
             PROVE
    /\ \A c \in Producers : p \in Owned(c) => Cell(p) = CellOf("writing", c, p)
    /\ \A c \in Consumers : p \in Owned(c) => Cell(p) = CellOf("reading", c, p)
    /\ Unowned(p) /\ p < head["consumer"] => Cell(p) = CellOf("free", "nobody", p)
    /\ Unowned(p) /\ p >= head["consumer"] => Cell(p) = CellOf("ready", "nobody", p)
  BY DEF CellFacts
<1>0. p \in Nat /\ p < head["producer"] /\ head["consumer"] \in Nat /\ head["producer"] \in Nat
  BY FinishedIs DEF FinishedFacts, Sides
<1>1. OwnerFacts
  BY OwnersAre
<1> DEFINE holder == {c \in Callers : p \in Owned(c)}
           h == CHOOSE d \in holder : TRUE
<1>2. ASSUME NEW c \in Callers, p \in Owned(c)
      PROVE  holder = {c} /\ h = c
  BY <1>1, <1>2 DEF OwnerFacts
<1>3. ASSUME NEW c \in Producers, p \in Owned(c)
      PROVE  Cell(p) = CellOf("writing", c, p)
  <2>1. c \in Callers
    BY DEF Callers
  <2> QED
    BY <1>2, <1>3, <2>1 DEF Cell, CellOf
<1>4. ASSUME NEW c \in Consumers, p \in Owned(c)
      PROVE  Cell(p) = CellOf("reading", c, p)
  <2>1. c \in Callers /\ c \notin Producers
    BY RingAssumption DEF Callers
  <2>2. op[c].pc = "copy" => entries[Slot(p)] = ValueAt(p)
    BY <1>4 DEF EntriesTrue, Kept
  <2> QED
    BY <1>2, <1>4, <2>1, <2>2 DEF Cell, CellOf
<1>5. ASSUME Unowned(p), p < head["consumer"]
      PROVE  Cell(p) = CellOf("free", "nobody", p)
  <2>1. holder = {}
    BY <1>5 DEF Unowned
  <2> QED
    BY <1>5, <2>1 DEF Cell, CellOf
<1>6. ASSUME Unowned(p), p >= head["consumer"]
      PROVE  Cell(p) = CellOf("ready", "nobody", p)
  <2>1. holder = {}
    BY <1>6 DEF Unowned
  <2>2. p \in Kept
    BY <1>0, <1>6 DEF Kept, Unowned, Callers
  <2>3. entries[Slot(p)] = ValueAt(p) /\ ~(p < head["consumer"])
    BY <1>0, <1>6, <2>2 DEF EntriesTrue
  <2> QED
    BY <2>1, <2>3 DEF Cell, CellOf
<1> QED
  BY <1>3, <1>4, <1>5, <1>6

-----------------------------------------------------------------------------
(* The items stay in their slots.                                             *)

\* Nobody claims or finishes anything.
Fixed == head' = head /\ \A c \in Callers : Owned(c)' = Owned(c)

\* Where the owners stay, so do the intervals.
LEMMA StayFixed == OwnersStay => Fixed
  BY DEF OwnersStay, Fixed, Owned, Holding

\* Copying changes no interval.
LEMMA CopyFixed == ASSUME RingInv, NEW c \in Callers, copy(c) PROVE Fixed
<1> DEFINE o == [op[c] EXCEPT !.pc = "publish"]
<1>1. op' = [d \in Callers |-> IF d = c THEN o ELSE op[d]] /\ head' = head /\ op[c].pc = "copy"
  BY DEF copy, Step, RingInv, Typed
<1>2. o.pc = "publish" /\ o.head = op[c].head /\ o.count = op[c].count
  BY DEF RingInv, Typed, Locals, OpFields
<1> HIDE DEF o
<1>3. op'[c] = o /\ \A d \in Callers : d # c => op'[d] = op[d]
  BY <1>1
<1> QED
  BY <1>1, <1>2, <1>3 DEF Fixed, Owned

\* Nor the finished runs.
LEMMA FixedFinished == Fixed => \A s \in Sides : Finished(s)' = Finished(s)
<1> SUFFICES ASSUME Fixed, NEW s \in Sides PROVE Finished(s)' = Finished(s)
  OBVIOUS
<1>1. Unfinished(s)' = Unfinished(s)
  BY DEF Fixed, Unfinished, Side
<1> QED
  BY <1>1 DEF Fixed, Finished

\* A step that leaves the entries and their owners alone.
LEMMA QuietEntries ==
  ASSUME EntriesTrue, OwnersStay, entries' = entries
  PROVE  EntriesTrue'
<1>1. \A d \in Callers : Owned(d)' = Owned(d) /\ (op'[d].pc = "copy" <=> op[d].pc = "copy")
  BY DEF OwnersStay, Owned, Holding
<1>2. Kept' = Kept
  BY <1>1 DEF Kept, Callers, OwnersStay
<1> QED
  BY <1>2 DEF EntriesTrue, Slot, ValueAt

\* A kept item is in the window of one lap that starts at the released frontier.
LEMMA KeptIn ==
  ASSUME RingInv, NEW p \in Kept
  PROVE  p \in Nat /\ Finished("consumer") <= p /\ p < Finished("consumer") + Capacity
<1>0. Capacity \in Nat
  BY RingAssumption
<1>1. OwnerFacts
  BY OwnersAre
<1>2. \A s \in Sides : Finished(s) \in Nat /\ head[s] \in Nat
  BY FinishedIs DEF FinishedFacts
<1> QED
  BY <1>0, <1>1, <1>2 DEF Kept, OwnerFacts, Sides

\* Every owned position lies within one capacity of the oldest cell.
LEMMA OwnedIn ==
  ASSUME RingInv, NEW c \in Callers, NEW p \in Owned(c)
  PROVE  p \in Nat /\ Finished("consumer") <= p /\ p < Finished("consumer") + Capacity
<1>0. Capacity \in Nat
  BY RingAssumption
<1>1. OwnerFacts
  BY OwnersAre
<1>2. \A s \in Sides : Finished(s) \in Nat /\ head[s] \in Nat
  BY FinishedIs DEF FinishedFacts
<1> QED
  BY <1>0, <1>1, <1>2 DEF OwnerFacts, Sides, Callers

\* Copying fills or clears the slots of the copier alone.
LEMMA CopyEntries ==
  ASSUME RingInv, EntriesTrue, NEW c \in Callers, copy(c)
  PROVE  EntriesTrue'
<1>0. Capacity \in Nat /\ Finished("consumer") \in Nat
  BY RingAssumption, FinishedIs DEF FinishedFacts, Sides
<1>1. Fixed
  BY CopyFixed
<1>2. op[c].pc = "copy" /\ op'[c].pc = "publish" /\ \A d \in Callers : d # c => op'[d] = op[d]
  <2>1. op' = [d \in Callers |-> IF d = c THEN [op[c] EXCEPT !.pc = "publish"] ELSE op[d]]
    BY DEF copy, Step, RingInv, Typed
  <2>2. [op[c] EXCEPT !.pc = "publish"].pc = "publish"
    BY DEF RingInv, Typed, Locals, OpFields
  <2> QED
    BY <2>1, <2>2 DEF copy
<1>3. OwnerFacts
  BY OwnersAre
<1>4. ASSUME NEW p \in Kept', p \notin Owned(c)
      PROVE  p \in Kept
  <2>1. \A d \in Callers : p \in Owned(d) => d # c /\ op'[d] = op[d]
    BY <1>2, <1>4
  <2>2. head' = head /\ \A d \in Callers : Owned(d)' = Owned(d)
    BY <1>1 DEF Fixed
  <2>3. CASE \E d \in Consumers : p \in Owned(d)' /\ op'[d].pc = "copy"
    <3>1. PICK d \in Consumers : p \in Owned(d)' /\ op'[d].pc = "copy"
      BY <2>3
    <3>2. p \in Owned(d) /\ op[d].pc = "copy"
      BY <2>1, <2>2, <3>1 DEF Callers
    <3> QED
      BY <3>2 DEF Kept
  <2>4. CASE /\ p \in head["consumer"]..head["producer"] - 1
             /\ \A d \in Producers : op'[d].pc = "copy" => p \notin Owned(d)'
    <3>1. \A d \in Producers : op[d].pc = "copy" => p \notin Owned(d)
      BY <2>1, <2>2, <2>4 DEF Callers
    <3> QED
      BY <2>4, <3>1 DEF Kept
  <2> QED
    BY <1>4, <2>2, <2>3, <2>4 DEF Kept
<1>5. ASSUME NEW p \in Kept', p \notin Owned(c)
      PROVE  entries'[Slot(p)] = ValueAt(p)
  <2>1. p \in Kept /\ p \in Nat
    BY <1>4, <1>5, KeptIn
  <2>2. \A q \in Owned(c) : Slot(q) # Slot(p)
    BY <1>0, <1>5, <2>1, KeptIn, OwnedIn, SlotPosition
  <2>3. Slot(p) \in Slots
    BY <2>1, SlotIn
  <2>4. entries'[Slot(p)] = entries[Slot(p)]
    BY <2>2, <2>3 DEF copy
  <2> QED
    BY <2>1, <2>4 DEF EntriesTrue
<1>6. ASSUME NEW p \in Kept', p \in Owned(c)
      PROVE  entries'[Slot(p)] = ValueAt(p)
  <2>1. c \in Producers
    <3> SUFFICES ASSUME c \in Consumers PROVE FALSE
      BY DEF Callers
    <3>1. p < head["consumer"] /\ p \in Nat /\ head["consumer"] \in Nat /\ head' = head
      BY <1>1, <1>3, <1>6, FinishedIs DEF OwnerFacts, FinishedFacts, Sides, Fixed
    <3>2. PICK d \in Consumers : p \in Owned(d)' /\ op'[d].pc = "copy"
      BY <1>6, <3>1 DEF Kept
    <3>3. p \in Owned(d) /\ d # c
      BY <1>1, <1>2, <3>2 DEF Fixed, Callers
    <3> QED
      BY <1>3, <1>6, <3>3 DEF OwnerFacts, Callers
  <2>2. p \in Nat /\ Slot(p) \in Slots
    BY <1>6, OwnedIn, SlotIn
  <2>3. \A q \in Owned(c) : Slot(q) = Slot(p) => q = p
    BY <1>0, <1>6, OwnedIn, SlotPosition
  <2>4. (CHOOSE q \in Owned(c) : Slot(q) = Slot(p)) = p
    BY <1>6, <2>3
  <2>5. entries'[Slot(p)] = ValueAt(CHOOSE q \in Owned(c) : Slot(q) = Slot(p))
    BY <1>6, <2>1, <2>2 DEF copy
  <2> QED
    BY <2>4, <2>5
<1>7. \A p \in Kept' : entries'[Slot(p)] = ValueAt(p)
  BY <1>5, <1>6
<1> QED
  BY <1>7 DEF EntriesTrue, Slot, ValueAt

\* What a reservation changes.
LEMMA ClaimEffect ==
  ASSUME RingInv, RingInv', NEW c \in Callers, claim(c), head[Side(c)] = op[c].head
  PROVE  \E h \in Nat, n \in 1..MaxBatch :
           /\ h = head[Side(c)] /\ h + n <= Limit(c)
           /\ head' = [s \in Sides |-> IF s = Side(c) THEN h + n ELSE head[s]]
           /\ Owned(c) = {} /\ Owned(c)' = h..h + n - 1
           /\ op[c].pc = "claim" /\ op'[c].pc = "copy" /\ entries' = entries
           /\ op'[c].head = h
           /\ \A d \in Callers : d # c => op'[d] = op[d] /\ Owned(d)' = Owned(d)
           /\ \A s \in Sides : Finished(s)' = Finished(s)
<1> DEFINE o == [Idle EXCEPT !.pc = "copy", !.head = op[c].head, !.count = op[c].count]
<1>1. PICK h, n : h = op[c].head /\ n = op[c].count
  OBVIOUS
<1>2. /\ op[c].pc = "claim" /\ Step(c, o) /\ entries' = entries
      /\ head' = [head EXCEPT ![Side(c)] = @ + n]
  BY <1>1 DEF claim
<1>3. /\ h \in Nat /\ n \in 1..MaxBatch /\ h + n <= Limit(c) /\ h = head[Side(c)]
      /\ Locals(op[c])
  BY <1>1, <1>2 DEF RingInv, Typed, Locals, Knows
<1>4. o.pc = "copy" /\ o.head = h /\ o.count = n
  BY <1>1, IdleLocals DEF OpFields
<1>5. op' = [d \in Callers |-> IF d = c THEN o ELSE op[d]]
  BY <1>2 DEF Step, RingInv, Typed
<1> HIDE DEF o
<1>6. op'[c] = o /\ \A d \in Callers : d # c => op'[d] = op[d]
  BY <1>5
<1>7. head' = [s \in Sides |-> IF s = Side(c) THEN h + n ELSE head[s]]
  BY <1>2, <1>3 DEF RingInv, Typed
<1>8. Owned(c) = {} /\ Owned(c)' = h..h + n - 1
  BY <1>2, <1>4, <1>6 DEF Owned
<1>9. \A d \in Callers : d # c => op'[d] = op[d] /\ Owned(d)' = Owned(d)
  BY <1>6 DEF Owned
<1>10. ASSUME NEW s \in Sides PROVE Finished(s)' = Finished(s)
  <2>1. PICK e \in Nat : e = Finished(s)
    BY FinishedIs DEF FinishedFacts
  <2>2. /\ Clear(s, e) /\ head[s] \in Nat /\ frontier[s] <= e
        /\ e = head[s] \/ \E d \in Holders(s) : op[d].head = e
    BY <2>1, FinishedIs DEF FinishedFacts
  <2>3. \A d \in Callers : d \in Holders(s)' <=> d \in Holders(s) \/ (d = c /\ s = Side(c))
    BY <1>2, <1>4, <1>6 DEF Holders, Holding, Side
  <2>4. c \notin Holders(s)
    BY <1>2 DEF Holders, Holding
  <2>5. MaxBatch \in Nat
    BY RingAssumption
  <2>6. e <= head'[s]
    BY <1>3, <1>7, <2>2, <2>5 DEF Clear
  <2>7. \A d \in Holders(s)' : e <= op'[d].head
    BY <1>3, <1>4, <1>6, <2>2, <2>3, <2>4 DEF Clear, Holders
  <2>8. e = head'[s] \/ \E d \in Holders(s)' : op'[d].head = e
    <3>1. CASE s # Side(c)
      <4>1. head'[s] = head[s] /\ \A d \in Holders(s) : d \in Holders(s)' /\ op'[d] = op[d]
        BY <1>6, <1>7, <2>3, <2>4, <3>1 DEF Holders
      <4> QED
        BY <2>2, <4>1
    <3>2. CASE s = Side(c)
      <4>1. \A d \in Holders(s) : d \in Holders(s)' /\ op'[d] = op[d]
        BY <1>6, <2>3, <2>4 DEF Holders
      <4>2. c \in Holders(s)' /\ op'[c].head = head[s]
        BY <1>3, <1>4, <1>6, <2>3, <3>2
      <4> QED
        BY <2>2, <4>1, <4>2
    <3> QED
      BY <3>1, <3>2
  <2>9. (RingInv => FinishedOnly)'
    BY FinishedUnique, PTL
  <2>10. Clear(s, e)'
    BY <2>6, <2>7 DEF Clear
  <2> QED
    BY <2>1, <2>8, <2>9, <2>10 DEF FinishedOnly
<1> QED
  BY <1>2, <1>3, <1>4, <1>6, <1>7, <1>8, <1>9, <1>10

\* A claim reserves slots whose items were all read.
LEMMA ClaimEntries ==
  ASSUME RingInv, RingInv', EntriesTrue, NEW c \in Callers, claim(c),
         head[Side(c)] = op[c].head
  PROVE  EntriesTrue'
<1>1. PICK h \in Nat, n \in 1..MaxBatch :
        /\ h = head[Side(c)] /\ h + n <= Limit(c)
        /\ head' = [s \in Sides |-> IF s = Side(c) THEN h + n ELSE head[s]]
        /\ Owned(c) = {} /\ Owned(c)' = h..h + n - 1
        /\ op[c].pc = "claim" /\ op'[c].pc = "copy" /\ entries' = entries
        /\ \A d \in Callers : d # c => op'[d] = op[d] /\ Owned(d)' = Owned(d)
  BY ClaimEffect
<1>2. /\ MaxBatch \in Nat /\ Producers \cap Consumers = {}
      /\ \A s \in Sides : head[s] \in Nat /\ Finished(s) \in Nat /\ frontier[s] <= Finished(s)
      /\ \A s \in Sides : frontier[s] \in Nat
  BY RingAssumption, FinishedIs DEF FinishedFacts, RingInv, Typed
<1>3. OwnerFacts
  BY OwnersAre
<1>4. ASSUME NEW p \in Kept' PROVE p \in Kept
  <2>1. CASE \E d \in Consumers : p \in Owned(d)' /\ op'[d].pc = "copy"
    <3>1. PICK d \in Consumers : p \in Owned(d)' /\ op'[d].pc = "copy"
      BY <2>1
    <3>2. CASE d # c
      <4>1. p \in Owned(d) /\ op[d].pc = "copy"
        BY <1>1, <3>1, <3>2 DEF Callers
      <4> QED
        BY <4>1 DEF Kept
    <3>3. CASE d = c
      <4>1. /\ Side(c) = "consumer" /\ Limit(c) = frontier["producer"]
            /\ h = head["consumer"] /\ p \in h..h + n - 1
        BY <1>1, <1>2, <3>1, <3>3 DEF Side, Limit
      <4>2. p >= head["consumer"] /\ p < Finished("producer") /\ p \in Nat
        BY <1>1, <1>2, <4>1 DEF Sides
      <4>3. p \in head["consumer"]..head["producer"] - 1
        BY <1>2, <1>3, <4>2 DEF OwnerFacts, Sides
      <4>4. \A g \in Producers : p \notin Owned(g)
        BY <1>2, <1>3, <4>2 DEF OwnerFacts, Sides
      <4> QED
        BY <4>3, <4>4 DEF Kept
    <3> QED
      BY <3>2, <3>3
  <2>2. CASE /\ p \in head'["consumer"]..head'["producer"] - 1
             /\ \A d \in Producers : op'[d].pc = "copy" => p \notin Owned(d)'
    <3>1. \A d \in Producers : op[d].pc = "copy" => p \notin Owned(d)
      <4> SUFFICES ASSUME NEW d \in Producers, op[d].pc = "copy"
                   PROVE  p \notin Owned(d)
        OBVIOUS
      <4>1. CASE d = c
        BY <1>1, <4>1
      <4>2. CASE d # c
        BY <1>1, <2>2, <4>2 DEF Callers
      <4> QED
        BY <4>1, <4>2
    <3>2. p \in head["consumer"]..head["producer"] - 1
      <4>1. CASE c \in Producers
        <5>1. /\ head'["producer"] = h + n /\ h = head["producer"]
              /\ head'["consumer"] = head["consumer"] /\ p \notin h..h + n - 1
          BY <1>1, <2>2, <4>1 DEF Side, Sides
        <5> QED
          BY <1>2, <2>2, <5>1 DEF Sides
      <4>2. CASE c \in Consumers
        <5>1. /\ head'["producer"] = head["producer"] /\ head'["consumer"] = h + n
              /\ h = head["consumer"]
          BY <1>1, <1>2, <4>2 DEF Side, Sides
        <5> QED
          BY <1>2, <2>2, <5>1 DEF Sides
      <4> QED
        BY <4>1, <4>2 DEF Callers
    <3> QED
      BY <3>1, <3>2 DEF Kept
  <2> QED
    BY <2>1, <2>2 DEF Kept
<1> QED
  BY <1>1, <1>4 DEF EntriesTrue, Slot, ValueAt

\* What a publication changes.
LEMMA PublishEffect ==
  ASSUME RingInv, RingInv', NEW c \in Callers, publish(c)
  PROVE  /\ head' = head /\ entries' = entries /\ op[c].pc = "publish"
         /\ Owned(c)' = {} /\ Owned(c) = op[c].head..op[c].head + op[c].count - 1
         /\ op'[c].pc = "idle"
         /\ \A d \in Callers : d # c => op'[d] = op[d] /\ Owned(d)' = Owned(d)
         /\ Finished(Other(c))' = Finished(Other(c))
<1>1. op' = [d \in Callers |-> IF d = c THEN Idle ELSE op[d]]
  BY DEF publish, Step, RingInv, Typed
<1>2. op'[c] = Idle /\ \A d \in Callers : d # c => op'[d] = op[d]
  BY <1>1
<1>3. head' = head /\ entries' = entries /\ op[c].pc = "publish"
  BY DEF publish
<1>4. Owned(c)' = {} /\ Owned(c) = op[c].head..op[c].head + op[c].count - 1
  BY <1>2, <1>3, IdleLocals DEF Owned
<1>5. \A d \in Callers : d # c => op'[d] = op[d] /\ Owned(d)' = Owned(d)
  BY <1>2 DEF Owned
<1>6. Unfinished(Other(c))' = Unfinished(Other(c))
  BY <1>5, SidesOf DEF Unfinished, Side, Other
<1>7. Finished(Other(c))' = Finished(Other(c))
  BY <1>3, <1>6 DEF Finished, Other
<1> QED
  BY <1>2, <1>3, <1>4, <1>5, <1>7, IdleLocals

\* Publication touches no slot.
LEMMA PublishEntries ==
  ASSUME RingInv, RingInv', EntriesTrue, NEW c \in Callers, publish(c)
  PROVE  EntriesTrue'
<1>1. \A d \in Callers : /\ op'[d].pc = "copy" <=> op[d].pc = "copy"
                         /\ op[d].pc = "copy" => Owned(d)' = Owned(d)
  BY PublishEffect
<1>2. Kept' = Kept
  BY <1>1, PublishEffect DEF Kept, Callers
<1> QED
  BY <1>2, PublishEffect DEF EntriesTrue, Slot, ValueAt

-----------------------------------------------------------------------------
(* Every position claimed is below the bound on the items.                    *)

\* Multiplication is monotonic.
LEMMA TimesMono ==
  ASSUME NEW m \in Nat, NEW a \in Nat, NEW b \in Nat, a <= b
  PROVE  m * a \in Nat /\ m * b \in Nat /\ m * a <= m * b
  OBVIOUS

\* Sets of producers are finite, and count as they should.
LEMMA LookingIs ==
  ASSUME NEW S, S \subseteq Producers, NEW T, T \subseteq S
  PROVE  /\ Cardinality(S) \in Nat /\ Cardinality(T) \in Nat
         /\ Cardinality(T) <= Cardinality(S)
         /\ MaxBatch * Cardinality(S) \in Nat /\ MaxBatch * Cardinality(T) \in Nat
         /\ MaxBatch * Cardinality(T) <= MaxBatch * Cardinality(S)
<1>1. IsFiniteSet(Producers) /\ MaxBatch \in Nat
  BY RingAssumption
<1>2. IsFiniteSet(S) /\ IsFiniteSet(T) /\ Cardinality(T) <= Cardinality(S)
  BY <1>1, FS_Subset
<1>3. Cardinality(S) \in Nat /\ Cardinality(T) \in Nat
  BY <1>2, FS_CardinalityType
<1> QED
  BY <1>1, <1>2, <1>3, TimesMono

\* A step in which no further producer may claim.
LEMMA ItemsStay ==
  ASSUME RingInv, WithinItems, head' = head, Looking' \subseteq Looking
  PROVE  WithinItems'
<1>1. PICK a, b, m, h :
        /\ a = MaxBatch * Cardinality(Looking) /\ b = MaxBatch * Cardinality(Looking')
        /\ m = MaxBatch * Cardinality(Producers) /\ h = head["producer"]
  OBVIOUS
<1>2. Looking \subseteq Producers
  BY DEF Looking
<1>3. a \in Nat /\ b \in Nat /\ b <= a /\ m \in Nat /\ h \in Nat /\ MaxPosition \in Nat
  BY <1>1, <1>2, LookingIs, RingAssumption DEF RingInv, Typed, Sides
<1>4. h + a <= MaxPosition + m
  BY <1>1 DEF WithinItems
<1>5. h + b <= MaxPosition + m
  BY <1>3, <1>4
<1> QED
  BY <1>1, <1>5 DEF WithinItems

\* A producer begins a call only while positions are left.
LEMMA ItemsLow ==
  ASSUME RingInv', head'["producer"] <= MaxPosition
  PROVE  WithinItems'
<1>1. PICK b, m, h :
        /\ b = MaxBatch * Cardinality(Looking')
        /\ m = MaxBatch * Cardinality(Producers) /\ h = head'["producer"]
  OBVIOUS
<1>2. Looking' \subseteq Producers
  BY DEF Looking
<1>3. b \in Nat /\ m \in Nat /\ b <= m /\ h \in Nat /\ MaxPosition \in Nat
  BY <1>1, <1>2, LookingIs, RingAssumption DEF RingInv, Typed, Sides
<1>4. h + b <= MaxPosition + m
  BY <1>1, <1>3
<1> QED
  BY <1>1, <1>4 DEF WithinItems

\* A claim takes its producer off those that may still claim.
LEMMA ItemsClaim ==
  ASSUME RingInv, RingInv', WithinItems, NEW c \in Callers, claim(c),
         head[Side(c)] = op[c].head
  PROVE  WithinItems'
<1>1. PICK h \in Nat, n \in 1..MaxBatch :
        /\ h = head[Side(c)]
        /\ head' = [s \in Sides |-> IF s = Side(c) THEN h + n ELSE head[s]]
        /\ op[c].pc = "claim" /\ op'[c].pc = "copy"
        /\ \A d \in Callers : d # c => op'[d] = op[d]
  BY ClaimEffect
<1>2. CASE c \notin Producers
  <2>1. head'["producer"] = head["producer"] /\ Looking' = Looking
    BY <1>1, <1>2 DEF Side, Sides, Looking, Callers
  <2> QED
    BY <2>1 DEF WithinItems
<1>3. CASE c \in Producers
  <2>1. Looking' = Looking \ {c} /\ c \in Looking
    BY <1>1, <1>3 DEF Looking, Callers
  <2>2. PICK a, m : a = Cardinality(Looking) /\ m = MaxBatch * Cardinality(Producers)
    OBVIOUS
  <2>3. a \in Nat /\ m \in Nat /\ MaxBatch \in Nat /\ MaxPosition \in Nat
    BY <2>2, LookingIs, RingAssumption DEF Looking
  <2>4. Cardinality(Looking') = a - 1 /\ a - 1 \in Nat
    <3>1. Looking \subseteq Producers
      BY DEF Looking
    <3>2. IsFiniteSet(Looking)
      BY <3>1, FS_Subset, RingAssumption
    <3>3. Cardinality(Looking \ {c}) = Cardinality(Looking) - 1
      BY <2>1, <3>2, FS_RemoveElement
    <3>4. IsFiniteSet(Looking \ {c})
      BY <2>1, <3>2, FS_RemoveElement
    <3> QED
      BY <2>1, <2>2, <3>3, <3>4, FS_CardinalityType
  <2>5. PICK b \in Nat : b = a - 1
    BY <2>4
  <2>6. MaxBatch * a = MaxBatch * b + MaxBatch /\ MaxBatch * b \in Nat
    <3>1. a = b + 1
      BY <2>3, <2>5
    <3> QED
      BY <2>3, <3>1
  <2>7. h + MaxBatch * a <= MaxPosition + m /\ head'["producer"] = h + n
    BY <1>1, <1>3, <2>2 DEF WithinItems, Side, Sides
  <2>8. h + n + MaxBatch * b <= MaxPosition + m
    BY <2>3, <2>6, <2>7
  <2> QED
    BY <2>2, <2>4, <2>5, <2>7, <2>8 DEF WithinItems
<1> QED
  BY <1>2, <1>3

\* What the fields of a cell are.
LEMMA CellFields ==
  ASSUME NEW st, NEW by, NEW p
  PROVE  CellOf(st, by, p).st = st /\ CellOf(st, by, p).by = by
  BY DEF CellOf

\* A cell stays as it is while nobody claims or finishes its position.
LEMMA SameCell ==
  ASSUME CellFacts, CellFacts', NEW p \in Nat, head["consumer"] \in Nat,
         p \in Finished("consumer")..head["producer"] - 1,
         p \in Finished("consumer")'..head'["producer"] - 1,
         \A d \in Callers : p \in Owned(d)' <=> p \in Owned(d),
         p < head'["consumer"] <=> p < head["consumer"], head'["consumer"] \in Nat
  PROVE  Cell(p)' = Cell(p)
<1>1. CASE \E c \in Producers : p \in Owned(c)
  BY <1>1 DEF CellFacts, CellOf, ValueAt, Callers
<1>2. CASE \E c \in Consumers : p \in Owned(c)
  BY <1>2 DEF CellFacts, CellOf, ValueAt, Callers
<1>3. CASE Unowned(p)
  <2>1. Unowned(p)'
    BY <1>3 DEF Unowned
  <2>2. CASE p < head["consumer"]
    BY <1>3, <2>1, <2>2 DEF CellFacts, CellOf, ValueAt
  <2>3. CASE p >= head["consumer"]
    <3>1. p >= head'["consumer"]
      BY <2>3
    <3> QED
      BY <1>3, <2>1, <2>3, <3>1 DEF CellFacts, CellOf, ValueAt
  <2> QED
    BY <2>2, <2>3
<1> QED
  BY <1>1, <1>2, <1>3 DEF Unowned, Callers

\* Where the intervals stay, so do the cells.
LEMMA FixedCells ==
  ASSUME RingInv, RingInv', EntriesTrue, EntriesTrue', Fixed
  PROVE  Cells' = Cells
<1>1. CellFacts /\ CellFacts' /\ OwnerFacts
  <2>1. (RingInv /\ EntriesTrue => CellFacts)'
    BY CellsAre, PTL
  <2> QED
    BY <2>1, CellsAre, OwnersAre
<1>2. /\ Finished("consumer")' = Finished("consumer") /\ head' = head
      /\ \A c \in Callers : Owned(c)' = Owned(c)
  BY FixedFinished DEF Fixed, Sides
<1>3. ASSUME NEW p \in Finished("consumer")..head["producer"] - 1
      PROVE  Cell(p)' = Cell(p)
  <2>1. p \in Finished("consumer")'..head'["producer"] - 1
    BY <1>2
  <2>2. p \in Nat /\ head["consumer"] \in Nat
    BY FinishedIs DEF FinishedFacts, Sides
  <2> QED
    BY <1>1, <1>2, <2>1, <2>2, SameCell
<1>4. PICK f, n : f = Finished("consumer") /\ n = head["producer"] - Finished("consumer")
  OBVIOUS
<1>5. f \in Nat /\ head["producer"] \in Nat /\ n = head["producer"] - f
  BY <1>4, FinishedIs DEF FinishedFacts, Sides
<1>6. \A k \in 1..n : f + k - 1 \in f..head["producer"] - 1
  BY <1>5
<1>7. Cells = [k \in 1..n |-> Cell(f + k - 1)]
  BY <1>4 DEF Cells
<1>8. Cells' = [k \in 1..n |-> Cell(f + k - 1)']
  BY <1>2, <1>4 DEF Cells
<1> QED
  BY <1>3, <1>4, <1>6, <1>7, <1>8

-----------------------------------------------------------------------------
(* Each step is a step of the Engine or leaves the cells as they are.         *)

\* The cells as a function, before a step ...
LEMMA CellsNow ==
  ASSUME NEW f, f = Finished("consumer"), NEW n, n = head["producer"] - f
  PROVE  Cells = [k \in 1..n |-> Cell(f + k - 1)]
  BY DEF Cells

\* ... and after it.
LEMMA CellsNext ==
  ASSUME NEW f, f = Finished("consumer")', NEW n, n = head'["producer"] - f
  PROVE  Cells' = [k \in 1..n |-> Cell(f + k - 1)']
  BY DEF Cells

\* Concatenation as a function.
LEMMA Concat ==
  ASSUME NEW m \in Nat, NEW n \in Nat, NEW s, NEW t,
         s = [k \in 1..m |-> s[k]], t = [k \in 1..n |-> t[k]]
  PROVE  s \o t = [k \in 1..m + n |-> IF k <= m THEN s[k] ELSE t[k - m]]
<1> DEFINE S == {s[k] : k \in 1..m} \cup {t[k] : k \in 1..n}
<1>1. s \in Seq(S) /\ Len(s) = m
  OBVIOUS
<1>2. t \in Seq(S) /\ Len(t) = n
  OBVIOUS
<1> HIDE DEF S
<1> QED
  BY <1>1, <1>2

\* The cells by their index.
LEMMA CellAt ==
  ASSUME RingInv, EntriesTrue,
         NEW f, f = Finished("consumer"), NEW m, m = head["producer"] - f
  PROVE  /\ f \in Nat /\ m \in Nat /\ head["producer"] = f + m
         /\ Cells = [k \in 1..m |-> Cells[k]]
         /\ \A p \in f..f + m - 1 :
              /\ p - f + 1 \in 1..m /\ Cells[p - f + 1] = Cell(p)
              /\ p \in Finished("consumer")..head["producer"] - 1
         /\ \A k \in 1..m : f + k - 1 \in f..f + m - 1 /\ k = f + k - 1 - f + 1
<1>1. f \in Nat /\ m \in Nat /\ head["producer"] = f + m
  <2>1. OwnerFacts /\ FinishedFacts
    BY OwnersAre, FinishedIs
  <2> QED
    BY <2>1 DEF OwnerFacts, FinishedFacts, Sides
<1>2. Cells = [k \in 1..m |-> Cell(f + k - 1)]
  BY CellsNow
<1>3. Cells = [k \in 1..m |-> Cells[k]]
  BY <1>2
<1>4. ASSUME NEW p \in f..f + m - 1
      PROVE  /\ p - f + 1 \in 1..m /\ Cells[p - f + 1] = Cell(p)
             /\ p \in Finished("consumer")..head["producer"] - 1
  <2>1. p - f + 1 \in 1..m /\ f + (p - f + 1) - 1 = p
    BY <1>1
  <2>2. PICK k \in 1..m : k = p - f + 1 /\ f + k - 1 = p
    BY <2>1
  <2>3. Cells[k] = Cell(p)
    BY <1>2, <2>2
  <2> QED
    BY <1>1, <2>2, <2>3
<1>5. \A k \in 1..m : f + k - 1 \in f..f + m - 1 /\ k = f + k - 1 - f + 1
  BY <1>1
<1> QED
  BY <1>1, <1>3, <1>4, <1>5

\* The state of a cell tells who owns its position.
LEMMA CellState ==
  ASSUME RingInv, EntriesTrue, NEW p \in Finished("consumer")..head["producer"] - 1
  PROVE  /\ Cell(p).st \in {"reading", "free"} <=> p < head["consumer"]
         /\ Cell(p).st = "ready" <=> Unowned(p) /\ p >= head["consumer"]
         /\ Cell(p).st = "free" <=> Unowned(p) /\ p < head["consumer"]
         /\ \A c \in Producers :
              Cell(p).st = "writing" /\ Cell(p).by = c <=> p \in Owned(c)
         /\ \A c \in Consumers :
              Cell(p).st = "reading" /\ Cell(p).by = c <=> p \in Owned(c)
<1>1. CellFacts /\ OwnerFacts /\ FinishedFacts
  BY CellsAre, OwnersAre, FinishedIs
<1>2. p \in Nat /\ head["consumer"] \in Nat
  BY <1>1 DEF FinishedFacts, Sides
<1>3. CASE \E c \in Producers : p \in Owned(c)
  <2>1. PICK c \in Producers : p \in Owned(c)
    BY <1>3
  <2>2. c \in Callers /\ ~Unowned(p) /\ p >= head["consumer"]
    BY <1>1, <2>1 DEF Callers, Unowned, OwnerFacts
  <2>3. \A d \in Callers : p \in Owned(d) => d = c
    BY <1>1, <2>1, <2>2 DEF OwnerFacts
  <2>4. Cell(p).st = "writing" /\ Cell(p).by = c
    BY <1>1, <2>1 DEF CellFacts, CellOf
  <2>5. \A d \in Consumers : p \notin Owned(d)
    BY <2>1, <2>3, RingAssumption DEF Callers
  <2> QED
    BY <1>2, <2>1, <2>2, <2>3, <2>4, <2>5 DEF Callers
<1>4. CASE \E c \in Consumers : p \in Owned(c)
  <2>1. PICK c \in Consumers : p \in Owned(c)
    BY <1>4
  <2>2. c \in Callers /\ ~Unowned(p) /\ p < head["consumer"]
    BY <1>1, <2>1 DEF Callers, Unowned, OwnerFacts
  <2>3. \A d \in Callers : p \in Owned(d) => d = c
    BY <1>1, <2>1, <2>2 DEF OwnerFacts
  <2>4. Cell(p).st = "reading" /\ Cell(p).by = c
    BY <1>1, <2>1 DEF CellFacts, CellOf
  <2>5. \A d \in Producers : p \notin Owned(d)
    BY <2>1, <2>3, RingAssumption DEF Callers
  <2> QED
    BY <1>2, <2>1, <2>2, <2>3, <2>4, <2>5 DEF Callers
<1>5. CASE Unowned(p)
  <2>1. Cell(p).st = IF p < head["consumer"] THEN "free" ELSE "ready"
    BY <1>1, <1>2, <1>5 DEF CellFacts, CellOf
  <2> QED
    BY <1>2, <1>5, <2>1 DEF Unowned, Callers
<1> QED
  BY <1>3, <1>4, <1>5 DEF Unowned, Callers

\* A cell passes from one owner to the next, or to nobody.
Passed(cell, st, by) == [cell EXCEPT !.st = st, !.by = by]

\* A cell passes to another state.
LEMMA CellPasses ==
  ASSUME NEW st, NEW by, NEW p, NEW st2, NEW by2
  PROVE  Passed(CellOf(st, by, p), st2, by2) = CellOf(st2, by2, p)
<1> DEFINE F == {"st", "by", "item"}
           x == [f \in F |-> IF f = "st" THEN st ELSE IF f = "by" THEN by ELSE ValueAt(p)]
<1>1. CellOf(st, by, p) = x
  BY DEF CellOf
<1>2. [x EXCEPT !.st = st2, !.by = by2]
        = [f \in F |-> IF f = "st" THEN st2 ELSE IF f = "by" THEN by2 ELSE ValueAt(p)]
  OBVIOUS
<1>3. CellOf(st2, by2, p)
        = [f \in F |-> IF f = "st" THEN st2 ELSE IF f = "by" THEN by2 ELSE ValueAt(p)]
  BY DEF CellOf
<1>4. Passed(x, st2, by2) = CellOf(st2, by2, p)
  BY <1>2, <1>3 DEF Passed
<1> QED
  BY <1>1, <1>4

\* A producer's reservation appends its cells, which it is writing.
LEMMA ReserveStep ==
  ASSUME FullInv, FullInv', NEW c \in Producers, claim(c), head[Side(c)] = op[c].head
  PROVE  engine!Step
<1>0. c \in Callers /\ c \notin Consumers
  BY RingAssumption DEF Callers
<1>1. PICK h \in Nat, n \in 1..MaxBatch :
        /\ h = head[Side(c)] /\ h + n <= Limit(c)
        /\ head' = [s \in Sides |-> IF s = Side(c) THEN h + n ELSE head[s]]
        /\ Owned(c) = {} /\ Owned(c)' = h..h + n - 1
        /\ \A d \in Callers : d # c => op'[d] = op[d] /\ Owned(d)' = Owned(d)
        /\ \A s \in Sides : Finished(s)' = Finished(s)
  BY <1>0, ClaimEffect DEF FullInv
<1>2. /\ OwnerFacts /\ CellFacts /\ CellFacts' /\ FinishedFacts
  <2>1. (RingInv /\ EntriesTrue => CellFacts)'
    BY CellsAre, PTL
  <2> QED
    BY <2>1, CellsAre, OwnersAre, FinishedIs DEF FullInv
<1>3. PICK f, m : f = Finished("consumer") /\ m = h - f
  OBVIOUS
<1>4. /\ h = head["producer"] /\ head'["producer"] = h + n
      /\ head'["consumer"] = head["consumer"] /\ f = Finished("consumer")'
  BY <1>1, <1>3 DEF Side, Sides
<1>5. /\ f \in Nat /\ m \in Nat /\ h = f + m /\ MaxBatch \in Nat /\ Capacity \in Nat
      /\ m + n <= Capacity /\ head["consumer"] \in Nat /\ f <= h
  <2>1. /\ f \in Nat /\ head["consumer"] \in Nat /\ Finished("producer") \in Nat
        /\ f <= head["consumer"] /\ head["consumer"] <= Finished("producer")
        /\ Finished("producer") <= h
    BY <1>2, <1>3, <1>4 DEF OwnerFacts, FinishedFacts, Sides
  <2>2. Limit(c) = frontier["consumer"] + Capacity /\ frontier["consumer"] \in Nat
    BY DEF Limit, FullInv, RingInv, Typed, Sides
  <2>3. frontier["consumer"] <= f
    BY <1>2, <1>3 DEF FinishedFacts, Sides
  <2>4. MaxBatch \in Nat /\ Capacity \in Nat
    BY RingAssumption
  <2> QED
    <3>1. h + n <= frontier["consumer"] + Capacity
      BY <1>1, <2>2
    <3>2. n \in Nat
      BY <2>4
    <3> QED
      BY <1>3, <2>1, <2>2, <2>3, <2>4, <3>1, <3>2
<1>6. Cells = [k \in 1..m |-> Cell(f + k - 1)]
  BY <1>3, <1>4, CellsNow
<1>7. Cells' = [k \in 1..m + n |-> Cell(f + k - 1)']
  <2>1. m + n = head'["producer"] - f
    BY <1>4, <1>5
  <2> QED
    BY <1>4, <2>1, CellsNext
<1>8. ASSUME NEW p \in f..h - 1 PROVE Cell(p)' = Cell(p)
  <2>1. /\ p \in Finished("consumer")..head["producer"] - 1 /\ p \in Nat
        /\ p \in Finished("consumer")'..head'["producer"] - 1 /\ p \notin Owned(c)'
    <3>1. /\ p \in f..h + n - 1 /\ p \in Nat /\ p \notin h..h + n - 1
      BY <1>5
    <3> QED
      BY <1>1, <1>3, <1>4, <3>1
  <2>2. \A d \in Callers : p \in Owned(d)' <=> p \in Owned(d)
    BY <1>1, <2>1
  <2> QED
    BY <1>2, <1>4, <1>5, <2>1, <2>2, SameCell
<1>9. ASSUME NEW p \in h..h + n - 1
      PROVE  Cell(p)' = [st |-> "writing", by |-> c, item |-> p + 1]
  <2>1. p \in Finished("consumer")'..head'["producer"] - 1 /\ p \in Owned(c)'
    BY <1>1, <1>4, <1>5
  <2> QED
    BY <1>2, <2>1 DEF CellFacts, CellOf, ValueAt
<1> DEFINE items == [k \in 1..n |-> h + k]
           new == [k \in 1..n |-> [st |-> "writing", by |-> c, item |-> items[k]]]
<1>10. Len(items) = n /\ n \in Nat
  BY <1>5
<1>11. Cells' = Cells \o new
  <2>1. Cells \o new = [k \in 1..m + n |-> IF k <= m THEN Cells[k] ELSE new[k - m]]
    <3>1. Cells = [k \in 1..m |-> Cells[k]]
      BY <1>6
    <3>2. new = [k \in 1..n |-> new[k]]
      OBVIOUS
    <3> HIDE DEF new
    <3> QED
      <4>1. m \in Nat /\ n \in Nat
        BY <1>5, <1>10
      <4> QED
        BY <3>1, <3>2, <4>1, Concat
  <2>2. ASSUME NEW k \in 1..m + n
        PROVE  Cell(f + k - 1)' = IF k <= m THEN Cells[k] ELSE new[k - m]
    <3>1. CASE k <= m
      <4>1. f + k - 1 \in f..h - 1 /\ k \in 1..m
        BY <1>5, <1>10, <3>1
      <4>2. PICK p : p = f + k - 1
        OBVIOUS
      <4> QED
        BY <1>6, <1>8, <3>1, <4>1, <4>2
    <3>2. CASE ~(k <= m)
      <4>1. f + k - 1 \in h..h + n - 1 /\ k - m \in 1..n /\ f + k - 1 + 1 = h + (k - m)
        BY <1>5, <1>10, <3>2
      <4>2. PICK p : p = f + k - 1
        OBVIOUS
      <4>3. Cell(p)' = [st |-> "writing", by |-> c, item |-> p + 1]
        BY <1>9, <4>1, <4>2
      <4>4. new[k - m] = [st |-> "writing", by |-> c, item |-> h + (k - m)]
        BY <4>1
      <4> QED
        BY <3>2, <4>1, <4>2, <4>3, <4>4
    <3> QED
      BY <3>1, <3>2
  <2> QED
    BY <1>7, <2>1, <2>2
<1>12. items \in [1..n -> 1..MaxPosition + MaxBatch * Cardinality(Producers)]
  <2>1. PICK b, q : b = MaxBatch * Cardinality(Looking') /\ q = MaxBatch * Cardinality(Producers)
    OBVIOUS
  <2>2. Looking' \subseteq Producers
    BY DEF Looking
  <2>3. b \in Nat /\ q \in Nat /\ MaxPosition \in Nat
    BY <2>1, <2>2, LookingIs, RingAssumption
  <2>4. h + n + b <= MaxPosition + q
    BY <1>4, <2>1 DEF FullInv, WithinItems
  <2>5. \A k \in 1..n : h + k \in 1..MaxPosition + q
    BY <1>10, <2>3, <2>4
  <2> QED
    BY <2>1, <2>5
<1>13. engine!Room = Capacity - m
  <2>1. Len(Cells) = m
    BY <1>5, <1>6
  <2> QED
    BY <2>1 DEF engine!Room
<1>14. n \in 1..engine!Room
  BY <1>5, <1>10, <1>13
<1>15. engine!Claimed("writing", c) = {}
  <2> SUFFICES ASSUME NEW k \in 1..m, Cell(f + k - 1).st = "writing", Cell(f + k - 1).by = c
               PROVE  FALSE
    BY <1>6 DEF engine!Claimed
  <2>1. PICK p : p = f + k - 1
    OBVIOUS
  <2>2. p \in Finished("consumer")..head["producer"] - 1 /\ p \in Nat
    BY <1>3, <1>4, <1>5, <2>1
  <2>3. CASE \E d \in Producers : p \in Owned(d)
    BY <1>1, <1>2, <2>1, <2>2, <2>3, CellFields DEF CellFacts
  <2>4. CASE \E d \in Consumers : p \in Owned(d)
    BY <1>2, <2>1, <2>2, <2>4, CellFields DEF CellFacts
  <2>5. CASE Unowned(p)
    <3>1. p < head["consumer"] \/ p >= head["consumer"]
      BY <1>5, <2>2
    <3> QED
      BY <1>2, <2>1, <2>2, <2>5, <3>1, CellFields DEF CellFacts
  <2> QED
    BY <2>3, <2>4, <2>5 DEF Unowned, Callers
<1>16. engine!reserve(c, items)
  BY <1>10, <1>11, <1>14 DEF engine!reserve
<1> HIDE DEF items, new
<1> QED
  BY <1>12, <1>14, <1>15, <1>16 DEF engine!Step

\* A producer's publication makes its cells ready.
LEMMA CompleteStep ==
  ASSUME FullInv, FullInv', NEW c \in Producers, publish(c)
  PROVE  engine!Step
<1>0. c \in Callers /\ Other(c) = "consumer"
  BY DEF Callers, Other
<1>1. /\ head' = head /\ Owned(c)' = {} /\ Finished("consumer")' = Finished("consumer")
      /\ \A d \in Callers : d # c => Owned(d)' = Owned(d)
  BY <1>0, PublishEffect DEF FullInv
<1>2. PICK f, m : f = Finished("consumer") /\ m = head["producer"] - f
  OBVIOUS
<1>3. /\ CellFacts /\ CellFacts' /\ OwnerFacts /\ head["consumer"] \in Nat
  <2>1. (RingInv /\ EntriesTrue => CellFacts)'
    BY CellsAre, PTL
  <2> QED
    BY <2>1, CellsAre, OwnersAre, FinishedIs DEF FullInv, FinishedFacts, Sides
<1>4. /\ f \in Nat /\ m \in Nat /\ head["producer"] = f + m
      /\ Cells = [k \in 1..m |-> Cells[k]]
      /\ \A p \in f..f + m - 1 :
           /\ p - f + 1 \in 1..m /\ Cells[p - f + 1] = Cell(p)
           /\ p \in Finished("consumer")..head["producer"] - 1
      /\ \A k \in 1..m : f + k - 1 \in f..f + m - 1 /\ k = f + k - 1 - f + 1
  BY <1>2, CellAt DEF FullInv
<1>5. Cells' = [k \in 1..m |-> Cell(f + k - 1)']
  BY <1>1, <1>2, CellsNext
<1>6. ASSUME NEW k \in 1..m
      PROVE  Cell(f + k - 1)' = IF k \in engine!Claimed("writing", c)
                                THEN Passed(Cells[k], "ready", "nobody")
                                ELSE Cells[k]
  <2>1. PICK p : p = f + k - 1
    OBVIOUS
  <2>2. /\ p \in f..f + m - 1 /\ p \in Nat /\ Cells[k] = Cell(p)
        /\ p \in Finished("consumer")..head["producer"] - 1
        /\ p \in Finished("consumer")'..head'["producer"] - 1
    <3>1. p \in f..f + m - 1 /\ k = p - f + 1
      BY <1>4, <2>1
    <3>2. p \in Nat
      BY <1>4, <3>1
    <3> QED
      BY <1>1, <1>4, <3>1, <3>2
  <2>3. k \in engine!Claimed("writing", c) <=> p \in Owned(c)
    <3>1. k \in engine!Claimed("writing", c) <=> Cell(p).st = "writing" /\ Cell(p).by = c
      BY <1>4, <2>2 DEF engine!Claimed
    <3> QED
      BY <2>2, <3>1, CellState DEF FullInv
  <2>4. CASE p \in Owned(c)
    <3>1. Cells[k] = CellOf("writing", c, p)
      BY <1>3, <2>2, <2>4 DEF CellFacts
    <3>2. Unowned(p)' /\ p >= head'["consumer"]
      BY <1>0, <1>1, <1>3, <2>2, <2>4 DEF Unowned, OwnerFacts
    <3>3. Cell(p)' = CellOf("ready", "nobody", p)
      BY <1>3, <2>2, <3>2 DEF CellFacts, CellOf, ValueAt
    <3>4. Passed(Cells[k], "ready", "nobody") = CellOf("ready", "nobody", p)
      BY <3>1, CellPasses
    <3> QED
      BY <2>1, <2>3, <2>4, <3>3, <3>4
  <2>5. CASE p \notin Owned(c)
    <3>1. \A d \in Callers : p \in Owned(d)' <=> p \in Owned(d)
      BY <1>1, <2>5
    <3>2. Cell(p)' = Cell(p)
      BY <1>1, <1>3, <2>2, <3>1, SameCell
    <3> QED
      BY <2>1, <2>2, <2>3, <2>5, <3>2
  <2> QED
    BY <2>4, <2>5
<1>7. engine!complete(c)
  <2>1. DOMAIN Cells = 1..m
    BY <1>4
  <2>2. Cells' = [k \in 1..m |-> IF k \in engine!Claimed("writing", c)
                                 THEN Passed(Cells[k], "ready", "nobody")
                                 ELSE Cells[k]]
    BY <1>5, <1>6
  <2> QED
    BY <2>1, <2>2 DEF engine!complete, engine!Nobody, Passed
<1> QED
  BY <1>7 DEF engine!Step

\* The least element of an interval.
LEMMA MinInterval ==
  ASSUME NEW a \in Int, NEW b \in Int, a <= b
  PROVE  Min(a..b) = a
<1>1. a \in a..b /\ \A y \in a..b : a <= y
  OBVIOUS
<1>2. \A x \in a..b : (\A y \in a..b : x <= y) => x = a
  OBVIOUS
<1> QED
  BY <1>1, <1>2 DEF Min

\* The cells a consumer may take: those of the finished run of the producers.
LEMMA AvailableIs ==
  ASSUME RingInv, EntriesTrue,
         NEW f, f = Finished("consumer"), NEW g, g = Finished("producer"),
         NEW h, h = head["consumer"]
  PROVE  engine!AvailableRun = h - f + 1..g - f
<1>0. PICK m : m = head["producer"] - f
  OBVIOUS
<1>1. /\ f \in Nat /\ m \in Nat /\ head["producer"] = f + m
      /\ Cells = [k \in 1..m |-> Cells[k]]
      /\ \A p \in f..f + m - 1 :
           /\ p - f + 1 \in 1..m /\ Cells[p - f + 1] = Cell(p)
           /\ p \in Finished("consumer")..head["producer"] - 1
      /\ \A k \in 1..m : f + k - 1 \in f..f + m - 1 /\ k = f + k - 1 - f + 1
  BY <1>0, CellAt
<1>2. OwnerFacts /\ FinishedFacts
  BY OwnersAre, FinishedIs
<1>3. h \in Nat /\ g \in Nat /\ f <= h /\ h <= g /\ g <= f + m
  BY <1>1, <1>2 DEF OwnerFacts, FinishedFacts, Sides
<1>4. DOMAIN Cells = 1..m /\ f \in Nat /\ m \in Nat
  BY <1>1
<1>5. ASSUME NEW k \in 1..m, NEW p, p = f + k - 1
      PROVE  /\ p \in Nat /\ p \in f..f + m - 1 /\ Cells[k] = Cell(p)
             /\ k \in engine!Taken <=> p < h
             /\ p >= h /\ p < g => Cells[k].st = "ready"
  <2>1. p \in Nat /\ Cells[k] = Cell(p) /\ p \in f..f + m - 1
    <3>1. p \in f..f + m - 1 /\ k = p - f + 1
      BY <1>1, <1>5
    <3>2. p \in Nat
      BY <1>1, <3>1
    <3> QED
      BY <1>1, <3>1, <3>2
  <2>2. Cells[k].st \in {"reading", "free"} <=> p < h
    BY <1>1, <2>1, CellState
  <2>3. k \in engine!Taken <=> p < h
    BY <1>4, <2>2 DEF engine!Taken
  <2>4. ASSUME p >= h, p < g PROVE Cells[k].st = "ready"
    <3>1. Unowned(p)
      BY <1>2, <1>3, <2>1, <2>4 DEF OwnerFacts, Unowned, Callers
    <3> QED
      BY <1>1, <2>1, <2>4, <3>1, CellState
  <2> QED
    BY <2>1, <2>3, <2>4
<1>6. ASSUME NEW k \in h - f + 1..g - f
      PROVE  k \in engine!AvailableRun
  <2>1. k \in 1..m /\ f + k - 1 >= h /\ f + k - 1 < g
    BY SMTT(30), <1>1, <1>3
  <2>2. k \in DOMAIN Cells \ engine!Taken
    BY <1>1, <1>3, <1>4, <1>5, <2>1
  <2>3. ASSUME NEW j \in DOMAIN Cells \ engine!Taken, j <= k
        PROVE  Cells[j].st = "ready"
    <3>1. j \in 1..m
      BY <1>4
    <3>2. ~(f + j - 1 < h)
      BY <1>5, <2>3, <3>1
    <3>3. f + j - 1 >= h /\ f + j - 1 < g
      <4>1. f \in Nat /\ h \in Nat /\ g \in Nat /\ j \in Nat /\ k \in Nat /\ j <= k
        BY <1>3, <1>4, <2>1, <2>3, <3>1
      <4> QED
        BY <2>1, <3>2, <4>1
    <3> QED
      BY <1>5, <3>1, <3>3
  <2> QED
    BY <2>2, <2>3 DEF engine!AvailableRun
<1>7. ASSUME NEW k \in engine!AvailableRun
      PROVE  k \in h - f + 1..g - f
  <2>1. k \in 1..m /\ k \notin engine!Taken
    BY <1>4 DEF engine!AvailableRun
  <2>2. ~(f + k - 1 < h)
    BY <1>5, <2>1
  <2>3. f + k - 1 < g
    <3> SUFFICES ASSUME ~(f + k - 1 < g) PROVE FALSE
      OBVIOUS
    <3>1. g < head["producer"] /\ g - f + 1 \in 1..m /\ g - f + 1 <= k
      BY SMTT(30), <1>1, <1>3, <2>1
    <3>2. PICK d \in Holders("producer") : op[d].head = g
      BY <1>2, <1>3, <3>1 DEF FinishedFacts, Sides
    <3>3. g \in Owned(d) /\ d \in Producers
      <4>1. d \in Callers /\ Side(d) = "producer" /\ Holding(op[d])
        BY <3>2 DEF Holders
      <4>2. op[d].count \in 1..MaxBatch /\ MaxBatch \in Nat
        BY <4>1, RingAssumption DEF RingInv, Claimed
      <4>3. g \in g..g + op[d].count - 1
        BY <1>3, <4>2
      <4> QED
        BY <3>2, <4>1, <4>3 DEF Owned, Holding, Side
    <3>4. PICK j \in 1..m : j = g - f + 1 /\ f + j - 1 = g
      BY <1>1, <1>3, <3>1
    <3>5. j \in DOMAIN Cells \ engine!Taken /\ Cells[j] = Cell(g)
      <4>1. ~(g < h)
        BY <1>3
      <4> QED
        BY <1>4, <1>5, <3>4, <4>1
    <3>6. Cell(g).st = "writing"
      BY <1>1, <1>5, <3>3, <3>4, CellState
    <3> QED
      BY <3>1, <3>4, <3>5, <3>6 DEF engine!AvailableRun
  <2> QED
    BY <1>1, <1>3, <2>1, <2>2, <2>3
<1> QED
  BY <1>6, <1>7

\* A consumer's reservation takes the oldest available cells.
LEMMA TakeStep ==
  ASSUME FullInv, FullInv', NEW c \in Consumers, claim(c), head[Side(c)] = op[c].head
  PROVE  engine!Step
<1>0. c \in Callers /\ Side(c) = "consumer" /\ Limit(c) = frontier["producer"]
  BY RingAssumption DEF Callers, Side, Limit
<1>1. PICK h \in Nat, n \in 1..MaxBatch :
        /\ h = head[Side(c)] /\ h + n <= Limit(c)
        /\ head' = [s \in Sides |-> IF s = Side(c) THEN h + n ELSE head[s]]
        /\ Owned(c) = {} /\ Owned(c)' = h..h + n - 1
        /\ \A d \in Callers : d # c => Owned(d)' = Owned(d)
        /\ \A s \in Sides : Finished(s)' = Finished(s)
  BY <1>0, ClaimEffect DEF FullInv
<1>2. PICK f, g, m : /\ f = Finished("consumer") /\ g = Finished("producer")
                     /\ m = head["producer"] - f
  OBVIOUS
<1>3. /\ CellFacts /\ CellFacts' /\ OwnerFacts /\ FinishedFacts
  <2>1. (RingInv /\ EntriesTrue => CellFacts)'
    BY CellsAre, PTL
  <2> QED
    BY <2>1, CellsAre, OwnersAre, FinishedIs DEF FullInv
<1>4. /\ Cells = [k \in 1..m |-> Cells[k]]
      /\ \A p \in f..f + m - 1 :
           /\ p - f + 1 \in 1..m /\ Cells[p - f + 1] = Cell(p)
           /\ p \in Finished("consumer")..head["producer"] - 1
      /\ \A k \in 1..m : f + k - 1 \in f..f + m - 1 /\ k = f + k - 1 - f + 1
  BY <1>2, CellAt DEF FullInv
<1>5. /\ h = head["consumer"] /\ head'["consumer"] = h + n
      /\ head'["producer"] = head["producer"] /\ f = Finished("consumer")'
  BY <1>0, <1>1, <1>2 DEF Sides
<1>6. /\ f \in Nat /\ m \in Nat /\ g \in Nat /\ n \in Nat /\ n >= 1 /\ n <= Capacity
      /\ Capacity \in Nat
      /\ f <= h /\ h + n <= g /\ g <= f + m /\ head["producer"] = f + m
  <2>1. /\ f \in Nat /\ g \in Nat /\ f <= h /\ h <= g /\ g <= head["producer"]
        /\ head["producer"] \in Nat /\ frontier["producer"] <= g
    BY <1>2, <1>3, <1>5 DEF OwnerFacts, FinishedFacts, Sides
  <2>2. MaxBatch \in Nat /\ Capacity \in Nat /\ MaxBatch <= Capacity
    BY RingAssumption
  <2>3. h + n <= frontier["producer"] /\ frontier["producer"] \in Nat
    BY <1>0, <1>1 DEF FullInv, RingInv, Typed, Sides
  <2>4. n \in Nat /\ n >= 1 /\ n <= Capacity
    BY <2>2
  <2>5. m = head["producer"] - f
    BY <1>2
  <2> QED
    BY <2>1, <2>2, <2>3, <2>4, <2>5
<1>7. Cells' = [k \in 1..m |-> Cell(f + k - 1)']
  BY <1>2, <1>5, CellsNext
<1>8. engine!AvailableRun = h - f + 1..g - f
  BY <1>2, <1>5, AvailableIs DEF FullInv
<1>9. engine!Min(engine!AvailableRun) = h - f + 1
  <2>1. engine!Min(h - f + 1..g - f) = Min(h - f + 1..g - f)
    BY DEF engine!Min, Min
  <2>2. h - f + 1 \in Int /\ g - f \in Int /\ h - f + 1 <= g - f
    BY <1>6
  <2>3. Min(h - f + 1..g - f) = h - f + 1
    BY <2>2, MinInterval
  <2> QED
    BY <1>8, <2>1, <2>3
<1>10. n \in 1..engine!Available
  <2>1. engine!Cardinality(h - f + 1..g - f) = Cardinality(h - f + 1..g - f)
    BY DEF engine!Cardinality, Cardinality
  <2>2. h - f + 1 \in Int /\ g - f \in Int /\ h - f + 1 <= g - f
    BY <1>6
  <2>3. Cardinality(h - f + 1..g - f) = (g - f) - (h - f + 1) + 1
    BY <2>2, FS_Interval
  <2>4. engine!Available = (g - f) - (h - f + 1) + 1
    BY <1>8, <2>1, <2>3 DEF engine!Available
  <2> QED
    BY <1>6, <2>4
<1>11. ASSUME NEW k \in 1..m
       PROVE  Cell(f + k - 1)' =
                IF k \in engine!AvailableRun /\ k < engine!Min(engine!AvailableRun) + n
                THEN Passed(Cells[k], "reading", c) ELSE Cells[k]
  <2>1. PICK p : p = f + k - 1
    OBVIOUS
  <2>2. /\ p \in f..f + m - 1 /\ p \in Nat /\ Cells[k] = Cell(p)
        /\ p \in Finished("consumer")..head["producer"] - 1
        /\ p \in Finished("consumer")'..head'["producer"] - 1
    <3>1. p \in f..f + m - 1 /\ k = p - f + 1
      BY <1>6, <2>1
    <3>2. p \in Nat
      BY <1>6, <3>1
    <3> QED
      BY <1>2, <1>4, <1>5, <3>1, <3>2
  <2>3. k \in engine!AvailableRun /\ k < engine!Min(engine!AvailableRun) + n
          <=> p \in h..h + n - 1
    <3>1. k \in h - f + 1..g - f /\ k < h - f + 1 + n <=> p \in h..h + n - 1
      BY <1>6, <2>1
    <3> QED
      BY <1>8, <1>9, <3>1
  <2>4. CASE p \in h..h + n - 1
    <3>1. p >= h /\ p < g
      BY <1>6, <2>2, <2>4
    <3>2. Unowned(p)
      BY <1>2, <1>3, <1>5, <1>6, <2>2, <3>1 DEF OwnerFacts, Unowned, Callers
    <3>3. Cells[k] = CellOf("ready", "nobody", p)
      BY <1>3, <1>5, <2>2, <3>1, <3>2 DEF CellFacts
    <3>4. Cell(p)' = CellOf("reading", c, p)
      BY <1>1, <1>3, <2>2, <2>4 DEF CellFacts, CellOf, ValueAt
    <3>5. Passed(Cells[k], "reading", c) = CellOf("reading", c, p)
      <4>1. Passed(CellOf("ready", "nobody", p), "reading", c) = CellOf("reading", c, p)
        BY SMTT(30), CellPasses
      <4> QED
        BY <3>3, <4>1, Zenon
    <3> QED
      BY <2>1, <2>3, <2>4, <3>4, <3>5
  <2>5. CASE p \notin h..h + n - 1
    <3>1. \A d \in Callers : p \in Owned(d)' <=> p \in Owned(d)
      BY <1>1, <2>5
    <3>2. (p < head'["consumer"] <=> p < head["consumer"])
          /\ head["consumer"] \in Nat /\ head'["consumer"] \in Nat
      BY SMTT(30), <1>5, <1>6, <2>2, <2>5
    <3>3. Cell(p)' = Cell(p)
      BY <1>3, <2>2, <3>1, <3>2, SameCell
    <3> QED
      BY <2>1, <2>2, <2>3, <2>5, <3>3
  <2> QED
    BY <2>4, <2>5
<1>12. engine!take(c, n)
  <2>1. DOMAIN Cells = 1..m
    BY <1>4
  <2>2. Cells' = [k \in 1..m |->
          IF k \in engine!AvailableRun /\ k < engine!Min(engine!AvailableRun) + n
          THEN Passed(Cells[k], "reading", c) ELSE Cells[k]]
    BY <1>7, <1>11
  <2> QED
    BY <1>10, <2>1, <2>2 DEF engine!take, Passed
<1>13. engine!Claimed("reading", c) = {}
  <2> SUFFICES ASSUME NEW k \in 1..m, Cells[k].st = "reading", Cells[k].by = c
               PROVE  FALSE
    BY <1>4 DEF engine!Claimed
  <2>1. PICK p : p = f + k - 1
    OBVIOUS
  <2>2. p \in f..f + m - 1 /\ k = p - f + 1
    BY <1>6, <2>1
  <2>3. Cell(p).st = "reading" /\ Cell(p).by = c /\ p \in Finished("consumer")..head["producer"] - 1
    BY <1>4, <2>2
  <2> QED
    BY <1>1, <2>3, CellState DEF FullInv
<1> QED
  <2>1. n \in 1..Capacity
    BY <1>6
  <2> QED
    BY <1>12, <1>13, <2>1 DEF engine!Step

\* A consumer's publication frees its cells, and the free cells at the front go.
LEMMA ReleaseStep ==
  ASSUME FullInv, FullInv', NEW c \in Consumers, publish(c)
  PROVE  engine!Step
<1>0. c \in Callers /\ c \notin Producers
  BY RingAssumption DEF Callers
<1>1. /\ head' = head /\ Owned(c)' = {} /\ op'[c].pc = "idle"
      /\ \A d \in Callers : d # c => op'[d] = op[d] /\ Owned(d)' = Owned(d)
  BY <1>0, PublishEffect DEF FullInv
<1>2. PICK f, e, h, m : /\ f = Finished("consumer") /\ e = Finished("consumer")'
                        /\ h = head["consumer"] /\ m = head["producer"] - f
  OBVIOUS
<1>3. /\ CellFacts /\ CellFacts' /\ OwnerFacts /\ OwnerFacts' /\ FinishedFacts /\ FinishedFacts'
  <2>1. (RingInv /\ EntriesTrue => CellFacts)'
    BY CellsAre, PTL
  <2>2. (RingInv => OwnerFacts)'
    BY OwnersAre, PTL
  <2>3. (RingInv => FinishedFacts)'
    BY FinishedIs, PTL
  <2> QED
    BY <2>1, <2>2, <2>3, CellsAre, OwnersAre, FinishedIs DEF FullInv
<1>4. /\ Cells = [k \in 1..m |-> Cells[k]]
      /\ \A p \in f..f + m - 1 :
           /\ p - f + 1 \in 1..m /\ Cells[p - f + 1] = Cell(p)
           /\ p \in Finished("consumer")..head["producer"] - 1
  BY <1>2, CellAt DEF FullInv
<1>5. e = h \/ \E d \in Consumers : e \in Owned(d)' /\ e \in Owned(d)
  <2>1. e = h \/ \E d \in Holders("consumer")' : op'[d].head = e
    BY <1>1, <1>2, <1>3 DEF FinishedFacts, Sides
  <2>2. ASSUME NEW d \in Holders("consumer")', op'[d].head = e
        PROVE  d \in Consumers /\ e \in Owned(d)' /\ e \in Owned(d)
    <3>1. d \in Callers /\ Side(d) = "consumer" /\ op'[d].pc \in {"copy", "publish"}
      BY DEF Holders, Holding, Side
    <3>2. d # c /\ op'[d] = op[d] /\ Owned(d)' = Owned(d) /\ d \in Consumers
      BY <1>1, <3>1 DEF Side, Callers
    <3>3. op[d].count \in 1..MaxBatch /\ op[d].head \in Nat /\ MaxBatch \in Nat
      BY <3>1, <3>2, RingAssumption DEF FullInv, RingInv, Claimed, Typed, Locals, Holding
    <3>4. e \in op[d].head..op[d].head + op[d].count - 1
      BY <2>2, <3>2, <3>3
    <3> QED
      BY <3>1, <3>2, <3>4 DEF Owned
  <2> QED
    BY <2>1, <2>2
<1>6. /\ f \in Nat /\ e \in Nat /\ h \in Nat /\ m \in Nat /\ head["producer"] = f + m
      /\ f <= e /\ e <= h /\ h <= f + m
  <2>1. /\ f \in Nat /\ e \in Nat /\ h \in Nat /\ head["producer"] \in Nat
        /\ Finished("producer") \in Nat
        /\ h <= Finished("producer") /\ Finished("producer") <= head["producer"]
        /\ e <= h /\ f <= h
    BY <1>1, <1>2, <1>3 DEF OwnerFacts, FinishedFacts, Sides
  <2>2. f <= e
    BY <1>2, <1>3, <1>5, <2>1 DEF OwnerFacts
  <2>3. m = head["producer"] - f
    BY <1>2
  <2> QED
    BY <2>1, <2>2, <2>3
<1> DEFINE after == [k \in 1..m |-> IF k \in engine!Claimed("reading", c)
                                    THEN Passed(Cells[k], "free", "nobody")
                                    ELSE Cells[k]]
<1>7. ASSUME NEW k \in 1..m, NEW p, p = f + k - 1
      PROVE  /\ p >= e => after[k] = Cell(p)'
             /\ p < e => after[k].st = "free"
             /\ p = e => after[k].st # "free"
  <2>2. /\ p \in f..f + m - 1 /\ p \in Nat /\ Cells[k] = Cell(p) /\ p < head'["producer"]
        /\ p \in Finished("consumer")..head["producer"] - 1
    <3>1. p \in f..f + m - 1 /\ k = p - f + 1
      BY <1>6, <1>7
    <3>2. p \in Nat /\ p < head'["producer"]
      BY <1>1, <1>6, <3>1
    <3> QED
      BY <1>4, <3>1, <3>2
  <2>3. k \in engine!Claimed("reading", c) <=> p \in Owned(c)
    <3>1. k \in engine!Claimed("reading", c) <=> Cell(p).st = "reading" /\ Cell(p).by = c
      BY <1>4, <2>2 DEF engine!Claimed
    <3> QED
      BY <2>2, <3>1, CellState DEF FullInv
  <2>4. after[k] = IF p \in Owned(c) THEN Passed(Cells[k], "free", "nobody") ELSE Cells[k]
    BY <2>3
  <2>5. p \in Owned(c) => after[k] = CellOf("free", "nobody", p)
    <3>1. p \in Owned(c) => Cells[k] = CellOf("reading", c, p)
      BY <1>3, <2>2 DEF CellFacts
    <3>2. Passed(CellOf("reading", c, p), "free", "nobody") = CellOf("free", "nobody", p)
      BY CellPasses
    <3> HIDE DEF after
    <3> QED
      BY <2>4, <3>1, <3>2
  <2> HIDE DEF after
  <2>6. p >= e => p \in Finished("consumer")'..head'["producer"] - 1
    BY SMTT(30), <1>1, <1>2, <1>6, <2>2
  <2>7. p >= e => after[k] = Cell(p)'
    <3>1. CASE p \in Owned(c)
      <4>1. Unowned(p)' /\ p < head'["consumer"]
        BY SMTT(30), <1>0, <1>1, <1>3, <3>1 DEF Unowned, OwnerFacts
      <4>2. p >= e => Cell(p)' = CellOf("free", "nobody", p)
        BY <1>3, <2>6, <4>1 DEF CellFacts, CellOf, ValueAt
      <4> QED
        BY <2>5, <3>1, <4>2
    <3>2. CASE p \notin Owned(c)
      <4>1. \A d \in Callers : p \in Owned(d)' <=> p \in Owned(d)
        BY <1>1, <3>2
      <4>2. head["consumer"] \in Nat /\ head'["consumer"] = head["consumer"]
        BY <1>1, <1>2, <1>6
      <4>3. p >= e => Cell(p)' = Cell(p)
        BY <1>3, <2>2, <2>6, <4>1, <4>2, SameCell
      <4> QED
        BY <2>2, <2>4, <3>2, <4>3
    <3> QED
      BY <3>1, <3>2
  <2>8. p < e => after[k].st = "free"
    <3> SUFFICES ASSUME p < e PROVE after[k].st = "free"
      OBVIOUS
    <3>1. CASE p \in Owned(c)
      BY <2>5, <3>1 DEF CellOf
    <3>2. CASE p \notin Owned(c)
      <4>1. p < head["consumer"]
        BY <1>2, <1>6, <2>2
      <4>2. ASSUME NEW d \in Callers, p \in Owned(d) PROVE FALSE
        <5>1. p \in Owned(d)'
          BY <1>1, <3>2, <4>2
        <5>2. CASE d \in Producers
          BY <1>2, <1>3, <1>6, <2>2, <4>1, <4>2, <5>2 DEF OwnerFacts
        <5>3. CASE d \in Consumers
          BY <1>2, <1>3, <1>6, <2>2, <5>1, <5>3 DEF OwnerFacts
        <5> QED
          BY <5>2, <5>3 DEF Callers
      <4>3. Cell(p) = CellOf("free", "nobody", p)
        BY <1>3, <2>2, <4>1, <4>2 DEF CellFacts, Unowned
      <4> QED
        BY <2>2, <2>4, <3>2, <4>3 DEF CellOf
    <3> QED
      BY <3>1, <3>2
  <2>9. p = e => after[k].st # "free"
    <3> SUFFICES ASSUME p = e PROVE after[k].st # "free"
      OBVIOUS
    <3>1. p \in Finished("consumer")'..head'["producer"] - 1 /\ after[k] = Cell(p)'
      BY <1>6, <2>6, <2>7
    <3>2. CASE \E d \in Producers : p \in Owned(d)'
      BY <1>3, <3>1, <3>2, CellFields DEF CellFacts
    <3>3. CASE \E d \in Consumers : p \in Owned(d)'
      BY <1>3, <3>1, <3>3, CellFields DEF CellFacts
    <3>4. CASE Unowned(p)'
      <4>1. p = h /\ head'["consumer"] = h
        BY <1>1, <1>2, <1>5, <3>4 DEF Unowned, Callers
      <4>2. p >= head'["consumer"]
        BY <1>6, <4>1
      <4> QED
        BY <1>3, <3>1, <3>4, <4>2, CellFields DEF CellFacts
    <3> QED
      BY <3>2, <3>3, <3>4 DEF Unowned, Callers
  <2> QED
    BY <2>7, <2>8, <2>9
<1> DEFINE held == {k \in DOMAIN after : after[k].st # "free"}
           first == IF held = {} THEN Len(after) + 1 ELSE engine!Min(held)
<1>8. DOMAIN after = 1..m /\ Len(after) = m
  BY <1>6
<1>9. first = e - f + 1
  <2>1. held = {k \in 1..m : after[k].st # "free"}
    BY <1>8
  <2> HIDE DEF after, held
  <2>2. \A k \in held : k \in 1..m /\ ~(f + k - 1 < e)
    BY <1>7, <2>1
  <2>3. \A k \in held : k \in Nat /\ e - f + 1 <= k
    BY <1>6, <2>2
  <2>4. e < f + m => e - f + 1 \in held
    <3> SUFFICES ASSUME e < f + m PROVE e - f + 1 \in held
      OBVIOUS
    <3>1. PICK k \in 1..m : k = e - f + 1 /\ e = f + k - 1
      BY <1>6
    <3> QED
      BY <1>7, <2>1, <3>1
  <2>5. CASE held = {}
    <3>1. e = f + m
      BY <1>6, <2>4, <2>5
    <3> QED
      BY <1>6, <1>8, <2>5, <3>1
  <2>6. CASE held # {}
    <3>1. e < f + m
      BY <1>6, <2>2, <2>3, <2>6
    <3>2. held \subseteq Nat /\ e - f + 1 \in held
      BY <2>3, <2>4, <3>1
    <3>3. Min(held) \in held /\ \A k \in held : Min(held) <= k
      BY <2>6, <3>2, MinOf
    <3>4. Min(held) = e - f + 1
      <4>1. Min(held) \in Nat /\ e - f + 1 <= Min(held) /\ Min(held) <= e - f + 1
        BY <2>3, <3>2, <3>3
      <4> QED
        BY <1>6, <4>1
    <3>5. engine!Min(held) = Min(held)
      BY DEF engine!Min, Min
    <3> QED
      BY <2>6, <3>4, <3>5
  <2> QED
    BY <2>5, <2>6
<1>10. Cells' = SubSeq(after, first, Len(after))
  <2>1. PICK n : n = f + m - e
    OBVIOUS
  <2>2. Cells' = [k \in 1..n |-> Cell(e + k - 1)']
    <3>1. n = head'["producer"] - e
      BY <1>1, <1>6, <2>1
    <3> QED
      BY <1>2, <3>1, CellsNext
  <2>3. SubSeq(after, first, Len(after)) = [k \in 1..n |-> after[e - f + 1 + k - 1]]
    <3> HIDE DEF after, first
    <3>1. SubSeq(after, e - f + 1, m) = [k \in 1..m - (e - f + 1) + 1 |-> after[e - f + 1 + k - 1]]
      <4>1. e - f + 1 \in Int /\ m \in Int
        BY <1>6
      <4> QED
        BY <4>1
    <3>2. m - (e - f + 1) + 1 = n
      BY <1>6, <2>1
    <3> QED
      BY <1>8, <1>9, <3>1, <3>2
  <2>4. ASSUME NEW k \in 1..n
        PROVE  after[e - f + 1 + k - 1] = Cell(e + k - 1)'
    <3>1. PICK j, p : j = e - f + 1 + k - 1 /\ p = e + k - 1
      OBVIOUS
    <3>2. j \in 1..m /\ p = f + j - 1 /\ p >= e
      BY <1>6, <2>1, <3>1
    <3>3. after[j] = Cell(p)'
      BY <1>7, <3>2
    <3> HIDE DEF after
    <3> QED
      BY <3>1, <3>3
  <2> HIDE DEF after
  <2> QED
    BY <2>2, <2>3, <2>4
<1>11. engine!release(c)
  <2>1. DOMAIN Cells = 1..m
    BY <1>4
  <2>2. after = [k \in DOMAIN Cells |-> IF k \in engine!Claimed("reading", c)
                   THEN [Cells[k] EXCEPT !.st = "free", !.by = engine!Nobody] ELSE Cells[k]]
    BY <2>1 DEF Passed, engine!Nobody
  <2> HIDE DEF after
  <2> QED
    BY <1>10, <2>2 DEF engine!release
<1> HIDE DEF after, held, first
<1> QED
  BY <1>11 DEF engine!Step

\* Reset, with nobody inside, empties a ring whose cells are all ready.
LEMMA ResetStep ==
  ASSUME FullInv, RingInv', Reset
  PROVE  engine!Step /\ EntriesTrue'
<1>1. \A c \in Callers : op'[c] = op[c] /\ op[c].pc = "idle" /\ Owned(c) = {} /\ Owned(c)' = {}
  BY DEF Reset, Owned
<1>2. \A s \in Sides : Unfinished(s) = {} /\ Unfinished(s)' = {}
  BY <1>1 DEF Unfinished
<1>3. \A s \in Sides : head'[s] = 0
  BY DEF Reset
<1>4. Finished("consumer") = head["consumer"] /\ Finished("consumer")' = 0
  BY <1>2, <1>3 DEF Finished, Sides
<1>5. Cells' = << >>
  <2>1. Cells' = [k \in 1..0 - 0 |-> Cell(0 + k - 1)']
    BY <1>3, <1>4, CellsNext DEF Sides
  <2>2. 1..0 - 0 = {}
    OBVIOUS
  <2> QED
    BY <2>1, <2>2
<1>6. PICK f, m : f = Finished("consumer") /\ m = head["producer"] - f
  OBVIOUS
<1>7. /\ Cells = [k \in 1..m |-> Cells[k]] /\ f \in Nat /\ m \in Nat
      /\ \A p \in f..f + m - 1 :
           /\ p - f + 1 \in 1..m /\ Cells[p - f + 1] = Cell(p)
           /\ p \in Finished("consumer")..head["producer"] - 1
  BY <1>6, CellAt DEF FullInv
<1>8. ASSUME NEW k \in 1..m PROVE Cells[k].st = "ready"
  <2>1. PICK p : p = f + k - 1
    OBVIOUS
  <2>2. f \in Nat /\ m \in Nat
    BY <1>7
  <2>3. p \in f..f + m - 1 /\ k = p - f + 1 /\ p >= f
    BY <2>1, <2>2
  <2>4. Unowned(p) /\ p >= head["consumer"]
    BY <1>1, <1>4, <1>6, <2>3 DEF Unowned
  <2>5. Cell(p).st = "ready"
    BY <1>7, <2>3, <2>4, CellState DEF FullInv
  <2> QED
    BY <1>7, <2>3, <2>5
<1>9. engine!reset
  BY <1>5, <1>7, <1>8 DEF engine!reset
<1>10. Kept' = {}
  <2>1. \A p : p \notin 0..0 - 1
    OBVIOUS
  <2> QED
    BY <1>1, <1>3, <2>1 DEF Kept, Callers, Sides
<1> QED
  BY <1>9, <1>10 DEF engine!Step, EntriesTrue

\* Every step keeps the invariant and is a step of the Engine or a stutter.
LEMMA QuietStep ==
  ASSUME FullInv, RingInv', OwnersStay, entries' = entries,
         Looking' \subseteq Looking \/ head'["producer"] <= MaxPosition
  PROVE  FullInv' /\ Cells' = Cells
<1>1. EntriesTrue' /\ Fixed
  BY QuietEntries, StayFixed DEF FullInv
<1>2. WithinItems'
  BY ItemsStay, ItemsLow DEF FullInv, OwnersStay
<1> QED
  BY <1>1, <1>2, FixedCells DEF FullInv

\* Every step of a caller is a step of the engine or changes no cell.
LEMMA CallerStep ==
  ASSUME FullInv, NEW c \in Callers,
         \/ begin(c) \/ loadHead(c) \/ loadFrontier(c) \/ loadBase(c) \/ loadBound(c)
         \/ discoverRecord(c) \/ loadAhead(c) \/ acceptAhead(c) \/ raiseFrontier(c)
         \/ loadFresh(c) \/ claim(c) \/ returnShort(c) \/ copy(c) \/ publish(c)
  PROVE  FullInv' /\ (engine!Step \/ Cells' = Cells)
<1>0. RingInv /\ EntriesTrue /\ WithinItems
  BY DEF FullInv
<1>1. \A d \in Callers : d # c => op'[d] = op[d]
  BY <1>0 DEF RingInv, Typed, begin, loadHead, loadFrontier, loadBase, loadBound,
       discoverRecord, loadAhead, acceptAhead, raiseFrontier, loadFresh, claim,
       returnShort, copy, publish, Step
<1>2. op[c].pc \notin {"idle", "copy", "publish"} => Looking' \subseteq Looking
  BY <1>1 DEF Looking, Callers
<1>3. CASE begin(c)
  <2>1. entries' = entries /\ op[c].pc = "idle"
    BY <1>3 DEF begin
  <2>2. RingInv' /\ OwnersStay
    BY <1>0, <1>3, BeginInv
  <2>3. Looking' \subseteq Looking \/ head'["producer"] <= MaxPosition
    <3>1. CASE c \notin Producers
      BY <1>1, <3>1 DEF Looking, Callers
    <3>2. CASE c \in Producers
      <4>1. head["producer"] < MaxPosition /\ head' = head /\ head["producer"] \in Nat
        BY <1>0, <1>3, <3>2 DEF begin, RingInv, Typed, Sides
      <4> QED
        BY <4>1, RingAssumption
    <3> QED
      BY <3>1, <3>2
  <2> QED
    BY <2>1, <2>2, <2>3, QuietStep
<1>4. CASE \/ loadHead(c) \/ loadFrontier(c) \/ loadBase(c) \/ loadBound(c)
           \/ discoverRecord(c) \/ loadAhead(c) \/ acceptAhead(c) \/ loadFresh(c)
           \/ returnShort(c)
  <2>1. entries' = entries /\ op[c].pc \notin {"idle", "copy", "publish"}
    BY <1>4 DEF loadHead, loadFrontier, loadBase, loadBound, discoverRecord, loadAhead,
         acceptAhead, loadFresh, returnShort
  <2>2. RingInv' /\ OwnersStay
    BY <1>0, <1>4, LoadHeadInv, LoadFrontierInv, LoadBaseInv, LoadBoundInv,
       DiscoverRecordInv, LoadAheadInv, AcceptAheadInv, LoadFreshInv, ReturnShortInv
  <2> QED
    BY <1>2, <2>1, <2>2, QuietStep
<1>5. CASE raiseFrontier(c)
  <2>1. entries' = entries /\ op[c].pc \notin {"idle", "copy", "publish"}
    BY <1>5 DEF raiseFrontier
  <2>2. RingInv' /\ OwnersStay
    BY <1>0, <1>5, RaiseInv, RaiseFailsInv
  <2> QED
    BY <1>2, <2>1, <2>2, QuietStep
<1>6. CASE claim(c) /\ head[Side(c)] # op[c].head
  <2>1. entries' = entries /\ op[c].pc \notin {"idle", "copy", "publish"}
    BY <1>6 DEF claim
  <2>2. RingInv' /\ OwnersStay
    BY <1>0, <1>6, ClaimFailsInv
  <2> QED
    BY <1>2, <2>1, <2>2, QuietStep
<1>7. CASE claim(c) /\ head[Side(c)] = op[c].head
  <2>1. RingInv'
    BY <1>0, <1>7, ClaimInv
  <2>2. FullInv'
    BY <1>0, <1>7, <2>1, ClaimEntries, ItemsClaim DEF FullInv
  <2>3. engine!Step
    BY <1>7, <2>2, ReserveStep, TakeStep DEF Callers
  <2> QED
    BY <2>2, <2>3
<1>8. CASE copy(c)
  <2>1. RingInv' /\ EntriesTrue' /\ Fixed
    BY <1>0, <1>8, CopyInv, CopyEntries, CopyFixed
  <2>2. op[c].pc = "copy" /\ op'[c].pc = "publish" /\ head' = head
    <3>1. op' = [d \in Callers |-> IF d = c THEN [op[c] EXCEPT !.pc = "publish"] ELSE op[d]]
      BY <1>0, <1>8 DEF copy, Step, RingInv, Typed
    <3>2. [op[c] EXCEPT !.pc = "publish"].pc = "publish"
      BY <1>0 DEF RingInv, Typed, Locals, OpFields
    <3> QED
      BY <1>8, <3>1, <3>2 DEF copy
  <2>3. Looking' \subseteq Looking
    BY <1>1, <2>2 DEF Looking, Callers
  <2>4. WithinItems'
    BY <1>0, <2>2, <2>3, ItemsStay
  <2> QED
    BY <1>0, <2>1, <2>4, FixedCells DEF FullInv
<1>9. CASE publish(c)
  <2>1. RingInv' /\ EntriesTrue'
    BY <1>0, <1>9, PublishInv, PublishEntries
  <2>2. head' = head /\ op'[c].pc = "idle"
    BY <1>0, <1>9, <2>1, PublishEffect
  <2>3. Looking' \subseteq Looking
    BY <1>1, <2>2 DEF Looking, Callers
  <2>4. FullInv'
    BY <1>0, <2>1, <2>2, <2>3, ItemsStay DEF FullInv
  <2> QED
    BY <1>9, <2>4, CompleteStep, ReleaseStep DEF Callers
<1> QED
  BY <1>3, <1>4, <1>5, <1>6, <1>7, <1>8, <1>9

\* Every step is a step of the engine or changes no cell.
LEMMA NextRefines ==
  ASSUME FullInv, [Next]_vars
  PROVE  FullInv' /\ [engine!Next]_Cells
<1>1. FullInv' /\ (engine!Step \/ Cells' = Cells)
  <2>1. CASE UNCHANGED vars
    <3>1. RingInv' /\ OwnersStay /\ entries' = entries /\ Looking' \subseteq Looking
      BY <2>1, NextInv DEF FullInv, vars, OwnersStay, Looking
    <3> QED
      BY <3>1, QuietStep
  <2>2. CASE Reset
    <3>1. RingInv'
      BY <2>2, ResetInv DEF FullInv
    <3>2. head'["producer"] <= MaxPosition
      BY <2>2, RingAssumption DEF Reset, Sides
    <3> QED
      BY <2>2, <3>1, <3>2, ResetStep, ItemsLow DEF FullInv
  <2>3. CASE \E c \in Callers :
               \/ begin(c) \/ loadHead(c) \/ loadFrontier(c) \/ loadBase(c) \/ loadBound(c)
               \/ discoverRecord(c) \/ loadAhead(c) \/ acceptAhead(c) \/ raiseFrontier(c)
               \/ loadFresh(c) \/ claim(c) \/ returnShort(c) \/ copy(c) \/ publish(c)
    BY <2>3, CallerStep
  <2> QED
    BY <2>1, <2>2, <2>3 DEF Next
<1> QED
  BY <1>1 DEF engine!Next

\* A new ring is an empty engine.
LEMMA InitFull == Init => FullInv /\ engine!Init
<1> SUFFICES ASSUME Init PROVE FullInv /\ engine!Init
  OBVIOUS
<1>1. RingInv
  BY InitInv
<1>2. \A c \in Callers : op[c].pc = "idle" /\ Owned(c) = {}
  BY IdleLocals DEF Init, Owned
<1>3. \A s \in Sides : head[s] = 0 /\ Unfinished(s) = {} /\ Finished(s) = 0
  BY <1>2 DEF Init, Unfinished, Finished
<1>4. EntriesTrue
  <2>1. \A p : p \notin 0..0 - 1
    OBVIOUS
  <2>2. Kept = {}
    BY <1>2, <1>3, <2>1 DEF Kept, Callers, Sides
  <2> QED
    BY <2>2 DEF EntriesTrue
<1>5. WithinItems
  <2>1. Looking = {}
    BY <1>2 DEF Looking, Callers
  <2>2. Cardinality({}) = 0
    BY FS_EmptySet
  <2>3. MaxBatch * Cardinality(Producers) \in Nat /\ MaxBatch \in Nat /\ MaxPosition \in Nat
    BY LookingIs, RingAssumption
  <2>4. MaxBatch * 0 = 0
    BY <2>3
  <2>5. PICK q \in Nat : q = MaxBatch * Cardinality(Producers)
    BY <2>3
  <2>6. 0 + 0 <= MaxPosition + q
    BY <2>3
  <2> QED
    BY <1>3, <2>1, <2>2, <2>4, <2>5, <2>6 DEF WithinItems, Sides
<1>6. engine!Init
  <2>1. Cells = [k \in 1..0 - 0 |-> Cell(0 + k - 1)]
    BY <1>3, CellsNow DEF Sides
  <2>2. 1..0 - 0 = {}
    OBVIOUS
  <2> QED
    BY <2>1, <2>2 DEF engine!Init
<1> QED
  BY <1>1, <1>4, <1>5, <1>6 DEF FullInv

\* The ring of mpmc.go is the bounded FIFO workq relies on, for every number of
\* producers and consumers, every capacity and every mix of calls: a reservation
\* of its heads claims the next cells, a record finishes with them, and no other
\* step of any call changes what the ring holds.
THEOREM Implements == Spec => ImplementsEngine
<1>1. Init => FullInv /\ engine!Init
  BY InitFull
<1>2. FullInv /\ [Next]_vars => FullInv' /\ [engine!Next]_Cells
  BY NextRefines
<1> QED
  BY <1>1, <1>2, PTL DEF Spec, ImplementsEngine, engine!Spec
=============================================================================
