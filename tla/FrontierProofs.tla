--------------------------- MODULE FrontierProofs ---------------------------
(***************************************************************************)
(* Proofs about FrontierMPMC, for any number of producers and consumers    *)
(* and any capacity, batch limit, look-ahead and position bound.           *)
(*                                                                         *)
(* RingInv is inductive.  Its core is what a completion record may say: a  *)
(* record that leads on from a position with nothing unfinished below it   *)
(* leads to another such position (Recorded).  It has to hold for every    *)
(* stale record still in the array and for every value that a caller has   *)
(* loaded and not yet used (Knows), because between a load and its use the *)
(* slot may be claimed, completed and recorded again.  From it follow the  *)
(* order of the positions, the soundness of the frontiers, and that no two *)
(* callers ever own the same slot.                                         *)
(***************************************************************************)
EXTENDS FrontierMPMC, WellFoundedInduction, TLAPS

\* A non-empty set of naturals has a least element.
LEMMA Least ==
  ASSUME NEW S, S \subseteq Nat, S # {}
  PROVE  \E m \in S : \A k \in S : m <= k
<1> DEFINE R == {p \in Nat \X Nat : p[1] < p[2]}
<1>1. IsWellFoundedOn(OpToRel(<, Nat), Nat)
  BY NatLessThanWellFounded
<1>2. OpToRel(<, Nat) = R
  BY DEF OpToRel
<1>3. PICK x \in S : \A y \in S : ~(<<y, x>> \in R)
  BY <1>1, <1>2, WFMin
<1>4. ASSUME NEW y \in S
      PROVE  x <= y
  <2>1. x \in Nat /\ y \in Nat /\ <<y, x>> \in Nat \X Nat
    OBVIOUS
  <2>2. <<y, x>> \notin R
    BY <1>3
  <2>3. ~(y < x)
    BY <2>1, <2>2
  <2> QED
    BY <2>1, <2>3
<1> QED
  BY <1>4

\* Min of a non-empty set of positions is its least element.
LEMMA MinOf ==
  ASSUME NEW S, S \subseteq Nat, S # {}
  PROVE  Min(S) \in S /\ \A k \in S : Min(S) <= k
  BY Least DEF Min

\* Min of two integers.
LEMMA MinOfTwo ==
  ASSUME NEW a \in Int, NEW b \in Int
  PROVE  Min({a, b}) = IF a <= b THEN a ELSE b
<1> DEFINE m == IF a <= b THEN a ELSE b
<1>1. m \in {a, b} /\ \A y \in {a, b} : m <= y
  OBVIOUS
<1>2. \A x \in {a, b} : (\A y \in {a, b} : x <= y) => x = m
  OBVIOUS
<1> QED
  BY <1>1, <1>2 DEF Min

-----------------------------------------------------------------------------
(* Positions and slots.                                                       *)

\* Division with remainder by the capacity.
LEMMA DivMod ==
  ASSUME NEW p \in Nat, NEW C \in Nat \ {0}
  PROVE  \E a \in Nat, m \in 0..C - 1 : p = C * a + m /\ m = p % C
<1>1. p \div C \in Nat
  OBVIOUS
<1>2. p % C \in 0..C - 1
  OBVIOUS
<1>3. PICK a \in Nat, m \in 0..C - 1 : a = p \div C /\ m = p % C
  BY <1>1, <1>2
<1>4. p = C * a + m
  BY <1>3
<1> QED
  BY <1>3, <1>4

\* Positions less than a lap apart have different slots.
LEMMA SlotGap ==
  ASSUME NEW p \in Nat, NEW q \in Nat, p < q, q < p + Capacity
  PROVE  Slot(p) # Slot(q)
<1>0. Capacity \in Nat \ {0}
  BY RingAssumption
<1>1. PICK a \in Nat, m \in 0..Capacity - 1 : p = Capacity * a + m /\ m = p % Capacity
  BY <1>0, DivMod
<1>6. PICK b \in Nat, n \in 0..Capacity - 1 : q = Capacity * b + n /\ n = q % Capacity
  BY <1>0, DivMod
<1>2. SUFFICES ASSUME m = n PROVE FALSE
  BY <1>1, <1>6 DEF Slot
<1>3. Capacity * b - Capacity * a = q - p
  BY <1>0, <1>1, <1>2, <1>6
<1>4. CASE b <= a
  <2>1. Capacity * b <= Capacity * a
    BY <1>0, <1>4
  <2> QED
    BY <1>0, <1>3, <2>1
<1>5. CASE b >= a + 1
  <2>1. Capacity * b >= Capacity * (a + 1)
    BY <1>0, <1>5
  <2>2. Capacity * (a + 1) = Capacity * a + Capacity
    BY <1>0
  <2> QED
    BY <1>0, <1>3, <2>1, <2>2
<1> QED
  BY <1>4, <1>5

\* So a position is known by its slot within a lap.
LEMMA SlotPosition ==
  ASSUME NEW p \in Nat, NEW q \in Nat, Slot(p) = Slot(q),
         p < q + Capacity, q < p + Capacity
  PROVE  p = q
<1>1. ~(p < q) /\ ~(q < p)
  BY SlotGap
<1> QED
  BY <1>1

-----------------------------------------------------------------------------
(* The inductive invariant.                                                   *)

\* The locals of a call.
OpFields == {"pc", "req", "fixed", "exact", "head", "avail", "count",
             "base", "window", "end", "stride", "ahead"}

\* Their types.
Locals(o) ==
  /\ o = [f \in OpFields |-> o[f]]
  /\ o.req \in 0..MaxBatch /\ o.fixed \in BOOLEAN /\ o.exact \in BOOLEAN
  /\ o.head \in Nat /\ o.avail \in Nat /\ o.count \in Nat
  /\ o.base \in Nat /\ o.window \in Nat /\ o.end \in Nat /\ o.stride \in Nat
  /\ o.ahead \in Seq(Nat)

\* The types of the ring's words and of the calls.
Typed ==
  /\ head \in [Sides -> Nat] /\ frontier \in [Sides -> Nat]
  /\ records \in [Sides -> [Slots -> Nat]]
  /\ entries \in [Slots -> Nat]
  /\ op = [c \in Callers |-> op[c]]
  /\ \A c \in Callers : Locals(op[c])

\* The call owns an interval that it claimed.
Holding(o) == o.pc \in {"copy", "publish"}

\* The call has loaded the head of its own side and has not claimed.
Searching(o) ==
  o.pc \in {"front", "base", "bound", "discover", "ahead", "raise", "fresh",
            "claim", "short"}

\* The callers of side s that own an interval.
Holders(s) == {c \in Callers : Side(c) = s /\ Holding(op[c])}

\* Nothing below e is claimed and unfinished on side s, and e is claimed.
Clear(s, e) ==
  /\ e <= head[s]
  /\ \A d \in Holders(s) : e <= op[d].head

\* A value r in the record array of side s at slot k tells the truth: it is the
\* end of an interval of some lap that starts at the slot and is finished.
Recorded(s, k, r) ==
  \/ r = 0
  \/ \E h \in Nat :
       /\ Slot(h) = k /\ h < r /\ r <= h + Capacity /\ r <= head[s]
       /\ \A d \in Holders(s) : op[d].head + op[d].count <= h \/ r <= op[d].head

\* Every word of both record arrays tells the truth.
RecordsTrue == \A s \in Sides : \A k \in Slots : Recorded(s, k, records[s][k])

\* An interval that is held was claimed, and is no longer than a batch.
Claimed(c) ==
  Holding(op[c]) =>
    op[c].count \in 1..MaxBatch /\ op[c].head + op[c].count <= head[Side(c)]

\* Two intervals do not overlap.
Apart(o, q) == o.head + o.count <= q.head \/ q.head + q.count <= o.head

\* No two callers of a side hold a common position.
ClaimsApart ==
  \A s \in Sides : \A c, d \in Holders(s) : c # d => Apart(op[c], op[d])

\* How far the other side's frontier lets the caller c claim.
Limit(c) ==
  IF c \in Producers THEN frontier["consumer"] + Capacity ELSE frontier["producer"]

\* What a call knows that has the locals o.
Knows(c, o) ==
  /\ o.pc = "idle" \/ o.pc = "head" \/ Searching(o) \/ Holding(o)
  /\ Searching(o) => o.head <= head[Side(c)]
  /\ o.pc \in {"head", "front", "base", "bound", "discover"} => o.ahead = << >>
  /\ o.pc = "claim" => o.count \in 1..MaxBatch /\ o.head + o.count <= Limit(c)
  /\ o.pc \in {"bound", "discover", "ahead", "raise"} =>
       o.base <= o.end /\ o.base <= frontier[Other(c)] /\ Clear(Other(c), o.end)
  /\ o.pc = "bound" => o.end = o.base
  /\ o.pc \in {"discover", "ahead"} =>
       /\ o.window <= Capacity
       /\ o.base + o.window <= head[Other(c)]
       /\ o.end < o.base + o.window
  /\ o.pc = "ahead" =>
       /\ o.stride > 0
       /\ \A i \in 1..Len(o.ahead) :
            Recorded(Other(c), Slot(o.end + (i - 1) * o.stride), o.ahead[i])
  /\ o.pc = "raise" => o.base < o.end

\* The inductive invariant.
RingInv ==
  /\ Typed
  /\ \A c \in Callers : Claimed(c)
  /\ ClaimsApart
  /\ RecordsTrue
  /\ PositionsOrdered
  /\ \A s \in Sides : Clear(s, frontier[s])
  /\ \A c \in Callers : Knows(c, op[c])

-----------------------------------------------------------------------------
\* A caller has a side of its own and a side opposite.
LEMMA SidesOf ==
  ASSUME NEW c \in Callers
  PROVE  Side(c) \in Sides /\ Other(c) \in Sides /\ Side(c) # Other(c)
  BY DEF Side, Other, Sides

\* The locals of a caller outside a call.
LEMMA IdleLocals ==
  /\ Locals(Idle) /\ Idle.pc = "idle" /\ Idle.ahead = << >>
  /\ Idle = [f \in OpFields |-> Idle[f]]
<1>1. Idle = [f \in OpFields |-> Idle[f]] /\ Idle.pc = "idle" /\ Idle.ahead = << >>
  BY DEF Idle, OpFields
<1>2. 0 \in 0..MaxBatch
  BY RingAssumption
<1>3. << >> \in Seq(Nat)
  OBVIOUS
<1> QED
  BY <1>1, <1>2, <1>3 DEF Idle, Locals

\* A new ring.
LEMMA InitInv == Init => RingInv
<1> SUFFICES ASSUME Init PROVE RingInv
  OBVIOUS
<1>0. Capacity \in Nat \ {0}
  BY RingAssumption
<1>1. \A c \in Callers : op[c] = Idle
  BY DEF Init
<1>2. Typed
  BY <1>1, IdleLocals DEF Init, Typed
<1>3. \A s \in Sides : Holders(s) = {}
  BY <1>1, IdleLocals DEF Holders, Holding
<1>4. \A c \in Callers : Claimed(c) /\ Knows(c, op[c])
  BY <1>1, IdleLocals DEF Claimed, Knows, Holding, Searching
<1>5. RecordsTrue
  BY DEF Init, RecordsTrue, Recorded
<1>6. PositionsOrdered /\ \A s \in Sides : Clear(s, frontier[s])
  BY <1>0, <1>3 DEF Init, PositionsOrdered, Clear, Sides
<1> QED
  BY <1>2, <1>3, <1>4, <1>5, <1>6 DEF RingInv, ClaimsApart

\* The callers that hold an interval are the same before and after, with the
\* same locals, and no head has moved.
OwnersStay ==
  /\ head' = head
  /\ \A d \in Callers :
       /\ Holding(op'[d]) <=> Holding(op[d])
       /\ Holding(op[d]) => op'[d] = op[d]

\* A step of one caller that neither claims nor finishes nor raises anything.
LEMMA Quiet ==
  ASSUME RingInv, NEW c \in Callers, NEW o, Step(c, o),
         UNCHANGED <<head, frontier, records>>,
         entries' \in [Slots -> Nat],
         Locals(o), Knows(c, o),
         Holding(o) <=> Holding(op[c]),
         Holding(o) => o.head = op[c].head /\ o.count = op[c].count
  PROVE  RingInv' /\ (~Holding(op[c]) => OwnersStay)
<1>1. op' = [d \in Callers |-> IF d = c THEN o ELSE op[d]]
  BY DEF Step, RingInv, Typed
<1>2. op'[c] = o /\ \A d \in Callers : d # c => op'[d] = op[d]
  BY <1>1
<1>3. Typed'
  <2>1. \A d \in Callers : Locals(op'[d])
    BY <1>2 DEF RingInv, Typed
  <2>2. op' = [d \in Callers |-> op'[d]]
    BY <1>1
  <2> QED
    BY <2>1, <2>2 DEF RingInv, Typed, Locals
<1>4. \A d \in Callers :
        /\ Holding(op'[d]) <=> Holding(op[d])
        /\ Holding(op[d]) => op'[d].head = op[d].head /\ op'[d].count = op[d].count
  BY <1>2
<1>5. \A s \in Sides : Holders(s)' = Holders(s)
  BY <1>4 DEF Holders, Holding, Side
<1>6. \A s \in Sides : \A d \in Holders(s) :
        d \in Callers /\ op'[d].head = op[d].head /\ op'[d].count = op[d].count
  BY <1>4 DEF Holders
<1>7. \A s \in Sides : \A e : Clear(s, e) => Clear(s, e)'
  BY <1>5, <1>6 DEF Clear
<1>8. \A s \in Sides : \A k, r : Recorded(s, k, r) => Recorded(s, k, r)'
  BY <1>5, <1>6 DEF Recorded
<1>9. \A d \in Callers : \A q : Knows(d, q) => Knows(d, q)'
  BY <1>7, <1>8, SidesOf DEF Knows, Limit, Side, Other
<1>10. \A d \in Callers : Claimed(d)'
  BY <1>4, SidesOf DEF RingInv, Claimed, Side
<1>11. ClaimsApart'
  BY <1>5, <1>6 DEF RingInv, ClaimsApart, Apart
<1>12. RecordsTrue'
  BY <1>8 DEF RingInv, RecordsTrue
<1>13. PositionsOrdered' /\ \A s \in Sides : Clear(s, frontier[s])'
  BY <1>7 DEF RingInv, PositionsOrdered
<1>14. \A d \in Callers : Knows(d, op[d])'
  BY <1>2, <1>9 DEF RingInv
<1>15. ~Holding(op[c]) => OwnersStay
  BY <1>2 DEF OwnersStay
<1> QED
  BY <1>3, <1>10, <1>11, <1>12, <1>13, <1>14, <1>15 DEF RingInv

-----------------------------------------------------------------------------
(* The steps before a claim.                                                  *)

\* A call begins: it loads the head of its side.
LEMMA BeginInv == ASSUME RingInv, NEW c \in Callers, begin(c) PROVE RingInv' /\ OwnersStay
<1>1. PICK call \in CallsOf(c) :
        Step(c, [Idle EXCEPT !.pc = "front", !.req = call.req, !.fixed = call.fixed,
                             !.exact = call.exact, !.head = head[Side(c)]])
  BY DEF begin
<1> DEFINE o == [Idle EXCEPT !.pc = "front", !.req = call.req, !.fixed = call.fixed,
                             !.exact = call.exact, !.head = head[Side(c)]]
<1>2. call.req \in 0..MaxBatch /\ call.fixed \in BOOLEAN /\ call.exact \in BOOLEAN
  BY RingAssumption DEF CallsOf
<1>3. head[Side(c)] \in Nat
  BY SidesOf DEF RingInv, Typed
<1>4. Locals(o) /\ o.pc = "front" /\ o.head = head[Side(c)] /\ o.ahead = << >>
  BY <1>2, <1>3, IdleLocals DEF Locals, OpFields
<1> HIDE DEF o
<1>5. Knows(c, o) /\ ~Holding(o) /\ ~Holding(op[c])
  BY <1>3, <1>4 DEF Knows, Searching, Holding, begin
<1>6. Step(c, o)
  BY <1>1 DEF o
<1> QED
  BY <1>4, <1>5, <1>6, Quiet DEF begin, RingInv, Typed

\* A retry loads the head again.
LEMMA LoadHeadInv == ASSUME RingInv, NEW c \in Callers, loadHead(c) PROVE RingInv' /\ OwnersStay
<1> DEFINE o == [op[c] EXCEPT !.pc = "front", !.head = head[Side(c)]]
<1>3. head[Side(c)] \in Nat
  BY SidesOf DEF RingInv, Typed
<1>2. Locals(op[c]) /\ op[c].ahead = << >>
  BY DEF RingInv, Typed, Knows, loadHead
<1>4. Locals(o) /\ o.pc = "front" /\ o.head = head[Side(c)] /\ o.ahead = << >>
  BY <1>2, <1>3 DEF Locals, OpFields
<1>6. Step(c, o)
  BY DEF loadHead
<1> HIDE DEF o
<1>5. Knows(c, o) /\ ~Holding(o) /\ ~Holding(op[c])
  BY <1>3, <1>4 DEF Knows, Searching, Holding, loadHead
<1> QED
  BY <1>4, <1>5, <1>6, Quiet DEF loadHead, RingInv, Typed

\* The locals of a call that starts over.
LEMMA RetryLocals ==
  ASSUME NEW c \in Callers, Locals(op[c])
  PROVE  Locals(Retry(c)) /\ Retry(c).pc = "head" /\ Knows(c, Retry(c)) /\ ~Holding(Retry(c))
<1>1. Locals(Retry(c)) /\ Retry(c).pc = "head" /\ Retry(c).ahead = << >>
  BY IdleLocals DEF Retry, Asked, Locals, OpFields
<1> QED
  BY <1>1 DEF Knows, Searching, Holding

\* What remains of a call but its request.
LEMMA AskedLocals ==
  ASSUME NEW c \in Callers, Locals(op[c])
  PROVE  Locals(Asked(c))
  BY IdleLocals DEF Asked, Locals, OpFields

\* What a frontier at most as high as the present one admits may be claimed.
LEMMA DecideLocals ==
  ASSUME RingInv, NEW c \in Callers, NEW avail \in Nat, op[c].head <= head[Side(c)],
         op[c].head + avail <= Limit(c)
  PROVE  /\ Locals(Decide(c, avail)) /\ Knows(c, Decide(c, avail))
         /\ ~Holding(Decide(c, avail))
<1> DEFINE count == Min({op[c].req, avail})
           short == count = 0 \/ (op[c].fixed /\ avail < op[c].req)
           o == Decide(c, avail)
<1>0. MaxBatch \in Nat /\ Locals(op[c])
  BY RingAssumption DEF RingInv, Typed
<1>1. count \in 0..MaxBatch /\ count <= avail
  <2>1. op[c].req \in 0..MaxBatch
    BY <1>0 DEF Locals
  <2>2. count = IF op[c].req <= avail THEN op[c].req ELSE avail
    BY <2>1, <1>0, MinOfTwo
  <2> HIDE DEF count
  <2> QED
    BY <1>0, <2>1, <2>2
<1>8. o = [Asked(c) EXCEPT !.pc = IF short THEN "short" ELSE "claim",
                            !.head = op[c].head,
                            !.avail = IF short THEN avail ELSE count,
                            !.count = IF short THEN 0 ELSE count]
  BY DEF Decide
<1> HIDE DEF count, short, o
<1>2. PICK l, a, n : /\ l = IF short THEN "short" ELSE "claim"
                     /\ a = IF short THEN avail ELSE count
                     /\ n = IF short THEN 0 ELSE count
  OBVIOUS
<1>3. /\ Locals(o) /\ o.pc = IF short THEN "short" ELSE "claim"
      /\ o.head = op[c].head
      /\ o.count = IF short THEN 0 ELSE count
  <2>1. o = [Asked(c) EXCEPT !.pc = l, !.head = op[c].head, !.avail = a, !.count = n]
    BY <1>2, <1>8
  <2>2. op[c].head \in Nat /\ a \in Nat /\ n \in Nat
    BY <1>0, <1>1, <1>2 DEF Locals
  <2>3. Locals(o) /\ o.pc = l /\ o.head = op[c].head /\ o.count = n
    <3>1. Locals(Asked(c))
      BY <1>0, AskedLocals
    <3> QED
      BY <2>1, <2>2, <3>1 DEF Locals, OpFields
  <2> QED
    BY <1>2, <2>3
<1>5. ~short => count \in 1..MaxBatch
  BY <1>0, <1>1 DEF short
<1>6. op[c].head \in Nat /\ Limit(c) \in Nat
  BY <1>0, RingAssumption DEF RingInv, Typed, Locals, Limit, Sides
<1>4. o.pc = "claim" => o.count \in 1..MaxBatch /\ o.head + o.count <= Limit(c)
  BY <1>0, <1>1, <1>3, <1>5, <1>6
<1>7. Knows(c, o) /\ ~Holding(o)
  BY <1>3, <1>4 DEF Knows, Searching, Holding
<1> QED
  BY <1>3, <1>7 DEF o

\* A loaded frontier admits a natural number, and what it admits may be claimed.
LEMMA AdmitsSound ==
  ASSUME RingInv, NEW c \in Callers, op[c].head <= head[Side(c)]
  PROVE  /\ Admits(c, frontier[Other(c)]) \in Int
         /\ ~Stale(Admits(c, frontier[Other(c)])) =>
              /\ Admits(c, frontier[Other(c)]) \in Nat
              /\ op[c].head + Admits(c, frontier[Other(c)]) <= Limit(c)
<1>1. op[c].head \in Nat /\ Capacity \in Nat
  BY RingAssumption DEF RingInv, Typed, Locals
<1>2. \A s \in Sides : head[s] \in Nat /\ frontier[s] \in Nat
  BY DEF RingInv, Typed
<1> QED
  BY <1>1, <1>2 DEF RingInv, PositionsOrdered, Admits, Limit, Side, Other, Sides

\* The first load of the opposite frontier decides, or leads to discovery.
LEMMA LoadFrontierInv == ASSUME RingInv, NEW c \in Callers, loadFrontier(c) PROVE RingInv' /\ OwnersStay
<1> DEFINE avail == Admits(c, frontier[Other(c)])
           o == IF Stale(avail) THEN Retry(c)
                ELSE IF op[c].exact \/ op[c].req = 0 \/ avail < op[c].req
                THEN [op[c] EXCEPT !.pc = "base"]
                ELSE Decide(c, avail)
           b == [op[c] EXCEPT !.pc = "base"]
<1>1. Step(c, o)
  BY DEF loadFrontier
<1>2. /\ Locals(op[c]) /\ op[c].pc = "front" /\ op[c].head <= head[Side(c)]
      /\ op[c].ahead = << >>
  BY DEF loadFrontier, RingInv, Typed, Knows, Searching
<1>3. Locals(b) /\ Knows(c, b) /\ ~Holding(b)
  <2>1. Locals(b) /\ b.pc = "base" /\ b.head = op[c].head /\ b.ahead = op[c].ahead
    BY <1>2 DEF Locals, OpFields
  <2> HIDE DEF b
  <2> QED
    BY <1>2, <2>1 DEF Knows, Searching, Holding
<1>4. Stale(avail) \/ (avail \in Nat /\ op[c].head + avail <= Limit(c))
  BY <1>2, AdmitsSound
<1>5. o = Retry(c) \/ o = b \/ (o = Decide(c, avail) /\ ~Stale(avail))
  OBVIOUS
<1> HIDE DEF b, avail, o
<1>6. Locals(o) /\ Knows(c, o) /\ ~Holding(o)
  BY <1>2, <1>3, <1>4, <1>5, RetryLocals, DecideLocals
<1>7. ~Holding(op[c])
  BY <1>2 DEF Holding
<1> QED
  BY <1>1, <1>6, <1>7, Quiet DEF loadFrontier, RingInv, Typed

\* The discovery's base is a frontier, below which nothing is unfinished.
LEMMA LoadBaseInv == ASSUME RingInv, NEW c \in Callers, loadBase(c) PROVE RingInv' /\ OwnersStay
<1> DEFINE f == frontier[Other(c)]
           o == [op[c] EXCEPT !.pc = "bound", !.base = f, !.end = f]
<1>1. Step(c, o)
  BY DEF loadBase
<1>2. /\ Locals(op[c]) /\ op[c].pc = "base" /\ op[c].head <= head[Side(c)]
      /\ op[c].ahead = << >>
  BY DEF loadBase, RingInv, Typed, Knows, Searching
<1>3. f \in Nat /\ Clear(Other(c), f)
  BY SidesOf DEF RingInv, Typed
<1> HIDE DEF f
<1>4. /\ Locals(o) /\ o.pc = "bound" /\ o.base = f /\ o.end = f
      /\ o.head = op[c].head /\ o.ahead = op[c].ahead
  BY <1>2, <1>3 DEF Locals, OpFields
<1> HIDE DEF o
<1>5. Knows(c, o) /\ ~Holding(o) /\ ~Holding(op[c])
  BY <1>2, <1>3, <1>4 DEF Knows, Searching, Holding, f
<1> QED
  BY <1>1, <1>4, <1>5, Quiet DEF loadBase, RingInv, Typed

\* A discovery that ends at a boundary below which all is finished.
LEMMA DiscoveredLocals ==
  ASSUME RingInv, NEW c \in Callers, NEW q, Locals(q), NEW end \in Nat,
         q.head <= head[Side(c)],
         q.base <= frontier[Other(c)], Clear(Other(c), end)
  PROVE  /\ Locals(Discovered(q, end)) /\ Knows(c, Discovered(q, end))
         /\ ~Holding(Discovered(q, end))
<1> DEFINE o == Discovered(q, end)
<1>0. << >> \in Seq(Nat) /\ 0 \in Nat /\ q.base \in Nat
  BY DEF Locals
<1>1. CASE q.base < end
  <2>1. o = [q EXCEPT !.pc = "raise", !.end = end,
                      !.window = 0, !.stride = 0, !.ahead = << >>]
    BY <1>1 DEF Discovered
  <2> HIDE DEF o
  <2>2. Locals(o) /\ o.pc = "raise" /\ o.end = end /\ o.base = q.base /\ o.head = q.head
    BY <1>0, <2>1 DEF Locals, OpFields
  <2>3. Knows(c, o) /\ ~Holding(o)
    BY <1>0, <1>1, <2>2 DEF Knows, Searching, Holding
  <2> QED
    BY <2>2, <2>3 DEF o
<1>2. CASE ~(q.base < end)
  <2>1. o = [q EXCEPT !.pc = "fresh", !.base = 0, !.end = 0,
                      !.window = 0, !.stride = 0, !.ahead = << >>]
    BY <1>2 DEF Discovered
  <2> HIDE DEF o
  <2>2. Locals(o) /\ o.pc = "fresh" /\ o.head = q.head
    BY <1>0, <2>1 DEF Locals, OpFields
  <2>3. Knows(c, o) /\ ~Holding(o)
    BY <2>2 DEF Knows, Searching, Holding
  <2> QED
    BY <2>2, <2>3 DEF o
<1> QED
  BY <1>1, <1>2

\* The window ends at the opposite head, at most Capacity on.
LEMMA LoadBoundInv == ASSUME RingInv, NEW c \in Callers, loadBound(c) PROVE RingInv' /\ OwnersStay
<1> DEFINE h == head[Other(c)]
           window == Min({h - op[c].base, Capacity})
           b == [op[c] EXCEPT !.pc = "discover", !.window = window]
           o == IF window = 0 THEN Discovered(op[c], op[c].end) ELSE b
<1>0. Capacity \in Nat \ {0}
  BY RingAssumption
<1>1. Step(c, o)
  BY DEF loadBound
<1>2. /\ Locals(op[c]) /\ op[c].pc = "bound" /\ op[c].head <= head[Side(c)]
      /\ op[c].base <= frontier[Other(c)] /\ op[c].end = op[c].base
      /\ Clear(Other(c), op[c].end) /\ op[c].base \in Nat /\ op[c].end \in Nat
      /\ op[c].ahead = << >>
  BY DEF loadBound, RingInv, Typed, Knows, Searching, Locals
<1>3. h \in Nat /\ frontier[Other(c)] \in Nat /\ frontier[Other(c)] <= h
  BY SidesOf DEF RingInv, Typed, Clear
<1> HIDE DEF h
<1>4. window \in Nat /\ window <= Capacity /\ op[c].base + window <= h
  <2>1. window = IF h - op[c].base <= Capacity THEN h - op[c].base ELSE Capacity
    <3>1. PICK x \in Int : x = h - op[c].base
      BY <1>2, <1>3
    <3> QED
      BY <1>0, <3>1, MinOfTwo
  <2> HIDE DEF window
  <2> QED
    BY <1>0, <1>2, <1>3, <2>1
<1> HIDE DEF window
<1>5. Locals(b) /\ b.pc = "discover" /\ b.head = op[c].head /\ b.base = op[c].base
      /\ b.end = op[c].end /\ b.window = window /\ b.ahead = op[c].ahead
  BY <1>2, <1>4 DEF Locals, OpFields
<1> HIDE DEF b
<1>6. CASE window = 0
  <2>1. o = Discovered(op[c], op[c].end)
    BY <1>6
  <2> HIDE DEF o
  <2>2. Locals(o) /\ Knows(c, o) /\ ~Holding(o)
    BY <1>2, <2>1, DiscoveredLocals
  <2> QED
    BY <1>1, <1>2, <2>2, Quiet DEF loadBound, RingInv, Typed, Holding
<1>7. CASE window # 0
  <2>1. Knows(c, b) /\ ~Holding(b)
    BY <1>2, <1>3, <1>4, <1>5, <1>7 DEF Knows, Searching, Holding, h
  <2>2. o = b
    BY <1>7
  <2> HIDE DEF o
  <2> QED
    BY <1>1, <1>2, <1>5, <2>1, <2>2, Quiet DEF loadBound, RingInv, Typed, Holding
<1> QED
  BY <1>6, <1>7

\* The record that starts at a boundary and ends within a lap of the frontier the
\* discovery began at belongs to this lap: all below its end is finished.
LEMMA FollowRecord ==
  ASSUME RingInv, NEW s \in Sides, NEW b \in Nat, NEW e \in Nat, NEW r \in Nat,
         Clear(s, e), Recorded(s, Slot(e), r),
         b <= e, e < r, r <= b + Capacity
  PROVE  Clear(s, r)
<1>0. Capacity \in Nat \ {0}
  BY RingAssumption
<1>1. PICK h \in Nat :
        /\ Slot(h) = Slot(e) /\ h < r /\ r <= h + Capacity /\ r <= head[s]
        /\ \A d \in Holders(s) : op[d].head + op[d].count <= h \/ r <= op[d].head
  BY DEF Recorded
<1>2. h = e
  <2>1. h < e + Capacity /\ e < h + Capacity
    BY <1>0, <1>1
  <2> QED
    BY <1>1, <2>1, SlotPosition
<1>3. ASSUME NEW d \in Holders(s) PROVE r <= op[d].head
  <2>1. op[d].count \in 1..MaxBatch /\ op[d].head \in Nat /\ MaxBatch \in Nat
    BY RingAssumption DEF RingInv, Typed, Locals, Claimed, Holders
  <2>2. e <= op[d].head
    BY DEF Clear
  <2> QED
    BY <1>1, <1>2, <2>1, <2>2
<1> QED
  BY <1>1, <1>3 DEF Clear

\* A position has a slot.
LEMMA SlotIn == ASSUME NEW p \in Nat PROVE Slot(p) \in Slots
  BY RingAssumption, DivMod DEF Slot, Slots

\* The locals of a call whose discovery has ended.
LEMMA FoundLocals ==
  ASSUME NEW q, Locals(q), NEW e \in Nat
  PROVE  /\ Locals(Found(q, e)) /\ Found(q, e).pc = "found" /\ Found(q, e).end = e
         /\ Found(q, e).base = q.base /\ Found(q, e).head = q.head
<1>1. << >> \in Seq(Nat)
  OBVIOUS
<1> QED
  BY <1>1 DEF Found, Locals, OpFields

\* The end of a discovery that found the boundary e.
LEMMA FoundInv ==
  ASSUME RingInv, NEW c \in Callers, op[c].pc \in {"discover", "ahead"},
         UNCHANGED <<head, frontier, records, entries>>,
         NEW e \in Nat, op[c].base <= e, Clear(Other(c), e),
         Step(c, Discovered(Found(op[c], e), e))
  PROVE  RingInv' /\ OwnersStay
<1> DEFINE q == Found(op[c], e)
           o == Discovered(q, e)
<1>1. Locals(op[c]) /\ op[c].head <= head[Side(c)] /\ op[c].base <= frontier[Other(c)]
  BY DEF RingInv, Typed, Knows, Searching
<1>2. Locals(q) /\ q.base = op[c].base /\ q.head = op[c].head
  BY <1>1, FoundLocals
<1> HIDE DEF q
<1>3. Locals(o) /\ Knows(c, o) /\ ~Holding(o)
  BY <1>1, <1>2, DiscoveredLocals
<1>4. Step(c, o)
  BY DEF q
<1> HIDE DEF o
<1> QED
  BY <1>3, <1>4, Quiet DEF RingInv, Typed, Holding

\* A record inside the window leads to a position with nothing unfinished below it.
LEMMA DiscoverRecordInv ==
  ASSUME RingInv, NEW c \in Callers, discoverRecord(c)
  PROVE  RingInv' /\ OwnersStay
<1> DEFINE r == records[Other(c)][Slot(op[c].end)]
           stride == r - op[c].end
           next == [op[c] EXCEPT !.end = r]
           ahead == [next EXCEPT !.pc = "ahead", !.stride = stride]
           q == followRecord(op[c], r, op[c].window)
           o == IF q.pc = "found" THEN Discovered(q, q.end) ELSE q
<1>0. Capacity \in Nat \ {0}
  BY RingAssumption
<1>1. Step(c, o) /\ UNCHANGED <<head, frontier, records, entries>>
  BY DEF discoverRecord
<1>2. /\ Locals(op[c]) /\ op[c].pc = "discover" /\ op[c].head <= head[Side(c)]
      /\ op[c].base <= frontier[Other(c)] /\ op[c].base <= op[c].end
      /\ Clear(Other(c), op[c].end) /\ op[c].window <= Capacity
      /\ op[c].base + op[c].window <= head[Other(c)]
      /\ op[c].end < op[c].base + op[c].window /\ op[c].ahead = << >>
  BY DEF discoverRecord, RingInv, Typed, Knows, Searching
<1>3. op[c].base \in Nat /\ op[c].end \in Nat /\ op[c].window \in Nat
      /\ op[c].ahead \in Seq(Nat)
  BY <1>2 DEF Locals
<1>4. r \in Nat /\ Recorded(Other(c), Slot(op[c].end), r)
  <2>1. Slot(op[c].end) \in Slots
    BY <1>3, SlotIn
  <2> QED
    BY <2>1, SidesOf DEF RingInv, Typed, RecordsTrue
<1> HIDE DEF r
<1>5. CASE stride <= 0 \/ stride > Left(op[c])
  <2>1. q = Found(op[c], op[c].end)
    BY <1>5 DEF followRecord
  <2> HIDE DEF q
  <2>3. q.pc = "found" /\ q.end = op[c].end
    BY <1>2, <1>3, <2>1, FoundLocals
  <2>2. o = Discovered(Found(op[c], op[c].end), op[c].end)
    BY <2>1, <2>3
  <2> HIDE DEF o
  <2> QED
    BY <1>1, <1>2, <1>3, <2>2, FoundInv
<1>6. CASE ~(stride <= 0 \/ stride > Left(op[c]))
  <2>1. r \in Nat /\ op[c].end < r /\ r <= op[c].base + op[c].window
    BY <1>3, <1>4, <1>6 DEF Left
  <2>2. Clear(Other(c), r)
    BY <1>0, <1>2, <1>3, <1>4, <2>1, FollowRecord, SidesOf
  <2>3. /\ Locals(next) /\ next.pc = "discover" /\ next.head = op[c].head
        /\ next.base = op[c].base /\ next.window = op[c].window /\ next.end = r
        /\ next.ahead = op[c].ahead
    BY <1>2, <2>1 DEF Locals, OpFields
  <2>4. CASE AtStop(next, op[c].window)
    <3>1. q = Found(op[c], r)
      BY <1>6, <2>4 DEF followRecord
    <3> HIDE DEF q
    <3>4. q.pc = "found" /\ q.end = r
      BY <1>2, <1>4, <3>1, FoundLocals
    <3>2. o = Discovered(Found(op[c], r), r)
      BY <3>1, <3>4
    <3> HIDE DEF o
    <3>3. op[c].base <= r
      BY <1>2, <1>3, <2>1
    <3> QED
      BY <1>1, <1>2, <2>1, <2>2, <3>2, <3>3, FoundInv
  <2>5. CASE ~AtStop(next, op[c].window)
    <3>1. r < op[c].base + op[c].window
      BY <1>3, <2>1, <2>3, <2>5 DEF AtStop, Left
    <3>2. CASE stride < recordLookaheadMinStride
      <4>1. q = next
        BY <1>6, <2>5, <3>2 DEF followRecord
      <4>2. o = next
        BY <2>3, <4>1
      <4> HIDE DEF o, next
      <4>3. Knows(c, next) /\ ~Holding(next)
        BY SMTT(30), <1>2, <1>3, <2>1, <2>2, <2>3, <3>1 DEF Knows, Searching, Holding
      <4> QED
        BY <1>1, <1>2, <2>3, <4>2, <4>3, Quiet DEF RingInv, Typed, Holding
    <3>3. CASE ~(stride < recordLookaheadMinStride)
      <4>1. q = ahead
        BY <1>6, <2>5, <3>3 DEF followRecord
      <4> HIDE DEF next
      <4>2. stride \in Nat /\ stride > 0
        BY <1>3, <2>1
      <4> HIDE DEF stride
      <4>3. /\ Locals(ahead) /\ ahead.pc = "ahead" /\ ahead.head = op[c].head
            /\ ahead.base = op[c].base /\ ahead.window = op[c].window /\ ahead.end = r
            /\ ahead.ahead = op[c].ahead /\ ahead.stride = stride
        BY <2>3, <4>2 DEF Locals, OpFields
      <4>4. o = ahead
        BY <4>1, <4>3
      <4> HIDE DEF o, ahead
      <4>5. Len(ahead.ahead) = 0
        BY <1>2, <4>3
      <4>6. Knows(c, ahead) /\ ~Holding(ahead)
        BY SMTT(30), <1>2, <1>3, <2>1, <2>2, <4>2, <4>3, <4>5, <3>1 DEF Knows, Searching, Holding
      <4> QED
        BY <1>1, <1>2, <4>3, <4>4, <4>6, Quiet DEF RingInv, Typed, Holding
    <3> QED
      BY <3>2, <3>3
  <2> QED
    BY <2>4, <2>5
<1> QED
  BY <1>5, <1>6

\* Multiples of a stride.
LEMMA Times ==
  ASSUME NEW k \in Nat, NEW n \in Nat
  PROVE  k * n \in Nat /\ (k + 1) * n = k * n + n
  OBVIOUS

\* A lane loads the record a number of strides ahead.
LEMMA LoadAheadInv == ASSUME RingInv, NEW c \in Callers, loadAhead(c) PROVE RingInv' /\ OwnersStay
<1> DEFINE n == Len(op[c].ahead)
           p == op[c].end + n * op[c].stride
           r == records[Other(c)][Slot(p)]
           lanes == Append(op[c].ahead, r)
           o == [op[c] EXCEPT !.ahead = lanes]
<1>1. op[c].pc = "ahead" /\ UNCHANGED <<head, frontier, records, entries>>
  BY DEF loadAhead
<1>2. Locals(op[c]) /\ Knows(c, op[c])
  BY DEF RingInv, Typed
<1>3. op[c].end \in Nat /\ op[c].stride \in Nat /\ op[c].ahead \in Seq(Nat) /\ n \in Nat
  BY <1>2 DEF Locals
<1>4. p \in Nat
  <2>1. n * op[c].stride \in Nat
    BY <1>3, Times
  <2> QED
    BY <1>3, <2>1
<1>5. Step(c, o)
  <2>1. Step(c, [op[c] EXCEPT
                !.ahead = Append(@, records[Other(c)][Slot(Predicted(op[c]))])])
    BY DEF loadAhead
  <2>2. Predicted(op[c]) = p
    BY DEF Predicted
  <2>3. op[c] = [f \in OpFields |-> op[c][f]]
    BY <1>2 DEF Locals
  <2>4. [op[c] EXCEPT !.ahead = Append(@, r)] = o
    BY <2>3 DEF OpFields
  <2> QED
    BY <2>1, <2>2, <2>4
<1>6. r \in Nat /\ Recorded(Other(c), Slot(p), r)
  <2>1. Slot(p) \in Slots
    BY <1>4, SlotIn
  <2> QED
    BY <2>1, SidesOf DEF RingInv, Typed, RecordsTrue
<1> HIDE DEF r
<1>7. /\ lanes \in Seq(Nat) /\ Len(lanes) = n + 1 /\ lanes[n + 1] = r
      /\ \A i \in 1..n : lanes[i] = op[c].ahead[i]
  BY <1>3, <1>6
<1> HIDE DEF lanes
<1>8. /\ Locals(o) /\ o.pc = op[c].pc /\ o.head = op[c].head /\ o.count = op[c].count
      /\ o.base = op[c].base /\ o.window = op[c].window /\ o.end = op[c].end
      /\ o.stride = op[c].stride /\ o.ahead = lanes
  BY <1>2, <1>7 DEF Locals, OpFields
<1> HIDE DEF o
<1>9. ASSUME NEW i \in 1..n + 1
      PROVE  Recorded(Other(c), Slot(op[c].end + (i - 1) * op[c].stride), lanes[i])
  <2>1. CASE i = n + 1
    <3>1. i - 1 = n
      BY <1>3, <2>1
    <3> QED
      BY <1>6, <1>7, <2>1, <3>1
  <2>2. CASE i \in 1..n
    BY <1>1, <1>2, <1>7, <2>2 DEF Knows
  <2>3. i = n + 1 \/ i \in 1..n
    BY <1>3
  <2> QED
    BY <2>1, <2>2, <2>3
<1> HIDE DEF n, p
<1>10. Knows(c, o) /\ ~Holding(o) /\ ~Holding(op[c])
  BY <1>1, <1>2, <1>7, <1>8, <1>9 DEF Knows, Searching, Holding
<1> QED
  BY <1>1, <1>5, <1>8, <1>10, Quiet DEF RingInv, Typed

\* Induction over the naturals, for membership in a set.
LEMMA Induct ==
  ASSUME NEW S, 0 \in S, \A n \in Nat : n \in S => n + 1 \in S
  PROVE  Nat \subseteq S
<1> DEFINE T == Nat \ S
<1>1. SUFFICES ASSUME T # {} PROVE FALSE
  OBVIOUS
<1>2. PICK m \in T : \A k \in T : m <= k
  BY <1>1, Least
<1>3. m \in Nat /\ m # 0
  OBVIOUS
<1>4. m - 1 \in Nat /\ ~(m <= m - 1)
  BY <1>3
<1>5. m - 1 \in S
  BY <1>2, <1>4
<1> QED
  BY <1>3, <1>4, <1>5

\* The number of lanes that discoverRecordsAhead accepts exists.
LEMMA AcceptedLanes ==
  ASSUME NEW q, NEW stopAt, Len(q.ahead) \in Nat
  PROVE  \E k \in 0..Len(q.ahead) :
           Accepts(q, k, stopAt) /\ (k = Len(q.ahead) \/ ~Accepts(q, k + 1, stopAt))
<1> DEFINE S == {k \in 0..Len(q.ahead) : k = Len(q.ahead) \/ ~Accepts(q, k + 1, stopAt)}
<1>1. PICK m \in S : \A k \in S : m <= k
  <2>1. S \subseteq Nat /\ Len(q.ahead) \in S
    OBVIOUS
  <2> HIDE DEF S
  <2> QED
    BY <2>1, Least
<1>2. CASE m = 0
  BY <1>2 DEF Accepts
<1>3. CASE m # 0
  <2>1. m - 1 \in 0..Len(q.ahead) /\ m - 1 # Len(q.ahead) /\ ~(m <= m - 1) /\ (m - 1) + 1 = m
    BY <1>3
  <2>2. Accepts(q, m, stopAt)
    BY <1>1, <2>1
  <2> QED
    BY <2>2
<1> QED
  BY <1>2, <1>3

\* Finished intervals of d positions, one after another from e, leave everything
\* below the end of the last one finished.
LEMMA FollowLanes ==
  ASSUME RingInv, NEW s \in Sides, NEW b \in Nat, NEW e \in Nat, NEW d \in Nat, NEW n \in Nat,
         b <= e, d > 0, Clear(s, e),
         \A i \in 1..n : /\ Recorded(s, Slot(e + (i - 1) * d), e + i * d)
                         /\ e + i * d <= b + Capacity
  PROVE  Clear(s, e + n * d) /\ e + n * d \in Nat /\ e <= e + n * d
<1> DEFINE end(k) == e + k * d
           S == {k \in Nat : k <= n => Clear(s, end(k))}
<1> HIDE DEF end
<1>1. ASSUME NEW k \in Nat
      PROVE  end(k) \in Nat /\ e <= end(k) /\ end(k + 1) = end(k) + d
  <2>1. PICK x \in Nat : x = k * d /\ (k + 1) * d = x + d
    BY Times
  <2>2. end(k) = e + x /\ end(k + 1) = e + (x + d)
    BY <2>1 DEF end
  <2> QED
    BY <2>2
<1>2. 0 \in S
  BY DEF end
<1>3. ASSUME NEW k \in Nat, k \in S
      PROVE  k + 1 \in S
  <2> SUFFICES ASSUME k + 1 <= n PROVE Clear(s, end(k + 1))
    OBVIOUS
  <2>1. Clear(s, end(k))
    BY <1>3
  <2>2. k + 1 \in 1..n /\ (k + 1) - 1 = k
    OBVIOUS
  <2>3. Recorded(s, Slot(end(k)), end(k + 1)) /\ end(k + 1) <= b + Capacity
    BY <2>2 DEF end
  <2>4. PICK x \in Nat, y \in Nat : x = end(k) /\ y = end(k + 1) /\ e <= x /\ y = x + d
    BY <1>1
  <2>5. b <= x /\ x < y
    BY <2>4
  <2> QED
    BY <2>1, <2>3, <2>4, <2>5, FollowRecord
<1>4. Nat \subseteq S
  BY <1>2, <1>3, Induct
<1>5. Clear(s, end(n)) /\ end(n) \in Nat /\ e <= end(n)
  BY <1>1, <1>4
<1> QED
  BY <1>5 DEF end

\* The lanes that agree with the stride are accepted, the others dropped.
LEMMA AcceptAheadInv ==
  ASSUME RingInv, NEW c \in Callers, acceptAhead(c)
  PROVE  RingInv' /\ OwnersStay
<1> DEFINE n == CHOOSE k \in 0..Len(op[c].ahead) :
                  /\ Accepts(op[c], k, op[c].window)
                  /\ k = Len(op[c].ahead) \/ ~Accepts(op[c], k + 1, op[c].window)
           e == op[c].end + n * op[c].stride
           next == [op[c] EXCEPT !.end = e]
           more == [next EXCEPT !.pc = "discover", !.stride = 0, !.ahead = << >>]
           q == discoverRecordsAhead(op[c], op[c].window)
           o == IF q.pc = "found" THEN Discovered(q, q.end) ELSE q
<1>0. Capacity \in Nat \ {0}
  BY RingAssumption
<1>1. /\ Step(c, o) /\ UNCHANGED <<head, frontier, records, entries>>
      /\ op[c].pc = "ahead"
  BY DEF acceptAhead
<1>2. Locals(op[c]) /\ Knows(c, op[c])
  BY DEF RingInv, Typed
<1>3. /\ op[c].end \in Nat /\ op[c].stride \in Nat /\ op[c].base \in Nat
      /\ op[c].window \in Nat
  BY <1>2 DEF Locals
<1>4. /\ op[c].base <= op[c].end /\ op[c].window <= Capacity /\ op[c].stride > 0
      /\ op[c].head <= head[Side(c)] /\ op[c].base <= frontier[Other(c)]
      /\ op[c].base + op[c].window <= head[Other(c)]
      /\ Clear(Other(c), op[c].end)
  BY <1>1, <1>2 DEF Knows, Searching
<1>5. /\ Len(op[c].ahead) \in Nat
      /\ \A i \in 1..Len(op[c].ahead) :
            Recorded(Other(c), Slot(op[c].end + (i - 1) * op[c].stride), op[c].ahead[i])
  <2>1. op[c].ahead \in Seq(Nat)
    BY <1>2 DEF Locals
  <2>2. Len(op[c].ahead) \in Nat
    BY <2>1
  <2> QED
    BY <1>1, <1>2, <2>2 DEF Knows
<1>6. n \in 0..Len(op[c].ahead) /\ Accepts(op[c], n, op[c].window)
  <2>1. \E k \in 0..Len(op[c].ahead) :
          /\ Accepts(op[c], k, op[c].window)
          /\ k = Len(op[c].ahead) \/ ~Accepts(op[c], k + 1, op[c].window)
    BY <1>5, AcceptedLanes
  <2> QED
    BY <2>1
<1>7. q = IF AtStop([op[c] EXCEPT !.end = @ + n * op[c].stride], op[c].window)
          THEN Found(op[c], [op[c] EXCEPT !.end = @ + n * op[c].stride].end)
          ELSE [[op[c] EXCEPT !.end = @ + n * op[c].stride] EXCEPT
                  !.pc = "discover", !.stride = 0, !.ahead = << >>]
  BY DEF discoverRecordsAhead
<1> HIDE DEF n
<1>8. ASSUME NEW i \in 1..n
      PROVE  /\ Recorded(Other(c), Slot(op[c].end + (i - 1) * op[c].stride),
                         op[c].end + i * op[c].stride)
             /\ op[c].end + i * op[c].stride <= op[c].base + Capacity
  <2>1. i \in 1..Len(op[c].ahead)
    BY <1>5, <1>6
  <2>2. op[c].ahead[i] = op[c].end + i * op[c].stride /\ i * op[c].stride <= Left(op[c])
    BY <1>6 DEF Accepts
  <2>3. PICK x \in Nat : x = i * op[c].stride
    <3>1. i \in Nat
      OBVIOUS
    <3> QED
      BY <1>3, <3>1, Times
  <2>4. op[c].end + x <= op[c].base + Capacity
    BY <1>0, <1>3, <1>4, <2>2, <2>3 DEF Left
  <2> QED
    BY <1>5, <2>1, <2>2, <2>3, <2>4
<1>9. n \in Nat
  BY <1>5, <1>6
<1>10. Clear(Other(c), e) /\ e \in Nat /\ op[c].base <= e
  <2>1. Clear(Other(c), e) /\ e \in Nat /\ op[c].end <= e
    BY <1>3, <1>4, <1>8, <1>9, FollowLanes, SidesOf
  <2> HIDE DEF e
  <2> QED
    BY <1>3, <1>4, <2>1
<1>11. [op[c] EXCEPT !.end = @ + n * op[c].stride] = next
  <2>1. op[c] = [f \in OpFields |-> op[c][f]]
    BY <1>2 DEF Locals
  <2> QED
    BY <2>1 DEF OpFields
<1> HIDE DEF e
<1>12. /\ Locals(next) /\ next.head = op[c].head /\ next.base = op[c].base
       /\ next.window = op[c].window /\ next.end = e
  BY <1>2, <1>10 DEF Locals, OpFields
<1> HIDE DEF next
<1>13. q = IF AtStop(next, op[c].window) THEN Found(op[c], e) ELSE more
  BY <1>7, <1>11, <1>12
<1> HIDE DEF q
<1>14. CASE AtStop(next, op[c].window)
  <2>1. q = Found(op[c], e)
    BY <1>13, <1>14
  <2>2. q.pc = "found" /\ q.end = e
    BY <1>2, <1>10, <2>1, FoundLocals
  <2>3. o = Discovered(Found(op[c], e), e)
    BY <2>1, <2>2
  <2> HIDE DEF o
  <2> QED
    BY <1>1, <1>10, <2>3, FoundInv
<1>15. CASE ~AtStop(next, op[c].window)
  <2>1. /\ Locals(more) /\ more.pc = "discover" /\ more.head = op[c].head
        /\ more.base = op[c].base /\ more.window = op[c].window /\ more.end = e
        /\ more.ahead = << >>
    <3>1. << >> \in Seq(Nat)
      OBVIOUS
    <3> QED
      BY <1>12, <3>1 DEF Locals, OpFields
  <2>2. o = more
    BY <1>13, <1>15, <2>1
  <2> HIDE DEF more, o
  <2>3. e < op[c].base + op[c].window
    BY SMTT(30), <1>3, <1>10, <1>12, <1>15 DEF AtStop, Left
  <2>4. Knows(c, more) /\ ~Holding(more)
    BY <1>4, <1>10, <2>1, <2>3 DEF Knows, Searching, Holding
  <2> QED
    BY <1>1, <2>1, <2>2, <2>4, Quiet DEF RingInv, Typed, Holding
<1> QED
  BY <1>14, <1>15

\* The frontier is loaded again after it was raised.
LEMMA LoadFreshInv == ASSUME RingInv, NEW c \in Callers, loadFresh(c) PROVE RingInv' /\ OwnersStay
<1> DEFINE avail == Admits(c, frontier[Other(c)])
           o == IF Stale(avail) THEN Retry(c) ELSE Decide(c, avail)
<1>1. Step(c, o)
  BY DEF loadFresh
<1>2. Locals(op[c]) /\ op[c].pc = "fresh" /\ op[c].head <= head[Side(c)]
  BY DEF loadFresh, RingInv, Typed, Knows, Searching
<1>3. Stale(avail) \/ (avail \in Nat /\ op[c].head + avail <= Limit(c))
  BY <1>2, AdmitsSound
<1>4. o = Retry(c) \/ (o = Decide(c, avail) /\ ~Stale(avail))
  OBVIOUS
<1> HIDE DEF avail, o
<1>5. Locals(o) /\ Knows(c, o) /\ ~Holding(o)
  BY <1>2, <1>3, <1>4, RetryLocals, DecideLocals
<1> QED
  BY <1>1, <1>2, <1>5, Quiet DEF loadFresh, RingInv, Typed, Holding

\* A call returns without an interval.
LEMMA ReturnShortInv == ASSUME RingInv, NEW c \in Callers, returnShort(c) PROVE RingInv' /\ OwnersStay
<1>1. Knows(c, Idle) /\ ~Holding(Idle) /\ ~Holding(op[c])
  BY IdleLocals DEF Knows, Searching, Holding, returnShort
<1> QED
  BY <1>1, IdleLocals, Quiet DEF returnShort, RingInv, Typed

\* The entries are copied while the interval is held.
LEMMA CopyInv == ASSUME RingInv, NEW c \in Callers, copy(c) PROVE RingInv'
<1> DEFINE o == [op[c] EXCEPT !.pc = "publish"]
<1>1. Step(c, o) /\ op[c].pc = "copy"
  BY DEF copy
<1>2. Locals(op[c])
  BY DEF RingInv, Typed
<1>3. Locals(o) /\ o.pc = "publish" /\ o.head = op[c].head /\ o.count = op[c].count
  BY <1>2 DEF Locals, OpFields
<1> HIDE DEF o
<1>4. Knows(c, o) /\ Holding(o) /\ Holding(op[c])
  BY <1>1, <1>3 DEF Knows, Searching, Holding
<1>5. entries' \in [Slots -> Nat]
  <2> SUFFICES ASSUME NEW k \in Slots
               PROVE  (IF \E p \in Owned(c) : Slot(p) = k
                       THEN IF c \in Producers
                            THEN ValueAt(CHOOSE p \in Owned(c) : Slot(p) = k) ELSE 0
                       ELSE entries[k]) \in Nat
    BY DEF copy
  <2>1. entries[k] \in Nat
    BY DEF RingInv, Typed
  <2>2. Owned(c) \subseteq Nat
    BY <1>2 DEF Owned, Locals
  <2>3. ASSUME NEW p \in Nat PROVE ValueAt(p) \in Nat
    BY DEF ValueAt
  <2> QED
    BY <2>1, <2>2, <2>3
<1> QED
  BY <1>1, <1>3, <1>4, <1>5, Quiet DEF copy

\* A compare-and-swap that fails, by the call that goes for a claim.
LEMMA ClaimFailsInv ==
  ASSUME RingInv, NEW c \in Callers, claim(c), head[Side(c)] # op[c].head
  PROVE  RingInv' /\ OwnersStay
<1>1. Locals(op[c]) /\ op[c].pc = "claim"
  BY DEF claim, RingInv, Typed
<1>2. Locals(Retry(c)) /\ Knows(c, Retry(c)) /\ ~Holding(Retry(c))
  BY <1>1, RetryLocals
<1>3. Step(c, Retry(c)) /\ UNCHANGED <<head, frontier, records, entries>>
  BY DEF claim
<1> QED
  BY <1>1, <1>2, <1>3, Quiet DEF RingInv, Typed, Holding

\* A failed compare-and-swap on a frontier, and the load of its present value.
LEMMA RaiseFailsInv ==
  ASSUME RingInv, NEW c \in Callers, raiseFrontier(c), frontier[Other(c)] # op[c].base
  PROVE  RingInv' /\ OwnersStay
<1> DEFINE f == frontier[Other(c)]
           q == [op[c] EXCEPT !.base = f]
           o == Discovered(q, op[c].end)
<1>1. Step(c, o) /\ UNCHANGED <<head, frontier, records, entries>> /\ op[c].pc = "raise"
  BY DEF raiseFrontier
<1>2. Locals(op[c]) /\ Knows(c, op[c]) /\ f \in Nat /\ op[c].end \in Nat
  BY SidesOf DEF RingInv, Typed, Locals
<1>3. Locals(q) /\ q.base = f /\ q.head = op[c].head
  BY <1>2 DEF Locals, OpFields
<1>4. op[c].head <= head[Side(c)] /\ Clear(Other(c), op[c].end)
  BY <1>1, <1>2 DEF Knows, Searching
<1> HIDE DEF q
<1>5. Locals(o) /\ Knows(c, o) /\ ~Holding(o)
  <2>1. f <= frontier[Other(c)]
    BY <1>2
  <2> QED
    BY <1>2, <1>3, <1>4, <2>1, DiscoveredLocals
<1> HIDE DEF o
<1> QED
  BY <1>1, <1>5, Quiet DEF RingInv, Typed, Holding

-----------------------------------------------------------------------------
(* The steps that move a head, a frontier or a record.                        *)

\* What a call knows lasts while heads and frontiers only grow, what is finished
\* stays finished and what is recorded stays true.
LEMMA KnowsOn ==
  ASSUME RingInv, head' \in [Sides -> Nat], frontier' \in [Sides -> Nat],
         \A s \in Sides : head[s] <= head'[s] /\ frontier[s] <= frontier'[s],
         \A s \in Sides : \A e \in Nat : Clear(s, e) => Clear(s, e)',
         \A s \in Sides : \A r \in Nat : \A k : Recorded(s, k, r) => Recorded(s, k, r)',
         NEW d \in Callers, NEW q, Locals(q), Knows(d, q)
  PROVE  Knows(d, q)'
<1>1. Capacity \in Nat /\ MaxBatch \in Nat
  BY RingAssumption
<1>2. \A s \in Sides : /\ head[s] \in Nat /\ frontier[s] \in Nat
                       /\ head'[s] \in Nat /\ frontier'[s] \in Nat
  BY DEF RingInv, Typed
<1>3. /\ q.head \in Nat /\ q.count \in Nat /\ q.base \in Nat /\ q.window \in Nat
      /\ q.end \in Nat
  BY DEF Locals
<1>4. Searching(q) => q.head <= head'[Side(d)]
  BY SMTT(30), <1>2, <1>3, SidesOf DEF Knows
<1>5. Limit(d) \in Nat /\ Limit(d)' \in Nat /\ Limit(d) <= Limit(d)'
  BY <1>1, <1>2 DEF Limit, Sides
<1>6. q.pc = "claim" => q.count \in 1..MaxBatch /\ q.head + q.count <= Limit(d)'
  <2>1. q.pc = "claim" => q.count \in 1..MaxBatch /\ q.head + q.count <= Limit(d)
    BY DEF Knows
  <2> HIDE DEF Limit
  <2> QED
    BY <1>3, <1>5, <2>1
<1>7. q.pc \in {"bound", "discover", "ahead", "raise"} =>
        q.base <= q.end /\ q.base <= frontier'[Other(d)] /\ Clear(Other(d), q.end)'
  BY SMTT(30), <1>2, <1>3, SidesOf DEF Knows
<1>8. q.pc \in {"discover", "ahead"} =>
        /\ q.window <= Capacity /\ q.base + q.window <= head'[Other(d)]
        /\ q.end < q.base + q.window
  BY <1>1, <1>2, <1>3, SidesOf DEF Knows
<1>9. q.pc = "ahead" =>
        /\ q.stride > 0
        /\ \A i \in 1..Len(q.ahead) :
             Recorded(Other(d), Slot(q.end + (i - 1) * q.stride), q.ahead[i])'
  <2> SUFFICES ASSUME q.pc = "ahead", NEW i \in 1..Len(q.ahead)
               PROVE  Recorded(Other(d), Slot(q.end + (i - 1) * q.stride), q.ahead[i])'
    BY DEF Knows
  <2>1. q.ahead \in Seq(Nat)
    BY DEF Locals
  <2>2. q.ahead[i] \in Nat
    BY <2>1
  <2>3. Recorded(Other(d), Slot(q.end + (i - 1) * q.stride), q.ahead[i])
    BY DEF Knows
  <2> QED
    BY <2>2, <2>3, SidesOf
<1>10. /\ q.pc = "idle" \/ q.pc = "head" \/ Searching(q) \/ Holding(q)
       /\ q.pc \in {"head", "front", "base", "bound", "discover"} => q.ahead = << >>
       /\ q.pc = "bound" => q.end = q.base
       /\ q.pc = "raise" => q.base < q.end
  BY DEF Knows
<1> QED
  BY <1>4, <1>6, <1>7, <1>8, <1>9, <1>10 DEF Knows, Searching, Holding, Side, Other

\* A claim that wins owns positions that nobody else does.
LEMMA ClaimInv ==
  ASSUME RingInv, NEW c \in Callers, claim(c), head[Side(c)] = op[c].head
  PROVE  RingInv'
<1> DEFINE o == [Idle EXCEPT !.pc = "copy", !.head = op[c].head, !.count = op[c].count]
           s0 == Side(c)
           n == op[c].count
<1>0. Capacity \in Nat /\ MaxBatch \in Nat
  BY RingAssumption
<1>1. /\ Step(c, o) /\ head' = [head EXCEPT ![s0] = @ + n]
      /\ UNCHANGED <<frontier, records, entries>> /\ op[c].pc = "claim"
  BY DEF claim
<1>2. /\ Locals(op[c]) /\ n \in 1..MaxBatch /\ op[c].head + n <= Limit(c)
      /\ op[c].head \in Nat /\ n \in Nat
  BY <1>1 DEF RingInv, Typed, Knows, Locals
<1>3. Locals(o) /\ o.pc = "copy" /\ o.head = op[c].head /\ o.count = n
  BY <1>2, IdleLocals DEF Locals, OpFields
<1> HIDE DEF o, n
<1>4. op' = [d \in Callers |-> IF d = c THEN o ELSE op[d]]
  BY <1>1 DEF Step, RingInv, Typed
<1>5. op'[c] = o /\ \A d \in Callers : d # c => op'[d] = op[d]
  BY <1>4
<1>6. \A s \in Sides : head[s] \in Nat
  BY DEF RingInv, Typed
<1>7. head' = [s \in Sides |-> IF s = s0 THEN head[s] + n ELSE head[s]]
  BY <1>1 DEF RingInv, Typed
<1>8. head' \in [Sides -> Nat] /\ \A s \in Sides : head[s] <= head'[s]
  BY <1>2, <1>6, <1>7
<1>9. Typed'
  <2>1. \A d \in Callers : Locals(op'[d])
    BY <1>3, <1>5 DEF RingInv, Typed
  <2>2. op' = [d \in Callers |-> op'[d]]
    BY <1>4
  <2> QED
    BY <1>1, <1>8, <2>1, <2>2 DEF RingInv, Typed, Locals
<1>10. ~Holding(op[c]) /\ Holding(op'[c])
  BY <1>1, <1>3, <1>5 DEF Holding
<1>11. \A s \in Sides : \A d \in Holders(s)' :
         \/ d = c /\ s = s0
         \/ d \in Holders(s) /\ d # c /\ op'[d] = op[d]
  BY <1>5 DEF Holders, Holding, Side
<1>12. \A s \in Sides : \A d \in Holders(s) :
         /\ d \in Callers /\ op[d].head \in Nat /\ op[d].count \in 1..MaxBatch
         /\ op[d].head + op[d].count <= head[s]
  BY DEF RingInv, Typed, Locals, Claimed, Holders
<1>13. \A s \in Sides : \A e \in Nat : Clear(s, e) => Clear(s, e)'
  <2> SUFFICES ASSUME NEW s \in Sides, NEW e \in Nat, Clear(s, e)
               PROVE  e <= head'[s] /\ \A d \in Holders(s)' : e <= op'[d].head
    BY DEF Clear
  <2>1. e <= head[s] /\ \A d \in Holders(s) : e <= op[d].head
    BY DEF Clear
  <2>2. head[s] \in Nat /\ head'[s] \in Nat /\ head[s] <= head'[s]
    BY <1>6, <1>8
  <2>3. e <= head'[s]
    BY <2>1, <2>2
  <2> QED
    BY <1>3, <1>5, <1>11, <2>1, <2>3
<1>14. \A s \in Sides : \A r \in Nat : \A k : Recorded(s, k, r) => Recorded(s, k, r)'
  <2> SUFFICES ASSUME NEW s \in Sides, NEW r \in Nat, NEW k, Recorded(s, k, r), r # 0
               PROVE  Recorded(s, k, r)'
    BY DEF Recorded
  <2>1. PICK h \in Nat :
          /\ Slot(h) = k /\ h < r /\ r <= h + Capacity /\ r <= head[s]
          /\ \A d \in Holders(s) : op[d].head + op[d].count <= h \/ r <= op[d].head
    BY DEF Recorded
  <2>2. \A d \in Holders(s)' : op'[d].head + op'[d].count <= h \/ r <= op'[d].head
    BY <1>3, <1>5, <1>11, <2>1
  <2>3. r <= head'[s]
    <3>1. head[s] \in Nat /\ head'[s] \in Nat /\ head[s] <= head'[s]
      BY <1>6, <1>8
    <3> QED
      BY <2>1, <3>1
  <2> QED
    BY <2>1, <2>2, <2>3 DEF Recorded
<1>15. \A d \in Callers : Claimed(d)'
  <2> SUFFICES ASSUME NEW d \in Callers, Holding(op'[d])
               PROVE  op'[d].count \in 1..MaxBatch /\ op'[d].head + op'[d].count <= head'[Side(d)]
    BY DEF Claimed, Holding, Side
  <2>1. CASE d = c
    BY <1>2, <1>3, <1>5, <1>7, <2>1, SidesOf
  <2>2. CASE d # c
    <3>1. d \in Holders(Side(d)) /\ op'[d] = op[d] /\ Side(d) \in Sides
      BY <1>5, <2>2, SidesOf DEF Holders
    <3>2. head[Side(d)] \in Nat /\ head'[Side(d)] \in Nat /\ head[Side(d)] <= head'[Side(d)]
      BY <1>6, <1>8, <3>1
    <3> QED
      BY <1>0, <1>12, <3>1, <3>2
  <2> QED
    BY <2>1, <2>2
<1>16. ClaimsApart'
  <2> SUFFICES ASSUME NEW s \in Sides, NEW d \in Holders(s)', NEW g \in Holders(s)', d # g
               PROVE  Apart(op'[d], op'[g])
    BY DEF ClaimsApart, Apart
  <2>1. CASE d # c /\ g # c
    BY <1>11, <2>1 DEF RingInv, ClaimsApart
  <2>2. CASE d = c
    <3>1. g \in Holders(s) /\ op'[g] = op[g] /\ s = s0
      BY <1>11, <2>2
    <3> QED
      BY <1>3, <1>5, <1>12, <2>2, <3>1 DEF Apart
  <2>3. CASE g = c
    <3>1. d \in Holders(s) /\ op'[d] = op[d] /\ s = s0
      BY <1>11, <2>3
    <3> QED
      BY <1>3, <1>5, <1>12, <2>3, <3>1 DEF Apart
  <2> QED
    BY <2>1, <2>2, <2>3
<1>17. RecordsTrue'
  BY <1>1, <1>14 DEF RingInv, Typed, RecordsTrue
<1>18. PositionsOrdered'
  <2>1. \A s \in Sides : frontier[s] \in Nat
    BY DEF RingInv, Typed
  <2> QED
    BY <1>0, <1>1, <1>2, <1>6, <1>7, <2>1 DEF RingInv, PositionsOrdered, Limit, Side, Sides
<1>19. \A s \in Sides : Clear(s, frontier[s])'
  BY <1>1, <1>13 DEF RingInv, Typed
<1>20. \A d \in Callers : Knows(d, op[d])'
  <2>1. \A s \in Sides : head[s] <= head'[s] /\ frontier[s] <= frontier'[s]
    BY <1>1, <1>8 DEF RingInv, Typed
  <2>2. frontier' \in [Sides -> Nat]
    BY <1>1 DEF RingInv, Typed
  <2>3. ASSUME NEW d \in Callers, d # c PROVE Knows(d, op[d])'
    <3>1. Knows(d, op[d]) /\ Locals(op[d]) /\ op'[d] = op[d]
      BY <1>5, <2>3 DEF RingInv, Typed
    <3> QED
      BY <1>8, <1>13, <1>14, <2>1, <2>2, <3>1, KnowsOn
  <2>4. Knows(c, op[c])'
    BY <1>3, <1>5 DEF Knows, Searching, Holding
  <2> QED
    BY <2>3, <2>4
<1> QED
  BY <1>9, <1>15, <1>16, <1>17, <1>18, <1>19, <1>20 DEF RingInv

\* Publication writes the record of the interval and gives it up.
LEMMA PublishInv ==
  ASSUME RingInv, NEW c \in Callers, publish(c)
  PROVE  RingInv'
<1> DEFINE s0 == Side(c)
<1>0. Capacity \in Nat /\ MaxBatch \in Nat /\ MaxBatch <= Capacity
  BY RingAssumption
<1>19. PICK h0, r0 : h0 = op[c].head /\ r0 = op[c].head + op[c].count
  OBVIOUS
<1>1. /\ Step(c, Idle) /\ records' = [records EXCEPT ![s0][Slot(h0)] = r0]
      /\ UNCHANGED <<head, frontier, entries>> /\ op[c].pc = "publish"
  BY <1>19 DEF publish
<1>2. c \in Holders(s0) /\ s0 \in Sides
  BY <1>1, SidesOf DEF Holders, Holding
<1>3. op' = [d \in Callers |-> IF d = c THEN Idle ELSE op[d]]
  BY <1>1 DEF Step, RingInv, Typed
<1>4. op'[c] = Idle /\ \A d \in Callers : d # c => op'[d] = op[d]
  BY <1>3
<1>5. \A s \in Sides : \A d \in Holders(s) :
         /\ d \in Callers /\ op[d].head \in Nat /\ op[d].count \in 1..MaxBatch
         /\ op[d].head + op[d].count <= head[s]
  BY DEF RingInv, Typed, Locals, Claimed, Holders
<1>6. h0 \in Nat /\ r0 \in Nat /\ h0 < r0 /\ r0 <= h0 + Capacity /\ r0 <= head[s0]
  BY <1>0, <1>2, <1>5, <1>19
<1>7. Slot(h0) \in Slots
  BY <1>6, SlotIn
<1>8. \A s \in Sides : \A d \in Holders(s)' : d \in Holders(s) /\ d # c /\ op'[d] = op[d]
  BY <1>4, IdleLocals DEF Holders, Holding, Side
<1>9. \A s \in Sides : \A e \in Nat : Clear(s, e) => Clear(s, e)'
  BY <1>1, <1>8 DEF Clear
<1>10. \A s \in Sides : \A r \in Nat : \A k : Recorded(s, k, r) => Recorded(s, k, r)'
  BY <1>1, <1>8 DEF Recorded
<1>11. Recorded(s0, Slot(h0), r0)'
  <2>1. \A d \in Holders(s0)' : op'[d].head + op'[d].count <= h0 \/ r0 <= op'[d].head
    BY <1>2, <1>8, <1>19 DEF RingInv, ClaimsApart, Apart
  <2>2. Recorded(s0, Slot(h0), r0)' <=>
          \/ r0 = 0
          \/ \E h \in Nat :
               /\ Slot(h) = Slot(h0) /\ h < r0 /\ r0 <= h + Capacity /\ r0 <= head'[s0]
               /\ \A d \in Holders(s0)' : op'[d].head + op'[d].count <= h \/ r0 <= op'[d].head
    BY DEF Recorded
  <2> QED
    BY <1>1, <1>6, <2>1, <2>2
<1> HIDE DEF s0
<1>12. /\ records' \in [Sides -> [Slots -> Nat]]
       /\ \A s \in Sides : \A k \in Slots :
            records'[s][k] = IF s = s0 /\ k = Slot(h0) THEN r0 ELSE records[s][k]
  <2>1. records \in [Sides -> [Slots -> Nat]]
    BY DEF RingInv, Typed
  <2> QED
    BY <1>1, <1>2, <1>6, <1>7, <2>1
<1>13. Typed'
  <2>1. \A d \in Callers : Locals(op'[d])
    BY <1>4, IdleLocals DEF RingInv, Typed
  <2>2. op' = [d \in Callers |-> op'[d]]
    BY <1>3
  <2> QED
    BY <1>1, <1>12, <2>1, <2>2 DEF RingInv, Typed, Locals
<1>14. \A d \in Callers : Claimed(d)'
  BY <1>1, <1>4, IdleLocals DEF RingInv, Claimed, Holding, Side
<1>15. ClaimsApart'
  BY <1>8 DEF RingInv, ClaimsApart, Apart
<1>16. RecordsTrue'
  <2> SUFFICES ASSUME NEW s \in Sides, NEW k \in Slots
               PROVE  Recorded(s, k, records[s][k])'
    BY DEF RecordsTrue
  <2>1. records[s][k] \in Nat /\ Recorded(s, k, records[s][k])
    BY DEF RingInv, Typed, RecordsTrue
  <2> QED
    BY <1>10, <1>11, <1>12, <2>1
<1>17. PositionsOrdered' /\ \A s \in Sides : Clear(s, frontier[s])'
  BY <1>1, <1>9 DEF RingInv, Typed, PositionsOrdered
<1>18. \A d \in Callers : Knows(d, op[d])'
  <2>1. \A s \in Sides : head[s] <= head'[s] /\ frontier[s] <= frontier'[s]
    BY <1>1 DEF RingInv, Typed
  <2>2. head' \in [Sides -> Nat] /\ frontier' \in [Sides -> Nat]
    BY <1>1 DEF RingInv, Typed
  <2>3. ASSUME NEW d \in Callers, d # c PROVE Knows(d, op[d])'
    <3>1. Knows(d, op[d]) /\ Locals(op[d]) /\ op'[d] = op[d]
      BY <1>4, <2>3 DEF RingInv, Typed
    <3> QED
      BY <1>9, <1>10, <2>1, <2>2, <3>1, KnowsOn
  <2>4. Knows(c, op[c])'
    BY <1>4, IdleLocals DEF Knows, Searching, Holding
  <2> QED
    BY <2>3, <2>4
<1> QED
  BY <1>13, <1>14, <1>15, <1>16, <1>17, <1>18 DEF RingInv

\* The frontier is raised to what was discovered, if it is where the discovery began.
LEMMA RaiseInv ==
  ASSUME RingInv, NEW c \in Callers, raiseFrontier(c), frontier[Other(c)] = op[c].base
  PROVE  RingInv' /\ OwnersStay
<1> DEFINE s0 == Other(c)
           o == [op[c] EXCEPT !.pc = "fresh", !.base = 0, !.end = 0]
<1>1. /\ Step(c, o) /\ frontier' = [frontier EXCEPT ![s0] = op[c].end]
      /\ UNCHANGED <<head, records, entries>> /\ op[c].pc = "raise"
  BY DEF raiseFrontier
<1>2. /\ Locals(op[c]) /\ op[c].base < op[c].end /\ op[c].head <= head[Side(c)]
      /\ Clear(s0, op[c].end) /\ op[c].end \in Nat /\ s0 \in Sides
  BY <1>1, SidesOf DEF RingInv, Typed, Knows, Searching, Locals
<1>3. Locals(o) /\ o.pc = "fresh" /\ o.head = op[c].head
  BY <1>2 DEF Locals, OpFields
<1> HIDE DEF o
<1>4. op' = [d \in Callers |-> IF d = c THEN o ELSE op[d]]
  BY <1>1 DEF Step, RingInv, Typed
<1>5. op'[c] = o /\ \A d \in Callers : d # c => op'[d] = op[d]
  BY <1>4
<1>6. frontier' = [s \in Sides |-> IF s = s0 THEN op[c].end ELSE frontier[s]]
  BY <1>1 DEF RingInv, Typed
<1>7. frontier' \in [Sides -> Nat] /\ \A s \in Sides : frontier[s] <= frontier'[s]
  BY <1>2, <1>6 DEF RingInv, Typed
<1>8. Typed'
  <2>1. \A d \in Callers : Locals(op'[d])
    BY <1>3, <1>5 DEF RingInv, Typed
  <2>2. op' = [d \in Callers |-> op'[d]]
    BY <1>4
  <2> QED
    BY <1>1, <1>7, <2>1, <2>2 DEF RingInv, Typed, Locals
<1>9. \A s \in Sides : Holders(s)' = Holders(s) /\ \A d \in Holders(s) : op'[d] = op[d]
  BY <1>1, <1>3, <1>5 DEF Holders, Holding, Side
<1>10. \A s \in Sides : \A e : Clear(s, e) => Clear(s, e)'
  BY <1>1, <1>9 DEF Clear
<1>11. \A s \in Sides : \A r, k : Recorded(s, k, r) => Recorded(s, k, r)'
  BY <1>1, <1>9 DEF Recorded
<1>12. \A d \in Callers : Claimed(d)'
  BY <1>1, <1>3, <1>5 DEF RingInv, Claimed, Holding, Side
<1>13. ClaimsApart'
  BY <1>9 DEF RingInv, ClaimsApart, Apart
<1>14. RecordsTrue'
  BY <1>1, <1>11 DEF RingInv, RecordsTrue
<1>15. \A s \in Sides : Clear(s, frontier[s])'
  BY <1>2, <1>6, <1>10 DEF RingInv
<1>16. PositionsOrdered'
  <2>1. \A s \in Sides : frontier[s] \in Nat /\ head[s] \in Nat /\ frontier'[s] \in Nat
                         /\ frontier[s] <= frontier'[s] /\ frontier'[s] <= head'[s] /\ head'[s] = head[s]
    BY <1>1, <1>7, <1>15 DEF RingInv, Typed, Clear
  <2>2. Capacity \in Nat
    BY RingAssumption
  <2> QED
    BY <2>1, <2>2 DEF RingInv, PositionsOrdered, Sides
<1>17. \A d \in Callers : Knows(d, op[d])'
  <2>1. \A s \in Sides : head[s] <= head'[s] /\ frontier[s] <= frontier'[s]
    BY <1>1, <1>7 DEF RingInv, Typed
  <2>2. head' \in [Sides -> Nat]
    BY <1>1 DEF RingInv, Typed
  <2>3. ASSUME NEW d \in Callers, d # c PROVE Knows(d, op[d])'
    <3>1. Knows(d, op[d]) /\ Locals(op[d]) /\ op'[d] = op[d]
      BY <1>5, <2>3 DEF RingInv, Typed
    <3> QED
      BY <1>7, <1>10, <1>11, <2>1, <2>2, <3>1, KnowsOn
  <2>4. Knows(c, op[c])'
    BY <1>1, <1>2, <1>3, <1>5 DEF Knows, Searching, Holding, Side
  <2> QED
    BY <2>3, <2>4
<1>18. OwnersStay
  BY <1>1, <1>3, <1>5 DEF OwnersStay, Holding
<1> QED
  BY <1>8, <1>12, <1>13, <1>14, <1>15, <1>16, <1>17, <1>18 DEF RingInv

\* Reset, while nobody is in a call.
LEMMA ResetInv == ASSUME RingInv, Reset PROVE RingInv'
<1>0. Capacity \in Nat \ {0}
  BY RingAssumption
<1>1. \A c \in Callers : op'[c] = op[c] /\ op[c].pc = "idle"
  BY DEF Reset
<1>2. Typed'
  BY DEF RingInv, Typed, Locals, Reset
<1>3. \A s \in Sides : Holders(s)' = {}
  BY <1>1 DEF Holders, Holding
<1>4. \A c \in Callers : Claimed(c)' /\ Knows(c, op[c])'
  BY <1>1 DEF Claimed, Knows, Holding, Searching
<1>5. RecordsTrue'
  BY DEF Reset, RecordsTrue, Recorded
<1>6. PositionsOrdered' /\ \A s \in Sides : Clear(s, frontier[s])'
  BY <1>0, <1>3 DEF Reset, PositionsOrdered, Clear, Sides
<1> QED
  BY <1>2, <1>3, <1>4, <1>5, <1>6 DEF RingInv, ClaimsApart

\* Every step preserves the invariant.
LEMMA NextInv == ASSUME RingInv, [Next]_vars PROVE RingInv'
<1>1. CASE UNCHANGED vars
  <2>1. head' = head /\ frontier' = frontier /\ records' = records
        /\ entries' = entries /\ op' = op
    BY <1>1 DEF vars
  <2>2. Typed' <=> Typed
    BY <2>1, Zenon DEF Typed, Locals
  <2>3. \A s : Holders(s)' = Holders(s)
    BY <2>1, Zenon DEF Holders, Holding
  <2>4. \A s, e : Clear(s, e)' <=> Clear(s, e)
    BY <2>1, <2>3, Zenon DEF Clear
  <2>5. \A c : Claimed(c)' <=> Claimed(c)
    BY <2>1, Zenon DEF Claimed, Holding
  <2>6. ClaimsApart' <=> ClaimsApart
    BY <2>1, <2>3, Zenon DEF ClaimsApart, Apart
  <2>10. \A s, k, r : Recorded(s, k, r)' <=> Recorded(s, k, r)
    BY <2>1, <2>3, Zenon DEF Recorded
  <2>7. RecordsTrue' <=> RecordsTrue
    BY <2>1, <2>10, Zenon DEF RecordsTrue
  <2>8. PositionsOrdered' <=> PositionsOrdered
    BY <2>1, Zenon DEF PositionsOrdered
  <2>9. ASSUME NEW c \in Callers PROVE Knows(c, op[c])'
    <3>1. Knows(c, op[c])
      BY DEF RingInv
    <3>2. Limit(c)' = Limit(c) /\ op'[c] = op[c]
      BY <2>1 DEF Limit
    <3> QED
      BY <2>1, <2>4, <2>10, <3>1, <3>2 DEF Knows
  <2> QED
    BY <2>1, <2>2, <2>4, <2>5, <2>6, <2>7, <2>8, <2>9 DEF RingInv
<1>2. CASE Reset
  BY <1>2, ResetInv
<1>3. ASSUME NEW c \in Callers, raiseFrontier(c)
      PROVE  RingInv'
  BY <1>3, RaiseInv, RaiseFailsInv
<1>4. ASSUME NEW c \in Callers, claim(c)
      PROVE  RingInv'
  BY <1>4, ClaimInv, ClaimFailsInv
<1> QED
  BY <1>1, <1>2, <1>3, <1>4, BeginInv, LoadHeadInv, LoadFrontierInv, LoadBaseInv,
     LoadBoundInv, DiscoverRecordInv, LoadAheadInv, AcceptAheadInv, LoadFreshInv,
     ReturnShortInv, CopyInv, PublishInv DEF Next

\* The invariant holds for ever, whatever the callers of mpmc.go interleave.
THEOREM RingInvariant == Spec => []RingInv
  BY InitInv, NextInv, PTL DEF Spec

-----------------------------------------------------------------------------
\* An owned position lies between its side's frontier and head.
LEMMA OwnedIs ==
  ASSUME RingInv, NEW c \in Callers, NEW p \in Owned(c)
  PROVE  /\ p \in Nat /\ c \in Holders(Side(c)) /\ op[c].head \in Nat /\ op[c].count \in Nat
         /\ op[c].head <= p /\ p < op[c].head + op[c].count
         /\ frontier[Side(c)] <= p /\ p < head[Side(c)]
<1>1. op[c].head \in Nat /\ op[c].count \in Nat /\ Claimed(c)
  BY DEF RingInv, Typed, Locals
<1>2. c \in Holders(Side(c)) /\ p \in op[c].head..op[c].head + op[c].count - 1
  BY DEF Owned, Holders, Holding
<1>3. /\ p \in Nat /\ op[c].head <= p /\ p < op[c].head + op[c].count
  BY <1>1, <1>2
<1>4. frontier[Side(c)] <= op[c].head
  BY <1>2, SidesOf DEF RingInv, Clear
<1>5. op[c].head + op[c].count <= head[Side(c)]
  BY <1>1, <1>2 DEF Claimed, Holders
<1>6. head[Side(c)] \in Nat /\ frontier[Side(c)] \in Nat
  BY SidesOf DEF RingInv, Typed
<1> QED
  BY SMTT(30), <1>1, <1>2, <1>3, <1>4, <1>5, <1>6

\* No frontier is ahead of what is finished.
LEMMA InvFrontiersSound == RingInv => FrontiersSound
<1> SUFFICES ASSUME RingInv, NEW s \in Sides
             PROVE  frontier[s] <= Finished(s)
  BY DEF FrontiersSound
<1>1. \A p \in Unfinished(s) : p \in Nat /\ frontier[s] <= p
  BY OwnedIs DEF Unfinished
<1>2. CASE Unfinished(s) = {}
  BY <1>2 DEF Finished, RingInv, Clear
<1>3. CASE Unfinished(s) # {}
  <2>1. Min(Unfinished(s)) \in Unfinished(s)
    BY <1>1, <1>3, MinOf
  <2> QED
    BY <1>1, <1>3, <2>1 DEF Finished
<1> QED
  BY <1>2, <1>3

\* Owned positions are less than a capacity apart, so their slots differ.
LEMMA InvSlotsExclusive == RingInv => SlotsExclusive
<1> SUFFICES ASSUME RingInv, NEW c \in Callers, NEW d \in Callers, c # d,
                    NEW p \in Owned(c), NEW q \in Owned(d)
             PROVE  Slot(p) # Slot(q)
  BY DEF SlotsExclusive
<1>0. Capacity \in Nat \ {0}
  BY RingAssumption
<1>1. \A s \in Sides : head[s] \in Nat /\ frontier[s] \in Nat
  BY DEF RingInv, Typed
<1>2. ASSUME NEW e \in Callers, NEW r \in Owned(e)
      PROVE  r \in Nat /\ frontier["consumer"] <= r /\ r < frontier["consumer"] + Capacity
  <2>1. r \in Nat /\ frontier[Side(e)] <= r /\ r < head[Side(e)]
    BY OwnedIs
  <2> QED
    BY <1>0, <1>1, <2>1 DEF RingInv, PositionsOrdered, Side, Sides
<1>3. p # q
  <2>1. CASE Side(c) = Side(d)
    <3>1. /\ c \in Holders(Side(c)) /\ d \in Holders(Side(c))
          /\ op[c].head <= p /\ p < op[c].head + op[c].count
          /\ op[d].head <= q /\ q < op[d].head + op[d].count
          /\ p \in Nat /\ q \in Nat /\ op[c].head \in Nat /\ op[d].head \in Nat
          /\ op[c].count \in Nat /\ op[d].count \in Nat
      BY <2>1, OwnedIs
    <3>2. Apart(op[c], op[d])
      BY <3>1, SidesOf DEF RingInv, ClaimsApart
    <3> QED
      BY <3>1, <3>2 DEF Apart
  <2>2. CASE Side(c) # Side(d)
    <3>1. /\ p \in Nat /\ frontier[Side(c)] <= p /\ p < head[Side(c)]
          /\ q \in Nat /\ frontier[Side(d)] <= q /\ q < head[Side(d)]
      BY OwnedIs
    <3> QED
      BY <1>1, <2>2, <3>1 DEF RingInv, PositionsOrdered, Side, Sides
  <2> QED
    BY <2>1, <2>2
<1>4. /\ p \in Nat /\ q \in Nat
      /\ frontier["consumer"] <= p /\ p < frontier["consumer"] + Capacity
      /\ frontier["consumer"] <= q /\ q < frontier["consumer"] + Capacity
  BY <1>2
<1>5. (p < q /\ q < p + Capacity) \/ (q < p /\ p < q + Capacity)
  BY <1>0, <1>1, <1>3, <1>4 DEF Sides
<1> QED
  BY <1>4, <1>5, SlotGap

(* No head outruns the other side: the consumers never claim past what the    *)
(* producers finished, and the producers never claim more than a capacity    *)
(* ahead of what the consumers finished, however stale the frontier was that  *)
(* the claim was decided on.                                                  *)
THEOREM Ordered == Spec => []PositionsOrdered
<1>1. RingInv => PositionsOrdered
  BY DEF RingInv
<1> QED
  BY <1>1, RingInvariant, PTL

(* The frontier a caller of mpmc.go raises is never ahead of the truth:       *)
(* whatever records its discovery met, old ones and ones overwritten in       *)
(* between included, every position below it has been completed.              *)
THEOREM Sound == Spec => []FrontiersSound
  BY InvFrontiersSound, RingInvariant, PTL

(* No two calls of mpmc.go are ever between claim and publication for the     *)
(* same slot of the entry array, on whatever sides and laps they are.         *)
THEOREM Exclusive == Spec => []SlotsExclusive
  BY InvSlotsExclusive, RingInvariant, PTL
=============================================================================
