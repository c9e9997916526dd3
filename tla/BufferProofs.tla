---------------------------- MODULE BufferProofs ----------------------------
(***************************************************************************)
(* The high-water mark of a Buffer, for every capacity, element type and   *)
(* sequence of calls.  Valid is what each method preserves; the invariant  *)
(* adds that no slice in the client's hands reaches the mark, without      *)
(* which a later write could pass it.                                      *)
(***************************************************************************)
EXTENDS Buffer, TLAPS

Element == Value \cup {Zero}

Valid(c, b) ==
    /\ b \in [data : [0..c - 1 -> Element], start : Nat, length : Nat, highWater : Nat]
    /\ b.start + b.length <= b.highWater /\ b.highWater <= c
    /\ \A k \in b.highWater..c - 1 : b.data[k] = Zero

-----------------------------------------------------------------------------
(* The methods. *)

\* A new buffer is zero.
LEMMA NewValid == ASSUME NEW c \in Nat PROVE Valid(c, NewBuffer(c))
  BY DEF Valid, NewBuffer, Buf, Element

\* A valid buffer by its fields.
LEMMA Fields ==
  ASSUME NEW c \in Nat, NEW b, Valid(c, b)
  PROVE  /\ b = Buf(b.data, b.start, b.length, b.highWater)
         /\ b.data \in [0..c - 1 -> Element] /\ DOMAIN b.data = 0..c - 1
         /\ b.start \in Nat /\ b.length \in Nat /\ b.highWater \in Nat
         /\ b.start + b.length <= b.highWater /\ b.highWater <= c
         /\ \A k \in b.highWater..c - 1 : b.data[k] = Zero
  BY DEF Valid, Buf

LEMMA ByFields ==
  ASSUME NEW c \in Nat, NEW d \in [0..c - 1 -> Element],
         NEW s \in Nat, NEW l \in Nat, NEW h \in Nat, s + l <= h, h <= c,
         \A k \in h..c - 1 : d[k] = Zero
  PROVE  Valid(c, Buf(d, s, l, h))
  BY DEF Valid, Buf

\* The fields of a constructed buffer.
LEMMA Built ==
  ASSUME NEW d, NEW s, NEW l, NEW h
  PROVE  /\ Buf(d, s, l, h).data = d /\ Buf(d, s, l, h).start = s
         /\ Buf(d, s, l, h).length = l /\ Buf(d, s, l, h).highWater = h
  BY DEF Buf

\* clear changes elements only, and only to Zero.
LEMMA ClearValid ==
  ASSUME NEW c \in Nat, NEW b, Valid(c, b), NEW from \in Int, NEW to \in Int
  PROVE  /\ Valid(c, clear(b, from, to))
         /\ clear(b, from, to).start = b.start /\ clear(b, from, to).length = b.length
         /\ clear(b, from, to).highWater = b.highWater
         /\ \A k \in 0..c - 1 : clear(b, from, to).data[k] =
              IF from <= k /\ k < to THEN Zero ELSE b.data[k]
<1>0. /\ b.start \in Nat /\ b.length \in Nat /\ b.highWater \in Nat
      /\ b.start + b.length <= b.highWater /\ b.highWater <= c
      /\ b.data \in [0..c - 1 -> Element]
  BY Fields
<1> DEFINE d == [k \in 0..c - 1 |-> IF from <= k /\ k < to THEN Zero ELSE b.data[k]]
<1>1. clear(b, from, to) = Buf(d, b.start, b.length, b.highWater)
  <2>1. DOMAIN b.data = 0..c - 1
    BY Fields
  <2> QED
    BY <2>1 DEF clear
<1>2. d \in [0..c - 1 -> Element] /\ \A k \in b.highWater..c - 1 : d[k] = Zero
  BY Fields DEF Element
<1>3. \A k \in 0..c - 1 : d[k] = IF from <= k /\ k < to THEN Zero ELSE b.data[k]
  OBVIOUS
<1> HIDE DEF d
<1>4. Valid(c, clear(b, from, to))
  BY <1>0, <1>1, <1>2, ByFields
<1>5. /\ clear(b, from, to).data = d /\ clear(b, from, to).start = b.start
      /\ clear(b, from, to).length = b.length /\ clear(b, from, to).highWater = b.highWater
  BY <1>1 DEF Buf
<1> QED
  BY <1>3, <1>4, <1>5

\* Fewer elements of the same array.
LEMMA ShrinkValid ==
  ASSUME NEW c \in Nat, NEW b, Valid(c, b), NEW s \in Nat, NEW n \in Nat,
         s >= b.start, s + n <= b.start + b.length,
         NEW r, r = resetStartIfEmpty(Buf(b.data, s, n, b.highWater))
  PROVE  /\ Valid(c, r) /\ r.highWater = b.highWater /\ r.length = n /\ r.data = b.data
         /\ n > 0 => r.start = s
<1>0. /\ b.start \in Nat /\ b.length \in Nat /\ b.highWater \in Nat
      /\ b.start + b.length <= b.highWater /\ b.highWater <= c
      /\ b.data \in [0..c - 1 -> Element]
  BY Fields
<1>1. \A k \in b.highWater..c - 1 : b.data[k] = Zero
  BY Fields
<1> DEFINE first == IF n = 0 THEN 0 ELSE s
<1>2. r = Buf(b.data, first, n, b.highWater)
  BY Built DEF resetStartIfEmpty
<1>3. first \in Nat /\ first + n <= b.highWater /\ (n > 0 => first = s)
  BY <1>0
<1> HIDE DEF first
<1>4. Valid(c, r)
  BY <1>0, <1>1, <1>2, <1>3, ByFields
<1>5. r.data = b.data /\ r.start = first /\ r.length = n /\ r.highWater = b.highWater
  BY <1>2 DEF Buf
<1> QED
  BY <1>3, <1>4, <1>5

\* Compact moves the live elements down and writes below the old end only.
LEMMA CompactValid ==
  ASSUME NEW c \in Nat, NEW b, Valid(c, b)
  PROVE  /\ Valid(c, Compact(b)) /\ Compact(b).highWater = b.highWater
         /\ Compact(b).start = 0 /\ Compact(b).length = b.length
         /\ \A k \in 0..b.length - 1 : Compact(b).data[k] = b.data[b.start + k]
<1> DEFINE d == [k \in 0..c - 1 |-> IF k < b.length THEN b.data[b.start + k] ELSE b.data[k]]
<1>1. Compact(b) = Buf(d, 0, b.length, b.highWater)
  <2>1. DOMAIN b.data = 0..c - 1
    BY Fields
  <2> QED
    BY <2>1 DEF Compact
<1>2. \A k \in 0..b.length - 1 : k \in 0..c - 1 /\ b.start + k \in 0..c - 1
  BY Fields
<1>3. /\ d \in [0..c - 1 -> Element] /\ \A k \in b.highWater..c - 1 : d[k] = Zero
      /\ \A k \in 0..b.length - 1 : d[k] = b.data[b.start + k]
  <2>1. /\ b.start \in Nat /\ b.length \in Nat /\ b.highWater \in Nat
        /\ b.start + b.length <= b.highWater /\ b.highWater <= c
        /\ b.data \in [0..c - 1 -> Element]
    BY Fields
  <2>2. \A k \in b.highWater..c - 1 : b.data[k] = Zero
    BY Fields
  <2>3. d \in [0..c - 1 -> Element]
    BY <1>2, <2>1
  <2>4. \A k \in b.highWater..c - 1 : d[k] = Zero
    BY <2>1, <2>2
  <2>5. \A k \in 0..b.length - 1 : d[k] = b.data[b.start + k]
    BY <1>2, <2>1
  <2> QED
    BY <2>3, <2>4, <2>5
<1> HIDE DEF d
<1>4. Valid(c, Compact(b))
  <2>1. 0 + b.length <= b.highWater /\ b.length \in Nat /\ b.highWater \in Nat /\ b.highWater <= c
    BY Fields
  <2> QED
    BY <1>1, <1>3, <2>1, ByFields
<1>5. /\ Compact(b).data = d /\ Compact(b).start = 0
      /\ Compact(b).length = b.length /\ Compact(b).highWater = b.highWater
  BY <1>1 DEF Buf
<1> QED
  BY <1>3, <1>4, <1>5

\* CompactAndZero: nothing but the live elements is left.
LEMMA CompactAndZeroValid ==
  ASSUME NEW c \in Nat, NEW b, Valid(c, b), NEW r, r = CompactAndZero(b)
  PROVE  /\ Valid(c, r) /\ r.start = 0 /\ r.length = b.length /\ r.highWater = b.length
         /\ \A k \in 0..b.length - 1 : r.data[k] = b.data[b.start + k]
         /\ \A k \in b.length..c - 1 : r.data[k] = Zero
<1> DEFINE m == clear(Compact(b), b.length, b.highWater)
<1>1. b.length \in Nat /\ b.highWater \in Nat /\ b.length <= b.highWater /\ b.highWater <= c
  BY Fields
<1>2. /\ Valid(c, m)
      /\ \A k \in 0..c - 1 : m.data[k] =
           IF b.length <= k /\ k < b.highWater THEN Zero ELSE Compact(b).data[k]
  BY <1>1, CompactValid, ClearValid
<1>3. r = Buf(m.data, 0, b.length, b.length)
  BY DEF CompactAndZero
<1> HIDE DEF m
<1>4. \A k \in b.highWater..c - 1 : Compact(b).data[k] = Zero
  <2>1. Valid(c, Compact(b)) /\ Compact(b).highWater = b.highWater
    BY CompactValid
  <2> QED
    BY <2>1, Fields
<1>5. /\ \A k \in 0..b.length - 1 : m.data[k] = b.data[b.start + k]
      /\ \A k \in b.length..c - 1 : m.data[k] = Zero
  BY <1>1, <1>2, <1>4, CompactValid
<1>6. m.data \in [0..c - 1 -> Element]
  BY <1>2, Fields
<1>7. Valid(c, r)
  BY <1>1, <1>3, <1>5, <1>6, ByFields
<1> QED
  BY <1>3, <1>5, <1>7, Built

-----------------------------------------------------------------------------
(* The methods that add elements. *)

\* What a method may have written up to end, before it raises the mark.
Raisable(c, d, s, l, h, end) ==
    /\ c \in Nat /\ d \in [0..c - 1 -> Element] /\ s \in Nat /\ l \in Nat
    /\ h \in Nat /\ h <= c /\ end \in Nat /\ s + l <= end /\ end <= c
    /\ \A k \in h..c - 1 : d[k] = Zero \/ k < end

\* The mark goes up to the end of what is written.
LEMMA RaiseValid ==
  ASSUME NEW c, NEW d, NEW s, NEW l, NEW h, NEW end, Raisable(c, d, s, l, h, end),
         NEW r, r = raiseHighWater(Buf(d, s, l, h), end)
  PROVE  /\ Valid(c, r) /\ r.data = d /\ r.start = s /\ r.length = l
         /\ r.highWater >= h /\ r.highWater >= end
<1> DEFINE top == IF end > h THEN end ELSE h
<1>1. r = Buf(d, s, l, top)
  BY DEF raiseHighWater, Buf
<1>2. /\ top \in Nat /\ top <= c /\ s + l <= top /\ top >= h /\ top >= end
      /\ \A k \in top..c - 1 : d[k] = Zero
  BY DEF Raisable
<1> HIDE DEF top
<1>3. Valid(c, r)
  BY <1>1, <1>2, ByFields DEF Raisable
<1> QED
  BY <1>1, <1>2, <1>3 DEF Buf

\* Copied keeps what is there and adds the values behind it.
LEMMA CopiedValid ==
  ASSUME NEW c \in Nat, NEW b, Valid(c, b), NEW n \in Nat, b.start + b.length + n <= c,
         NEW values, \A k \in 0..n - 1 : values[k] \in Value, NEW r, r = Copied(b, n, values)
  PROVE  /\ Valid(c, r) /\ r.start = b.start /\ r.length = b.length + n
         /\ \A k \in 0..b.length - 1 : r.data[r.start + k] = b.data[b.start + k]
         /\ \A k \in 0..n - 1 : r.data[r.start + b.length + k] = values[k]
<1>0. /\ b.start \in Nat /\ b.length \in Nat /\ b.highWater \in Nat
      /\ b.start + b.length <= b.highWater /\ b.highWater <= c
      /\ b.data \in [0..c - 1 -> Element] /\ DOMAIN b.data = 0..c - 1
  BY Fields
<1>a. \A k \in b.highWater..c - 1 : b.data[k] = Zero
  BY Fields
<1> DEFINE end == b.start + b.length
           top == end + n
           l == b.length + n
           d == [k \in 0..c - 1 |->
                   IF end <= k /\ k < end + n THEN values[k - end] ELSE b.data[k]]
<1>1. r = raiseHighWater(Buf(d, b.start, l, b.highWater), top)
  BY <1>0 DEF Copied
<1>2. d \in [0..c - 1 -> Element]
  <2>1. ASSUME NEW k \in 0..c - 1, end <= k, k < end + n PROVE values[k - end] \in Element
    <3>1. k - end \in 0..n - 1
      BY <1>0, <2>1
    <3> QED
      BY <3>1 DEF Element
  <2> QED
    BY <1>0, <2>1
<1>3. \A k \in b.highWater..c - 1 : d[k] = Zero \/ k < top
  BY <1>0, <1>a
<1>4. ASSUME NEW k \in 0..b.length - 1 PROVE d[b.start + k] = b.data[b.start + k]
  <2>1. b.start + k \in 0..c - 1
    BY <1>0
  <2>2. ~(end <= b.start + k)
    BY <1>0
  <2> HIDE DEF end
  <2> QED
    BY <2>1, <2>2
<1>b. ASSUME NEW k \in 0..n - 1 PROVE d[b.start + b.length + k] = values[k]
  <2>1. end + k \in 0..c - 1 /\ end <= end + k /\ end + k < end + n /\ (end + k) - end = k
    BY <1>0
  <2>2. end + k = b.start + b.length + k
    OBVIOUS
  <2> HIDE DEF end
  <2>3. d[end + k] = values[(end + k) - end]
    BY <2>1
  <2> QED
    BY <2>1, <2>2, <2>3
<1>5. top \in Nat /\ l \in Nat /\ b.start + l <= top /\ top <= c
  BY <1>0
<1>6. l = b.length + n
  OBVIOUS
<1> HIDE DEF d, end, top, l
<1>7. /\ Valid(c, r) /\ r.data = d /\ r.start = b.start /\ r.length = l
  <2>1. Raisable(c, d, b.start, l, b.highWater, top)
    BY <1>0, <1>2, <1>3, <1>5 DEF Raisable
  <2> QED
    BY <1>1, <2>1, RaiseValid
<1> QED
  BY <1>4, <1>b, <1>6, <1>7

\* Append fits without compaction, or after it.
LEMMA AppendValid ==
  ASSUME NEW c \in Nat, NEW b, Valid(c, b), NEW n \in Nat, b.length + n <= c,
         NEW values, \A k \in 0..n - 1 : values[k] \in Value, NEW r, r = Append(b, c, n, values)
  PROVE  /\ Valid(c, r) /\ r.length = b.length + n
         /\ \A k \in 0..b.length - 1 : r.data[r.start + k] = b.data[b.start + k]
         /\ \A k \in 0..n - 1 : r.data[r.start + b.length + k] = values[k]
<1>0. b.start \in Nat /\ b.length \in Nat
  BY Fields
<1>1. CASE n = 0
  BY <1>0, <1>1 DEF Append
<1>2. CASE n > 0 /\ TailShort(b, c, n)
  <2> DEFINE m == Compact(b)
  <2>1. r = Copied(m, n, values)
    BY <1>2 DEF Append
  <2>2. /\ Valid(c, m) /\ m.start = 0 /\ m.length = b.length
        /\ \A k \in 0..b.length - 1 : m.data[k] = b.data[b.start + k]
    BY CompactValid
  <2> HIDE DEF m
  <2>3. m.start + m.length + n <= c
    BY <1>0, <2>2
  <2>4. /\ Valid(c, r) /\ r.start = m.start /\ r.length = m.length + n
        /\ \A k \in 0..m.length - 1 : r.data[r.start + k] = m.data[m.start + k]
        /\ \A k \in 0..n - 1 : r.data[r.start + m.length + k] = values[k]
    BY <2>1, <2>2, <2>3, CopiedValid
  <2> QED
    BY <1>0, <2>2, <2>4
<1>3. CASE n > 0 /\ ~TailShort(b, c, n)
  <2>1. r = Copied(b, n, values)
    BY <1>3 DEF Append
  <2>2. b.start + b.length + n <= c
    BY <1>0, <1>3 DEF TailShort
  <2> QED
    BY <2>1, <2>2, CopiedValid
<1> QED
  BY <1>1, <1>2, <1>3

\* grow gives the elements behind the live ones, as they are.
LEMMA GrownValid ==
  ASSUME NEW c \in Nat, NEW b, Valid(c, b), NEW n \in Nat, b.start + b.length + n <= c,
         NEW r, r = Grown(b, n)
  PROVE  Valid(c, r) /\ r.data = b.data /\ r.start = b.start /\ r.length = b.length + n
<1>0. /\ b.start \in Nat /\ b.length \in Nat /\ b.highWater \in Nat
      /\ b.start + b.length <= b.highWater /\ b.highWater <= c
      /\ b.data \in [0..c - 1 -> Element]
  BY Fields
<1>1. \A k \in b.highWater..c - 1 : b.data[k] = Zero
  BY Fields
<1>2. Raisable(c, b.data, b.start, b.length + n, b.highWater, b.start + b.length + n)
  BY <1>0, <1>1 DEF Raisable
<1> QED
  BY <1>2, RaiseValid DEF Grown

\* The buffer m has the elements of b, and room for n more behind them.
Roomy(c, b, m, n) ==
    /\ Valid(c, m) /\ m.length = b.length /\ m.start + m.length + n <= c
    /\ \A k \in 0..b.length - 1 : m.data[m.start + k] = b.data[b.start + k]

LEMMA RoomMade ==
  ASSUME NEW c \in Nat, NEW b, Valid(c, b), NEW n \in Nat, b.length + n <= c
  PROVE  /\ ~TailShort(b, c, n) => Roomy(c, b, b, n)
         /\ Roomy(c, b, Compact(b), n) /\ Roomy(c, b, CompactAndZero(b), n)
<1>0. b.start \in Nat /\ b.length \in Nat
  BY Fields
<1>1. ~TailShort(b, c, n) => Roomy(c, b, b, n)
  BY <1>0 DEF TailShort, Roomy
<1>2. Roomy(c, b, Compact(b), n)
  <2>1. /\ Valid(c, Compact(b)) /\ Compact(b).start = 0 /\ Compact(b).length = b.length
        /\ \A k \in 0..b.length - 1 : Compact(b).data[k] = b.data[b.start + k]
    BY CompactValid
  <2> QED
    BY <1>0, <2>1 DEF Roomy
<1>3. Roomy(c, b, CompactAndZero(b), n)
  <2> DEFINE r == CompactAndZero(b)
  <2>1. /\ Valid(c, r) /\ r.start = 0 /\ r.length = b.length
        /\ \A k \in 0..b.length - 1 : r.data[k] = b.data[b.start + k]
    BY CompactAndZeroValid
  <2> QED
    BY <1>0, <2>1 DEF Roomy
<1> QED
  BY <1>1, <1>2, <1>3

\* Grow keeps what is there.
LEMMA GrowValid ==
  ASSUME NEW c \in Nat, NEW b, Valid(c, b), NEW n \in Nat, b.length + n <= c,
         NEW r, r = Grow(b, c, n)
  PROVE  /\ Valid(c, r) /\ r.length = b.length + n
         /\ \A k \in 0..b.length - 1 : r.data[r.start + k] = b.data[b.start + k]
<1> DEFINE m == IF TailShort(b, c, n) THEN Compact(b) ELSE b
<1>1. r = Grown(m, n)
  BY DEF Grow
<1>2. Roomy(c, b, m, n)
  BY RoomMade
<1> HIDE DEF m
<1>3. Valid(c, m) /\ m.length = b.length /\ m.start + m.length + n <= c
  BY <1>2 DEF Roomy
<1>4. Valid(c, r) /\ r.data = m.data /\ r.start = m.start /\ r.length = m.length + n
  BY <1>1, <1>3, GrownValid
<1> QED
  BY <1>2, <1>3, <1>4 DEF Roomy

\* GrowAndZero keeps what is there, and adds zeroes.
LEMMA GrowAndZeroValid ==
  ASSUME NEW c \in Nat, NEW b, Valid(c, b), NEW n \in Nat, b.length + n <= c,
         NEW r, r = GrowAndZero(b, c, n)
  PROVE  /\ Valid(c, r) /\ r.length = b.length + n
         /\ \A k \in 0..b.length - 1 : r.data[r.start + k] = b.data[b.start + k]
         /\ \A k \in 0..n - 1 : r.data[r.start + b.length + k] = Zero
<1> DEFINE m == IF TailShort(b, c, n) THEN CompactAndZero(b) ELSE b
           z == clear(m, m.start + m.length, m.start + m.length + n)
<1>1. r = Grown(z, n)
  BY DEF GrowAndZero
<1>2. Roomy(c, b, m, n)
  BY RoomMade
<1> HIDE DEF m
<1>3. Valid(c, m) /\ m.length = b.length /\ m.start + m.length + n <= c
  BY <1>2 DEF Roomy
<1>4. m.start \in Nat /\ m.length \in Nat
  BY <1>3, Fields
<1>5. /\ Valid(c, z) /\ z.start = m.start /\ z.length = m.length
      /\ \A k \in 0..c - 1 : z.data[k] =
           IF m.start + m.length <= k /\ k < m.start + m.length + n THEN Zero ELSE m.data[k]
  BY <1>3, <1>4, ClearValid
<1> HIDE DEF z
<1>6. Valid(c, r) /\ r.data = z.data /\ r.start = z.start /\ r.length = z.length + n
  BY <1>1, <1>3, <1>5, GrownValid
<1>7. ASSUME NEW k \in 0..b.length - 1
      PROVE  r.data[r.start + k] = b.data[b.start + k]
  <2>1. m.start + k \in 0..c - 1 /\ ~(m.start + m.length <= m.start + k)
    BY <1>3, <1>4
  <2>2. z.data[m.start + k] = m.data[m.start + k]
    BY <1>5, <2>1
  <2> QED
    BY <1>2, <1>5, <1>6, <2>2 DEF Roomy
<1>8. ASSUME NEW k \in 0..n - 1
      PROVE  r.data[r.start + b.length + k] = Zero
  <2>1. /\ m.start + m.length + k \in 0..c - 1 /\ m.start + m.length <= m.start + m.length + k
        /\ m.start + m.length + k < m.start + m.length + n
    BY <1>3, <1>4
  <2> QED
    BY <1>3, <1>5, <1>6, <2>1
<1> QED
  BY <1>3, <1>5, <1>6, <1>7, <1>8

\* AvailableBuffer gives the mark away.
LEMMA AvailableValid ==
  ASSUME NEW c \in Nat, NEW b, Valid(c, b), NEW r, r = AvailableBuffer(b, c)
  PROVE  /\ Valid(c, r) /\ r.data = b.data /\ r.start = b.start /\ r.length = b.length
         /\ r.highWater = c
<1>0. /\ b.start \in Nat /\ b.length \in Nat /\ b.highWater \in Nat
      /\ b.start + b.length <= b.highWater /\ b.highWater <= c
      /\ b.data \in [0..c - 1 -> Element]
  BY Fields
<1>1. Raisable(c, b.data, b.start, b.length, b.highWater, c)
  BY <1>0 DEF Raisable
<1>2. b = Buf(b.data, b.start, b.length, b.highWater)
  BY Fields
<1>3. /\ Valid(c, r) /\ r.data = b.data /\ r.start = b.start /\ r.length = b.length
      /\ r.highWater >= c
  BY <1>1, <1>2, RaiseValid DEF AvailableBuffer
<1>4. r.highWater \in Nat /\ r.highWater <= c
  BY <1>3, Fields
<1> QED
  BY <1>3, <1>4

-----------------------------------------------------------------------------
(* The methods that remove elements. *)

Removed(c, b, r, from, to) ==
    Valid(c, r) /\ r.highWater = b.highWater /\ Part(b, r, from, to)

\* What is left is an interval of the live elements, which no clear has touched.
LEMMA Removal ==
  ASSUME NEW c \in Nat, NEW b, Valid(c, b), NEW m, Valid(c, m),
         m.start = b.start, m.length = b.length, m.highWater = b.highWater,
         NEW d \in Nat, NEW n \in Nat, d + n <= b.length,
         NEW to, to = d + n,
         \A k \in 0..n - 1 : m.data[b.start + d + k] = b.data[b.start + d + k],
         NEW r, r = resetStartIfEmpty(Buf(m.data, m.start + d, n, m.highWater))
  PROVE  Removed(c, b, r, d, to)
<1>0. b.start \in Nat /\ b.length \in Nat
  BY Fields
<1>1. /\ Valid(c, r) /\ r.highWater = b.highWater /\ r.length = n /\ r.data = m.data
      /\ n > 0 => r.start = b.start + d
  <2> DEFINE s == b.start + d
  <2>1. /\ r = resetStartIfEmpty(Buf(m.data, s, n, m.highWater)) /\ s = b.start + d
        /\ s \in Nat /\ s >= m.start /\ s + n <= m.start + m.length
    BY <1>0
  <2> HIDE DEF s
  <2>2. /\ Valid(c, r) /\ r.highWater = m.highWater /\ r.length = n /\ r.data = m.data
        /\ n > 0 => r.start = s
    BY <2>1, ShrinkValid
  <2> QED
    BY <2>1, <2>2
<1>2. \A k \in 0..n - 1 : r.data[r.start + k] = b.data[b.start + d + k]
  BY <1>0, <1>1
<1>3. Part(b, r, d, to)
  BY <1>1, <1>2 DEF Part
<1> QED
  BY <1>1, <1>3 DEF Removed

\* Truncate and TruncateAndZero.
LEMMA TruncateRemoves ==
  ASSUME NEW c \in Nat, NEW b, Valid(c, b), NEW n \in 0..b.length
  PROVE  /\ Removed(c, b, Truncate(b, n), 0, n)
         /\ Removed(c, b, TruncateAndZero(b, n), 0, n)
<1>0. /\ b.start \in Nat /\ b.length \in Nat /\ b.highWater \in Nat /\ n \in Nat
      /\ b.start + b.length <= b.highWater /\ b.highWater <= c
  BY Fields
<1> DEFINE z == clear(b, b.start + n, b.start + b.length)
<1>1. /\ Valid(c, z) /\ z.start = b.start /\ z.length = b.length /\ z.highWater = b.highWater
      /\ \A k \in 0..c - 1 : z.data[k] =
           IF b.start + n <= k /\ k < b.start + b.length THEN Zero ELSE b.data[k]
  BY <1>0, ClearValid
<1>2. \A k \in 0..n - 1 : b.start + 0 + k \in 0..c - 1 /\ ~(b.start + n <= b.start + 0 + k)
  BY <1>0
<1>3. \A k \in 0..n - 1 : z.data[b.start + 0 + k] = b.data[b.start + 0 + k]
  BY <1>1, <1>2
<1>4. b.start + 0 = b.start /\ 0 + n <= b.length /\ n = 0 + n
  BY <1>0
<1>5. Removed(c, b, Truncate(b, n), 0, n)
  BY <1>0, <1>4, Removal DEF Truncate
<1>6. TruncateAndZero(b, n) = resetStartIfEmpty(Buf(z.data, z.start + 0, n, z.highWater))
  BY <1>1, <1>4 DEF TruncateAndZero, Truncate
<1> HIDE DEF z
<1>7. Removed(c, b, TruncateAndZero(b, n), 0, n)
  BY <1>0, <1>1, <1>3, <1>4, <1>6, Removal
<1> QED
  BY <1>5, <1>7

\* Consume and ConsumeAndZero.
LEMMA ConsumeRemoves ==
  ASSUME NEW c \in Nat, NEW b, Valid(c, b), NEW d \in 0..b.length
  PROVE  /\ Removed(c, b, Consume(b, d), d, b.length)
         /\ Removed(c, b, ConsumeAndZero(b, d), d, b.length)
<1>0. /\ b.start \in Nat /\ b.length \in Nat /\ b.highWater \in Nat /\ d \in Nat
      /\ b.start + b.length <= b.highWater /\ b.highWater <= c
  BY Fields
<1> DEFINE z == clear(b, b.start, b.start + d)
           n == b.length - d
<1>1. /\ Valid(c, z) /\ z.start = b.start /\ z.length = b.length /\ z.highWater = b.highWater
      /\ \A k \in 0..c - 1 : z.data[k] =
           IF b.start <= k /\ k < b.start + d THEN Zero ELSE b.data[k]
  <2>1. b.start \in Int /\ b.start + d \in Int
    BY <1>0
  <2> QED
    BY <2>1, ClearValid
<1>2. \A k \in 0..n - 1 : b.start + d + k \in 0..c - 1 /\ ~(b.start + d + k < b.start + d)
  BY <1>0
<1>3. \A k \in 0..n - 1 : z.data[b.start + d + k] = b.data[b.start + d + k]
  BY <1>1, <1>2
<1>4. n \in Nat /\ d + n <= b.length /\ b.length = d + n
  BY <1>0
<1>5. Consume(b, d) = resetStartIfEmpty(Buf(b.data, b.start + d, n, b.highWater))
  BY DEF Consume
<1>6. ConsumeAndZero(b, d) = resetStartIfEmpty(Buf(z.data, z.start + d, n, z.highWater))
  BY <1>1 DEF ConsumeAndZero, Consume
<1> HIDE DEF z, n
<1>7. Removed(c, b, Consume(b, d), d, b.length)
  BY <1>0, <1>4, <1>5, Removal
<1>8. Removed(c, b, ConsumeAndZero(b, d), d, b.length)
  BY <1>0, <1>1, <1>3, <1>4, <1>6, Removal
<1> QED
  BY <1>7, <1>8

\* Reset and ResetAndZero.
LEMMA ResetRemoves ==
  ASSUME NEW c \in Nat, NEW b, Valid(c, b)
  PROVE  Removed(c, b, Reset(b), 0, 0) /\ Removed(c, b, ResetAndZero(b), 0, 0)
<1> DEFINE z == clear(b, b.start, b.start + b.length)
<1>0. b.start \in Nat /\ b.length \in Nat /\ b.highWater \in Nat
  BY Fields
<1>1. Valid(c, z) /\ z.start = b.start /\ z.length = b.length /\ z.highWater = b.highWater
  BY <1>0, ClearValid
<1>2. ASSUME NEW m, Valid(c, m), m.highWater = b.highWater
      PROVE  Removed(c, b, Reset(m), 0, 0)
  <2>1. /\ m.data \in [0..c - 1 -> Element] /\ m.highWater \in Nat /\ m.highWater <= c
        /\ \A k \in m.highWater..c - 1 : m.data[k] = Zero
    BY <1>2, Fields
  <2>2. Valid(c, Reset(m))
    BY <2>1, ByFields DEF Reset
  <2>3. Reset(m).highWater = b.highWater /\ Reset(m).length = 0
    BY <1>2 DEF Reset, Buf
  <2>4. Part(b, Reset(m), 0, 0)
    BY <2>3 DEF Part
  <2> QED
    BY <2>2, <2>3, <2>4 DEF Removed
<1>3. Removed(c, b, Reset(b), 0, 0)
  BY <1>2
<1>4. Removed(c, b, Reset(z), 0, 0)
  <2> HIDE DEF z
  <2> QED
    BY <1>1, <1>2
<1> QED
  BY <1>3, <1>4 DEF ResetAndZero

-----------------------------------------------------------------------------
(* The client, and the pool. *)

\* The slices in the client's hands end below the mark.
BufferInv ==
    /\ capacity \in Nat /\ Valid(capacity, buf)
    /\ lent \subseteq 0..buf.highWater - 1 /\ free \subseteq 0..buf.highWater - 1
    /\ pool \in [capacity : Nat, zeroOnPut : BOOLEAN]
    /\ owner # "client" => lent = {} /\ free = {}
    /\ PoolHoldsNothing

\* A step of the client that keeps the buffer valid.
LEMMA ClientKeeps ==
  ASSUME BufferInv, owner' = "client", UNCHANGED <<capacity, pool>>, Valid(capacity, buf'),
         lent' \subseteq 0..buf'.highWater - 1, free' \subseteq 0..buf'.highWater - 1
  PROVE  BufferInv'
  BY DEF BufferInv, PoolHoldsNothing

\* Becomes, with a buffer that has lost elements.
LEMMA RemovesKeep ==
  ASSUME BufferInv, NEW b, Becomes(b), NEW from, NEW to, Removed(capacity, buf, b, from, to)
  PROVE  BufferInv'
<1>1. /\ owner = "client" /\ owner' = "client" /\ buf' = b /\ free' = {} /\ lent' = lent
      /\ UNCHANGED <<capacity, pool>>
  BY DEF Becomes
<1>2. Valid(capacity, buf') /\ buf'.highWater = buf.highWater
  BY <1>1 DEF Removed
<1>3. lent' \subseteq 0..buf'.highWater - 1 /\ free' \subseteq 0..buf'.highWater - 1
  BY <1>1, <1>2 DEF BufferInv
<1> QED
  BY <1>1, <1>2, <1>3, ClientKeeps

\* Compacts, with a buffer that has the old elements first.
LEMMA CompactsKeep ==
  ASSUME BufferInv, NEW b, NEW slice, Compacts(b, slice), Valid(capacity, b),
         slice \subseteq 0..b.start + b.length - 1, b.length >= buf.length,
         \A k \in 0..buf.length - 1 : b.data[b.start + k] = buf.data[buf.start + k]
  PROVE  BufferInv' /\ Begins(buf, buf')
<1>1. /\ owner' = "client" /\ buf' = b /\ free' = {} /\ lent' = slice
      /\ UNCHANGED <<capacity, pool>>
  BY DEF Compacts
<1>2. /\ b.start \in Nat /\ b.length \in Nat /\ b.highWater \in Nat
      /\ b.start + b.length <= b.highWater /\ capacity \in Nat
      /\ buf.start \in Nat /\ buf.length \in Nat
  BY Fields DEF BufferInv
<1>3. lent' \subseteq 0..buf'.highWater - 1 /\ free' \subseteq 0..buf'.highWater - 1
  BY <1>1, <1>2
<1>4. Begins(buf, b)
  BY DEF Begins
<1> QED
  BY <1>1, <1>3, <1>4, ClientKeeps

\* The methods that remove elements.
LEMMA RemovingSteps ==
  ASSUME BufferInv, removes
  PROVE  BufferInv'
<1>0. capacity \in Nat /\ Valid(capacity, buf) /\ buf.length \in Nat
  BY Fields DEF BufferInv
<1>1. CASE Becomes(Reset(buf)) \/ Becomes(ResetAndZero(buf))
  BY <1>0, <1>1, ResetRemoves, RemovesKeep
<1>2. ASSUME NEW n \in 0..buf.length,
             Becomes(Truncate(buf, n)) \/ Becomes(TruncateAndZero(buf, n))
      PROVE  BufferInv'
  BY <1>0, <1>2, TruncateRemoves, RemovesKeep
<1>3. ASSUME NEW n \in 0..buf.length,
             Becomes(Consume(buf, n)) \/ Becomes(ConsumeAndZero(buf, n))
      PROVE  BufferInv'
  BY <1>0, <1>3, ConsumeRemoves, RemovesKeep
<1>4. ASSUME NEW n \in 0..buf.length,
             Becomes(ConsumeRight(buf, n)) \/ Becomes(ConsumeRightAndZero(buf, n))
      PROVE  BufferInv'
  <2>1. buf.length - n \in 0..buf.length
    BY <1>0
  <2> QED
    BY <1>2, <1>4, <2>1 DEF ConsumeRight, ConsumeRightAndZero
<1>5. ASSUME NEW n \in Nat, Becomes(Read(buf, n))
      PROVE  BufferInv'
  <2>1. (IF n < buf.length THEN n ELSE buf.length) \in 0..buf.length
    BY <1>0
  <2> QED
    BY <1>3, <1>5, <2>1 DEF Read
<1> QED
  BY <1>1, <1>2, <1>3, <1>4, <1>5 DEF removes

\* Append and Write.
LEMMA AppendingSteps ==
  ASSUME BufferInv, appends
  PROVE  BufferInv' /\ Begins(buf, buf')
<1>0. /\ capacity \in Nat /\ Valid(capacity, buf) /\ buf.length \in Nat /\ buf.start \in Nat
      /\ buf.length <= capacity
  BY Fields DEF BufferInv
<1>1. ASSUME NEW n \in Nat, buf.length + n <= capacity, NEW values,
             \A k \in 0..n - 1 : values[k] \in Value,
             Compacts(Append(buf, capacity, n, values), {})
      PROVE  BufferInv' /\ Begins(buf, buf')
  <2> DEFINE b == Append(buf, capacity, n, values)
  <2>1. /\ Valid(capacity, b) /\ b.length = buf.length + n
        /\ \A k \in 0..buf.length - 1 : b.data[b.start + k] = buf.data[buf.start + k]
    BY <1>0, <1>1, AppendValid
  <2>2. Compacts(b, {})
    BY <1>1
  <2> HIDE DEF b
  <2>3. b.length >= buf.length
    BY <1>0, <2>1
  <2> QED
    BY <2>1, <2>2, <2>3, CompactsKeep
<1>2. ASSUME NEW n \in 0..capacity - buf.length, NEW values \in [0..n - 1 -> Value],
             Compacts(Append(buf, capacity, n, values), {})
      PROVE  BufferInv' /\ Begins(buf, buf')
  <2>1. n \in Nat /\ buf.length + n <= capacity
    BY <1>0
  <2> QED
    BY <1>1, <1>2, <2>1
<1>3. ASSUME NEW n \in Nat, NEW values \in [0..n - 1 -> Value],
             Compacts(Write(buf, capacity, n, values), {})
      PROVE  BufferInv' /\ Begins(buf, buf')
  <2> DEFINE m == IF capacity - buf.length < n THEN capacity - buf.length ELSE n
  <2>1. m \in Nat /\ buf.length + m <= capacity /\ \A k \in 0..m - 1 : values[k] \in Value
    BY <1>0
  <2>2. Compacts(Append(buf, capacity, m, values), {})
    BY <1>3 DEF Write
  <2> HIDE DEF m
  <2> QED
    BY <1>1, <2>1, <2>2
<1> QED
  BY <1>2, <1>3 DEF appends

\* Grow, GrowAndZero, Compact and CompactAndZero.
LEMMA MovingSteps ==
  ASSUME BufferInv, grows \/ compacts
  PROVE  BufferInv' /\ Begins(buf, buf')
<1>0. /\ capacity \in Nat /\ Valid(capacity, buf) /\ buf.length \in Nat /\ buf.start \in Nat
      /\ buf.length <= capacity
  BY Fields DEF BufferInv
<1>1. CASE grows
  <2>1. PICK n \in 0..capacity - buf.length :
          \E b \in {Grow(buf, capacity, n), GrowAndZero(buf, capacity, n)} :
            Compacts(b, b.start + b.length - n..b.start + b.length - 1)
    BY <1>1 DEF grows
  <2>2. PICK b \in {Grow(buf, capacity, n), GrowAndZero(buf, capacity, n)} :
          Compacts(b, b.start + b.length - n..b.start + b.length - 1)
    BY <2>1
  <2>3. n \in Nat /\ buf.length + n <= capacity
    BY <1>0
  <2>4. /\ Valid(capacity, b) /\ b.length = buf.length + n
        /\ \A k \in 0..buf.length - 1 : b.data[b.start + k] = buf.data[buf.start + k]
    <3>1. CASE b = Grow(buf, capacity, n)
      BY <1>0, <2>3, <3>1, GrowValid
    <3>2. CASE b = GrowAndZero(buf, capacity, n)
      BY <1>0, <2>3, <3>2, GrowAndZeroValid
    <3> QED
      BY <2>2, <3>1, <3>2
  <2>5. b.start \in Nat
    BY <1>0, <2>4, Fields
  <2>6. /\ b.length >= buf.length
        /\ b.start + b.length - n..b.start + b.length - 1 \subseteq 0..b.start + b.length - 1
    BY <1>0, <2>3, <2>4, <2>5
  <2> QED
    BY <2>2, <2>4, <2>6, CompactsKeep
<1>2. CASE compacts
  <2>1. PICK b \in {Compact(buf), CompactAndZero(buf)} : Compacts(b, {})
    BY <1>2 DEF compacts
  <2>2. /\ Valid(capacity, b) /\ b.start = 0 /\ b.length = buf.length
        /\ \A k \in 0..buf.length - 1 : b.data[k] = buf.data[buf.start + k]
    BY <1>0, <2>1, CompactValid, CompactAndZeroValid
  <2>3. /\ b.length >= buf.length
        /\ \A k \in 0..buf.length - 1 : b.data[b.start + k] = buf.data[buf.start + k]
    BY <1>0, <2>2
  <2> QED
    BY <2>1, <2>2, <2>3, CompactsKeep
<1> QED
  BY <1>1, <1>2

\* Slice and AvailableBuffer, and what the client writes through them.
LEMMA SlicingSteps ==
  ASSUME BufferInv, slices
  PROVE  BufferInv' /\ Begins(buf, buf')
<1>0. /\ capacity \in Nat /\ Valid(capacity, buf) /\ buf.length \in Nat /\ buf.start \in Nat
      /\ buf.highWater \in Nat /\ buf.start + buf.length <= buf.highWater
      /\ buf.highWater <= capacity
  BY Fields DEF BufferInv
<1>1. owner = "client" /\ UNCHANGED <<capacity, owner, pool>>
  BY DEF slices
<1>2. CASE lent' = lent \cup Live(buf) /\ UNCHANGED <<buf, free>>
  <2>1. Live(buf) \subseteq 0..buf.highWater - 1
    BY <1>0 DEF Live
  <2>2. BufferInv'
    BY <1>0, <1>1, <1>2, <2>1 DEF BufferInv, PoolHoldsNothing
  <2>3. Begins(buf, buf')
    BY <1>0, <1>2 DEF Begins
  <2> QED
    BY <2>2, <2>3
<1>3. CASE /\ buf' = AvailableBuffer(buf, capacity)
           /\ free' = buf.start + buf.length..capacity - 1 /\ UNCHANGED lent
  <2>1. /\ Valid(capacity, buf') /\ buf'.data = buf.data /\ buf'.start = buf.start
        /\ buf'.length = buf.length /\ buf'.highWater = capacity
    BY <1>0, <1>3, AvailableValid
  <2>2. free' \subseteq 0..capacity - 1
    BY <1>0, <1>3
  <2>3. lent \subseteq 0..capacity - 1
    <3>1. lent \subseteq 0..buf.highWater - 1
      BY DEF BufferInv
    <3> QED
      BY <1>0, <3>1
  <2>4. BufferInv'
    BY <1>0, <1>1, <1>3, <2>1, <2>2, <2>3 DEF BufferInv, PoolHoldsNothing
  <2>5. Begins(buf, buf')
    BY <1>0, <2>1 DEF Begins
  <2> QED
    BY <2>4, <2>5
<1> QED
  BY <1>2, <1>3 DEF slices

LEMMA WritingSteps ==
  ASSUME BufferInv, writes
  PROVE  BufferInv'
<1>0. /\ capacity \in Nat /\ Valid(capacity, buf) /\ buf.length \in Nat /\ buf.start \in Nat
      /\ buf.highWater \in Nat /\ buf.start + buf.length <= buf.highWater
      /\ buf.highWater <= capacity /\ buf.data \in [0..capacity - 1 -> Element]
  BY Fields DEF BufferInv
<1>1. \A k \in buf.highWater..capacity - 1 : buf.data[k] = Zero
  BY <1>0, Fields
<1>2. owner = "client" /\ UNCHANGED <<capacity, owner, lent, free, pool>>
  BY DEF writes
<1>3. PICK j \in lent \cup free, v \in Value :
        buf' = Buf([buf.data EXCEPT ![j] = v], buf.start, buf.length, buf.highWater)
  BY DEF writes
<1>4. j \in 0..buf.highWater - 1
  BY <1>3 DEF BufferInv
<1> DEFINE d == [buf.data EXCEPT ![j] = v]
<1>5. d \in [0..capacity - 1 -> Element]
  BY <1>0, <1>3 DEF Element
<1>6. \A k \in buf.highWater..capacity - 1 : d[k] = Zero
  BY <1>0, <1>1, <1>4
<1>7. buf' = Buf(d, buf.start, buf.length, buf.highWater)
  BY <1>3
<1> HIDE DEF d
<1>8. Valid(capacity, buf') /\ buf'.highWater = buf.highWater
  BY <1>0, <1>5, <1>6, <1>7, Built, ByFields
<1> QED
  BY <1>0, <1>2, <1>8 DEF BufferInv, PoolHoldsNothing

\* Put, which wipes what a wiping pool is to keep, and Get.
LEMMA PoolSteps ==
  ASSUME BufferInv, Put \/ Get
  PROVE  BufferInv'
<1>0. /\ capacity \in Nat /\ Valid(capacity, buf) /\ buf.length \in Nat /\ buf.start \in Nat
      /\ buf.highWater \in Nat /\ buf.start + buf.length <= buf.highWater
      /\ buf.highWater <= capacity /\ buf.data \in [0..capacity - 1 -> Element]
      /\ DOMAIN buf.data = 0..capacity - 1
      /\ pool \in [capacity : Nat, zeroOnPut : BOOLEAN]
  BY Fields DEF BufferInv
<1>1. \A k \in buf.highWater..capacity - 1 : buf.data[k] = Zero
  BY <1>0, Fields
<1>2. CASE Put
  <2>1. /\ UNCHANGED <<capacity, pool>> /\ lent' = {} /\ free' = {}
        /\ owner' = "pool" => capacity = pool.capacity
    BY <1>2 DEF Put
  <2>2. CASE pool.zeroOnPut
    <3> DEFINE d == clear(buf, 0, buf.highWater).data
    <3>1. d = [k \in 0..capacity - 1 |-> IF 0 <= k /\ k < buf.highWater THEN Zero ELSE buf.data[k]]
      BY <1>0 DEF clear, Buf
    <3>2. \A k \in 0..capacity - 1 : d[k] = Zero
      BY <1>0, <1>1, <3>1
    <3>3. d \in [0..capacity - 1 -> Element]
      BY <1>0, <3>1, <3>2 DEF Element
    <3>4. buf' = Buf(d, 0, 0, 0)
      BY <1>2, <2>2 DEF Put, resetAndZeroAll
    <3> HIDE DEF d
    <3>5. Valid(capacity, buf') /\ buf'.data = d
      BY <1>0, <3>2, <3>3, <3>4, Built, ByFields
    <3> QED
      BY <1>0, <2>1, <3>2, <3>5 DEF BufferInv, PoolHoldsNothing
  <2>3. CASE ~pool.zeroOnPut
    <3>1. buf' = Buf(buf.data, 0, 0, buf.highWater)
      BY <1>2, <2>3 DEF Put, Reset
    <3>a. 0 \in Nat /\ 0 + 0 <= buf.highWater
      BY <1>0
    <3>2. Valid(capacity, buf')
      <4>1. Valid(capacity, Buf(buf.data, 0, 0, buf.highWater))
        BY <1>0, <1>1, <3>a, ByFields
      <4> QED
        BY <3>1, <4>1
    <3> QED
      BY <1>0, <2>1, <2>3, <3>2 DEF BufferInv, PoolHoldsNothing
  <2> QED
    BY <2>2, <2>3
<1>3. CASE Get
  <2>1. owner' = "client" /\ UNCHANGED <<lent, free, pool>>
    BY <1>3 DEF Get
  <2>2. BufferInv'
    <3>1. lent = {} /\ free = {}
      BY <1>3 DEF Get, BufferInv
    <3>2. pool.capacity \in Nat
      BY <1>0
    <3>3. capacity' \in Nat /\ Valid(capacity', buf')
      BY <1>0, <1>3, <3>2, NewValid DEF Get
    <3> QED
      BY <1>0, <2>1, <3>1, <3>3 DEF BufferInv, PoolHoldsNothing
  <2> QED
    BY <2>2
<1> QED
  BY <1>2, <1>3

-----------------------------------------------------------------------------
(* The theorems. *)

\* The invariant is inductive.
LEMMA Inductive == Spec => []BufferInv
<1>1. Init => BufferInv
  BY NewValid DEF Init, BufferInv, PoolHoldsNothing
<1>2. BufferInv /\ [Next]_vars => BufferInv'
  <2> SUFFICES ASSUME BufferInv, [Next]_vars PROVE BufferInv'
    OBVIOUS
  <2>1. CASE UNCHANGED vars
    BY <2>1 DEF vars, BufferInv, PoolHoldsNothing
  <2> QED
    BY <2>1, RemovingSteps, AppendingSteps, MovingSteps, SlicingSteps, WritingSteps,
       PoolSteps DEF Next
<1> QED
  BY <1>1, <1>2, PTL DEF Spec

(* In every capacity, nothing at or above the high-water mark is anything but *)
(* zero, although the client writes through the slices of Slice, Grow and     *)
(* AvailableBuffer (highWater of buffer.go).                                  *)
THEOREM MarkCovers == Spec => []HighWaterCovers
<1>1. BufferInv => HighWaterCovers
  BY Fields DEF BufferInv, HighWaterCovers
<1> QED
  BY <1>1, Inductive, PTL

(* A pool with zeroOnPut keeps no element of an earlier user, although Put    *)
(* wipes up to the high-water mark only (Put of pool.go).                     *)
THEOREM PoolIsWiped == Spec => []PoolHoldsNothing
<1>1. BufferInv => PoolHoldsNothing
  BY DEF BufferInv
<1> QED
  BY <1>1, Inductive, PTL

(* CompactAndZero leaves zeroes everywhere but in the live elements, and the  *)
(* elements that GrowAndZero adds are zero.                                   *)
THEOREM WipesLeaveNothing == Spec => ZeroesTheRest
<1> DEFINE Compacted == compacts /\ buf' = CompactAndZero(buf) =>
             \A k \in 0..capacity - 1 : k \notin Live(buf') => buf'.data[k] = Zero
           GrownEmpty == \A n \in 0..capacity - buf.length : buf' = GrowAndZero(buf, capacity, n) =>
             \A k \in 0..n - 1 : buf'.data[buf'.start + buf.length + k] = Zero
<1>1. BufferInv => Compacted
  <2> SUFFICES ASSUME BufferInv, buf' = CompactAndZero(buf),
                      NEW k \in 0..capacity - 1, k \notin Live(buf')
               PROVE  buf'.data[k] = Zero
    OBVIOUS
  <2>1. capacity \in Nat /\ Valid(capacity, buf)
    BY DEF BufferInv
  <2>2. /\ buf'.start = 0 /\ buf'.length = buf.length /\ buf.length \in Nat
        /\ \A j \in buf.length..capacity - 1 : buf'.data[j] = Zero
    <3>1. buf.length \in Nat
      BY <2>1, Fields
    <3> QED
      BY <2>1, <3>1, CompactAndZeroValid
  <2>3. k \in buf.length..capacity - 1
    BY <2>1, <2>2 DEF Live
  <2> QED
    BY <2>2, <2>3
<1>2. BufferInv => GrownEmpty
  <2> SUFFICES ASSUME BufferInv, NEW n \in 0..capacity - buf.length,
                      buf' = GrowAndZero(buf, capacity, n)
               PROVE  \A k \in 0..n - 1 : buf'.data[buf'.start + buf.length + k] = Zero
    OBVIOUS
  <2>1. capacity \in Nat /\ Valid(capacity, buf)
    BY DEF BufferInv
  <2>2. n \in Nat /\ buf.length + n <= capacity
    BY <2>1, Fields
  <2> QED
    BY <2>1, <2>2, GrowAndZeroValid
<1>3. BufferInv /\ [Next]_vars => [Compacted /\ GrownEmpty]_vars
  BY <1>1, <1>2
<1> QED
  BY <1>3, Inductive, PTL DEF Spec, ZeroesTheRest

(* No element is lost, changed or moved out of its order but by a call that   *)
(* asks for it (Append, Grow, Compact and the rest of buffer.go): adding and  *)
(* moving keep every element and put new ones behind, removing leaves exactly *)
(* what it is asked to.                                                       *)
THEOREM ContentsStay == Spec => ContentsKept
<1> DEFINE Adding == ~removes /\ ~writes => Begins(buf, buf')
           Removing == \A n \in 0..buf.length :
             /\ buf' \in {Truncate(buf, n), TruncateAndZero(buf, n)} => Part(buf, buf', 0, n)
             /\ buf' \in {Consume(buf, n), ConsumeAndZero(buf, n)} =>
                  Part(buf, buf', n, buf.length)
           Appending ==
             \A n \in 0..capacity - buf.length : \A values \in [0..n - 1 -> Value] :
               buf' = Append(buf, capacity, n, values) =>
                 \A k \in 0..n - 1 : buf'.data[buf'.start + buf.length + k] = values[k]
           Stays == owner = "client" /\ owner' = "client" => Adding /\ Removing /\ Appending
<1>1. ASSUME BufferInv, Next, owner = "client", owner' = "client", ~removes, ~writes
      PROVE  Begins(buf, buf')
  <2>1. ~Put /\ ~Get
    BY <1>1 DEF Put, Get
  <2> QED
    BY <1>1, <2>1, AppendingSteps, MovingSteps, SlicingSteps DEF Next
<1>2. ASSUME BufferInv PROVE capacity \in Nat /\ Valid(capacity, buf) /\ buf.length \in Nat
                             /\ buf.length <= capacity
  BY <1>2, Fields DEF BufferInv
<1>3. ASSUME BufferInv PROVE Removing
  <2> TAKE n \in 0..buf.length
  <2>1. /\ Removed(capacity, buf, Truncate(buf, n), 0, n)
        /\ Removed(capacity, buf, TruncateAndZero(buf, n), 0, n)
    BY <1>2, <1>3, TruncateRemoves
  <2>2. /\ Removed(capacity, buf, Consume(buf, n), n, buf.length)
        /\ Removed(capacity, buf, ConsumeAndZero(buf, n), n, buf.length)
    BY <1>2, <1>3, ConsumeRemoves
  <2> QED
    BY <2>1, <2>2 DEF Removed
<1>4. ASSUME BufferInv PROVE Appending
  <2> TAKE n \in 0..capacity - buf.length
  <2> TAKE values \in [0..n - 1 -> Value]
  <2>1. n \in Nat /\ buf.length + n <= capacity
    BY <1>2, <1>4
  <2> QED
    BY <1>2, <1>4, <2>1, AppendValid
<1>5. BufferInv /\ [Next]_vars => [Stays]_vars
  <2> HIDE DEF Removing, Appending
  <2> QED
    BY <1>1, <1>3, <1>4
<1> QED
  BY <1>5, Inductive, PTL DEF Spec, ContentsKept

=============================================================================
