------------------------------- MODULE Buffer -------------------------------
(***************************************************************************)
(* The Buffer and the Pool of package buffer: a backing array of a fixed   *)
(* capacity whose live elements are an interval that moves, a high-water   *)
(* mark above which nothing was ever written, and a pool that may wipe     *)
(* what it is given.                                                       *)
(*                                                                         *)
(* The methods are functions from a buffer to a buffer.  Their client may  *)
(* also write through the slices it was given, for as long as their        *)
(* documentation allows: that is what the high-water mark has to cover.    *)
(***************************************************************************)
EXTENDS Integers

CONSTANTS Value,   \* the elements
          Zero     \* the zero value of their type

\* A buffer by its fields.
Buf(data, start, length, highWater) ==
    [data |-> data, start |-> start, length |-> length, highWater |-> highWater]

NewBuffer(capacity) == Buf([k \in 0..capacity - 1 |-> Zero], 0, 0, 0)

raiseHighWater(b, end) ==
    Buf(b.data, b.start, b.length, IF end > b.highWater THEN end ELSE b.highWater)

resetStartIfEmpty(b) ==
    Buf(b.data, IF b.length = 0 THEN 0 ELSE b.start, b.length, b.highWater)

\* Go's clear of data[from:to].
clear(b, from, to) ==
    Buf([k \in DOMAIN b.data |-> IF from <= k /\ k < to THEN Zero ELSE b.data[k]],
        b.start, b.length, b.highWater)

Reset(b) == Buf(b.data, 0, 0, b.highWater)

ResetAndZero(b) == Reset(clear(b, b.start, b.start + b.length))

Truncate(b, newLength) == resetStartIfEmpty(Buf(b.data, b.start, newLength, b.highWater))

TruncateAndZero(b, newLength) ==
    Truncate(clear(b, b.start + newLength, b.start + b.length), newLength)

Consume(b, count) ==
    resetStartIfEmpty(Buf(b.data, b.start + count, b.length - count, b.highWater))

ConsumeAndZero(b, count) == Consume(clear(b, b.start, b.start + count), count)

ConsumeRight(b, count) == Truncate(b, b.length - count)

ConsumeRightAndZero(b, count) == TruncateAndZero(b, b.length - count)

\* An empty buffer, or one that starts at 0, moves nothing.
Compact(b) ==
    Buf([k \in DOMAIN b.data |-> IF k < b.length THEN b.data[b.start + k] ELSE b.data[k]],
        0, b.length, b.highWater)

CompactAndZero(b) ==
    LET wiped == clear(Compact(b), b.length, b.highWater)
    IN  Buf(wiped.data, 0, b.length, b.length)

resetAndZeroAll(b) == Buf(clear(b, 0, b.highWater).data, 0, 0, 0)

\* The tail has no space for count more elements.
TailShort(b, capacity, count) == capacity - (b.start + b.length) < count

\* The copy of values[0], ..., values[count - 1] behind the live elements.
Copied(b, count, values) ==
    LET end == b.start + b.length IN
    raiseHighWater(
      Buf([k \in DOMAIN b.data |->
             IF end <= k /\ k < end + count THEN values[k - end] ELSE b.data[k]],
          b.start, b.length + count, b.highWater), end + count)

Append(b, capacity, count, values) ==
    CASE count = 0 -> b
      [] count > 0 /\ TailShort(b, capacity, count) -> Copied(Compact(b), count, values)
      [] OTHER -> Copied(b, count, values)

\* The elements that grow adds are what the array holds.
Grown(b, count) ==
    raiseHighWater(Buf(b.data, b.start, b.length + count, b.highWater),
                   b.start + b.length + count)

Grow(b, capacity, count) ==
    Grown(IF TailShort(b, capacity, count) THEN Compact(b) ELSE b, count)

GrowAndZero(b, capacity, count) ==
    LET room == IF TailShort(b, capacity, count) THEN CompactAndZero(b) ELSE b
        end == room.start + room.length
    IN  Grown(clear(room, end, end + count), count)

AvailableBuffer(b, capacity) == raiseHighWater(b, capacity)

\* BytesBuffer.Write appends what fits, Read consumes what is there.
Write(b, capacity, count, values) ==
    LET available == capacity - b.length IN
    Append(b, capacity, IF available < count THEN available ELSE count, values)

Read(b, count) == Consume(b, IF count < b.length THEN count ELSE b.length)

-----------------------------------------------------------------------------
VARIABLES buf,        \* the buffer
          capacity,   \* its Cap
          owner,      \* who has it: its client, the pool, or nobody any more
          lent,       \* indices the client may write through Slice and Grow
          free,       \* and through AvailableBuffer
          pool        \* the pool's capacity and zeroOnPut

vars == <<buf, capacity, owner, lent, free, pool>>

Init ==
    /\ capacity \in Nat
    /\ buf = NewBuffer(capacity)
    /\ owner = "client"
    /\ lent = {} /\ free = {}
    /\ pool \in [capacity : Nat, zeroOnPut : BOOLEAN]

Live(b) == b.start..b.start + b.length - 1

\* A method that moves nothing ends the slice of AvailableBuffer ...
Becomes(b) ==
    /\ owner = "client"
    /\ buf' = b /\ free' = {}
    /\ UNCHANGED <<capacity, owner, lent, pool>>

\* ... and one that may compact ends every slice, and may give a new one.
Compacts(b, slice) ==
    /\ owner = "client"
    /\ buf' = b /\ free' = {} /\ lent' = slice
    /\ UNCHANGED <<capacity, owner, pool>>

\* The methods that remove elements.
removes ==
    \/ Becomes(Reset(buf)) \/ Becomes(ResetAndZero(buf))
    \/ \E n \in 0..buf.length :
         \/ Becomes(Truncate(buf, n)) \/ Becomes(TruncateAndZero(buf, n))
         \/ Becomes(Consume(buf, n)) \/ Becomes(ConsumeAndZero(buf, n))
         \/ Becomes(ConsumeRight(buf, n)) \/ Becomes(ConsumeRightAndZero(buf, n))
    \/ \E n \in Nat : Becomes(Read(buf, n))

\* The methods that add elements or move them.
appends ==
    \/ \E n \in 0..capacity - buf.length :
         \E values \in [0..n - 1 -> Value] :
           Compacts(Append(buf, capacity, n, values), {})
    \/ \E n \in Nat :
         \E values \in [0..n - 1 -> Value] :
           Compacts(Write(buf, capacity, n, values), {})

grows ==
    \E n \in 0..capacity - buf.length :
      \E b \in {Grow(buf, capacity, n), GrowAndZero(buf, capacity, n)} :
        Compacts(b, b.start + b.length - n..b.start + b.length - 1)

compacts == Compacts(Compact(buf), {}) \/ Compacts(CompactAndZero(buf), {})

\* The slices given to the client, and what it writes through them.
slices ==
    /\ owner = "client"
    /\ \/ /\ lent' = lent \cup Live(buf)
          /\ UNCHANGED <<buf, free>>
       \/ /\ buf' = AvailableBuffer(buf, capacity)
          /\ free' = buf.start + buf.length..capacity - 1
          /\ UNCHANGED lent
    /\ UNCHANGED <<capacity, owner, pool>>

writes ==
    /\ owner = "client"
    /\ \E k \in lent \cup free, v \in Value : buf' = Buf([buf.data EXCEPT ![k] = v], buf.start, buf.length, buf.highWater)
    /\ UNCHANGED <<capacity, owner, lent, free, pool>>

\* A buffer of another capacity is reset, and not kept.
Put ==
    /\ owner = "client"
    /\ buf' = IF pool.zeroOnPut THEN resetAndZeroAll(buf) ELSE Reset(buf)
    /\ owner' = IF capacity = pool.capacity THEN "pool" ELSE "nobody"
    /\ lent' = {} /\ free' = {}
    /\ UNCHANGED <<capacity, pool>>

\* The pool may have dropped the buffer, and makes a new one.
Get ==
    /\ owner # "client" /\ owner' = "client"
    /\ \/ owner = "pool" /\ UNCHANGED <<buf, capacity>>
       \/ buf' = NewBuffer(pool.capacity) /\ capacity' = pool.capacity
    /\ UNCHANGED <<lent, free, pool>>

Next == removes \/ appends \/ grows \/ compacts \/ slices \/ writes \/ Put \/ Get

Spec == Init /\ [][Next]_vars

-----------------------------------------------------------------------------
(* "Every element at an index at or above highWater is zero", whatever the    *)
(* client wrote through the slices it was given: the wipes, which stop at the *)
(* mark, leave nothing behind.                                                *)
HighWaterCovers ==
    /\ buf.start + buf.length <= buf.highWater /\ buf.highWater <= capacity
    /\ \A k \in buf.highWater..capacity - 1 : buf.data[k] = Zero

(* What a wiping pool keeps holds no element of its last user, also none that *)
(* was removed without zeroing (Put, resetAndZeroAll), and the next user gets *)
(* a buffer of the pool's capacity (accepts).                                 *)
PoolHoldsNothing ==
    owner = "pool" =>
      /\ capacity = pool.capacity
      /\ pool.zeroOnPut => \A k \in 0..capacity - 1 : buf.data[k] = Zero

(* CompactAndZero: "every other element is zero, whether or not anything      *)
(* moved"; GrowAndZero, which may compact, returns zeroes only.               *)
ZeroesTheRest ==
    [][/\ compacts /\ buf' = CompactAndZero(buf) =>
            \A k \in 0..capacity - 1 : k \notin Live(buf') => buf'.data[k] = Zero
       /\ \A n \in 0..capacity - buf.length : buf' = GrowAndZero(buf, capacity, n) =>
            \A k \in 0..n - 1 : buf'.data[buf'.start + buf.length + k] = Zero]_vars

\* r holds the elements of b from the one numbered `from' to the one before `to'.
Part(b, r, from, to) ==
    /\ r.length = to - from
    /\ \A k \in 0..r.length - 1 : r.data[r.start + k] = b.data[b.start + from + k]

\* r begins with every element of b.
Begins(b, r) ==
    /\ r.length >= b.length
    /\ \A k \in 0..b.length - 1 : r.data[r.start + k] = b.data[b.start + k]

(* No element is lost, changed or moved out of its order but by a call that   *)
(* asks for it.  A method that does not remove elements leaves all of them in *)
(* front, wherever a compaction moves them, and Append puts its values right  *)
(* behind; Truncate and its kin leave exactly the first n, Consume and its    *)
(* kin exactly all but the first n.                                           *)
ContentsKept ==
    [][owner = "client" /\ owner' = "client" =>
         /\ ~removes /\ ~writes => Begins(buf, buf')
         /\ \A n \in 0..buf.length :
              /\ buf' \in {Truncate(buf, n), TruncateAndZero(buf, n)} =>
                   Part(buf, buf', 0, n)
              /\ buf' \in {Consume(buf, n), ConsumeAndZero(buf, n)} =>
                   Part(buf, buf', n, buf.length)
         /\ \A n \in 0..capacity - buf.length : \A values \in [0..n - 1 -> Value] :
              buf' = Append(buf, capacity, n, values) =>
                \A k \in 0..n - 1 : buf'.data[buf'.start + buf.length + k] = values[k]]_vars
=============================================================================
