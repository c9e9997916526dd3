------------------------------- MODULE Records -------------------------------
(* The record discovery that the rings of ring/frontier share (records.go).   *)
(*                                                                            *)
(* An interval [s, e) that its caller has finished with is recorded by        *)
(* storing its end e at the slot of its start s.  A discovery follows such    *)
(* ends from a boundary.  It is a record with the fields base, window, end,   *)
(* stride and ahead of the locals of discoverRecords, and a pc that says      *)
(* which load comes next: "discover", "ahead", or "found" when it is over.    *)
EXTENDS Integers, Sequences

CONSTANTS recordLookahead,           \* 4 in the code
          recordLookaheadMinStride   \* 8 in the code

(* What is left of the window after the boundary reached.                     *)
Left(o) == o.window - (o.end - o.base)

AtStop(o, stopAt) == Left(o) <= 0 \/ o.end - o.base >= stopAt

Found(o, end) == [o EXCEPT !.pc = "found", !.end = end, !.stride = 0, !.ahead = << >>]

(* The start of discoverRecords.                                              *)
discoverRecords(o, stopAt) ==
  IF AtStop(o, stopAt) THEN Found(o, o.end) ELSE [o EXCEPT !.pc = "discover"]

(* A turn of its loop: accept the record at the boundary, or stop.            *)
followRecord(o, recordEnd, stopAt) ==
  LET stride == recordEnd - o.end
      next == [o EXCEPT !.end = recordEnd]
  IN  IF stride <= 0 \/ stride > Left(o) THEN Found(o, o.end)
      ELSE IF AtStop(next, stopAt) THEN Found(o, recordEnd)
      ELSE IF stride < recordLookaheadMinStride THEN next
      ELSE [next EXCEPT !.pc = "ahead", !.stride = stride]

(* discoverRecordsAhead: load the records that a run of equal strides would   *)
(* put next, ...                                                              *)
Predicted(o) == o.end + Len(o.ahead) * o.stride

MoreLanes(o) ==
  Len(o.ahead) < recordLookahead /\ Predicted(o) - o.base < o.window

(* ... then accept them in order while each is exactly one stride long.       *)
Accepts(o, n, stopAt) ==
  \A k \in 1..n : /\ o.end + (k - 1) * o.stride - o.base < stopAt
                  /\ o.ahead[k] = o.end + k * o.stride
                  /\ k * o.stride <= Left(o)

discoverRecordsAhead(o, stopAt) ==
  LET n == CHOOSE k \in 0..Len(o.ahead) :
             /\ Accepts(o, k, stopAt)
             /\ k = Len(o.ahead) \/ ~Accepts(o, k + 1, stopAt)
      next == [o EXCEPT !.end = @ + n * o.stride]
  IN  IF AtStop(next, stopAt) THEN Found(o, next.end)
      ELSE [next EXCEPT !.pc = "discover", !.stride = 0, !.ahead = << >>]
=============================================================================
