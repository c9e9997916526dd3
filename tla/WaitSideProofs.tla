--------------------------- MODULE WaitSideProofs ---------------------------
(* Proofs about WaitSide for every finite set of callers and every MaxTarget. *)
(* TypeOK, I1, I2 and I3 are inductive together and only together: that the   *)
(* counts of the word never underflow needs I1 and I2, that a removal changes *)
(* the length of the list by one needs I3.                                    *)
EXTENDS WaitSide, FiniteSetTheorems, TLAPS

Elems(s) == {s[i] : i \in DOMAIN s}

Once(s) == \A i, j \in DOMAIN s : s[i] = s[j] => i = j

IInv == TypeOK /\ I1 /\ I2 /\ I3

(* Concatenation, position by position.                                       *)
LEMMA ConcatElems ==
  ASSUME NEW S, NEW a \in Seq(S), NEW b \in Seq(S)
  PROVE  LET t == a \o b
         IN  /\ t \in Seq(S) /\ Len(t) = Len(a) + Len(b) /\ DOMAIN t = 1..Len(t)
             /\ \A k \in 1..Len(a) + Len(b) :
                  t[k] = IF k <= Len(a) THEN a[k] ELSE b[k - Len(a)]
  OBVIOUS

(* What the list operations of waitside.go do to the waiters on the list:     *)
(* enlist at the newest end, ...                                              *)
LEMMA AppendElems ==
  ASSUME NEW S, NEW s \in Seq(S), NEW e \in S, e \notin Elems(s), Once(s)
  PROVE  LET t == Append(s, e)
         IN  t \in Seq(S) /\ Len(t) = Len(s) + 1
             /\ Elems(t) = Elems(s) \cup {e} /\ Once(t)
<1> DEFINE t == Append(s, e)
<1>1. /\ t \in Seq(S) /\ Len(t) = Len(s) + 1
      /\ DOMAIN t = 1..Len(s) + 1 /\ DOMAIN s = 1..Len(s) /\ Len(s) \in Nat
      /\ t[Len(s) + 1] = e /\ \A k \in DOMAIN s : t[k] = s[k]
  OBVIOUS
<1> HIDE DEF t
<1>2. DOMAIN t = DOMAIN s \cup {Len(s) + 1} /\ Len(s) + 1 \notin DOMAIN s
  BY <1>1
<1>3. Elems(t) = Elems(s) \cup {e}
  BY <1>1, <1>2 DEF Elems
<1>4. Once(t)
  BY <1>1, <1>2 DEF Elems, Once
<1> QED
  BY <1>1, <1>3, <1>4 DEF t

(* ... enlist at the oldest end, ...                                          *)
LEMMA PrependElems ==
  ASSUME NEW S, NEW s \in Seq(S), NEW e \in S, e \notin Elems(s), Once(s)
  PROVE  LET t == <<e>> \o s
         IN  t \in Seq(S) /\ Len(t) = Len(s) + 1
             /\ Elems(t) = Elems(s) \cup {e} /\ Once(t)
<1> DEFINE t == <<e>> \o s
<1>1. /\ t \in Seq(S) /\ Len(t) = Len(s) + 1
      /\ DOMAIN t = 1..Len(s) + 1 /\ DOMAIN s = 1..Len(s) /\ Len(s) \in Nat
      /\ t[1] = e /\ \A k \in DOMAIN s : t[k + 1] = s[k]
  OBVIOUS
<1> HIDE DEF t
<1>2. \A k \in DOMAIN t : k = 1 \/ (k - 1 \in DOMAIN s /\ t[k] = s[k - 1])
  <2> SUFFICES ASSUME NEW k \in DOMAIN t, k # 1
               PROVE  k - 1 \in DOMAIN s /\ t[k] = s[k - 1]
    OBVIOUS
  <2>1. k - 1 \in DOMAIN s /\ (k - 1) + 1 = k
    BY <1>1
  <2> QED
    BY <1>1, <2>1
<1>3. Elems(t) = Elems(s) \cup {e}
  <2>1. \A k \in DOMAIN s : k + 1 \in DOMAIN t
    BY <1>1
  <2> QED
    BY <1>1, <1>2, <2>1 DEF Elems
<1>4. Once(t)
  BY <1>1, <1>2 DEF Elems, Once
<1> QED
  BY <1>1, <1>3, <1>4 DEF t

(* ... unlink of the oldest waiter, ...                                       *)
LEMMA TailElems ==
  ASSUME NEW S, NEW s \in Seq(S), s # << >>, Once(s)
  PROVE  LET t == Tail(s)
         IN  t \in Seq(S) /\ Len(t) = Len(s) - 1 /\ Head(s) \in Elems(s)
             /\ Elems(t) = Elems(s) \ {Head(s)} /\ Once(t)
<1> DEFINE t == Tail(s)
<1>1. /\ t \in Seq(S) /\ Len(t) = Len(s) - 1
      /\ DOMAIN t = 1..Len(s) - 1 /\ DOMAIN s = 1..Len(s) /\ Len(s) \in Nat \ {0}
      /\ s[1] = Head(s) /\ \A k \in DOMAIN t : t[k] = s[k + 1]
  OBVIOUS
<1> HIDE DEF t
<1>2. \A k \in DOMAIN s : k = 1 \/ (k - 1 \in DOMAIN t /\ t[k - 1] = s[k])
  <2> SUFFICES ASSUME NEW k \in DOMAIN s, k # 1
               PROVE  k - 1 \in DOMAIN t /\ t[k - 1] = s[k]
    OBVIOUS
  <2>1. k - 1 \in DOMAIN t /\ (k - 1) + 1 = k
    BY <1>1
  <2> QED
    BY <1>1, <2>1
<1>3. \A k \in DOMAIN t : k + 1 \in DOMAIN s /\ k + 1 # 1
  BY <1>1
<1>4. 1 \in DOMAIN s
  BY <1>1
<1>5. Elems(t) = Elems(s) \ {Head(s)}
  <2>1. \A x \in Elems(t) : x \in Elems(s) /\ x # Head(s)
    BY <1>1, <1>3, <1>4 DEF Elems, Once
  <2>2. \A x \in Elems(s) : x # Head(s) => x \in Elems(t)
    BY <1>1, <1>2 DEF Elems
  <2> QED
    BY <2>1, <2>2
<1>6. Once(t)
  BY <1>1, <1>3 DEF Once
<1>7. Head(s) \in Elems(s)
  BY <1>1, <1>4 DEF Elems
<1> QED
  BY <1>1, <1>5, <1>6, <1>7 DEF t

(* ... and unlink from the middle.                                            *)
LEMMA RemoveElems ==
  ASSUME NEW S, NEW s \in Seq(S), NEW i \in DOMAIN s, Once(s)
  PROVE  LET t == RemoveAt(s, i)
         IN  t \in Seq(S) /\ Len(t) = Len(s) - 1
             /\ Elems(t) = Elems(s) \ {s[i]} /\ Once(t)
<1> DEFINE t == RemoveAt(s, i)
           old(k) == IF k < i THEN k ELSE k + 1
<1>1. /\ t \in Seq(S) /\ Len(t) = Len(s) - 1
      /\ DOMAIN t = 1..Len(s) - 1 /\ DOMAIN s = 1..Len(s) /\ Len(s) \in Nat \ {0}
      /\ \A k \in DOMAIN t : t[k] = s[old(k)]
  <2> DEFINE a == SubSeq(s, 1, i - 1)
             b == SubSeq(s, i + 1, Len(s))
  <2>1. DOMAIN s = 1..Len(s) /\ Len(s) \in Nat /\ i \in 1..Len(s)
    OBVIOUS
  <2>2. a \in Seq(S) /\ Len(a) = i - 1 /\ \A k \in 1..i - 1 : a[k] = s[k]
    BY <2>1
  <2>3. /\ b \in Seq(S) /\ Len(b) = Len(s) - i
        /\ \A k \in 1..Len(s) - i : b[k] = s[i + k]
    BY <2>1
  <2>4. t = a \o b
    BY DEF RemoveAt
  <2> HIDE DEF a, b, t
  <2>5. /\ t \in Seq(S) /\ Len(t) = Len(s) - 1 /\ DOMAIN t = 1..Len(s) - 1
        /\ \A k \in 1..Len(s) - 1 : t[k] = IF k < i THEN a[k] ELSE b[k - (i - 1)]
    <3>a. a \in Seq(S) /\ b \in Seq(S)
      BY <2>2, <2>3
    <3>1. t \in Seq(S) /\ Len(t) = Len(a) + Len(b) /\ DOMAIN t = 1..Len(t)
      <4>1. t \in Seq(S)
        BY <3>a, <2>4
      <4>2. Len(t) = Len(a) + Len(b)
        BY <3>a, <2>4
      <4>3. DOMAIN t = 1..Len(t)
        BY <4>1
      <4> QED
        BY <4>1, <4>2, <4>3
    <3>2. \A k \in 1..Len(a) + Len(b) :
            t[k] = IF k <= Len(a) THEN a[k] ELSE b[k - Len(a)]
      BY <3>a, <2>4
    <3>3. Len(a) + Len(b) = Len(s) - 1 /\ Len(t) = Len(s) - 1
      BY <2>1, <2>2, <2>3, <3>1
    <3>4. \A k \in 1..Len(s) - 1 : k <= Len(a) <=> k < i
      BY <2>1, <2>2
    <3> QED
      BY <2>2, <3>1, <3>2, <3>3, <3>4
  <2>6. ASSUME NEW k \in DOMAIN t PROVE t[k] = s[old(k)]
    <3>1. CASE k < i
      BY <2>1, <2>2, <2>5, <3>1
    <3>2. CASE ~(k < i)
      <4>1. k - (i - 1) \in 1..Len(s) - i /\ i + (k - (i - 1)) = k + 1
        BY <2>1, <2>5, <3>2
      <4> QED
        BY <2>3, <2>5, <3>2, <4>1
    <3> QED
      BY <3>1, <3>2
  <2> QED
    BY <2>1, <2>5, <2>6
<1> HIDE DEF t
<1>2. \A k \in DOMAIN t : old(k) \in DOMAIN s \ {i}
  BY <1>1
<1>3. \A k \in DOMAIN s \ {i} : \E m \in DOMAIN t : old(m) = k
  <2> SUFFICES ASSUME NEW k \in DOMAIN s \ {i}
               PROVE  \E m \in DOMAIN t : old(m) = k
    OBVIOUS
  <2>1. CASE k < i
    BY <1>1, <2>1
  <2>2. CASE ~(k < i)
    <3>1. k - 1 \in DOMAIN t /\ old(k - 1) = k
      BY <1>1, <2>2
    <3> QED
      BY <3>1
  <2> QED
    BY <2>1, <2>2
<1>4. \A k, m \in DOMAIN t : old(k) = old(m) => k = m
  BY <1>1
<1> HIDE DEF old
<1>5. Elems(t) = Elems(s) \ {s[i]}
  BY <1>1, <1>2, <1>3 DEF Elems, Once
<1>6. Once(t)
  BY <1>1, <1>2, <1>4 DEF Once
<1> QED
  BY <1>1, <1>5, <1>6 DEF t

-----------------------------------------------------------------------------
(* Any set of callers is finite, so its size is a natural number.             *)
LEMMA CallersFinite ==
  ASSUME NEW T, T \subseteq Callers
  PROVE  IsFiniteSet(T) /\ Cardinality(T) \in Nat
  BY CallersAssumption, FS_Subset, FS_CardinalityType

(* The initial state satisfies the inductive invariant.                       *)
LEMMA InitIInv == Init => IInv
<1> SUFFICES ASSUME Init PROVE IInv
  OBVIOUS
<1>1. Listed = {} /\ Owing = {} /\ Selected = {}
  BY DEF Init, Listed, Owing, Selected
<1>2. TypeOK
  BY DEF Init, TypeOK
<1>3. I1
  BY DEF Init, I1
<1>4. I2
  BY <1>1, FS_EmptySet DEF Init, I2
<1>5. I3
  BY <1>1 DEF Init, I3
<1> QED
  BY <1>2, <1>3, <1>4, <1>5 DEF IInv

(* Transfer, which wakeOneLocked and wakeGroup make: the mutex is free, and   *)
(* at most the parked waiters are moved.                                      *)
LEMMA TransferIInv ==
  ASSUME IInv, NEW k \in Nat, sends = 0, k <= word.parked, Transfer(k)
  PROVE  IInv'
<1>1. Listed' = Listed /\ Owing' = Owing /\ Selected' = Selected
  BY DEF Transfer, Listed, Owing, Selected
<1>2. TypeOK'
  <2>1. word.pollers + k \in Nat /\ word.parked - k \in Nat
    BY DEF IInv, TypeOK
  <2> QED
    BY <2>1 DEF IInv, TypeOK, Transfer
<1>3. I1'
  BY DEF IInv, TypeOK, I1, Transfer
<1>4. I2'
  <2>1. Cardinality(Owing) \in Nat /\ Cardinality(Selected) \in Nat
    BY CallersFinite DEF Owing, Selected
  <2> QED
    BY <1>1, <2>1 DEF IInv, TypeOK, I2, Transfer
<1>5. I3'
  BY <1>1 DEF IInv, I3, Transfer
<1> QED
  BY <1>2, <1>3, <1>4, <1>5 DEF IInv

(* register (waitside.go) adds a poller and its debt together.                *)
LEMMA RegisterIInv ==
  ASSUME IInv, NEW c \in Callers, register(c)
  PROVE  IInv'
<1>1. Listed' = Listed /\ Owing' = Owing \cup {c} /\ Selected' = Selected
  BY DEF register, Listed, Owing, Selected, IInv, TypeOK
<1>2. TypeOK'
  BY DEF IInv, TypeOK, register
<1>3. I1'
  BY DEF IInv, TypeOK, I1, register
<1>4. I2'
  <2>1. /\ IsFiniteSet(Owing) /\ Cardinality(Owing) \in Nat
        /\ Cardinality(Selected) \in Nat
    BY CallersFinite DEF Owing, Selected
  <2>2. Cardinality(Owing \cup {c}) = Cardinality(Owing) + 1
    BY <2>1, FS_AddElement DEF Owing, register
  <2> QED
    BY <1>1, <2>1, <2>2 DEF IInv, TypeOK, I2, register
<1>5. I3'
  BY <1>1 DEF IInv, TypeOK, I3, register
<1> QED
  BY <1>2, <1>3, <1>4, <1>5 DEF IInv

(* leavePollingWith (waitside.go) drops a poller together with its debt.      *)
LEMMA LeavePollingIInv ==
  ASSUME IInv, NEW c \in Callers, leavePollingWith(c)
  PROVE  IInv'
<1>1. Listed' = Listed /\ Owing' = Owing \ {c} /\ Selected' = Selected
  BY DEF leavePollingWith, Listed, Owing, Selected, IInv, TypeOK
<1>2. TypeOK'
  BY DEF IInv, TypeOK, leavePollingWith
<1>3. I1'
  BY DEF IInv, TypeOK, I1, leavePollingWith
<1>4. I2'
  <2>1. /\ IsFiniteSet(Owing) /\ Cardinality(Owing) \in Nat
        /\ Cardinality(Selected) \in Nat
    BY CallersFinite DEF Owing, Selected
  <2>2. Cardinality(Owing \ {c}) = Cardinality(Owing) - 1
    BY <2>1, FS_RemoveElement DEF Owing, leavePollingWith
  <2> QED
    BY <1>1, <2>1, <2>2 DEF IInv, TypeOK, I2, leavePollingWith
<1>5. I3'
  BY <1>1 DEF IInv, TypeOK, I3, leavePollingWith, Listed
<1> QED
  BY <1>2, <1>3, <1>4, <1>5 DEF IInv

(* enlist (waitside.go) turns a poller into a listed, parked caller.          *)
LEMMA EnlistIInv ==
  ASSUME IInv, NEW c \in Callers, NEW atOldest \in BOOLEAN, enlist(c, atOldest)
  PROVE  IInv'
<1>1. c \notin Listed /\ Listed = Elems(list) /\ Once(list) /\ list \in Seq(Callers)
  BY DEF IInv, TypeOK, I3, Elems, Once, Listed, enlist
<1>2. /\ list' \in Seq(Callers) /\ Len(list') = Len(list) + 1
      /\ Elems(list') = Elems(list) \cup {c} /\ Once(list')
  BY <1>1, AppendElems, PrependElems DEF enlist
<1>3. Listed' = Listed \cup {c} /\ Owing' = Owing \ {c} /\ Selected' = Selected
  <2>1. Listed' = Listed \cup {c}
    BY <1>1, <1>2 DEF Listed, Elems
  <2>2. Owing' = Owing \ {c}
    BY DEF Owing, enlist, IInv, TypeOK
  <2>3. {d \in Callers : phase'[d] = "parked"}
          = {d \in Callers : phase[d] = "parked"} \cup {c}
    BY DEF enlist, IInv, TypeOK
  <2>4. phase[c] # "parked"
    BY DEF enlist
  <2> QED
    BY <2>1, <2>2, <2>3, <2>4 DEF Selected
<1>4. TypeOK'
  <2>1. word.pollers - 1 \in Nat /\ word.parked + 1 \in Nat
    BY DEF IInv, TypeOK, enlist
  <2> QED
    BY <1>2, <2>1 DEF IInv, TypeOK, enlist
<1>5. I1'
  BY <1>1, <1>2 DEF IInv, TypeOK, I1, enlist
<1>6. I2'
  <2>1. /\ IsFiniteSet(Owing) /\ Cardinality(Owing) \in Nat
        /\ Cardinality(Selected) \in Nat
    BY CallersFinite DEF Owing, Selected
  <2>2. Cardinality(Owing \ {c}) = Cardinality(Owing) - 1
    BY <2>1, FS_RemoveElement DEF Owing, enlist
  <2> QED
    BY <1>3, <2>1, <2>2 DEF IInv, TypeOK, I2, enlist
<1>7. I3'
  <2>1. \A d \in Callers : token'[d] <=> d \in Selected'
    BY <1>3 DEF IInv, I3, enlist
  <2>2. \A d \in Listed' : phase'[d] = "parked"
    <3>1. Listed \subseteq Callers /\ phase \in [Callers -> {"out", "polling", "parked"}]
      BY DEF IInv, TypeOK, Listed
    <3>2. phase' = [phase EXCEPT ![c] = "parked"]
      BY DEF enlist
    <3> QED
      BY <1>3, <3>1, <3>2 DEF IInv, I3
  <2> QED
    BY <1>2, <2>1, <2>2 DEF I3, Once
<1> QED
  BY <1>4, <1>5, <1>6, <1>7 DEF IInv

(* One round of the send loop: the oldest waiter becomes a selected one.      *)
LEMMA RemoveForWakeIInv ==
  ASSUME IInv, removeForWake
  PROVE  IInv'
<1> DEFINE h == Head(list)
<1>1. Listed = Elems(list) /\ Once(list) /\ list \in Seq(Callers) /\ list # << >>
  BY DEF IInv, TypeOK, I3, Elems, Once, Listed, removeForWake
<1>2. /\ list' \in Seq(Callers) /\ Len(list') = Len(list) - 1
      /\ Elems(list') = Elems(list) \ {h} /\ Once(list') /\ h \in Elems(list)
  BY <1>1, TailElems DEF removeForWake
<1>3. h \in Callers /\ h \in Listed /\ phase[h] = "parked"
  BY <1>1, <1>2 DEF IInv, I3
<1> HIDE DEF h
<1>4. Listed' = Listed \ {h} /\ Owing' = Owing /\ Selected' = Selected \cup {h}
  <2>1. Listed' = Listed \ {h}
    BY <1>1, <1>2 DEF Listed, Elems
  <2>2. Owing' = Owing /\ phase' = phase
    BY DEF Owing, removeForWake
  <2> QED
    BY <1>3, <2>1, <2>2 DEF Selected
<1>5. TypeOK'
  BY <1>2 DEF IInv, TypeOK, removeForWake
<1>6. I1'
  BY <1>1, <1>2 DEF IInv, TypeOK, I1, removeForWake
<1>7. I2'
  <2>1. /\ IsFiniteSet(Selected) /\ Cardinality(Owing) \in Nat
        /\ Cardinality(Selected) \in Nat
    BY CallersFinite DEF Owing, Selected
  <2>2. Cardinality(Selected \cup {h}) = Cardinality(Selected) + 1
    BY <1>3, <2>1, FS_AddElement DEF Selected
  <2> QED
    BY <1>4, <2>1, <2>2 DEF IInv, TypeOK, I2, removeForWake
<1>8. I3'
  <2>1. token' = [token EXCEPT ![h] = TRUE] /\ phase' = phase
    BY DEF removeForWake, h
  <2>2. \A c \in Callers : token'[c] <=> c \in Selected'
    BY <1>3, <1>4, <2>1 DEF IInv, TypeOK, I3
  <2> QED
    BY <1>2, <1>4, <2>1, <2>2 DEF IInv, I3, Once
<1> QED
  BY <1>5, <1>6, <1>7, <1>8 DEF IInv

(* A token taken: a selected waiter becomes one that owes a registration.     *)
LEMMA ReceiveTokenIInv ==
  ASSUME IInv, NEW c \in Callers, receiveToken(c)
  PROVE  IInv'
<1>1. c \in Selected /\ c \notin Listed /\ c \notin Owing
  BY DEF IInv, I3, receiveToken, Selected, Owing
<1>2. Listed' = Listed /\ Owing' = Owing \cup {c} /\ Selected' = Selected \ {c}
  BY <1>1 DEF receiveToken, Listed, Owing, Selected, IInv, TypeOK
<1>3. TypeOK'
  BY DEF IInv, TypeOK, receiveToken
<1>4. I1'
  BY DEF IInv, I1, receiveToken
<1>5. I2'
  <2>1. /\ IsFiniteSet(Owing) /\ IsFiniteSet(Selected)
        /\ Cardinality(Owing) \in Nat /\ Cardinality(Selected) \in Nat
    BY CallersFinite DEF Owing, Selected
  <2>2. /\ Cardinality(Owing \cup {c}) = Cardinality(Owing) + 1
        /\ Cardinality(Selected \ {c}) = Cardinality(Selected) - 1
    BY <1>1, <2>1, FS_AddElement, FS_RemoveElement
  <2> QED
    BY <1>2, <2>1, <2>2 DEF IInv, TypeOK, I2, receiveToken
<1>6. I3'
  BY <1>1, <1>2 DEF IInv, TypeOK, I3, receiveToken
<1> QED
  BY <1>3, <1>4, <1>5, <1>6 DEF IInv

(* leaveListWith (waitside.go), still listed: unlinked and uncounted at once. *)
LEMMA LeaveListIInv ==
  ASSUME IInv, NEW c \in Callers, leaveListWith(c)
  PROVE  IInv'
<1>1. Listed = Elems(list) /\ Once(list) /\ list \in Seq(Callers)
  BY DEF IInv, TypeOK, I3, Elems, Once, Listed
<1>2. PICK i \in DOMAIN list : list[i] = c /\ list' = RemoveAt(list, i)
  BY DEF leaveListWith
<1>3. /\ list' \in Seq(Callers) /\ Len(list') = Len(list) - 1
      /\ Elems(list') = Elems(list) \ {c} /\ Once(list')
  BY <1>1, <1>2, RemoveElems
<1>4. c \in Listed
  BY <1>2 DEF Listed
<1>5. Listed' = Listed \ {c} /\ Owing' = Owing /\ Selected' = Selected
  <2>1. Listed' = Listed \ {c}
    BY <1>1, <1>3 DEF Listed, Elems
  <2>2. Owing' = Owing
    BY DEF Owing, leaveListWith, IInv, TypeOK
  <2>3. {d \in Callers : phase'[d] = "parked"}
          = {d \in Callers : phase[d] = "parked"} \ {c}
    BY DEF leaveListWith, IInv, TypeOK
  <2> QED
    BY <1>4, <2>1, <2>2, <2>3 DEF Selected
<1>6. TypeOK'
  <2>1. word.parked - 1 \in Nat
    BY DEF IInv, TypeOK, leaveListWith
  <2> QED
    BY <1>3, <2>1 DEF IInv, TypeOK, leaveListWith
<1>7. I1'
  <2>1. word'.parked = word.parked - 1 /\ sends' = sends
    BY DEF IInv, TypeOK, leaveListWith
  <2>2. word.parked \in Nat /\ sends \in Nat /\ word.parked + sends = Len(list)
    BY DEF IInv, TypeOK, I1
  <2> QED
    BY <1>3, <2>1, <2>2 DEF I1
<1>8. I2'
  BY <1>5 DEF IInv, TypeOK, I2, leaveListWith
<1>9. I3'
  BY <1>3, <1>5 DEF IInv, TypeOK, I3, leaveListWith, Once
<1> QED
  BY <1>6, <1>7, <1>8, <1>9 DEF IInv

(* setClosedLocked (waitside.go) touches the closed flag alone.               *)
LEMMA SetClosedIInv ==
  ASSUME IInv, setClosedLocked
  PROVE  IInv'
<1>1. Listed' = Listed /\ Owing' = Owing /\ Selected' = Selected
  BY DEF setClosedLocked, Listed, Owing, Selected
<1>2. TypeOK'
  BY DEF IInv, TypeOK, setClosedLocked
<1>3. I1' /\ I2'
  BY <1>1 DEF IInv, TypeOK, I1, I2, setClosedLocked
<1>4. I3'
  BY <1>1 DEF IInv, I3, setClosedLocked
<1> QED
  BY <1>2, <1>3, <1>4 DEF IInv

-----------------------------------------------------------------------------
(* Every step of a side preserves the inductive invariant.                    *)
LEMMA NextIInv == IInv /\ [Next]_vars => IInv'
<1> SUFFICES ASSUME IInv, [Next]_vars PROVE IInv'
  OBVIOUS
<1>1. ASSUME NEW c \in Callers, register(c) PROVE IInv'
  BY <1>1, RegisterIInv
<1>2. ASSUME NEW c \in Callers, leavePollingWith(c) PROVE IInv'
  BY <1>2, LeavePollingIInv
<1>3. ASSUME NEW c \in Callers, NEW atOldest \in BOOLEAN, enlist(c, atOldest)
      PROVE  IInv'
  BY <1>3, EnlistIInv
<1>4. ASSUME NEW c \in Callers, receiveToken(c) PROVE IInv'
  BY <1>4, ReceiveTokenIInv
<1>5. ASSUME NEW c \in Callers, leaveListWith(c) PROVE IInv'
  BY <1>5, LeaveListIInv
<1>6. CASE wakeOneLocked
  <2>1. sends = 0 /\ 1 <= word.parked /\ Transfer(1)
    BY <1>6 DEF wakeOneLocked, needsWake, Unlocked, IInv, TypeOK
  <2> QED
    BY <2>1, TransferIInv
<1>7. ASSUME NEW target \in 1..MaxTarget, wakeGroup(target) PROVE IInv'
  <2> DEFINE k == IF word.parked < target - word.pollers
                  THEN word.parked ELSE target - word.pollers
  <2>1. sends = 0 /\ Transfer(k)
    BY <1>7 DEF wakeGroup, Unlocked
  <2>2. k \in Nat /\ k <= word.parked
    BY <1>7, MaxTargetAssumption DEF wakeGroup, IInv, TypeOK
  <2> HIDE DEF k
  <2> QED
    BY <2>1, <2>2, TransferIInv
<1>8. CASE removeForWake
  BY <1>8, RemoveForWakeIInv
<1>9. CASE setClosedLocked
  BY <1>9, SetClosedIInv
<1>10. CASE UNCHANGED vars
  BY <1>10 DEF vars, IInv, TypeOK, I1, I2, I3, Listed, Owing, Selected
<1> QED
  BY <1>1, <1>2, <1>3, <1>4, <1>5, <1>6, <1>7, <1>8, <1>9, <1>10 DEF Next

(* The inductive invariant rules out every panic of waitside.go.              *)
LEMMA IInvNoPanic == IInv => NoPanic
<1> SUFFICES ASSUME IInv PROVE NoPanic
  OBVIOUS
<1>1. list \in Seq(Callers) /\ Len(list) \in Nat /\ DOMAIN list = 1..Len(list)
  BY DEF IInv, TypeOK
<1>2. sends > 0 => list # << >> /\ ~token[Head(list)]
  <2> SUFFICES ASSUME sends > 0 PROVE list # << >> /\ ~token[Head(list)]
    OBVIOUS
  <2>1. Len(list) > 0
    BY <1>1 DEF IInv, TypeOK, I1
  <2>2. list # << >> /\ Head(list) = list[1] /\ 1 \in DOMAIN list
        /\ Head(list) \in Callers
    BY <1>1, <2>1
  <2>3. Head(list) \in Listed
    BY <2>2 DEF Listed
  <2> QED
    BY <2>2, <2>3 DEF IInv, I3, Selected
<1>3. ASSUME NEW c \in Owing PROVE word.pollers > 0
  <2>1. /\ IsFiniteSet(Owing) /\ Cardinality(Owing) \in Nat
        /\ Cardinality(Selected) \in Nat
    BY CallersFinite DEF Owing, Selected
  <2>2. Cardinality(Owing) # 0
    BY <1>3, <2>1, FS_EmptySet
  <2> QED
    BY <2>1, <2>2 DEF IInv, TypeOK, I2
<1>4. ASSUME NEW c \in Listed, Unlocked PROVE word.parked > 0
  <2>1. Len(list) > 0
    BY <1>1, <1>4 DEF Listed
  <2> QED
    BY <1>4, <2>1 DEF IInv, TypeOK, I1, Unlocked
<1> QED
  BY <1>2, <1>3, <1>4 DEF NoPanic

(* I1, I2 and I3 of wakeup.md and the types hold throughout, whatever the     *)
(* number of callers and the largest wake group.                              *)
THEOREM SideInvariant == Spec => [](TypeOK /\ I1 /\ I2 /\ I3)
<1>1. Init => IInv
  BY InitIInv
<1>2. IInv /\ [Next]_vars => IInv'
  BY NextIInv
<1>3. IInv => TypeOK /\ I1 /\ I2 /\ I3
  BY DEF IInv
<1> QED
  BY <1>1, <1>2, <1>3, PTL DEF Spec

(* The parked count is the list's length, short by the tokens still to send.  *)
THEOREM ParkedIsListed == Spec => []I1
<1>1. TypeOK /\ I1 /\ I2 /\ I3 => I1
  OBVIOUS
<1> QED
  BY <1>1, SideInvariant, PTL

(* A waiter holds a token exactly from its selection until it takes it, so it *)
(* goes back to the pool with an empty channel.                               *)
THEOREM TokenIffSelected == Spec => []I3
<1>1. TypeOK /\ I1 /\ I2 /\ I3 => I3
  OBVIOUS
<1> QED
  BY <1>1, SideInvariant, PTL

(* No panic of waitside.go is ever reached.                                   *)
THEOREM SideNeverPanics == Spec => []NoPanic
<1>1. Init => IInv
  BY InitIInv
<1>2. IInv /\ [Next]_vars => IInv'
  BY NextIInv
<1>3. IInv => NoPanic
  BY IInvNoPanic
<1> QED
  BY <1>1, <1>2, <1>3, PTL DEF Spec

(* Once a side is closed it stays closed and only drains.                     *)
THEOREM ClosedSideDrains == Spec => ClosedRefuses
<1>1. Spec => [](TypeOK /\ I1 /\ I2 /\ I3)
  BY SideInvariant
<1>2. ASSUME TypeOK, [Next]_vars PROVE [RefusesIfClosed]_vars
  <2> USE DEF TypeOK, RefusesIfClosed
  <2> SUFFICES ASSUME Next PROVE RefusesIfClosed
    BY <1>2
  <2>1. ASSUME NEW c \in Callers, register(c) PROVE RefusesIfClosed
    BY <1>2, <2>1 DEF register
  <2>2. ASSUME NEW c \in Callers, leavePollingWith(c) PROVE RefusesIfClosed
    BY <1>2, <2>2 DEF leavePollingWith
  <2>3. ASSUME NEW c \in Callers, NEW atOldest \in BOOLEAN, enlist(c, atOldest)
        PROVE  RefusesIfClosed
    BY <1>2, <2>3 DEF enlist
  <2>4. ASSUME NEW c \in Callers, receiveToken(c) PROVE RefusesIfClosed
    BY <1>2, <2>4 DEF receiveToken
  <2>5. ASSUME NEW c \in Callers, leaveListWith(c) PROVE RefusesIfClosed
    BY <1>2, <2>5 DEF leaveListWith
  <2>6. CASE wakeOneLocked
    BY <1>2, <2>6 DEF wakeOneLocked, Transfer
  <2>7. ASSUME NEW target \in 1..MaxTarget, wakeGroup(target)
        PROVE  RefusesIfClosed
    <3> DEFINE k == IF word.parked < target - word.pollers
                    THEN word.parked ELSE target - word.pollers
    <3>1. Transfer(k)
      BY <2>7 DEF wakeGroup
    <3>2. k \in Nat
      BY <1>2, <2>7, MaxTargetAssumption DEF wakeGroup
    <3> HIDE DEF k
    <3> QED
      BY <1>2, <3>1, <3>2 DEF Transfer
  <2>8. CASE removeForWake
    BY <1>2, <2>8 DEF removeForWake
  <2>9. CASE setClosedLocked
    BY <1>2, <2>9 DEF setClosedLocked
  <2> QED
    BY <2>1, <2>2, <2>3, <2>4, <2>5, <2>6, <2>7, <2>8, <2>9 DEF Next
<1> QED
  BY <1>1, <1>2, PTL DEF Spec, ClosedRefuses
=============================================================================
