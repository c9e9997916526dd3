------------------------------ MODULE WaitSide ------------------------------
(* One direction of waiting in workq: workq/waitside.go.  A side keeps an     *)
(* atomic state word (pollers, parked, closed), a mutex-protected list of     *)
(* waiters, oldest first, and one wake token per waiter.                      *)
(*                                                                            *)
(* A caller waits with one waiter at a time and returns it to the pool clean, *)
(* so a waiter is named by the caller that holds it.  The mutex is held       *)
(* between two steps only by a waker that has moved waiters from parked to    *)
(* pollers and has not yet sent all their tokens: `sends' counts those, and   *)
(* the mutex is free exactly when it is 0.  Every other critical section is   *)
(* one step.  A compare-and-swap loop is the one step in which it succeeds.   *)
EXTENDS Integers, Sequences, SequencesExt, FiniteSets

CONSTANTS Callers,      \* goroutines that may wait on this side
          MaxTarget     \* the largest number of pollers a wake group aims at

ASSUME CallersAssumption == IsFiniteSet(Callers)
ASSUME MaxTargetAssumption == MaxTarget \in Nat \ {0}

VARIABLES word,     \* the side word: [pollers, parked, closed]
          list,     \* parked waiters, oldest first
          token,    \* token[c]: a wake token is buffered in c's channel
          sends,    \* tokens the holder of the mutex has still to send
          phase     \* what c owes the side: nothing, a registration, or a park

vars == <<word, list, token, sends, phase>>

needsWake(w) == w.pollers = 0 /\ w.parked > 0

Unlocked == sends = 0

Init ==
  /\ word = [pollers |-> 0, parked |-> 0, closed |-> FALSE]
  /\ list = << >>
  /\ token = [c \in Callers |-> FALSE]
  /\ sends = 0
  /\ phase = [c \in Callers |-> "out"]

-----------------------------------------------------------------------------
(* Variant: the waiters leave parked, and nobody registers them.              *)
TransferUnregistered(k) ==
  /\ word' = [word EXCEPT !.parked = @ - k]
  /\ sends' = k
  /\ UNCHANGED <<list, token, phase>>

(* The mutation of the word that moves k waiters from parked to pollers.      *)
Transfer(k) ==
  /\ word' = [word EXCEPT !.pollers = @ + k, !.parked = @ - k]
  /\ sends' = k
  /\ UNCHANGED <<list, token, phase>>

(* Variant: the closed bit is not looked at.                                  *)
registerClosed(c) ==
  /\ phase[c] = "out"
  /\ word' = [word EXCEPT !.pollers = @ + 1]
  /\ phase' = [phase EXCEPT ![c] = "polling"]
  /\ UNCHANGED <<list, token, sends>>

(* register: join the pollers, unless the side is closed.                     *)
register(c) ==
  /\ phase[c] = "out"
  /\ ~word.closed
  /\ word' = [word EXCEPT !.pollers = @ + 1]
  /\ phase' = [phase EXCEPT ![c] = "polling"]
  /\ UNCHANGED <<list, token, sends>>

(* leavePollingWith: give the registration back.  What the caller does with   *)
(* the word it leaves behind is the caller's cleanup.                         *)
leavePollingWith(c) ==
  /\ phase[c] = "polling"
  /\ word.pollers > 0
  /\ word' = [word EXCEPT !.pollers = @ - 1]
  /\ phase' = [phase EXCEPT ![c] = "out"]
  /\ UNCHANGED <<list, token, sends>>

(* enlist: from the pollers to the parked, linked at the chosen end.          *)
enlist(c, atOldest) ==
  /\ phase[c] = "polling"
  /\ Unlocked
  /\ ~word.closed
  /\ word.pollers > 0
  /\ word' = [word EXCEPT !.pollers = @ - 1, !.parked = @ + 1]
  /\ list' = IF atOldest THEN <<c>> \o list ELSE Append(list, c)
  /\ phase' = [phase EXCEPT ![c] = "parked"]
  /\ UNCHANGED <<token, sends>>

(* wakeOneLocked, up to the token send.                                       *)
wakeOneLocked ==
  /\ Unlocked
  /\ needsWake(word)
  /\ Transfer(1)

(* wakeGroup, up to its first token send: one compare-and-swap moves the      *)
(* whole group.                                                               *)
wakeGroup(target) ==
  /\ Unlocked
  /\ word.parked > 0
  /\ word.pollers < target
  /\ Transfer(IF word.parked < target - word.pollers
              THEN word.parked ELSE target - word.pollers)

(* One round of the send loop: unlink the oldest waiter and send its token.   *)
(* Sending the last one releases the mutex.                                   *)
removeForWake ==
  /\ sends > 0
  /\ list # << >>
  /\ ~token[Head(list)]
  /\ list' = Tail(list)
  /\ token' = [token EXCEPT ![Head(list)] = TRUE]
  /\ sends' = sends - 1
  /\ UNCHANGED <<word, phase>>

(* A parked caller takes its token, in the park's select or in leaveListWith. *)
(* Its waker has registered it already.                                       *)
receiveToken(c) ==
  /\ phase[c] = "parked"
  /\ token[c]
  /\ token' = [token EXCEPT ![c] = FALSE]
  /\ phase' = [phase EXCEPT ![c] = "polling"]
  /\ UNCHANGED <<word, list, sends>>

(* Variant: the caller unlinks itself and stays counted as parked.            *)
leaveListCounted(c) ==
  /\ phase[c] = "parked"
  /\ Unlocked
  /\ \E i \in DOMAIN list : list[i] = c /\ list' = RemoveAt(list, i)
  /\ phase' = [phase EXCEPT ![c] = "out"]
  /\ UNCHANGED <<word, token, sends>>

(* Variant: the caller does not take the mutex.                               *)
leaveListUnlocked(c) ==
  /\ phase[c] = "parked"
  /\ \E i \in DOMAIN list : list[i] = c /\ list' = RemoveAt(list, i)
  /\ word' = [word EXCEPT !.parked = @ - 1]
  /\ phase' = [phase EXCEPT ![c] = "out"]
  /\ UNCHANGED <<token, sends>>

(* Variant: a caller no longer listed leaves without taking its token.        *)
leaveListHoldingToken(c) ==
  /\ phase[c] = "parked"
  /\ Unlocked
  /\ word.parked > 0
  /\ list' = SelectSeq(list, LAMBDA d : d # c)
  /\ word' = [word EXCEPT !.parked = @ - 1]
  /\ phase' = [phase EXCEPT ![c] = "out"]
  /\ UNCHANGED <<token, sends>>

(* leaveListWith, the caller still listed: it unlinks itself.                 *)
leaveListWith(c) ==
  /\ phase[c] = "parked"
  /\ Unlocked
  /\ word.parked > 0
  /\ \E i \in DOMAIN list : list[i] = c /\ list' = RemoveAt(list, i)
  /\ word' = [word EXCEPT !.parked = @ - 1]
  /\ phase' = [phase EXCEPT ![c] = "out"]
  /\ UNCHANGED <<token, sends>>

(* setClosedLocked: sets the bit and keeps the counts.                        *)
setClosedLocked ==
  /\ Unlocked
  /\ word' = [word EXCEPT !.closed = TRUE]
  /\ UNCHANGED <<list, token, sends, phase>>

Next ==
  \/ \E c \in Callers : \/ register(c)
                        \/ leavePollingWith(c)
                        \/ \E atOldest \in BOOLEAN : enlist(c, atOldest)
                        \/ receiveToken(c)
                        \/ leaveListWith(c)
  \/ wakeOneLocked
  \/ \E target \in 1..MaxTarget : wakeGroup(target)
  \/ removeForWake
  \/ setClosedLocked

Spec == Init /\ [][Next]_vars

-----------------------------------------------------------------------------
Listed == {list[i] : i \in DOMAIN list}
Owing == {c \in Callers : phase[c] = "polling"}
Selected == {c \in Callers : phase[c] = "parked"} \ Listed

(* The values the state of a side ranges over.                                *)
TypeOK ==
  /\ word \in [pollers : Nat, parked : Nat, closed : BOOLEAN]
  /\ list \in Seq(Callers)
  /\ token \in [Callers -> BOOLEAN]
  /\ sends \in Nat
  /\ phase \in [Callers -> {"out", "polling", "parked"}]

(* I1 of wakeup.md.  The parked count is the length of the list whenever the  *)
(* mutex is free, and short of it by exactly the waiters already moved to     *)
(* pollers and not yet unlinked while a waker holds it.                       *)
I1 == word.parked + sends = Len(list)

(* I2 of wakeup.md.  The poller count is the number of registrations acquired *)
(* and neither released nor turned into a park: the callers that owe one, and *)
(* the waiters a waker has selected, whether or not their token is sent.      *)
I2 == word.pollers = Cardinality(Owing) + Cardinality(Selected) + sends

(* I3 of wakeup.md.  A waiter holds a token exactly while it has been         *)
(* selected and has not taken it; a listed waiter is parked, listed once, and *)
(* has an empty channel, so a waiter is always clean when it is reused.       *)
I3 == /\ \A c \in Callers : token[c] <=> c \in Selected
      /\ \A c \in Listed : phase[c] = "parked"
      /\ \A i, j \in DOMAIN list : list[i] = list[j] => i = j

(* None of the panics of waitside.go is reachable: a waker finds a waiter     *)
(* with an empty channel for each token it owes, a caller that owes a         *)
(* registration is counted, and so is a caller that is still listed.          *)
NoPanic ==
  /\ sends > 0 => list # << >> /\ ~token[Head(list)]
  /\ \A c \in Owing : word.pollers > 0
  /\ \A c \in Listed : Unlocked => word.parked > 0

(* A step that finds the side closed leaves it closed, and adds nobody to the *)
(* callers waiting on it.                                                     *)
RefusesIfClosed ==
  word.closed => /\ word'.closed
                 /\ word'.parked <= word.parked
                 /\ word'.pollers + word'.parked <= word.pollers + word.parked

(* A closed side only drains: register and enlist refuse (waitside.go,        *)
(* register and enlist), and wakes move waiters from parked to pollers.       *)
ClosedRefuses == [][RefusesIfClosed]_vars
=============================================================================
