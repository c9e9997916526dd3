------------------------------ MODULE MCRunner ------------------------------
(* Runner for TLC: see MCRunner.cfg. *)
EXTENDS Runner, TLC

CONSTANTS s1, s2, s3, w1, w2, o1, o2

\* One submitter has two items, the others have one.
Batches == (s1 :> <<1, 2>>) @@ (s2 :> <<1>>) @@ (s3 :> <<2>>)

Config(callers, workers, capacity, batchLimit, maxAttempts) ==
    [callers : {callers}, workers : {workers}, capacity : {capacity},
     batchLimit : {batchLimit}, maxAttempts : {maxAttempts},
     callbacks : BOOLEAN, abortMode : BOOLEAN]

\* Two workers beside a submitter that fills the queue; two submitters, batches
\* of two and retries; and two owners that shut down and abort.
Runners ==
    Config({s1, o1}, {w1, w2}, 1, 1, 1)
    \cup Config({s2, s3, o1}, {w1}, 2, 2, 2)
    \cup Config({s1, o1, o2}, {w1}, 2, 2, 1)
=============================================================================
