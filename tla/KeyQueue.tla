------------------------------ MODULE KeyQueue ------------------------------
(***************************************************************************)
(* What the HLE keyboard promises: a first-in first-out queue of at most    *)
(* Capacity keystrokes.  A keystroke that finds it full changes nothing.    *)
(***************************************************************************)
EXTENDS Naturals, Sequences

CONSTANTS Key, Capacity

VARIABLE queue

Init == queue = <<>>

Put == Len(queue) < Capacity /\ \E k \in Key : queue' = Append(queue, k)

Take == queue # <<>> /\ queue' = Tail(queue)

Next == Put \/ Take

Spec == Init /\ [][Next]_queue
=============================================================================
