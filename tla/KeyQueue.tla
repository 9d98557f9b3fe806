------------------------------- MODULE KeyQueue -------------------------------
(* What int 16h promises: a bounded first-in first-out queue of keys, which a *)
(* break replaces by a single mark and which a restart empties.  A program    *)
(* sees a key as it was put or, through the old services, in its plain form.  *)
EXTENDS Naturals, Sequences

CONSTANTS
  Key,
  Plain(_),    \* the plain form of a key
  Mark,        \* the key that a break leaves
  Capacity     \* the number of keys the queue holds

VARIABLES
  queue,       \* the keys nobody has taken yet
  seen,        \* what the last successful call returned
  resets       \* the number of breaks and restarts

Put ==
  /\ Len(queue) < Capacity
  /\ \E k \in Key : queue' = Append(queue, k)
  /\ UNCHANGED <<seen, resets>>

Show == queue # <<>> /\ seen' \in {Head(queue), Plain(Head(queue))}

Take == Show /\ queue' = Tail(queue) /\ UNCHANGED resets

Look == Show /\ UNCHANGED <<queue, resets>>

Break == queue' = <<Mark>> /\ resets' = resets + 1 /\ UNCHANGED seen

Restart == queue' = <<>> /\ resets' = resets + 1 /\ UNCHANGED seen

QueueSpec ==
  /\ queue = <<>> /\ resets = 0
  /\ [][Put \/ Take \/ Look \/ Break \/ Restart]_<<queue, seen, resets>>
===============================================================================
