------------------------------ MODULE KeyFifo ------------------------------
(***************************************************************************)
(* What the keyboard buffer of leanux promises to a reader: keys arrive in *)
(* the order in which they were pressed, each once, and none is lost while *)
(* fewer than Capacity wait.                                               *)
(***************************************************************************)
EXTENDS Naturals, Sequences

CONSTANTS Key, NoKey, Capacity

VARIABLES
  queue,  \* the keys that wait
  hand    \* the key the reader was given and has not used, or NoKey

vars == <<queue, hand>>

Init == queue = <<>> /\ hand = NoKey

\* A key pressed while Capacity others wait is dropped: no step.
Press(k) ==
  /\ Len(queue) < Capacity
  /\ queue' = Append(queue, k)
  /\ UNCHANGED hand

Take ==
  /\ queue # <<>> /\ hand = NoKey
  /\ hand' = Head(queue)
  /\ queue' = Tail(queue)

Use ==
  /\ hand # NoKey
  /\ hand' = NoKey
  /\ UNCHANGED queue

Next == Take \/ Use \/ \E k \in Key : Press(k)

Spec == Init /\ [][Next]_vars /\ WF_vars(Take) /\ WF_vars(Use)

=============================================================================
