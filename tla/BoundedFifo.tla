------------------------------ MODULE BoundedFifo ------------------------------
(***************************************************************************)
(* What a user of SimpleRingBuffer relies on: a first-in first-out queue   *)
(* of at most Capacity elements.  offer refuses when the queue is full,    *)
(* push makes room by dropping the oldest element.  out is what the last   *)
(* call returned.                                                          *)
(***************************************************************************)
EXTENDS Integers, Sequences

CONSTANTS Values,    \* the elements that can be queued
          NoValue,   \* the null pointer of pop and peek
          Capacity   \* the number of elements the queue holds

VARIABLES queue, out
vars == <<queue, out>>

Init == queue = <<>> /\ out = NoValue

Offer(v) ==
  \/ /\ Len(queue) < Capacity
     /\ queue' = Append(queue, v)
     /\ out' = TRUE
  \/ /\ Len(queue) = Capacity
     /\ out' = FALSE
     /\ UNCHANGED queue

Push(v) ==
  /\ queue' = Append(IF Len(queue) = Capacity THEN Tail(queue) ELSE queue, v)
  /\ out' = NoValue

Pop ==
  \/ /\ queue = <<>>
     /\ out' = NoValue
     /\ UNCHANGED queue
  \/ /\ queue # <<>>
     /\ out' = queue[1]
     /\ queue' = Tail(queue)

Peek ==
  /\ out' = IF queue = <<>> THEN NoValue ELSE queue[1]
  /\ UNCHANGED queue

Next == (\E v \in Values : Offer(v) \/ Push(v)) \/ Pop \/ Peek

Spec == Init /\ [][Next]_vars
===============================================================================
