---------------------------- MODULE RingBufferQueue ----------------------------
(***************************************************************************)
(* The ring buffer under every legal sequence of calls: one action per     *)
(* public method that changes or returns something.  Refines BoundedFifo.  *)
(***************************************************************************)
EXTENDS SimpleRingBuffer

CONSTANTS Values, NoValue

VARIABLES ring,   \* the SimpleRingBuffer object
          out     \* what the last call returned
vars == <<ring, out>>

Init == ring = NewRing(NoValue) /\ out = NoValue

Offer(v) == ring' = offer(ring, v) /\ out' = ~isFull(ring)
Push(v)  == ring' = push(ring, v) /\ out' = NoValue
Pop      == ring' = pop(ring) /\ out' = IF isEmpty(ring) THEN NoValue ELSE front(ring)
Peek     == out' = (IF isEmpty(ring) THEN NoValue ELSE front(ring)) /\ UNCHANGED ring

Next == (\E v \in Values : Offer(v) \/ Push(v)) \/ Pop \/ Peek

Spec == Init /\ [][Next]_vars

-------------------------------------------------------------------------------
(* Every position stays inside the array; the sentinel is the only other     *)
(* value of readPosition.  (SimpleRingBuffer.h:10-29)                        *)
TypeOK == /\ ring \in Rings(Values \cup {NoValue})
          /\ out \in Values \cup {NoValue} \cup BOOLEAN

(* The encoding without a counter tells empty, partly filled and full apart: *)
(* the ring is full exactly when it holds BUFFER_SIZE elements, and only a   *)
(* slot that was filled is ever between the two positions, so neither pop    *)
(* nor peek can return an element nobody stored.  (SimpleRingBuffer.h:97-99) *)
EncodingSound ==
  /\ isFull(ring) <=> Count(ring) = BUFFER_SIZE
  /\ \A k \in 1..Count(ring) : Contents(ring)[k] \in Values

(* The ring implements the bounded queue: offer refuses when full, push      *)
(* drops the oldest, pop and peek return the oldest element.                 *)
(* (SimpleRingBuffer.h:34-95)                                                *)
Fifo == INSTANCE BoundedFifo WITH queue <- Contents(ring), Capacity <- BUFFER_SIZE
ImplementsFifo == Fifo!Spec
===============================================================================
