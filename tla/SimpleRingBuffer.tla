--------------------------- MODULE SimpleRingBuffer ---------------------------
(***************************************************************************)
(* The ring buffer of SimpleRingBuffer.h as operators on a record.  There  *)
(* is no element count: "empty" is the sentinel UINT8_MAX in readPosition, *)
(* "full" is readPosition = insertPosition.  Every method is one operator  *)
(* that returns the record after the call; the modules that own a ring     *)
(* (the receive buffer of the CAN transport, the send buffer of the        *)
(* protocol decoder) instantiate this module with their size.              *)
(***************************************************************************)
EXTENDS Integers, Sequences

CONSTANT BUFFER_SIZE

\* The static_assert of the constructor, for a uint8_t template parameter.
ASSUME BufferSizeAssumption == BUFFER_SIZE \in 1..254

UINT8_MAX == 255
Positions == 0 .. (BUFFER_SIZE - 1)

\* A ring just constructed: every slot holds the element type's default.
NewRing(default) ==
  [buffer         |-> [p \in Positions |-> default],
   insertPosition |-> 0,
   readPosition   |-> UINT8_MAX]

isEmpty(r) == r.readPosition = UINT8_MAX
isFull(r)  == r.readPosition = r.insertPosition

\* Variant: the sentinel is not set when the last element is taken.
incReadPosOnly(r) ==
  [buffer         |-> r.buffer,
   insertPosition |-> r.insertPosition,
   readPosition   |-> (r.readPosition + 1) % BUFFER_SIZE]

incReadPos(r) ==
  LET next == (r.readPosition + 1) % BUFFER_SIZE
  IN  [buffer         |-> r.buffer,
       insertPosition |-> r.insertPosition,
       readPosition   |-> IF next = r.insertPosition THEN UINT8_MAX ELSE next]

incInsertPos(r) ==
  [buffer         |-> r.buffer,
   insertPosition |-> (r.insertPosition + 1) % BUFFER_SIZE,
   readPosition   |-> IF isEmpty(r) THEN r.insertPosition ELSE r.readPosition]

store(r, v) ==
  [buffer         |-> [r.buffer EXCEPT ![r.insertPosition] = v],
   insertPosition |-> r.insertPosition,
   readPosition   |-> r.readPosition]

\* What the caller does with the slot beginPush returned, then endPush.
fillSlot(r, v) == incInsertPos(store(r, v))

offer(r, v) == IF isFull(r) THEN r ELSE fillSlot(r, v)

\* Variant: writes over the oldest element without dropping it.
pushOver(r, v) == fillSlot(r, v)

push(r, v)  == fillSlot(IF isFull(r) THEN incReadPos(r) ELSE r, v)
pop(r)      == IF isEmpty(r) THEN r ELSE incReadPos(r)

\* The element peek and pop return a pointer to, when the ring is not empty.
front(r) == r.buffer[r.readPosition]

-------------------------------------------------------------------------------
(* The abstraction function: the sequence of elements a ring stands for.     *)

Rings(T) == [buffer         : [Positions -> T],
             insertPosition : Positions,
             readPosition   : Positions \cup {UINT8_MAX}]

Count(r) ==
  IF isEmpty(r) THEN 0
  ELSE IF r.insertPosition > r.readPosition
       THEN r.insertPosition - r.readPosition
       ELSE r.insertPosition - r.readPosition + BUFFER_SIZE

\* The position of the k-th oldest element, counted from 0.
SlotOf(r, k) == IF r.readPosition + k < BUFFER_SIZE
                THEN r.readPosition + k
                ELSE r.readPosition + k - BUFFER_SIZE

Contents(r) == [k \in 1..Count(r) |-> r.buffer[SlotOf(r, k - 1)]]

===============================================================================
