------------------------ MODULE SimpleRingBuffer_proofs ------------------------
(***************************************************************************)
(* What the operations of SimpleRingBuffer.h do to the sequence a ring     *)
(* stands for, for every size the template accepts.  Cited by the proofs   *)
(* about the modules that own a ring.                                      *)
(***************************************************************************)
EXTENDS SimpleRingBuffer, SequenceTheorems, TLAPS

(* The modulo of incReadPos and incInsertPos only ever wraps the last        *)
(* position to the first.  (SimpleRingBuffer.h:15, 28)                       *)
LEMMA WrapAround ==
  ASSUME NEW p \in Positions
  PROVE  (p + 1) % BUFFER_SIZE = IF p + 1 = BUFFER_SIZE THEN 0 ELSE p + 1
  BY BufferSizeAssumption, SMT DEF Positions

(* The next position is a position again.  (SimpleRingBuffer.h:15, 28)       *)
LEMMA NextPosition ==
  ASSUME NEW p \in Positions
  PROVE  (IF p + 1 = BUFFER_SIZE THEN 0 ELSE p + 1) \in Positions
<1>1. p \in Int /\ 0 <= p /\ p <= BUFFER_SIZE - 1 /\ BUFFER_SIZE \in Int /\ 1 <= BUFFER_SIZE
  BY BufferSizeAssumption DEF Positions
<1>2. CASE p + 1 = BUFFER_SIZE
  BY <1>1, <1>2 DEF Positions
<1>3. CASE p + 1 # BUFFER_SIZE
  BY <1>1, <1>3 DEF Positions
<1> QED
  BY <1>2, <1>3

(* The sentinel is no position, so isEmpty and isFull exclude each other.    *)
LEMMA SentinelIsNoPosition == UINT8_MAX \notin Positions
  BY BufferSizeAssumption DEF Positions, UINT8_MAX

(* The two position tests decide emptiness and fullness of the sequence.     *)
(* (SimpleRingBuffer.h:97-99)                                                *)
LEMMA CountFacts ==
  ASSUME NEW T, NEW r \in Rings(T)
  PROVE  /\ Count(r) \in 0..BUFFER_SIZE
         /\ isEmpty(r) <=> Count(r) = 0
         /\ isFull(r) <=> Count(r) = BUFFER_SIZE
  BY BufferSizeAssumption, SMT DEF Rings, Positions, Count, isEmpty, isFull, UINT8_MAX

(* The elements between the two positions are a sequence.                    *)
LEMMA ContentsIsSeq ==
  ASSUME NEW T, NEW r \in Rings(T)
  PROVE  /\ Contents(r) \in Seq(T)
         /\ Len(Contents(r)) = Count(r)
         /\ \A k \in 1..Count(r) : /\ SlotOf(r, k - 1) \in Positions
                                   /\ Contents(r)[k] = r.buffer[SlotOf(r, k - 1)]
<1>1. Count(r) \in Nat
  BY CountFacts, BufferSizeAssumption
<1>2. ASSUME NEW k \in 1..Count(r)
      PROVE  SlotOf(r, k - 1) \in Positions
  BY BufferSizeAssumption, SMT DEF Rings, Positions, Count, isEmpty, SlotOf, UINT8_MAX
<1>3. \A k \in 1..Count(r) : r.buffer[SlotOf(r, k - 1)] \in T
  BY <1>2 DEF Rings
<1>4. Contents(r) \in [1..Count(r) -> T]
  BY <1>3 DEF Contents
<1> QED
  BY <1>1, <1>2, <1>4 DEF Contents

(* beginPush, the caller's store and endPush append one element, whether the *)
(* insert position wraps or the ring was empty.  (SimpleRingBuffer.h:22-29,  *)
(* 62-72)                                                                    *)
LEMMA FillSlotAppends ==
  ASSUME NEW T, NEW r \in Rings(T), NEW v \in T, ~isFull(r)
  PROVE  /\ fillSlot(r, v) \in Rings(T)
         /\ Count(fillSlot(r, v)) = Count(r) + 1
         /\ Contents(fillSlot(r, v)) = Append(Contents(r), v)
<1> DEFINE i  == r.insertPosition
           s  == fillSlot(r, v)
<1>1. /\ i \in Positions
      /\ r.readPosition \in Positions \cup {UINT8_MAX}
      /\ r.buffer \in [Positions -> T]
  BY DEF Rings
<1>2. /\ s.insertPosition = IF i + 1 = BUFFER_SIZE THEN 0 ELSE i + 1
      /\ s.readPosition = IF isEmpty(r) THEN i ELSE r.readPosition
      /\ s.buffer = [r.buffer EXCEPT ![i] = v]
  BY <1>1, WrapAround DEF fillSlot, store, incInsertPos, isEmpty
<1>3. s \in Rings(T)
  <2>1. s.insertPosition \in Positions
    BY <1>1, <1>2, NextPosition
  <2>2. s.readPosition \in Positions \cup {UINT8_MAX}
    BY <1>1, <1>2
  <2>3. s.buffer \in [Positions -> T]
    BY <1>1, <1>2
  <2>4. s = [buffer |-> s.buffer, insertPosition |-> s.insertPosition,
             readPosition |-> s.readPosition]
    BY DEF fillSlot, incInsertPos
  <2> QED
    BY <2>1, <2>2, <2>3, <2>4 DEF Rings
<1> HIDE DEF s
<1>4. Count(s) = Count(r) + 1
  <2>1. CASE isEmpty(r)
    BY <1>1, <1>2, <2>1, BufferSizeAssumption, SMT
       DEF Count, isEmpty, Positions, UINT8_MAX
  <2>2. CASE ~isEmpty(r)
    <3>1. /\ s.readPosition = r.readPosition
          /\ r.readPosition \in Positions
          /\ ~isEmpty(s)
      BY <1>1, <1>2, <2>2, SentinelIsNoPosition DEF isEmpty
    <3>2. CASE i + 1 = BUFFER_SIZE
      <4>1. s.insertPosition = 0
        BY <1>2, <3>2
      <4> QED
        BY <1>1, <2>2, <3>1, <3>2, <4>1, BufferSizeAssumption, SMT
           DEF Count, isFull, Positions
    <3>3. CASE i + 1 # BUFFER_SIZE
      <4>1. s.insertPosition = i + 1
        BY <1>2, <3>3
      <4> QED
        BY <1>1, <2>2, <3>1, <3>3, <4>1, BufferSizeAssumption, SMT
           DEF Count, isFull, Positions
    <3> QED
      BY <3>2, <3>3
  <2> QED
    BY <2>1, <2>2
<1>5. ASSUME NEW k \in 1..Count(r)
      PROVE  Contents(s)[k] = Contents(r)[k]
  <2>1. ~isEmpty(r) /\ s.readPosition = r.readPosition
    BY <1>2 DEF Count
  <2>2. SlotOf(s, k - 1) = SlotOf(r, k - 1)
    BY <2>1 DEF SlotOf
  <2>3. SlotOf(r, k - 1) # i
    BY <1>1, <2>1, BufferSizeAssumption, SMT
       DEF Count, SlotOf, isEmpty, isFull, Positions, UINT8_MAX
  <2>4. k \in 1..Count(s)
    BY <1>4, CountFacts, BufferSizeAssumption
  <2> QED
    BY <1>1, <1>2, <1>3, <2>2, <2>3, <2>4, ContentsIsSeq
<1>6. Contents(s)[Count(r) + 1] = v
  <2>1. SlotOf(s, Count(r)) = i
    BY <1>1, <1>2, BufferSizeAssumption, SMT
       DEF Count, SlotOf, isEmpty, isFull, Positions, UINT8_MAX
  <2>2. Count(r) \in Nat /\ Count(r) + 1 \in 1..Count(s)
    BY <1>4, CountFacts, BufferSizeAssumption
  <2>3. SlotOf(s, (Count(r) + 1) - 1) = i
    BY <2>1, <2>2
  <2> QED
    BY <1>1, <1>2, <1>3, <2>2, <2>3, ContentsIsSeq
<1>7. Contents(s) = Append(Contents(r), v)
  <2>1. /\ Contents(s) \in Seq(T) /\ Len(Contents(s)) = Count(r) + 1
        /\ Contents(r) \in Seq(T) /\ Len(Contents(r)) = Count(r)
        /\ Count(r) \in Nat
    BY <1>3, <1>4, ContentsIsSeq, CountFacts, BufferSizeAssumption
  <2>2. \A k \in 1..(Count(r) + 1) : Contents(s)[k] = Append(Contents(r), v)[k]
    BY <1>5, <1>6, <2>1
  <2> QED
    BY <2>1, <2>2
<1> QED
  BY <1>3, <1>4, <1>7 DEF s

(* incReadPos removes the oldest element and leaves the sentinel behind the  *)
(* last one.  (SimpleRingBuffer.h:13-20)                                     *)
LEMMA IncReadPosRemovesOldest ==
  ASSUME NEW T, NEW r \in Rings(T), ~isEmpty(r)
  PROVE  /\ incReadPos(r) \in Rings(T)
         /\ Count(incReadPos(r)) = Count(r) - 1
         /\ Contents(incReadPos(r)) = Tail(Contents(r))
         /\ Contents(r) # <<>>
         /\ front(r) = Contents(r)[1]
<1> DEFINE q == r.readPosition
           n == IF q + 1 = BUFFER_SIZE THEN 0 ELSE q + 1
           s == incReadPos(r)
<1>1. /\ q \in Positions
      /\ r.insertPosition \in Positions
      /\ r.buffer \in [Positions -> T]
  BY DEF Rings, isEmpty
<1>2. /\ s.readPosition = IF n = r.insertPosition THEN UINT8_MAX ELSE n
      /\ s.insertPosition = r.insertPosition
      /\ s.buffer = r.buffer
  BY <1>1, WrapAround DEF incReadPos
<1>3. s \in Rings(T)
  <2>1. n \in Positions
    BY <1>1, NextPosition
  <2>2. s = [buffer |-> s.buffer, insertPosition |-> s.insertPosition,
             readPosition |-> s.readPosition]
    BY DEF incReadPos
  <2> QED
    BY <1>1, <1>2, <2>1, <2>2 DEF Rings
<1> HIDE DEF s
<1>4. Count(s) = Count(r) - 1
  <2>1. CASE n = r.insertPosition
    <3>1. isEmpty(s)
      BY <1>2, <2>1 DEF isEmpty
    <3> QED
      BY <1>1, <2>1, <3>1, BufferSizeAssumption, SMT DEF Count, Positions
  <2>2. CASE n # r.insertPosition
    <3>1. n \in Positions
      BY <1>1, NextPosition
    <3>2. s.readPosition = n
      BY <1>2, <2>2
    <3>3. ~isEmpty(s)
      BY <3>1, <3>2, SentinelIsNoPosition DEF isEmpty
    <3>4. CASE q + 1 = BUFFER_SIZE
      <4>1. s.readPosition = 0 /\ r.insertPosition # 0
        BY <2>2, <3>2, <3>4
      <4> QED
        BY <1>1, <1>2, <3>3, <3>4, <4>1, BufferSizeAssumption, SMT
           DEF Count, Positions
    <3>5. CASE q + 1 # BUFFER_SIZE
      <4>1. s.readPosition = q + 1 /\ r.insertPosition # q + 1
        BY <2>2, <3>2, <3>5
      <4> QED
        BY <1>1, <1>2, <3>3, <3>5, <4>1, BufferSizeAssumption, SMT
           DEF Count, Positions
    <3> QED
      BY <3>4, <3>5
  <2> QED
    BY <2>1, <2>2
<1>5. Count(r) \in 1..BUFFER_SIZE
  BY CountFacts, BufferSizeAssumption
<1>6. ASSUME NEW k \in 1..Count(s)
      PROVE  Contents(s)[k] = Contents(r)[k + 1]
  <2>1. SlotOf(s, k - 1) = SlotOf(r, k)
    <3>1. s.readPosition = n
      BY <1>2 DEF Count, isEmpty
    <3>2. k \in 1..(BUFFER_SIZE - 1)
      BY <1>4, <1>5, BufferSizeAssumption
    <3>3. CASE q + 1 = BUFFER_SIZE
      <4>1. s.readPosition = 0
        BY <3>1, <3>3
      <4> QED
        BY <1>1, <3>2, <3>3, <4>1, BufferSizeAssumption, SMT DEF SlotOf, Positions
    <3>4. CASE q + 1 # BUFFER_SIZE
      <4>1. s.readPosition = q + 1
        BY <3>1, <3>4
      <4> QED
        BY <1>1, <3>2, <3>4, <4>1, BufferSizeAssumption, SMT DEF SlotOf, Positions
    <3> QED
      BY <3>3, <3>4
  <2>2. k + 1 \in 1..Count(r) /\ (k + 1) - 1 = k
    BY <1>4, <1>5
  <2>3. Contents(r)[k + 1] = r.buffer[SlotOf(r, k)]
    BY <2>2, ContentsIsSeq
  <2>4. Contents(s)[k] = s.buffer[SlotOf(s, k - 1)]
    BY <1>3, ContentsIsSeq
  <2> QED
    BY <1>2, <2>1, <2>3, <2>4
<1>7. /\ Contents(r) \in Seq(T) /\ Len(Contents(r)) = Count(r)
      /\ Contents(s) \in Seq(T) /\ Len(Contents(s)) = Count(r) - 1
  BY <1>3, <1>4, ContentsIsSeq
<1>8. Contents(r) # <<>>
  BY <1>5, <1>7
<1>9. Contents(s) = Tail(Contents(r))
  BY <1>4, <1>5, <1>6, <1>7, <1>8
<1>10. front(r) = Contents(r)[1]
  <2>1. SlotOf(r, 1 - 1) = q
    BY <1>1, BufferSizeAssumption DEF SlotOf, Positions
  <2> QED
    BY <1>5, <2>1, ContentsIsSeq DEF front
<1> QED
  BY <1>3, <1>4, <1>8, <1>9, <1>10 DEF s

(* A new ring is empty.  (SimpleRingBuffer.h:10-11)                          *)
LEMMA NewRingIsEmpty ==
  ASSUME NEW T, NEW d \in T
  PROVE  /\ NewRing(d) \in Rings(T)
         /\ isEmpty(NewRing(d))
         /\ Contents(NewRing(d)) = <<>>
<1>1. NewRing(d) \in Rings(T)
  BY BufferSizeAssumption DEF NewRing, Rings, Positions
<1>2. isEmpty(NewRing(d))
  BY DEF NewRing, isEmpty
<1>3. Len(Contents(NewRing(d))) = 0 /\ Contents(NewRing(d)) \in Seq(T)
  BY <1>1, <1>2, ContentsIsSeq, CountFacts
<1> QED
  BY <1>1, <1>2, <1>3

-------------------------------------------------------------------------------
(* Moving the first element of the right part to the left part.              *)
LEMMA MoveHead ==
  ASSUME NEW S, NEW d \in Seq(S), NEW c \in Seq(S), c # <<>>
  PROVE  d \o c = Append(d, c[1]) \o Tail(c)
<1>1. /\ c[1] \in S /\ Tail(c) \in Seq(S)
      /\ c = <<c[1]>> \o Tail(c)
  OBVIOUS
<1>2. Append(d, c[1]) = d \o <<c[1]>>
  BY <1>1, AppendIsConcat
<1>3. <<c[1]>> \in Seq(S)
  BY <1>1
<1>4. (d \o <<c[1]>>) \o Tail(c) = d \o (<<c[1]>> \o Tail(c))
  BY <1>1, <1>3, ConcatAssociative
<1> QED
  BY <1>1, <1>2, <1>4
===============================================================================
