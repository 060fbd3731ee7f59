-------------------------- MODULE HovalReceive_proofs --------------------------
(***************************************************************************)
(* Proofs about receiving, for every size of the stack, every lifetime of  *)
(* its entries and every set of messages and frames on the bus.            *)
(***************************************************************************)
EXTENDS HovalReceive, FiniteSetTheorems, SequenceTheorems, WellFoundedInduction, TLAPS

-------------------------------------------------------------------------------
(* The inductive invariant.                                                  *)

\* The first part decided the id, the size of the buffer and whether the message is
\* only kept to be logged.
Begun(e) ==
  \E f \in BusFrames : /\ f.first /\ f.part = e.body[1] /\ f.id = e.id
                        /\ f.data /\ e.dynamic = ~f.known
                        /\ e.maxBodyLength = 1 + 7 * (f.count - 1)

\* What is known of an entry: where its length and its parts come from.  A part
\* is at the place its frame's index says.
Sound(e) ==
  /\ e.body # <<>>
  /\ e.messageBodyLength = 1 + 7 * (Len(e.body) - 1)
  /\ e.messageBodyLength <= e.maxBodyLength
  /\ e.maxBodyLength <= 211
  /\ Begun(e)
  /\ InPlace(e.body)

StackSound ==
  /\ messageStack \in [Slots -> Messages \cup {nullptr}]
  /\ age \in [Slots -> 0 .. (MAX_AGE + 1)]
  /\ \A i \in Slots : messageStack[i] # nullptr => Sound(messageStack[i])

Inv == StackSound /\ NoLeak /\ ProcessedInPlace /\ CrcOnlyForCollisions

-------------------------------------------------------------------------------
(* Frames.                                                                   *)

(* The frame of a part of a message.                                         *)
LEMMA FrameOfFields ==
  ASSUME NEW m \in Sent, NEW k \in 1 .. m.parts
  PROVE  /\ FrameOf(m, k) \in BusFrames
         /\ FrameOf(m, k).first = (k = 1)
         /\ FrameOf(m, k).last = (k = m.parts)
         /\ FrameOf(m, k).index = 32 - k
         /\ FrameOf(m, k).id = m.id
         /\ FrameOf(m, k).known = m.known
         /\ FrameOf(m, k).data = m.data
         /\ FrameOf(m, k).part = <<m.name, k>>
         /\ m.parts > 1 =>
              /\ FrameOf(m, k).count = m.parts
              /\ FrameOf(m, k).length = IF k = m.parts THEN 1 + m.tail ELSE 8
<1>1. m.parts \in 1 .. 31 /\ (m.parts > 1 => m.tail \in 1 .. 7)
  BY SentAssumption
<1>2. FrameOf(m, k) \in BusFrames
  BY DEF BusFrames
<1> QED
  BY <1>1, <1>2 DEF FrameOf, FOLLOW_MESSAGE_HEADER_LENGTH, MAX_MESSAGE_LENGTH

(* A frame with a part of m is the frame of that part.                       *)
LEMMA FrameOfPart ==
  ASSUME NEW f \in BusFrames, NEW m \in Sent, f.part[1] = m.name
  PROVE  \E k \in 1 .. m.parts : f = FrameOf(m, k)
<1>1. f \notin Odd
  BY OddAssumption
<1>2. PICK n \in Sent : \E k \in 1 .. n.parts : f = FrameOf(n, k)
  BY <1>1 DEF BusFrames
<1>3. f.part[1] = n.name
  BY <1>2, FrameOfFields
<1> QED
  BY <1>2, <1>3, SentAssumption

(* Any frame is one of a message or an odd one, with the fields of a frame.  *)
LEMMA FrameType ==
  ASSUME NEW f \in BusFrames
  PROVE  /\ f.first \in BOOLEAN /\ f.last \in BOOLEAN /\ f.known \in BOOLEAN /\ f.data \in BOOLEAN
         /\ f.index \in 0 .. 31 /\ f.id \in 0 .. 255 /\ f.count \in 0 .. 31
         /\ f.length \in 0 .. 8 /\ f.part \in PartNames
<1>1. f.part \in PartNames
  BY DEF PartNames
<1>2. CASE f \in Odd
  BY <1>1, <1>2, OddAssumption
<1>3. CASE f \notin Odd
  <2>1. PICK m \in Sent : \E k \in 1 .. m.parts : f = FrameOf(m, k)
    BY <1>3 DEF BusFrames
  <2>2. /\ m.id \in 0..255 /\ m.parts \in 1..31
        /\ m.tail \in 0..7 /\ (m.parts = 1 => m.tail \in 0..2)
        /\ m.known \in BOOLEAN /\ m.data \in BOOLEAN
    BY SentAssumption
  <2> QED
    BY <1>1, <2>1, <2>2
       DEF FrameOf, FOLLOW_MESSAGE_HEADER_LENGTH, MAX_MESSAGE_LENGTH, SINGLE_MESSAGE_HEADER_LENGTH
<1> QED
  BY <1>2, <1>3

-------------------------------------------------------------------------------
(* The receive stack.                                                        *)

(* Every set of naturals that is not empty has a least element.              *)
LEMMA Least ==
  ASSUME NEW T, T \subseteq Nat, T # {}
  PROVE  \E x \in T : \A y \in T : x <= y
<1> DEFINE R == OpToRel(<, Nat)
<1>1. IsWellFoundedOn(R, Nat)
  BY NatLessThanWellFounded
<1>2. \A x, y \in Nat : x < y <=> <<x, y>> \in R
  BY DEF OpToRel
<1> HIDE DEF R
<1>3. PICK x \in T : \A y \in T : ~(<<y, x>> \in R)
  BY <1>1, WFMin
<1>4. ASSUME NEW y \in T PROVE x <= y
  <2>1. x \in Nat /\ y \in Nat
    OBVIOUS
  <2>2. ~(y < x)
    BY <1>2, <1>3, <2>1, Zenon
  <2> QED
    BY <2>1, <2>2
<1> QED
  BY <1>3, <1>4

(* The search finds a slot of the stack: there is always an oldest entry.    *)
LEMMA SlotToUseIsSlot ==
  ASSUME NEW st, age \in [Slots -> 0 .. (MAX_AGE + 1)]
  PROVE  slotToUse(st) \in Slots
<1> DEFINE usable == {i \in Slots : st[i] = nullptr \/ age[i] > MAX_AGE}
           oldest == {i \in Slots : \A j \in Slots : age[i] >= age[j]}
           from   == IF usable # {} THEN usable ELSE oldest
           youths == {MAX_AGE + 1 - age[i] : i \in Slots}
<1>1. 0 \in Slots
  BY StackAssumption DEF Slots
<1>2. \A i \in Slots : age[i] \in Int /\ MAX_AGE + 1 - age[i] \in Nat
  BY StackAssumption
<1>3. oldest # {}
  <2>1. youths \subseteq Nat /\ youths # {}
    BY <1>1, <1>2
  <2> HIDE DEF youths
  <2>2. PICK y \in youths : \A z \in youths : y <= z
    BY <2>1, Least
  <2>3. PICK i \in Slots : y = MAX_AGE + 1 - age[i]
    BY <2>2 DEF youths
  <2>4. ASSUME NEW j \in Slots PROVE age[i] >= age[j]
    <3>1. MAX_AGE + 1 - age[j] \in youths
      BY DEF youths
    <3>2. MAX_AGE + 1 - age[i] <= MAX_AGE + 1 - age[j]
      BY <2>2, <2>3, <3>1
    <3> QED
      BY <1>2, <3>2, StackAssumption
  <2> QED
    BY <2>4
<1>4. from # {} /\ from \subseteq Slots
  BY <1>3
<1>5. slotToUse(st) = CHOOSE i \in from : \A j \in from : i <= j
  BY DEF slotToUse
<1> HIDE DEF from
<1>6. from \subseteq Nat
  BY <1>4 DEF Slots
<1>7. PICK i \in from : \A j \in from : i <= j
  BY <1>4, <1>6, Least
<1> QED
  BY <1>4, <1>5, <1>7

(* pop takes a slot with the id, if there is one.                            *)
LEMMA SlotWithIdHasId ==
  ASSUME NEW id, slotsWithId(id) # {}
  PROVE  slotWithId(id) \in slotsWithId(id)
<1>1. slotsWithId(id) \subseteq Nat
  BY DEF slotsWithId, Slots
<1>2. PICK i \in slotsWithId(id) : \A j \in slotsWithId(id) : i <= j
  BY <1>1, Least
<1> QED
  BY <1>2 DEF slotWithId

(* A push replaces what one slot holds, and that is what it frees.           *)
LEMMA PushReplaces ==
  ASSUME NEW st \in [Slots -> Messages \cup {nullptr}], NEW e, NEW held,
         age \in [Slots -> 0 .. (MAX_AGE + 1)], pushToReceiveStack(st, e, held)
  PROVE  \E i \in Slots :
           /\ messageStack' = [st EXCEPT ![i] = e]
           /\ age' = [age EXCEPT ![i] = 0]
           /\ live' = held - (IF st[i] = nullptr THEN 0 ELSE 1)
BY SlotToUseIsSlot DEF pushToReceiveStack

\* How many messages a stack holds.
Held(st) == Cardinality({i \in Slots : st[i] # nullptr})

(* Storing a message in a slot, or nothing, changes the number by what was   *)
(* and what is in the slot.                                                  *)
LEMMA HeldAfter ==
  ASSUME NEW st \in [Slots -> Messages \cup {nullptr}], NEW i \in Slots,
         NEW e \in Messages \cup {nullptr}
  PROVE  /\ Held(st) \in 0 .. RECEIVE_STACK_SIZE
         /\ Held([st EXCEPT ![i] = e]) =
              Held(st) - (IF st[i] = nullptr THEN 0 ELSE 1) + (IF e = nullptr THEN 0 ELSE 1)
<1> DEFINE U == {j \in Slots : st[j] # nullptr}
           V == {j \in Slots : [st EXCEPT ![i] = e][j] # nullptr}
<1>1. IsFiniteSet(Slots) /\ Cardinality(Slots) = RECEIVE_STACK_SIZE
  <2>1. 0 \in Int /\ RECEIVE_STACK_SIZE - 1 \in Int
    BY StackAssumption
  <2>2. IsFiniteSet(0 .. (RECEIVE_STACK_SIZE - 1))
        /\ Cardinality(0 .. (RECEIVE_STACK_SIZE - 1)) =
             IF 0 > RECEIVE_STACK_SIZE - 1 THEN 0 ELSE (RECEIVE_STACK_SIZE - 1) - 0 + 1
    BY <2>1, FS_Interval
  <2> QED
    BY <2>2, StackAssumption DEF Slots
<1>2. U \in SUBSET Slots
  OBVIOUS
<1>3. /\ IsFiniteSet(U) /\ Cardinality(U) \in Nat /\ Cardinality(U) <= RECEIVE_STACK_SIZE
  BY <1>1, <1>2, FS_Subset, FS_CardinalityType
<1>4. V = IF e = nullptr THEN U \ {i} ELSE U \cup {i}
  OBVIOUS
<1>5. Cardinality(V) = Cardinality(U) - (IF i \in U THEN 1 ELSE 0) + (IF e = nullptr THEN 0 ELSE 1)
  <2> HIDE DEF U, V
  <2>1. CASE e = nullptr
    <3>1. Cardinality(U \ {i}) = IF i \in U THEN Cardinality(U) - 1 ELSE Cardinality(U)
      BY <1>3, FS_RemoveElement
    <3> QED
      BY <1>3, <1>4, <2>1, <3>1
  <2>2. CASE e # nullptr
    <3>1. Cardinality(U \cup {i}) = IF i \in U THEN Cardinality(U) ELSE Cardinality(U) + 1
      BY <1>3, FS_AddElement
    <3> QED
      BY <1>3, <1>4, <2>2, <3>1
  <2> QED
    BY <2>1, <2>2
<1>6. Held(st) = Cardinality(U) /\ Held([st EXCEPT ![i] = e]) = Cardinality(V)
  BY DEF Held
<1>7. i \in U <=> st[i] # nullptr
  OBVIOUS
<1> HIDE DEF U, V
<1>8. RECEIVE_STACK_SIZE \in Nat
  BY StackAssumption
<1> QED
  BY <1>3, <1>5, <1>6, <1>7, <1>8

-------------------------------------------------------------------------------
(* What one frame does.                                                      *)

\* The message of a first frame, and the message that f continues.
Started(f) == [id |-> f.id, maxBodyLength |-> 1 + 7 * (f.count - 1), messageBodyLength |-> 1,
               body |-> <<f.part>>, dynamic |-> ~f.known]

Continued(e, f) == [id |-> e.id, maxBodyLength |-> e.maxBodyLength,
                    messageBodyLength |-> e.messageBodyLength + (f.length - 1),
                    body |-> Append(e.body, f.part), dynamic |-> e.dynamic]

(* The fields of a sound entry.                                              *)
LEMMA SoundFields ==
  ASSUME NEW e \in Messages, Sound(e)
  PROVE  /\ e.id \in 0 .. 255 /\ e.dynamic \in BOOLEAN
         /\ e.maxBodyLength \in Int /\ e.maxBodyLength >= 8 /\ e.maxBodyLength <= 211
         /\ e.messageBodyLength \in Int /\ e.messageBodyLength >= 1
         /\ e.messageBodyLength <= e.maxBodyLength
         /\ e.body \in Seq(PartNames) /\ Len(e.body) \in Int /\ Len(e.body) >= 1
         /\ e.messageBodyLength = 1 + 7 * (Len(e.body) - 1)
<1>1. /\ e.id \in 0 .. 255 /\ e.dynamic \in BOOLEAN
      /\ e.body \in Seq(PartNames)
  BY DEF Messages
<1>2. /\ e.messageBodyLength <= e.maxBodyLength /\ e.maxBodyLength <= 211 /\ e.body # <<>>
      /\ e.messageBodyLength = 1 + 7 * (Len(e.body) - 1)
  BY DEF Sound
<1>3. Len(e.body) \in Int /\ Len(e.body) >= 1
  BY <1>1, <1>2
<1>4. /\ e.maxBodyLength \in Int /\ e.maxBodyLength >= 8
      /\ e.messageBodyLength \in Int /\ e.messageBodyLength >= 1
  <2>1. e.maxBodyLength \in 8 .. 255 /\ e.messageBodyLength \in 1 .. 255
    BY DEF Messages
  <2> QED
    BY <2>1
<1> QED
  BY <1>1, <1>2, <1>3, <1>4, Zenon

(* A first frame that is not given up starts a sound entry.                  *)
LEMMA StartIsSound ==
  ASSUME NEW f \in BusFrames, f.first, f.data, f.count > 1
  PROVE  /\ addToBody(newMessage(f.id, uint8(1 + (f.count - 1) * 7), ~f.known), f.part, 1) = Started(f)
         /\ Started(f) \in Messages
         /\ Sound(Started(f))
<1>1. f.count \in 2 .. 31 /\ f.id \in 0 .. 255 /\ f.known \in BOOLEAN /\ f.part \in PartNames
  BY FrameType
<1>2. uint8(1 + (f.count - 1) * 7) = 1 + 7 * (f.count - 1) /\ 1 + 7 * (f.count - 1) \in 8 .. 211
  BY <1>1 DEF uint8
<1>3. Append(<<>>, f.part) = <<f.part>>
  OBVIOUS
<1>4. addToBody(newMessage(f.id, uint8(1 + (f.count - 1) * 7), ~f.known), f.part, 1) = Started(f)
  <2> DEFINE room    == 1 + 7 * (f.count - 1)
             dynamic == ~f.known
             n       == newMessage(f.id, room, dynamic)
             x       == addToBody(n, f.part, 1)
  <2> HIDE DEF room, dynamic
  <2>1. n \in [id : {f.id}, maxBodyLength : {room}, messageBodyLength : {0}, body : {<<>>},
               dynamic : {dynamic}]
    BY DEF newMessage
  <2>2. /\ n.messageBodyLength = 0 /\ n.maxBodyLength = room /\ n.body = <<>>
        /\ n.id = f.id /\ n.dynamic = dynamic
    BY DEF newMessage
  <2>3. ~(0 + 1 > room) /\ 0 + 1 = 1
    BY <1>2 DEF room
  <2>4. x = [n EXCEPT !.messageBodyLength = 1, !.body = <<f.part>>]
    BY <1>3, <2>2, <2>3 DEF addToBody
  <2> HIDE DEF n, x
  <2>5. x = [id |-> n.id, maxBodyLength |-> n.maxBodyLength, messageBodyLength |-> 1,
             body |-> <<f.part>>, dynamic |-> n.dynamic]
    BY <2>1, <2>4
  <2>6. x = Started(f)
    BY <2>2, <2>5 DEF Started, room, dynamic
  <2> QED
    BY <1>2, <2>6 DEF n, x, room, dynamic
<1>5. Started(f) \in Messages
  BY <1>1, <1>2 DEF Started, Messages
<1>6. Sound(Started(f))
  <2>1. Begun(Started(f))
    BY DEF Begun, Started
  <2>2. InPlace(Started(f).body)
    BY DEF InPlace, Started
  <2> QED
    BY <1>1, <1>2, <2>1, <2>2 DEF Sound, Started
<1> QED
  BY <1>4, <1>5, <1>6

(* What the three checks let pass continues the entry: the frame has the     *)
(* index of the next part, its payload fits, and it is appended.             *)
LEMMA FittingFrame ==
  ASSUME NEW f \in BusFrames, NEW e \in Messages, Sound(e), f.index # 0, fits(f, e)
  PROVE  /\ f.index = 32 - (Len(e.body) + 1)
         /\ f.length \in 1 .. 8
         /\ ~f.last => f.length = 8
         /\ e.messageBodyLength + (f.length - 1) <= e.maxBodyLength
         /\ addToBody(e, f.part, payloadLengthOf(f)) = Continued(e, f)
<1> DEFINE n       == Len(e.body)
           offset  == offsetOf(f)
           payload == payloadLengthOf(f)
<1>1. /\ f.index \in Int /\ f.index >= 1 /\ f.index <= 31
      /\ f.length \in Int /\ f.length >= 0 /\ f.length <= 8
  BY FrameType
<1>2. payload = IF f.length = 0 THEN 255 ELSE f.length - 1
  BY <1>1 DEF payloadLengthOf, uint8, FOLLOW_MESSAGE_HEADER_LENGTH
<1>3. offset = IF f.index = 31 THEN 250 ELSE 1 + 7 * (30 - f.index)
  BY <1>1 DEF offsetOf, uint8, FOLLOW_MESSAGE_MAX_BODY_LENGTH, FIRST_MESSAGE_MAX_BODY_LENGTH
<1>4. offset + payload <= e.maxBodyLength /\ offset = e.messageBodyLength
  BY DEF fits
<1>5. ~f.last => f.length = 8
  BY DEF fits, MAX_MESSAGE_LENGTH
<1>6. /\ n \in Int /\ n >= 1 /\ e.messageBodyLength = 1 + 7 * (n - 1)
      /\ e.messageBodyLength \in Int /\ e.maxBodyLength \in Int /\ e.maxBodyLength <= 211
  BY SoundFields
<1> HIDE DEF n, offset, payload
<1>7. f.length # 0 /\ f.index # 31
  <2>1. offset \in Int /\ offset >= 0 /\ payload \in Int /\ payload >= 0
    BY <1>1, <1>2, <1>3
  <2>2. offset <= 211 /\ payload <= 211
    BY <1>4, <1>6, <2>1
  <2> QED
    BY <1>2, <1>3, <2>2
<1>8. f.index = 32 - (n + 1) /\ payload = f.length - 1
  BY <1>1, <1>2, <1>3, <1>4, <1>6, <1>7
<1>9. f.length \in 1 .. 8
  BY <1>1, <1>7
<1>10. e.messageBodyLength + (f.length - 1) <= e.maxBodyLength
  BY <1>4, <1>8
<1>11. addToBody(e, f.part, payload) = Continued(e, f)
  <2>1. ~(e.messageBodyLength + (f.length - 1) > e.maxBodyLength)
    BY <1>1, <1>6, <1>10
  <2>2. addToBody(e, f.part, payload) =
          [e EXCEPT !.messageBodyLength = e.messageBodyLength + (f.length - 1),
                    !.body = Append(e.body, f.part)]
    BY <1>8, <2>1 DEF addToBody
  <2> QED
    BY <2>2 DEF Continued, Messages
<1> QED
  BY <1>5, <1>8, <1>9, <1>10, <1>11 DEF n, payload

(* A frame that continues an entry is put at its place.                      *)
LEMMA ContinuedInPlace ==
  ASSUME NEW f \in BusFrames, NEW e \in Messages, Sound(e), f.index # 0, fits(f, e), ~f.first
  PROVE  InPlace(Continued(e, f).body)
<1> DEFINE n == Len(e.body)
           b == Continued(e, f).body
<1>1. n \in Int /\ n >= 1 /\ e.body \in Seq(PartNames) /\ f.index = 32 - (n + 1)
  BY FittingFrame, SoundFields
<1>2. /\ Len(b) = n + 1 /\ b[n + 1] = f.part
      /\ \A k \in 1 .. n : b[k] = e.body[k]
  BY <1>1, FrameType DEF Continued
<1> HIDE DEF b
<1>3. ASSUME NEW k \in 2 .. (n + 1)
      PROVE  \E g \in BusFrames : ~g.first /\ g.part = b[k] /\ g.index = 32 - k
  <2>1. CASE k = n + 1
    BY <1>1, <1>2, <2>1
  <2>2. CASE k # n + 1
    <3>1. k \in 2 .. n /\ b[k] = e.body[k]
      BY <1>1, <1>2, <2>2
    <3> QED
      BY <3>1 DEF Sound, InPlace, n
  <2> QED
    BY <2>1, <2>2
<1> QED
  BY <1>2, <1>3 DEF InPlace, b

(* A continued entry is sound, if the frame was not the last.                *)
LEMMA ContinuedIsSound ==
  ASSUME NEW f \in BusFrames, NEW e \in Messages, Sound(e), f.index # 0, fits(f, e),
         ~f.first, ~f.last
  PROVE  Continued(e, f) \in Messages /\ Sound(Continued(e, f))
<1> DEFINE c == Continued(e, f)
           n == Len(e.body)
<1>1. /\ f.index = 32 - (n + 1)
      /\ f.length = 8
      /\ e.messageBodyLength + 7 <= e.maxBodyLength
  BY FittingFrame
<1>2. f.part \in PartNames
  BY FrameType
<1>3. /\ c.id = e.id /\ c.maxBodyLength = e.maxBodyLength
      /\ c.messageBodyLength = e.messageBodyLength + 7
      /\ c.body = Append(e.body, f.part) /\ c.dynamic = e.dynamic
  BY <1>1 DEF Continued
<1>4. /\ e.maxBodyLength \in Int /\ e.maxBodyLength <= 211
      /\ e.messageBodyLength \in Int /\ e.messageBodyLength >= 1
      /\ n \in Int /\ n >= 1 /\ e.messageBodyLength = 1 + 7 * (n - 1)
  BY SoundFields
<1>5. /\ c.body \in Seq(PartNames) /\ Len(c.body) = n + 1 /\ c.body # <<>>
      /\ c.body[n + 1] = f.part
      /\ \A k \in 1 .. n : c.body[k] = e.body[k]
  <2>1. e.body \in Seq(PartNames)
    BY SoundFields
  <2> QED
    BY <1>2, <1>3, <2>1
<1>6. c \in Messages
  <2> HIDE DEF n
  <2>1. e.messageBodyLength + 7 \in 1 .. 255
    BY <1>1, <1>4
  <2> QED
    BY <1>1, <1>3, <1>5, <2>1 DEF Continued, Messages
<1> HIDE DEF c, n
<1>7. c.messageBodyLength = 1 + 7 * n
  BY <1>3, <1>4
<1>8. c.messageBodyLength <= c.maxBodyLength /\ c.maxBodyLength <= 211
  BY <1>1, <1>3, <1>4
<1>9. Begun(c)
  <2>1. Begun(e) /\ c.body[1] = e.body[1]
    BY <1>4, <1>5 DEF Sound
  <2> QED
    BY <1>3, <2>1, Zenon DEF Begun
<1>10. InPlace(c.body)
  BY ContinuedInPlace DEF c
<1>11. Sound(c)
  <2>1. c.messageBodyLength = 1 + 7 * (Len(c.body) - 1)
    <3>1. Len(c.body) - 1 = n
      BY <1>4, <1>5
    <3> QED
      BY <1>7, <3>1, Zenon
  <2> QED
    BY <1>5, <1>8, <1>9, <1>10, <2>1, Zenon DEF Sound
<1> QED
  BY <1>6, <1>11 DEF c

(* A completed body with the parts of one sender alone is its message.       *)
LEMMA UnmixedIsWhole ==
  ASSUME NEW f \in BusFrames, NEW e \in Messages, Sound(e), f.index # 0, fits(f, e),
         ~f.first, f.last,
         \A k \in 1 .. Len(Continued(e, f).body) :
           Continued(e, f).body[k][1] = Continued(e, f).body[1][1]
  PROVE  \E m \in Sent : Continued(e, f).body = WholeBody(m)
<1> DEFINE n == Len(e.body)
           b == Continued(e, f).body
<1>1. n \in Int /\ n >= 1 /\ e.body \in Seq(PartNames) /\ f.index = 32 - (n + 1)
  BY FittingFrame, SoundFields
<1>2. f.part \in PartNames
  BY FrameType
<1>3. /\ b \in Seq(PartNames) /\ Len(b) = n + 1 /\ b[n + 1] = f.part
      /\ \A k \in 1 .. n : b[k] = e.body[k]
  BY <1>1, <1>2 DEF Continued
<1>4. \A k \in 1 .. Len(b) : b[k][1] = b[1][1]
  OBVIOUS
<1> HIDE DEF b
<1>5. PICK g \in BusFrames : g.first /\ g.part = b[1]
  BY <1>1, <1>3 DEF Sound, Begun
<1>6. f.part[1] = g.part[1]
  BY <1>1, <1>3, <1>4, <1>5
<1>7. g \notin Odd
  <2> SUFFICES ASSUME g \in Odd PROVE FALSE
    OBVIOUS
  <2>1. CASE f \in Odd
    <3>1. f = g
      BY <1>6, <2>1, OddAssumption
    <3> QED
      BY <1>5, <3>1
  <2>2. CASE f \notin Odd
    <3>1. PICK m \in Sent : \E k \in 1 .. m.parts : f = FrameOf(m, k)
      BY <2>2 DEF BusFrames
    <3>2. f.part[1] = m.name
      BY <3>1, FrameOfFields
    <3> QED
      BY <1>6, <3>2, OddAssumption
  <2> QED
    BY <2>1, <2>2
<1>8. PICK m \in Sent : \E k \in 1 .. m.parts : g = FrameOf(m, k)
  BY <1>7 DEF BusFrames
<1>9. m.parts \in 1 .. 31
  BY SentAssumption
<1>10. g.part[1] = m.name /\ g.part = <<m.name, 1>>
  <2>1. PICK k \in 1 .. m.parts : g = FrameOf(m, k)
    BY <1>8
  <2>2. g.first = (k = 1) /\ g.part = <<m.name, k>>
    BY <2>1, FrameOfFields
  <2>3. k = 1
    BY <1>5, <2>2, Zenon
  <2> QED
    BY <2>2, <2>3
<1>11. \A k \in 1 .. (n + 1) : b[k][1] = m.name
  BY <1>3, <1>4, <1>5, <1>10
<1>12. ASSUME NEW h \in BusFrames, NEW k \in 2 .. (n + 1), h.part = b[k], h.index = 32 - k
       PROVE  h = FrameOf(m, k) /\ k \in 1 .. m.parts
  <2>1. h.part[1] = m.name
    BY <1>1, <1>11, <1>12
  <2>2. PICK j \in 1 .. m.parts : h = FrameOf(m, j)
    BY <2>1, FrameOfPart
  <2>3. 32 - j = 32 - k
    BY <1>12, <2>2, FrameOfFields
  <2>4. j = k
    BY <1>1, <1>9, <2>3
  <2> QED
    BY <2>2, <2>4
<1>13. n + 1 \in 2 .. (n + 1)
  BY <1>1
<1>14. f = FrameOf(m, n + 1) /\ n + 1 \in 1 .. m.parts
  BY <1>1, <1>3, <1>12, <1>13
<1>15. m.parts = n + 1
  BY <1>14, FrameOfFields
<1>16. ASSUME NEW k \in 1 .. (n + 1) PROVE b[k] = <<m.name, k>>
  <2>1. CASE k = 1
    BY <1>5, <1>10, <2>1
  <2>2. CASE k = n + 1
    BY <1>3, <1>14, <2>2, FrameOfFields
  <2>3. CASE k # 1 /\ k # n + 1
    <3>1. k \in 2 .. n /\ k \in 2 .. (n + 1)
      BY <1>1, <2>3
    <3>2. b[k] = e.body[k]
      BY <1>1, <1>3, <3>1
    <3>3. PICK h \in BusFrames : h.part = b[k] /\ h.index = 32 - k
      BY <3>1, <3>2 DEF Sound, InPlace
    <3>4. h = FrameOf(m, k) /\ k \in 1 .. m.parts
      BY <1>12, <3>1, <3>3
    <3> QED
      BY <3>3, <3>4, FrameOfFields
  <2> QED
    BY <2>1, <2>2, <2>3
<1>17. b = WholeBody(m)
  <2> HIDE DEF n
  <2>1. b = [k \in 1 .. (n + 1) |-> b[k]]
    BY <1>3
  <2> QED
    BY <1>15, <1>16, <2>1 DEF WholeBody
<1> QED
  BY <1>17 DEF b

-------------------------------------------------------------------------------
(* The outcomes of a frame.                                                  *)

Accepted(f) ==
  /\ f.first /\ f.last /\ f.index # 0
  /\ f.count = 0 /\ f.data /\ f.known /\ f.length >= 6
  /\ processed' = <<f.part>> /\ crcRejected' = <<>>
  /\ UNCHANGED <<stack, live>>

Starts(f) ==
  /\ f.first /\ f.data /\ f.count > 1
  /\ pushToReceiveStack(messageStack, Started(f), live + 1) /\ NoOutcome

GivesUp(f, i) == DropFrom(i) /\ NoOutcome

Continues(f, i) ==
  /\ ~f.first /\ f.index # 0 /\ fits(f, messageStack[i]) /\ ~f.last
  /\ pushToReceiveStack(popped(i), Continued(messageStack[i], f), live) /\ NoOutcome

Completes(f, i) ==
  /\ ~f.first /\ f.index # 0 /\ fits(f, messageStack[i]) /\ f.last
  /\ Complete(i, Continued(messageStack[i], f))

(* Every frame is ignored, processed at once, starts an entry, or does one   *)
(* thing to one entry with its id.                                           *)
LEMMA Outcomes ==
  ASSUME StackSound, NEW f \in BusFrames, NEW log \in BOOLEAN, onMessageReceived(f, log)
  PROVE  \/ Ignored
         \/ Accepted(f)
         \/ Starts(f)
         \/ \E i \in slotsWithId(f.id) : GivesUp(f, i) \/ Continues(f, i) \/ Completes(f, i)
<1>0. f.first \in BOOLEAN /\ f.last \in BOOLEAN
  BY FrameType
<1>1. CASE f.first /\ f.last
  BY <1>1 DEF onMessageReceived, onSingleMessage, Accepted, SINGLE_MESSAGE_HEADER_LENGTH
<1>2. CASE ~(f.first /\ f.last) /\ f.first
  <2>1. Ignored \/ (f.index # 0 /\ onMultiPartMessageStart(f, log))
    BY <1>2 DEF onMessageReceived, onMultiPartMessage
  <2>2. CASE onMultiPartMessageStart(f, log)
    <3>1. CASE f.count > 1 /\ f.data
      BY <1>2, <2>2, <3>1, StartIsSound
         DEF onMultiPartMessageStart, Starts, FIRST_MESSAGE_MAX_BODY_LENGTH,
             FOLLOW_MESSAGE_MAX_BODY_LENGTH
    <3>2. CASE ~(f.count > 1 /\ f.data)
      BY <2>2, <3>2 DEF onMultiPartMessageStart
    <3> QED
      BY <3>1, <3>2
  <2> QED
    BY <2>1, <2>2
<1>3. CASE ~f.first
  <2>1. Ignored \/ (f.index # 0 /\ onMultiPartMessageCont(f))
    BY <1>3 DEF onMessageReceived, onMultiPartMessage
  <2>2. CASE f.index # 0 /\ onMultiPartMessageCont(f)
    <3>1. CASE slotsWithId(f.id) = {}
      BY <2>2, <3>1 DEF onMultiPartMessageCont
    <3>2. CASE slotsWithId(f.id) # {}
      <4> DEFINE i == slotWithId(f.id)
                 e == messageStack[i]
                 c == addToBody(e, f.part, payloadLengthOf(f))
      <4>1. i \in slotsWithId(f.id)
        BY <3>2, SlotWithIdHasId
      <4>2. i \in Slots /\ e # nullptr
        BY <4>1 DEF slotsWithId
      <4>3. e \in Messages /\ Sound(e)
        BY <4>2 DEF StackSound
      <4>4. \/ ~fits(f, e) /\ DropFrom(i) /\ NoOutcome
            \/ fits(f, e) /\ f.last /\ Complete(i, c)
            \/ fits(f, e) /\ ~f.last /\ pushToReceiveStack(popped(i), c, live) /\ NoOutcome
        BY <2>2, <3>2 DEF onMultiPartMessageCont
      <4>5. fits(f, e) => c = Continued(e, f)
        BY <2>2, <4>3, FittingFrame
      <4> HIDE DEF c
      <4>6. GivesUp(f, i) \/ Continues(f, i) \/ Completes(f, i)
        BY <1>3, <2>2, <4>4, <4>5 DEF GivesUp, Continues, Completes
      <4> QED
        BY <4>1, <4>6
    <3> QED
      BY <3>1, <3>2
  <2> QED
    BY <2>1, <2>2
<1> QED
  BY <1>0, <1>1, <1>2, <1>3

-------------------------------------------------------------------------------
(* What the outcomes do to the stack.                                        *)

(* A push of a sound message, counted among the allocated, keeps the stack.  *)
LEMMA PushKeeps ==
  ASSUME NEW st \in [Slots -> Messages \cup {nullptr}],
         \A i \in Slots : st[i] # nullptr => Sound(st[i]),
         age \in [Slots -> 0 .. (MAX_AGE + 1)],
         NEW e \in Messages, Sound(e),
         NEW held, held = Held(st) + 1, pushToReceiveStack(st, e, held)
  PROVE  StackSound' /\ NoLeak'
<1>1. PICK i \in Slots :
        /\ messageStack' = [st EXCEPT ![i] = e]
        /\ age' = [age EXCEPT ![i] = 0]
        /\ live' = held - (IF st[i] = nullptr THEN 0 ELSE 1)
  BY PushReplaces
<1>2. e # nullptr
  BY NullAssumption
<1>3. /\ Held(st) \in 0 .. RECEIVE_STACK_SIZE
      /\ Held([st EXCEPT ![i] = e]) =
           Held(st) - (IF st[i] = nullptr THEN 0 ELSE 1) + (IF e = nullptr THEN 0 ELSE 1)
  BY HeldAfter
<1>4. live' = Held(messageStack')
  BY <1>1, <1>2, <1>3, StackAssumption
<1>5. NoLeak'
  BY <1>4 DEF NoLeak, Held
<1>6. messageStack' \in [Slots -> Messages \cup {nullptr}]
  BY <1>1
<1>7. age' \in [Slots -> 0 .. (MAX_AGE + 1)]
  BY <1>1, StackAssumption
<1>8. \A j \in Slots : messageStack'[j] # nullptr => Sound(messageStack'[j])
  BY <1>1
<1> QED
  BY <1>5, <1>6, <1>7, <1>8 DEF StackSound, Sound

(* A deleted entry leaves its slot free.                                     *)
LEMMA DropKeeps ==
  ASSUME StackSound, NoLeak, NEW i \in Slots, messageStack[i] # nullptr, DropFrom(i)
  PROVE  StackSound' /\ NoLeak'
<1>1. /\ messageStack' = [messageStack EXCEPT ![i] = nullptr]
      /\ age' = [age EXCEPT ![i] = 0]
      /\ live' = live - 1
  BY DEF DropFrom, popped
<1>2. /\ messageStack \in [Slots -> Messages \cup {nullptr}]
      /\ age \in [Slots -> 0 .. (MAX_AGE + 1)]
      /\ \A j \in Slots : messageStack[j] # nullptr => Sound(messageStack[j])
      /\ live = Held(messageStack)
  BY DEF StackSound, NoLeak, Held
<1>3. Held(messageStack') = Held(messageStack) - 1 /\ Held(messageStack) \in Int
  <2>1. /\ Held(messageStack) \in 0 .. RECEIVE_STACK_SIZE
        /\ Held([messageStack EXCEPT ![i] = nullptr]) = Held(messageStack) - 1 + 0
    <3>1. nullptr \in Messages \cup {nullptr}
      OBVIOUS
    <3> QED
      BY <1>2, <3>1, HeldAfter, Zenon
  <2> QED
    BY <1>1, <2>1, StackAssumption
<1>4. NoLeak'
  BY <1>1, <1>2, <1>3 DEF NoLeak, Held
<1>5. messageStack' \in [Slots -> Messages \cup {nullptr}]
  BY <1>1, <1>2
<1>6. age' \in [Slots -> 0 .. (MAX_AGE + 1)]
  BY <1>1, <1>2, StackAssumption
<1>7. \A j \in Slots : messageStack'[j] # nullptr => Sound(messageStack'[j])
  BY <1>1, <1>2
<1> QED
  BY <1>4, <1>5, <1>6, <1>7 DEF StackSound, Sound

-------------------------------------------------------------------------------
(* What is processed and what the CRC check turns down.                      *)

(* A single message that is processed is one a device sent.                  *)
LEMMA AcceptedIsWhole ==
  ASSUME NEW f \in BusFrames, Accepted(f)
  PROVE  ProcessedInPlace' /\ CrcOnlyForCollisions'
<1>1. f \notin Odd
  BY OddAssumption DEF Accepted
<1>2. PICK m \in Sent : \E k \in 1 .. m.parts : f = FrameOf(m, k)
  BY <1>1 DEF BusFrames
<1>3. PICK k \in 1 .. m.parts : f = FrameOf(m, k)
  BY <1>2
<1>4. f.first = (k = 1) /\ f.last = (k = m.parts) /\ f.part = <<m.name, k>>
  BY <1>3, FrameOfFields
<1>5. k = 1 /\ m.parts = 1
  BY <1>4, Zenon DEF Accepted
<1>6. WholeBody(m) = <<f.part>>
  BY <1>4, <1>5 DEF WholeBody
<1>7. BegunAsKnown(<<f.part>>)
  BY DEF Accepted, BegunAsKnown
<1>8. InPlace(<<f.part>>)
  BY DEF InPlace
<1>9. WholeOrMixed(<<f.part>>)
  BY <1>6 DEF WholeOrMixed
<1> QED
  BY <1>7, <1>8, <1>9 DEF Accepted, ProcessedInPlace, CrcOnlyForCollisions

(* Parts of two names make the set of names larger than one.                 *)
LEMMA TwoNames ==
  ASSUME NEW b \in Seq(PartNames), NEW k \in 1 .. Len(b), b[k][1] # b[1][1]
  PROVE  Cardinality(Names(b)) > 1
<1> DEFINE N == {b[j][1] : j \in DOMAIN b}
<1>1. DOMAIN b = 1 .. Len(b) /\ Len(b) \in Nat
  OBVIOUS
<1>2. IsFiniteSet(DOMAIN b)
  BY <1>1, FS_Interval
<1>3. IsFiniteSet(N)
  <2> DEFINE name == [j \in DOMAIN b |-> b[j][1]]
  <2>1. name \in Surjection(DOMAIN b, N)
    BY DEF Surjection
  <2> QED
    BY <1>2, <2>1, FS_Surjection
<1>4. b[k][1] \in N /\ b[1][1] \in N
  <2>1. k \in DOMAIN b /\ 1 \in DOMAIN b
    BY <1>1
  <2> QED
    BY <2>1
<1> HIDE DEF N
<1>5. Cardinality(N) # 0 /\ Cardinality(N) # 1
  BY <1>3, <1>4, FS_EmptySet, FS_Singleton
<1>6. Cardinality(N) \in Nat
  BY <1>3, FS_CardinalityType
<1>7. Cardinality(N) > 1
  BY <1>5, <1>6
<1> QED
  BY <1>7 DEF N, Names

(* The test of the number of parts lets at most one be missing.              *)
LEMMA CompletedIsLongEnough ==
  ASSUME NEW f \in BusFrames, NEW e \in Messages, Sound(e), f.index # 0, fits(f, e),
         NEW g \in BusFrames, e.maxBodyLength = 1 + 7 * (g.count - 1),
         countMatches(Continued(e, f))
  PROVE  Len(e.body) + 1 >= g.count - 1
<1> DEFINE n == Len(e.body)
<1>1. f.length \in 1 .. 8
  BY FittingFrame
<1>2. n \in Int /\ e.messageBodyLength = 1 + 7 * (n - 1)
  BY SoundFields
<1>3. e.maxBodyLength - (e.messageBodyLength + (f.length - 1)) <= 7
  BY DEF countMatches, Continued, FOLLOW_MESSAGE_MAX_BODY_LENGTH
<1>4. g.count \in 0 .. 31
  BY FrameType
<1> HIDE DEF n
<1>5. (1 + 7 * (g.count - 1)) - ((1 + 7 * (n - 1)) + (f.length - 1)) <= 7
  BY <1>2, <1>3
<1>6. n + 1 >= g.count - 1
  BY <1>1, <1>2, <1>4, <1>5
<1> QED
  BY <1>6 DEF n

(* What a completed entry holds: a whole message or parts of several.        *)
LEMMA CompletedIsWholeOrMixed ==
  ASSUME NEW f \in BusFrames, NEW e \in Messages, Sound(e), f.index # 0, fits(f, e),
         ~f.first, f.last
  PROVE  WholeOrMixed(Continued(e, f).body)
<1> DEFINE b == Continued(e, f).body
<1>1. b \in Seq(PartNames)
  BY SoundFields, FrameType DEF Continued
<1>2. CASE \A k \in 1 .. Len(b) : b[k][1] = b[1][1]
  BY <1>2, UnmixedIsWhole DEF WholeOrMixed
<1>3. CASE \E k \in 1 .. Len(b) : b[k][1] # b[1][1]
  BY <1>1, <1>3, TwoNames DEF WholeOrMixed
<1> QED
  BY <1>2, <1>3

(* A completed entry that is processed is in place, and one that the CRC     *)
(* turns down is not whole, so that parts of two messages met in it.         *)
LEMMA CompletedInPlace ==
  ASSUME StackSound, NEW f \in BusFrames, NEW i \in Slots, messageStack[i] # nullptr,
         Completes(f, i)
  PROVE  ProcessedInPlace' /\ CrcOnlyForCollisions'
<1> DEFINE e == messageStack[i]
           c == Continued(e, f)
<1>1. e \in Messages /\ Sound(e)
  BY DEF StackSound
<1>2. ~f.first /\ f.index # 0 /\ fits(f, e) /\ f.last /\ Complete(i, c)
  BY DEF Completes
<1>3. /\ c.body = Append(e.body, f.part) /\ c.dynamic = e.dynamic
      /\ e.body \in Seq(PartNames) /\ e.body # <<>>
  BY <1>1, SoundFields DEF Continued, Sound
<1>4. InPlace(c.body) /\ WholeOrMixed(c.body)
  BY <1>1, <1>2, ContinuedInPlace, CompletedIsWholeOrMixed
<1>5. ASSUME countMatches(c), ~c.dynamic PROVE BegunAsKnown(c.body)
  <2>1. PICK g \in BusFrames : /\ g.first /\ g.part = e.body[1] /\ g.data /\ e.dynamic = ~g.known
                               /\ e.maxBodyLength = 1 + 7 * (g.count - 1)
    BY <1>1 DEF Sound, Begun
  <2>2. g.known
    BY <1>3, <1>5, <2>1, FrameType
  <2>3. Len(e.body) + 1 >= g.count - 1
    BY <1>1, <1>2, <1>5, <2>1, CompletedIsLongEnough
  <2>4. Len(c.body) = Len(e.body) + 1 /\ c.body[1] = e.body[1]
    BY <1>3, FrameType
  <2> QED
    BY <2>1, <2>2, <2>3, <2>4 DEF BegunAsKnown
<1> HIDE DEF c, e
<1>6. PICK valid \in validateCrc(c) :
        /\ processed' = IF countMatches(c) /\ valid /\ ~c.dynamic THEN c.body ELSE <<>>
        /\ crcRejected' = IF countMatches(c) /\ ~valid THEN c.body ELSE <<>>
  BY <1>2 DEF Complete
<1>7. ProcessedInPlace'
  BY <1>4, <1>5, <1>6 DEF ProcessedInPlace
<1>8. CrcOnlyForCollisions'
  <2> SUFFICES ASSUME crcRejected' # <<>> PROVE Cardinality(Names(crcRejected')) > 1
    BY DEF CrcOnlyForCollisions
  <2>1. crcRejected' = c.body /\ ~valid
    BY <1>6
  <2>2. ~\E m \in Sent : c.body = WholeBody(m)
    BY <2>1 DEF validateCrc
  <2> QED
    BY <1>4, <2>1, <2>2 DEF WholeOrMixed
<1> QED
  BY <1>7, <1>8

-------------------------------------------------------------------------------
(* The invariant.                                                            *)

(* Without an outcome nothing was processed or turned down.                  *)
LEMMA NothingSeen ==
  ASSUME NoOutcome PROVE ProcessedInPlace' /\ CrcOnlyForCollisions'
BY DEF NoOutcome, ProcessedInPlace, CrcOnlyForCollisions

LEMMA InitEstablishesInv == Init => Inv
<1> SUFFICES ASSUME Init PROVE Inv
  OBVIOUS
<1>1. StackSound /\ ProcessedInPlace /\ CrcOnlyForCollisions
  BY StackAssumption DEF Init, StackSound, ProcessedInPlace, CrcOnlyForCollisions
<1>2. {i \in Slots : messageStack[i] # nullptr} = {}
  BY DEF Init
<1>3. NoLeak
  BY <1>2, FS_EmptySet DEF Init, NoLeak
<1> QED
  BY <1>1, <1>3 DEF Inv

LEMMA TickPreservesInv == ASSUME Inv, Tick PROVE Inv'
<1>1. age' \in [Slots -> 0 .. (MAX_AGE + 1)]
  <2>1. \A i \in Slots : age[i] \in 0 .. (MAX_AGE + 1)
    BY DEF Inv, StackSound
  <2> QED
    BY <2>1, StackAssumption DEF Tick
<1> QED
  BY <1>1 DEF Inv, Tick, StackSound, NoLeak, ProcessedInPlace, CrcOnlyForCollisions, outcome

LEMMA ReceivePreservesInv ==
  ASSUME Inv, NEW f \in BusFrames, NEW log \in BOOLEAN, onMessageReceived(f, log)
  PROVE  Inv'
<1>0. StackSound /\ NoLeak /\ live = Held(messageStack)
  BY DEF Inv, NoLeak, Held
<1>1. CASE Ignored
  BY <1>0, <1>1, NothingSeen DEF Ignored, Inv, StackSound, NoLeak, stack
<1>2. CASE Accepted(f)
  <2>1. StackSound' /\ NoLeak'
    BY <1>0, <1>2 DEF Accepted, StackSound, NoLeak, stack
  <2> QED
    BY <1>2, <2>1, AcceptedIsWhole DEF Inv
<1>3. CASE Starts(f)
  <2>1. Started(f) \in Messages /\ Sound(Started(f))
    BY <1>3, StartIsSound DEF Starts
  <2>2. StackSound' /\ NoLeak'
    BY <1>0, <1>3, <2>1, PushKeeps DEF Starts, StackSound
  <2> QED
    BY <1>3, <2>2, NothingSeen DEF Starts, Inv
<1>4. ASSUME NEW i \in slotsWithId(f.id), GivesUp(f, i) PROVE Inv'
  <2>1. i \in Slots /\ messageStack[i] # nullptr
    BY DEF slotsWithId
  <2> QED
    BY <1>0, <1>4, <2>1, DropKeeps, NothingSeen DEF GivesUp, Inv
<1>5. ASSUME NEW i \in slotsWithId(f.id), Continues(f, i) PROVE Inv'
  <2> DEFINE st == popped(i)
  <2>1. i \in Slots /\ messageStack[i] # nullptr
    BY DEF slotsWithId
  <2>2. messageStack[i] \in Messages /\ Sound(messageStack[i])
    BY <1>0, <2>1 DEF StackSound
  <2>3. Continued(messageStack[i], f) \in Messages /\ Sound(Continued(messageStack[i], f))
    BY <1>5, <2>2, ContinuedIsSound DEF Continues
  <2>4. /\ st = [messageStack EXCEPT ![i] = nullptr]
        /\ st \in [Slots -> Messages \cup {nullptr}]
        /\ \A j \in Slots : st[j] # nullptr => Sound(st[j])
    BY <1>0, <2>1 DEF popped, StackSound
  <2>5. live = Held(st) + 1
    <3>1. nullptr \in Messages \cup {nullptr}
      OBVIOUS
    <3>2. /\ Held(messageStack) \in 0 .. RECEIVE_STACK_SIZE
          /\ Held([messageStack EXCEPT ![i] = nullptr]) = Held(messageStack) - 1 + 0
      BY <1>0, <2>1, <3>1, HeldAfter, Zenon DEF StackSound
    <3> QED
      BY <1>0, <2>4, <3>2, StackAssumption
  <2> HIDE DEF st
  <2>6. StackSound' /\ NoLeak'
    BY <1>0, <1>5, <2>3, <2>4, <2>5, PushKeeps DEF Continues, StackSound, st
  <2> QED
    BY <1>5, <2>6, NothingSeen DEF Continues, Inv
<1>6. ASSUME NEW i \in slotsWithId(f.id), Completes(f, i) PROVE Inv'
  <2>1. i \in Slots /\ messageStack[i] # nullptr
    BY DEF slotsWithId
  <2>2. DropFrom(i)
    BY <1>6 DEF Completes, Complete
  <2> QED
    BY <1>0, <1>6, <2>1, <2>2, DropKeeps, CompletedInPlace DEF Inv
<1> QED
  BY <1>0, <1>1, <1>2, <1>3, <1>4, <1>5, <1>6, Outcomes

LEMMA Invariant == Spec => []Inv
<1>1. Inv /\ [Next]_vars => Inv'
  <2> SUFFICES ASSUME Inv, [Next]_vars PROVE Inv'
    OBVIOUS
  <2>1. CASE Tick
    BY <2>1, TickPreservesInv
  <2>2. ASSUME NEW f \in BusFrames, NEW log \in BOOLEAN, Receive(f, log) PROVE Inv'
    BY <2>2, ReceivePreservesInv DEF Receive
  <2>3. CASE UNCHANGED vars
    BY <2>3 DEF Inv, StackSound, NoLeak, ProcessedInPlace, CrcOnlyForCollisions, vars, stack, outcome
  <2> QED
    BY <2>1, <2>2, <2>3 DEF Next
<1> QED
  BY <1>1, InitEstablishesInv, PTL DEF Spec

-------------------------------------------------------------------------------
(* Lengths stay inside the buffers the messages were allocated with, and     *)
(* never more messages are allocated than the stack has slots.               *)
THEOREM TypeCorrect == Spec => []TypeOK
<1>1. Inv => TypeOK
  <2> SUFFICES ASSUME Inv PROVE TypeOK
    OBVIOUS
  <2>1. StackSound /\ live = Held(messageStack)
    BY DEF Inv, NoLeak, Held
  <2>2. 0 \in Slots /\ nullptr \in Messages \cup {nullptr}
    BY StackAssumption DEF Slots
  <2>3. live \in 0 .. RECEIVE_STACK_SIZE
    BY <2>1, <2>2, HeldAfter DEF StackSound
  <2> QED
    BY <2>1, <2>3 DEF StackSound, Sound, TypeOK
<1> QED
  BY <1>1, Invariant, PTL

(* Every message object is deleted exactly once, on every path of the        *)
(* handlers.  (cpp:98-158, 349-551)                                          *)
THEOREM NothingLeaks == Spec => []NoLeak
<1>1. Inv => NoLeak
  BY DEF Inv
<1> QED
  BY <1>1, Invariant, PTL

(* Whatever the CRC makes of wrong bodies, what is processed is a whole      *)
(* message or, where ids collide, a mixture in which every part is at its    *)
(* place, no more than one is missing, and the type is known.                *)
(* (cpp:349-551)                                                             *)
THEOREM ProcessedIsInPlace == Spec => []ProcessedInPlace
<1>1. Inv => ProcessedInPlace
  BY DEF Inv
<1> QED
  BY <1>1, Invariant, PTL

(* The CRC turns a body down only when parts of several messages are in it:  *)
(* of one message alone, the offset checks let no wrong body pass.           *)
(* (cpp:473-512)                                                             *)
THEOREM CrcIsForCollisions == Spec => []CrcOnlyForCollisions
<1>1. Inv => CrcOnlyForCollisions
  BY DEF Inv
<1> QED
  BY <1>1, Invariant, PTL

-------------------------------------------------------------------------------
(* A message whose parts come in order.                                      *)

\* Messages that are received: of several parts, filtered in, of a code with data.
Received(m) == m.data /\ m.parts > 1 /\ m.known

Parts(m, k) == [j \in 1 .. k |-> <<m.name, j>>]

\* The entry of m after its first k parts.
PartialOf(m, k) == [id |-> m.id, maxBodyLength |-> 1 + 7 * (m.parts - 1),
                    messageBodyLength |-> 1 + 7 * (k - 1), body |-> Parts(m, k),
                    dynamic |-> FALSE]

\* Inductive, with StackSound: while m is in progress, its entry is the only one
\* with its id, so that no other entry can be taken for it.
ProgressSound ==
  /\ progress \in [Sent -> 0 .. 31]
  /\ \A m \in Sent : Received(m) /\ InProgress(m) =>
       \E i \in Slots : slotsWithId(m.id) = {i} /\ messageStack[i] = PartialOf(m, progress[m])
  /\ \A m \in Sent : Received(m) /\ progress[m] = m.parts => processed = WholeBody(m)

(* The parts received so far are the beginning of the whole body.            *)
LEMMA PartsOf ==
  ASSUME NEW m \in Sent, NEW k \in 1 .. m.parts
  PROVE  /\ Parts(m, m.parts) = WholeBody(m)
         /\ Parts(m, k) = SubSeq(WholeBody(m), 1, k)
         /\ Parts(m, 1) = << <<m.name, 1>> >>
         /\ Append(Parts(m, k), <<m.name, k + 1>>) = Parts(m, k + 1)
<1> DEFINE S == {<<m.name, j>> : j \in 1 .. 32}
           w == WholeBody(m)
           p == Parts(m, k)
           q == SubSeq(w, 1, k)
<1>1. m.parts \in 1 .. 31 /\ k \in Nat \ {0} /\ k <= m.parts
  BY SentAssumption
<1>2. Parts(m, m.parts) = w
  BY DEF Parts, WholeBody
<1>3. w \in [1 .. m.parts -> S] /\ p \in [1 .. k -> S]
  BY <1>1 DEF Parts, WholeBody
<1>4. /\ \A j \in 1 .. m.parts : w[j] = <<m.name, j>>
      /\ \A j \in 1 .. k : p[j] = <<m.name, j>>
  BY DEF Parts, WholeBody
<1> HIDE DEF S, w, p
<1>5. w \in Seq(S) /\ Len(w) = m.parts /\ p \in Seq(S) /\ Len(p) = k
  <2>1. m.parts \in Nat /\ k \in Nat
    BY <1>1
  <2>2. w \in Seq(S) /\ p \in Seq(S)
    BY <1>3, <2>1, SeqDef
  <2> QED
    BY <1>3, <2>1, <2>2, LenProperties
<1>6. p = q
  <2>1. \A j \in 1 .. k : j \in 1 .. m.parts
    BY <1>1
  <2>2. q \in Seq(S) /\ Len(q) = k /\ \A j \in 1 .. k : q[j] = w[j]
    BY <1>1, <1>5
  <2> HIDE DEF q
  <2>3. \A j \in 1 .. k : p[j] = q[j]
    BY <1>4, <2>1, <2>2
  <2> QED
    BY <1>1, <1>5, <2>2, <2>3, SeqEqual
<1>7. Parts(m, 1) = << <<m.name, 1>> >>
  BY DEF Parts
<1>8. Append(p, <<m.name, k + 1>>) = Parts(m, k + 1)
  BY <1>1, <1>3, <1>4 DEF p, Parts
<1> QED
  BY <1>2, <1>6, <1>7, <1>8 DEF p, w

(* The next part of m passes the checks against the entry of m and makes it  *)
(* the entry of one part more; with the last part the count matches.         *)
LEMMA NextPartFits ==
  ASSUME NEW m \in Sent, m.parts > 1, NEW k \in 1 .. (m.parts - 1)
  PROVE  /\ fits(FrameOf(m, k + 1), PartialOf(m, k))
         /\ k + 1 < m.parts => Continued(PartialOf(m, k), FrameOf(m, k + 1)) = PartialOf(m, k + 1)
         /\ Continued(PartialOf(m, k), FrameOf(m, k + 1)).body = Parts(m, k + 1)
         /\ k + 1 = m.parts => countMatches(Continued(PartialOf(m, k), FrameOf(m, k + 1)))
<1> DEFINE f == FrameOf(m, k + 1)
           e == PartialOf(m, k)
<1>1. /\ m.parts \in Int /\ m.parts >= 2 /\ m.parts <= 31
      /\ m.tail \in Int /\ m.tail >= 1 /\ m.tail <= 7
      /\ k \in Int /\ k >= 1 /\ k + 1 <= m.parts
  BY SentAssumption
<1>2. k + 1 \in 1 .. m.parts
  BY <1>1
<1>3. /\ f.last = (k + 1 = m.parts) /\ f.index = 32 - (k + 1) /\ f.part = <<m.name, k + 1>>
      /\ f.length = IF k + 1 = m.parts THEN 1 + m.tail ELSE 8
  BY <1>2, FrameOfFields
<1>4. /\ e.maxBodyLength = 1 + 7 * (m.parts - 1) /\ e.messageBodyLength = 1 + 7 * (k - 1)
      /\ e.body = Parts(m, k) /\ e.id = m.id /\ e.dynamic = FALSE
  BY DEF PartialOf
<1> HIDE DEF f, e
<1>5. offsetOf(f) = 1 + 7 * (k - 1)
  BY <1>1, <1>3 DEF offsetOf, uint8, FOLLOW_MESSAGE_MAX_BODY_LENGTH, FIRST_MESSAGE_MAX_BODY_LENGTH
<1>6. payloadLengthOf(f) = f.length - 1 /\ f.length \in Int /\ f.length <= 8
  BY <1>1, <1>3 DEF payloadLengthOf, uint8, FOLLOW_MESSAGE_HEADER_LENGTH
<1>7. fits(f, e)
  <2>1. offsetOf(f) + payloadLengthOf(f) <= e.maxBodyLength
    BY <1>1, <1>4, <1>5, <1>6
  <2>2. offsetOf(f) = e.messageBodyLength
    BY <1>4, <1>5
  <2>3. f.last \/ f.length = 8
    BY <1>3
  <2> QED
    BY <2>1, <2>2, <2>3 DEF fits, MAX_MESSAGE_LENGTH
<1>8. Append(e.body, f.part) = Parts(m, k + 1)
  <2>1. k \in 1 .. m.parts
    BY <1>1
  <2> QED
    BY <1>3, <1>4, <2>1, PartsOf
<1>9. ASSUME k + 1 < m.parts PROVE Continued(e, f) = PartialOf(m, k + 1)
  <2>1. e.messageBodyLength + (f.length - 1) = 1 + 7 * ((k + 1) - 1)
    BY <1>1, <1>3, <1>4, <1>9
  <2> QED
    BY <1>4, <1>8, <2>1 DEF Continued, PartialOf
<1>10. ASSUME k + 1 = m.parts PROVE countMatches(Continued(e, f))
  <2>1. /\ Continued(e, f).maxBodyLength = 1 + 7 * (m.parts - 1)
        /\ Continued(e, f).messageBodyLength = 1 + 7 * (k - 1) + m.tail
    <3>1. f.length = 1 + m.tail
      BY <1>3, <1>10
    <3>2. f.length - 1 = m.tail
      BY <1>1, <3>1
    <3> QED
      BY <1>4, <3>2 DEF Continued
  <2> QED
    BY <1>1, <1>10, <2>1 DEF countMatches, FOLLOW_MESSAGE_MAX_BODY_LENGTH
<1>11. Continued(e, f).body = Parts(m, k + 1)
  BY <1>8 DEF Continued
<1> QED
  BY <1>7, <1>9, <1>10, <1>11 DEF e, f

(* An entry that starts with the first part of m has the id of m.            *)
LEMMA FirstPartHasId ==
  ASSUME NEW m \in Sent, NEW e, Sound(e), e.body[1] = <<m.name, 1>>
  PROVE  e.id = m.id
<1>1. PICK f \in BusFrames : f.first /\ f.part = e.body[1] /\ f.id = e.id
  BY DEF Sound, Begun
<1>2. f.part[1] = m.name
  BY <1>1
<1>3. PICK k \in 1 .. m.parts : f = FrameOf(m, k)
  BY <1>2, FrameOfPart
<1>4. f.id = m.id
  BY <1>3, FrameOfFields
<1> QED
  BY <1>1, <1>4

(* A frame leaves the entries with other ids alone, but for the one it       *)
(* evicts.                                                                   *)
LEMMA OthersStay ==
  ASSUME StackSound, NEW f \in BusFrames, NEW log \in BOOLEAN, onMessageReceived(f, log),
         NEW j \in Slots, messageStack'[j] # nullptr, messageStack'[j].id # f.id
  PROVE  messageStack'[j] = messageStack[j]
<1>0. /\ messageStack \in [Slots -> Messages \cup {nullptr}]
      /\ age \in [Slots -> 0 .. (MAX_AGE + 1)]
  BY DEF StackSound
<1>1. CASE Ignored \/ Accepted(f)
  BY <1>1 DEF Ignored, Accepted, stack
<1>2. CASE Starts(f)
  <2>1. PICK i \in Slots : messageStack' = [messageStack EXCEPT ![i] = Started(f)]
    BY <1>0, <1>2, PushReplaces DEF Starts
  <2> QED
    BY <1>0, <2>1 DEF Started
<1>3. ASSUME NEW i \in slotsWithId(f.id), GivesUp(f, i) \/ Completes(f, i)
      PROVE  messageStack'[j] = messageStack[j]
  <2>1. messageStack' = [messageStack EXCEPT ![i] = nullptr]
    BY <1>3 DEF GivesUp, Completes, Complete, DropFrom, popped
  <2> QED
    BY <1>0, <2>1
<1>4. ASSUME NEW i \in slotsWithId(f.id), Continues(f, i)
      PROVE  messageStack'[j] = messageStack[j]
  <2> DEFINE st == popped(i)
  <2>1. i \in Slots /\ messageStack[i].id = f.id
    BY DEF slotsWithId
  <2>2. st = [messageStack EXCEPT ![i] = nullptr] /\ st \in [Slots -> Messages \cup {nullptr}]
    BY <1>0 DEF popped
  <2> HIDE DEF st
  <2>3. pushToReceiveStack(st, Continued(messageStack[i], f), live)
    BY <1>4 DEF Continues, st
  <2>4. PICK n \in Slots : messageStack' = [st EXCEPT ![n] = Continued(messageStack[i], f)]
    BY <1>0, <2>2, <2>3, PushReplaces
  <2>5. Continued(messageStack[i], f).id = f.id
    BY <2>1 DEF Continued
  <2> QED
    BY <1>0, <2>2, <2>4, <2>5
<1> QED
  BY <1>1, <1>2, <1>3, <1>4, Outcomes

(* The first part of m makes its entry the only one with its id.             *)
LEMMA FirstPartStarts ==
  ASSUME StackSound, NEW m \in Sent, Received(m), slotsWithId(m.id) = {},
         NEW log \in BOOLEAN, onMessageReceived(FrameOf(m, 1), log)
  PROVE  \E i \in Slots : slotsWithId(m.id)' = {i} /\ messageStack'[i] = PartialOf(m, 1)
<1> DEFINE f == FrameOf(m, 1)
<1>1. m.parts \in 2 .. 31 /\ m.known = TRUE /\ m.data = TRUE
  BY SentAssumption DEF Received
<1>2. 1 \in 1 .. m.parts /\ m.parts # 1
  BY <1>1
<1>3. /\ f \in BusFrames /\ f.first = TRUE /\ f.last = FALSE /\ f.index = 31 /\ f.id = m.id
      /\ f.known = TRUE /\ f.data = TRUE /\ f.part = <<m.name, 1>>
      /\ f.count = m.parts /\ f.length = 8
  <2>1. m.parts > 1 /\ 32 - 1 = 31
    BY <1>1
  <2>2. /\ f \in BusFrames /\ f.first = (1 = 1) /\ f.last = (1 = m.parts) /\ f.index = 32 - 1
        /\ f.id = m.id /\ f.known = m.known /\ f.data = m.data /\ f.part = <<m.name, 1>>
    BY <1>2, FrameOfFields
  <2>3. f.count = m.parts /\ f.length = 8
    BY <1>2, <2>1, FrameOfFields
  <2> QED
    BY <1>1, <1>2, <2>1, <2>2, <2>3, Zenon
<1> HIDE DEF f
<1>4. onMultiPartMessageStart(f, log)
  BY <1>3 DEF onMessageReceived, onMultiPartMessage, f
<1>5. f.count > 1
  BY <1>1, <1>3
<1>6. pushToReceiveStack(messageStack, Started(f), live + 1)
  BY <1>3, <1>4, <1>5, StartIsSound
     DEF onMultiPartMessageStart, FIRST_MESSAGE_MAX_BODY_LENGTH, FOLLOW_MESSAGE_MAX_BODY_LENGTH,
         MAX_MESSAGE_LENGTH
<1>7. Started(f) = PartialOf(m, 1)
  <2>1. Parts(m, 1) = <<f.part>>
    BY <1>2, <1>3, PartsOf
  <2>2. 1 + 7 * (1 - 1) = 1
    OBVIOUS
  <2>3. (~f.known) = FALSE
    BY <1>3, Zenon
  <2> QED
    BY <1>3, <2>1, <2>2, <2>3, Zenon DEF Started, PartialOf
<1>8. Started(f) # nullptr
  BY <1>3, <1>5, StartIsSound, NullAssumption
<1>9. PICK i \in Slots : messageStack' = [messageStack EXCEPT ![i] = Started(f)]
  BY <1>6, PushReplaces DEF StackSound
<1>10. slotsWithId(m.id)' = {i}
  <2>1. Started(f).id = m.id
    BY <1>3 DEF Started
  <2> QED
    BY <1>8, <1>9, <2>1 DEF slotsWithId, StackSound
<1> QED
  BY <1>7, <1>9, <1>10 DEF StackSound

(* The next part of m is added to its entry; the last one has the message    *)
(* processed.                                                                *)
LEMMA NextPartContinues ==
  ASSUME StackSound, NEW m \in Sent, Received(m), NEW k \in 1 .. (m.parts - 1),
         NEW i \in Slots, slotsWithId(m.id) = {i}, messageStack[i] = PartialOf(m, k),
         NEW log \in BOOLEAN, onMessageReceived(FrameOf(m, k + 1), log)
  PROVE  /\ k + 1 < m.parts =>
              \E j \in Slots : slotsWithId(m.id)' = {j} /\ messageStack'[j] = PartialOf(m, k + 1)
         /\ k + 1 = m.parts => processed' = WholeBody(m)
<1> DEFINE f == FrameOf(m, k + 1)
           e == PartialOf(m, k)
           c == Continued(e, f)
<1>1. m.parts \in 2 .. 31 /\ k \in Int /\ k >= 1 /\ k + 1 <= m.parts /\ k + 1 \in 1 .. m.parts
  BY SentAssumption DEF Received
<1>2. /\ f \in BusFrames /\ f.first = FALSE /\ f.last = (k + 1 = m.parts)
      /\ f.index = 32 - (k + 1) /\ f.id = m.id
  <2>1. (k + 1 = 1) = FALSE
    BY <1>1
  <2>2. /\ f \in BusFrames /\ f.first = (k + 1 = 1) /\ f.last = (k + 1 = m.parts)
        /\ f.index = 32 - (k + 1) /\ f.id = m.id
    BY <1>1, FrameOfFields
  <2> QED
    BY <2>1, <2>2, Zenon
<1>3. f.index # 0
  BY <1>1, <1>2
<1>4. messageStack[i] # nullptr /\ e \in Messages /\ Sound(e)
  BY DEF slotsWithId, StackSound
<1>5. /\ fits(f, e)
      /\ k + 1 < m.parts => c = PartialOf(m, k + 1)
      /\ c.body = Parts(m, k + 1)
      /\ k + 1 = m.parts => countMatches(c)
  BY <1>1, NextPartFits DEF Received
<1>6. addToBody(e, f.part, payloadLengthOf(f)) = c
  BY <1>2, <1>3, <1>4, <1>5, FittingFrame
<1>7. c.id = m.id /\ c.dynamic = FALSE
  BY DEF Continued, PartialOf
<1> HIDE DEF f, e, c
<1>8. onMultiPartMessageCont(f)
  BY <1>2, <1>3 DEF onMessageReceived, onMultiPartMessage, f
<1>9. slotWithId(f.id) = i
  BY <1>2, SlotWithIdHasId
<1>10. IF f.last THEN Complete(i, c)
       ELSE pushToReceiveStack(popped(i), c, live) /\ NoOutcome
  <2>1. /\ slotsWithId(f.id) # {} /\ messageStack[i] = e
    BY <1>2 DEF e
  <2> QED
    BY <1>5, <1>6, <1>8, <1>9, <2>1 DEF onMultiPartMessageCont
<1>11. ASSUME k + 1 < m.parts
       PROVE  \E j \in Slots : slotsWithId(m.id)' = {j} /\ messageStack'[j] = PartialOf(m, k + 1)
  <2> DEFINE st == popped(i)
  <2>1. ~f.last
    <3>1. k + 1 # m.parts
      BY <1>1, <1>11
    <3> QED
      BY <1>2, <3>1, Zenon
  <2>2. /\ st = [messageStack EXCEPT ![i] = nullptr] /\ st \in [Slots -> Messages \cup {nullptr}]
        /\ age \in [Slots -> 0 .. (MAX_AGE + 1)]
    BY DEF popped, StackSound
  <2> HIDE DEF st
  <2>3. pushToReceiveStack(st, c, live)
    BY <1>10, <2>1 DEF st
  <2>4. PICK j \in Slots : messageStack' = [st EXCEPT ![j] = c]
    BY <2>2, <2>3, PushReplaces
  <2>5. c # nullptr
    <3>1. c \in Messages
      BY <1>2, <1>3, <1>4, <1>5, <2>1, ContinuedIsSound DEF c
    <3> QED
      BY <3>1, NullAssumption
  <2>6. messageStack'[j] = c
    BY <2>2, <2>4
  <2>7. \A n \in Slots : st[n] # nullptr => st[n].id # m.id
    BY <2>2 DEF slotsWithId, StackSound
  <2>8. slotsWithId(m.id)' = {j}
    BY <1>7, <2>2, <2>4, <2>5, <2>7 DEF slotsWithId
  <2> QED
    BY <1>5, <1>11, <2>6, <2>8
<1>12. ASSUME k + 1 = m.parts PROVE processed' = WholeBody(m)
  <2>1. f.last
    BY <1>2, <1>12
  <2>2. c.body = WholeBody(m)
    <3>1. Parts(m, k + 1) = WholeBody(m)
      BY <1>1, <1>12, PartsOf
    <3> QED
      BY <1>5, <3>1
  <2>3. validateCrc(c) = {TRUE}
    BY <2>2 DEF validateCrc
  <2> QED
    BY <1>5, <1>7, <1>10, <1>12, <2>1, <2>2, <2>3 DEF Complete
<1> QED
  BY <1>11, <1>12

\* What ProgressSound says of one message.
Kept(m) == Received(m) =>
  /\ InProgress(m) =>
       \E i \in Slots : slotsWithId(m.id) = {i} /\ messageStack[i] = PartialOf(m, progress[m])
  /\ progress[m] = m.parts => processed = WholeBody(m)

(* A frame of m takes its entry one part on, or ends the undisturbed         *)
(* reception.                                                                *)
LEMMA OwnFrameKeeps ==
  ASSUME StackSound, ProgressSound, NEW f \in BusFrames, NEW log \in BOOLEAN,
         Receive(f, log), NEW m \in Sent, f.part[1] = m.name
  PROVE  progress'[m] \in 0 .. 31 /\ Kept(m)'
<1>1. onMessageReceived(f, log)
  BY DEF Receive
<1>2. /\ m.parts \in Int /\ m.parts >= 1 /\ m.parts <= 31
      /\ progress[m] \in Int /\ progress[m] >= 0 /\ progress[m] <= 31
  BY SentAssumption DEF ProgressSound
<1>3. progress'[m] = IF f = FrameOf(m, 1) THEN (IF slotsWithId(m.id) = {} THEN 1 ELSE 0)
                     ELSE IF InProgress(m) /\ f = FrameOf(m, progress[m] + 1)
                          THEN progress[m] + 1 ELSE 0
  BY DEF Receive, Record
<1>4. CASE progress'[m] = 0
  BY <1>2, <1>4 DEF Kept, InProgress
<1>5. CASE f = FrameOf(m, 1) /\ slotsWithId(m.id) = {}
  <2>1. progress'[m] = 1
    BY <1>3, <1>5
  <2>2. ASSUME Received(m)
        PROVE  /\ m.parts # 1
               /\ \E i \in Slots : slotsWithId(m.id)' = {i} /\ messageStack'[i] = PartialOf(m, 1)
    BY <1>1, <1>2, <1>5, <2>2, FirstPartStarts DEF Received
  <2> QED
    BY <1>2, <2>1, <2>2 DEF Kept
<1>6. CASE f # FrameOf(m, 1) /\ InProgress(m) /\ f = FrameOf(m, progress[m] + 1)
  <2> DEFINE k == progress[m]
  <2>1. progress'[m] = k + 1
    BY <1>3, <1>6
  <2>2. k \in 1 .. (m.parts - 1)
    BY <1>6 DEF InProgress
  <2>3. ASSUME Received(m)
        PROVE  /\ k + 1 < m.parts =>
                    \E j \in Slots : slotsWithId(m.id)' = {j} /\ messageStack'[j] = PartialOf(m, k + 1)
               /\ k + 1 = m.parts => processed' = WholeBody(m)
    <3>1. PICK i \in Slots : slotsWithId(m.id) = {i} /\ messageStack[i] = PartialOf(m, k)
      BY <1>6, <2>3 DEF ProgressSound
    <3> QED
      BY <1>1, <1>6, <2>2, <2>3, <3>1, NextPartContinues
  <2> HIDE DEF k
  <2>4. k + 1 \in 0 .. 31 /\ (k + 1 \in 1 .. (m.parts - 1) => k + 1 < m.parts)
    BY <1>2, <2>2
  <2> QED
    BY <2>1, <2>3, <2>4 DEF Kept, InProgress
<1> QED
  BY <1>3, <1>4, <1>5, <1>6

(* A frame of another message leaves the entry of m alone, or ends the       *)
(* undisturbed reception.                                                    *)
LEMMA OtherFrameKeeps ==
  ASSUME StackSound, StackSound', ProgressSound, NEW f \in BusFrames, NEW log \in BOOLEAN,
         Receive(f, log), NEW m \in Sent, f.part[1] # m.name
  PROVE  progress'[m] \in 0 .. 31 /\ Kept(m)'
<1>1. onMessageReceived(f, log)
  BY DEF Receive
<1>2. /\ m.parts \in Int /\ m.parts >= 1 /\ m.parts <= 31
      /\ progress[m] \in 0 .. 31
  BY SentAssumption DEF ProgressSound
<1>3. progress'[m] = IF InProgress(m) /\ f.id # m.id /\ Holds(messageStack', m)
                     THEN progress[m] ELSE 0
  BY DEF Receive, Record
<1>4. CASE progress'[m] = 0
  BY <1>2, <1>4 DEF Kept, InProgress
<1>5. CASE InProgress(m) /\ f.id # m.id /\ Holds(messageStack', m)
  <2>1. progress'[m] = progress[m] /\ progress[m] # m.parts
    BY <1>2, <1>3, <1>5 DEF InProgress
  <2>2. ASSUME Received(m)
        PROVE  \E i \in Slots : /\ slotsWithId(m.id)' = {i}
                                /\ messageStack'[i] = PartialOf(m, progress[m])
    <3>1. PICK i \in Slots : slotsWithId(m.id) = {i} /\ messageStack[i] = PartialOf(m, progress[m])
      BY <1>5, <2>2 DEF ProgressSound
    <3>2. PICK n \in Slots : messageStack'[n] # nullptr /\ messageStack'[n].body[1] = <<m.name, 1>>
      BY <1>5 DEF Holds
    <3>3. messageStack'[n].id = m.id
      <4>1. Sound(messageStack'[n])
        BY <3>2 DEF StackSound, Sound
      <4> QED
        BY <3>2, <4>1, FirstPartHasId
    <3>4. ASSUME NEW j \in Slots, messageStack'[j] # nullptr, messageStack'[j].id = m.id
          PROVE  j = i /\ messageStack'[j] = messageStack[j]
      <4>1. messageStack'[j] = messageStack[j]
        BY <1>1, <1>5, <3>4, OthersStay
      <4>2. j \in slotsWithId(m.id)
        BY <3>4, <4>1 DEF slotsWithId
      <4> QED
        BY <3>1, <4>1, <4>2
    <3>5. n = i /\ messageStack'[i] = messageStack[i]
      BY <3>2, <3>3, <3>4
    <3>6. slotsWithId(m.id)' = {i}
      BY <3>2, <3>3, <3>4, <3>5 DEF slotsWithId
    <3> QED
      BY <3>1, <3>5, <3>6
  <2> QED
    BY <1>2, <2>1, <2>2 DEF Kept
<1> QED
  BY <1>3, <1>4, <1>5

LEMMA ProgressInvariant == Spec => []ProgressSound
<1>1. Init => ProgressSound
  <2>1. \A m \in Sent : m.parts # 0
    BY SentAssumption
  <2>2. \A m \in Sent : Init => progress[m] = 0
    BY DEF Init
  <2>3. ASSUME NEW m \in Sent, Init PROVE ~InProgress(m) /\ progress[m] # m.parts
    <3>1. m.parts - 1 \in Int
      BY SentAssumption
    <3> QED
      BY <2>1, <2>2, <2>3, <3>1 DEF InProgress
  <2>4. Init => progress \in [Sent -> 0 .. 31]
    BY DEF Init
  <2> QED
    BY <2>3, <2>4 DEF ProgressSound
<1>2. ASSUME Inv, Inv', ProgressSound, [Next]_vars PROVE ProgressSound'
  <2>1. CASE Tick \/ UNCHANGED vars
    <3>1. /\ messageStack' = messageStack /\ processed' = processed /\ progress' = progress
      BY <2>1 DEF Tick, vars, stack, outcome
    <3> QED
      BY <1>2, <3>1 DEF ProgressSound, InProgress, slotsWithId
  <2>2. ASSUME NEW f \in BusFrames, NEW log \in BOOLEAN, Receive(f, log) PROVE ProgressSound'
    <3>1. ASSUME NEW m \in Sent PROVE progress'[m] \in 0 .. 31 /\ Kept(m)'
      BY <1>2, <2>2, OwnFrameKeeps, OtherFrameKeeps DEF Inv
    <3>2. progress' = [m \in Sent |-> progress'[m]]
      BY <2>2 DEF Receive, Record
    <3>3. progress' \in [Sent -> 0 .. 31]
      BY <3>1, <3>2
    <3> QED
      BY <3>1, <3>3 DEF ProgressSound, Kept
  <2> QED
    BY <1>2, <2>1, <2>2 DEF Next
<1> QED
  BY <1>1, <1>2, Invariant, PTL DEF Spec

(* A message of several parts that are all received in order, whose entry    *)
(* stays and whose id no other frame uses, is processed, with any stack and  *)
(* whatever else is received in between.  (cpp:98-158, 349-551)              *)
THEOREM LossesHaveReasons == Spec => []LostOnlyForAReason
<1>1. ProgressSound => LostOnlyForAReason
  <2> SUFFICES ASSUME ProgressSound, NEW m \in Sent, Received(m)
               PROVE  /\ InProgress(m) => \E i \in Slots :
                           /\ messageStack[i] # nullptr
                           /\ messageStack[i].body = SubSeq(WholeBody(m), 1, progress[m])
                      /\ progress[m] = m.parts => processed = WholeBody(m)
    BY DEF LostOnlyForAReason, Received
  <2>1. ASSUME InProgress(m)
        PROVE  \E i \in Slots : /\ messageStack[i] # nullptr
                                /\ messageStack[i].body = SubSeq(WholeBody(m), 1, progress[m])
    <3>1. PICK i \in Slots : slotsWithId(m.id) = {i} /\ messageStack[i] = PartialOf(m, progress[m])
      BY <2>1 DEF ProgressSound
    <3>2. messageStack[i] # nullptr
      BY <3>1 DEF slotsWithId
    <3>3. progress[m] \in 1 .. m.parts
      BY <2>1, SentAssumption DEF InProgress
    <3>4. Parts(m, progress[m]) = SubSeq(WholeBody(m), 1, progress[m])
      BY <3>3, PartsOf
    <3> QED
      BY <3>1, <3>2, <3>4 DEF PartialOf
  <2> QED
    BY <2>1 DEF ProgressSound
<1> QED
  BY <1>1, ProgressInvariant, PTL
================================================================================
