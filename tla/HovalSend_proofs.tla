---------------------------- MODULE HovalSend_proofs ----------------------------
(***************************************************************************)
(* The safety of the send buffer for every buffer size, every number of    *)
(* retries and every number of requests.                                   *)
(***************************************************************************)
EXTENDS HovalSend, SimpleRingBuffer_proofs

Slot == Messages \cup {NoMessage}

\* The number of the message at the front of the buffer, when there is one.
FrontNumber == Len(finished) + 1

(* The ring only holds messages that were accepted, and what was accepted is *)
(* what has left followed by what waits.                                     *)
QueueInv ==
  /\ Contents(sendBuffer) \in Seq(Messages)
  /\ SentInOrder
  /\ \A k \in 1..Len(accepted) :
       accepted[k].number = k /\ accepted[k].bodyLength \in 0..2

(* Why sendErrorCnt belongs to the front message: it counts for the message  *)
(* next to leave, and the messages behind it have not been tried.            *)
CountInv ==
  /\ isEmpty(sendBuffer) => sendErrorCnt = 0
  /\ FrontNumber \in Numbers => failures[FrontNumber] = sendErrorCnt
  /\ \A n \in Numbers : n > FrontNumber => failures[n] = 0

OutcomeInv ==
  \A k \in 1..Len(finished) :
    k \in delivered \/ failures[k] = MAX_SEND_ERROR_CNT + 1

Inv == TypeOK /\ QueueInv /\ CountInv /\ OutcomeInv

-------------------------------------------------------------------------------
LEMMA InitEstablishesInv == Init => Inv
<1> SUFFICES ASSUME Init PROVE Inv
  OBVIOUS
<1>1. /\ sendBuffer \in Rings(Slot)
      /\ isEmpty(sendBuffer)
      /\ Contents(sendBuffer) = <<>>
  BY NewRingIsEmpty DEF Init, Slot
<1>2. TypeOK
  <2>1. failures \in [Numbers -> 0..(MAX_SEND_ERROR_CNT + 1)]
    BY SendAssumption DEF Init
  <2>2. frameWaiting \in BOOLEAN /\ ready \in BOOLEAN
    BY DEF Init
  <2>3. /\ accepted \in Seq(Messages) /\ finished \in Seq(Messages)
        /\ Len(accepted) <= MaxRequests
    BY SendAssumption DEF Init
  <2>4. /\ sendErrorCnt \in 0..MAX_SEND_ERROR_CNT
        /\ pingAge \in {NEVER} \cup 0..PING_DELAY
        /\ delivered \subseteq Numbers
    BY SendAssumption DEF Init
  <2> QED
    BY <1>1, <2>1, <2>2, <2>3, <2>4 DEF TypeOK, Slot
<1>3. QueueInv
  BY <1>1 DEF Init, QueueInv, SentInOrder
<1>4. CountInv /\ OutcomeInv
  BY <1>1 DEF Init, CountInv, OutcomeInv, FrontNumber
<1> QED
  BY <1>2, <1>3, <1>4 DEF Inv

(* What the invariant says of the front message.                             *)
LEMMA FrontFacts ==
  ASSUME Inv, ~isEmpty(sendBuffer)
  PROVE  /\ front(sendBuffer) \in Messages
         /\ front(sendBuffer) = accepted[FrontNumber]
         /\ front(sendBuffer).number = FrontNumber
         /\ front(sendBuffer).bodyLength <= 2
         /\ FrontNumber \in Numbers
<1> DEFINE c == Contents(sendBuffer)
<1>1. /\ sendBuffer \in Rings(Slot)
      /\ c \in Seq(Messages)
      /\ finished \in Seq(Messages)
      /\ accepted = finished \o c
      /\ Len(accepted) <= MaxRequests
  BY DEF Inv, TypeOK, QueueInv, SentInOrder, Slot
<1>2. c # <<>> /\ front(sendBuffer) = c[1]
  BY <1>1, IncReadPosRemovesOldest
<1> HIDE DEF c
<1>3. /\ Len(c) >= 1
      /\ Len(accepted) = Len(finished) + Len(c)
      /\ accepted[Len(finished) + 1] = c[1]
      /\ c[1] \in Messages
  BY <1>1, <1>2
<1>4. FrontNumber \in 1..Len(accepted) /\ FrontNumber \in Numbers
  BY <1>1, <1>3, SendAssumption DEF FrontNumber, Numbers
<1>5. accepted[FrontNumber].number = FrontNumber /\ accepted[FrontNumber].bodyLength \in 0..2
  BY <1>4 DEF Inv, QueueInv
<1> QED
  BY <1>2, <1>3, <1>4, <1>5 DEF FrontNumber

(* Dropping the front message moves it from the waiting to the finished.     *)
(* (HovalProtocolDecoder.cpp:696, 706)                                       *)
LEMMA DropMovesFront ==
  ASSUME Inv, ~isEmpty(sendBuffer), Drop(front(sendBuffer)), accepted' = accepted
  PROVE  /\ sendBuffer' \in Rings(Slot)
         /\ finished' \in Seq(Messages)
         /\ FrontNumber' = FrontNumber + 1
         /\ QueueInv'
<1>1. /\ sendBuffer \in Rings(Slot)
      /\ Contents(sendBuffer) \in Seq(Messages)
      /\ finished \in Seq(Messages)
      /\ accepted = finished \o Contents(sendBuffer)
  BY DEF Inv, TypeOK, QueueInv, SentInOrder, Slot
<1>2. /\ sendBuffer' = incReadPos(sendBuffer)
      /\ finished' = Append(finished, front(sendBuffer))
  BY DEF Drop, pop
<1>3. /\ sendBuffer' \in Rings(Slot)
      /\ Contents(sendBuffer)' = Tail(Contents(sendBuffer))
      /\ Contents(sendBuffer) # <<>>
      /\ front(sendBuffer) = Contents(sendBuffer)[1]
  BY <1>1, <1>2, IncReadPosRemovesOldest
<1>4. accepted = Append(finished, front(sendBuffer)) \o Tail(Contents(sendBuffer))
  BY <1>1, <1>3, MoveHead
<1>5. Contents(sendBuffer)' \in Seq(Messages) /\ front(sendBuffer) \in Messages
  BY <1>1, <1>3
<1>6. Len(finished') = Len(finished) + 1 /\ finished' \in Seq(Messages)
  BY <1>1, <1>2, <1>5
<1> QED
  BY <1>2, <1>3, <1>4, <1>5, <1>6 DEF Inv, QueueInv, SentInOrder, FrontNumber

-------------------------------------------------------------------------------
(* A request goes behind the others and starts without failures.             *)
(* (HovalProtocolDecoder.cpp:591-611)                                        *)
LEMMA SendMessageStep ==
  ASSUME Inv, NEW l \in 0..2, sendMessage(l)
  PROVE  Inv'
<1> DEFINE m == [number |-> Len(accepted) + 1, bodyLength |-> l]
           c == Contents(sendBuffer)
<1>1. /\ sendBuffer \in Rings(Slot)
      /\ c \in Seq(Messages)
      /\ finished \in Seq(Messages) /\ accepted \in Seq(Messages)
      /\ accepted = finished \o c
      /\ ~isFull(sendBuffer)
      /\ Len(accepted) < MaxRequests
  BY DEF Inv, TypeOK, QueueInv, SentInOrder, Slot, sendMessage
<1>2. m \in Messages /\ m \in Slot /\ m.number = Len(accepted) + 1 /\ m.bodyLength \in 0..2
  BY <1>1, SendAssumption DEF Messages, Numbers, Slot
<1>3. /\ sendBuffer' = fillSlot(sendBuffer, m)
      /\ accepted' = Append(accepted, m)
      /\ UNCHANGED <<sendErrorCnt, pingAge, frameWaiting, ready, finished, delivered, failures>>
  BY DEF sendMessage, push
<1> HIDE DEF m
<1>4. /\ sendBuffer' \in Rings(Slot)
      /\ Contents(sendBuffer)' = Append(c, m)
      /\ Count(sendBuffer)' = Count(sendBuffer) + 1
  BY <1>1, <1>2, <1>3, FillSlotAppends
<1>5. ~isEmpty(sendBuffer)'
  BY <1>1, <1>4, CountFacts
<1> HIDE DEF c
<1>6. /\ Append(accepted, m) = finished \o Append(c, m)
      /\ Append(c, m) \in Seq(Messages)
      /\ Append(accepted, m) \in Seq(Messages)
      /\ Len(Append(accepted, m)) = Len(accepted) + 1
  <2>1. Append(accepted, m) = finished \o Append(c, m)
    <3>1. /\ finished \in Seq(Messages) /\ c \in Seq(Messages) /\ m \in Messages
          /\ accepted = finished \o c
      BY <1>1, <1>2
    <3>2. <<m>> \in Seq(Messages)
      BY <3>1
    <3>3. Append(accepted, m) = accepted \o <<m>> /\ Append(c, m) = c \o <<m>>
      BY <1>1, <3>1, AppendIsConcat
    <3>4. (finished \o c) \o <<m>> = finished \o (c \o <<m>>)
      BY <3>1, <3>2, ConcatAssociative
    <3> QED
      BY <3>1, <3>3, <3>4
  <2>2. Append(c, m) \in Seq(Messages) /\ Append(accepted, m) \in Seq(Messages)
    BY <1>1, <1>2
  <2>3. Len(Append(accepted, m)) = Len(accepted) + 1
    BY <1>1, <1>2
  <2> QED
    BY <2>1, <2>2, <2>3
<1>7. QueueInv'
  <2>1. ASSUME NEW k \in 1..Len(accepted')
        PROVE  accepted'[k].number = k /\ accepted'[k].bodyLength \in 0..2
    <3>1. CASE k = Len(accepted) + 1
      BY <1>1, <1>2, <1>3, <3>1
    <3>2. CASE k \in 1..Len(accepted)
      <4>1. accepted'[k] = accepted[k]
        BY <1>1, <1>2, <1>3, <3>2
      <4> QED
        BY <3>2, <4>1 DEF Inv, QueueInv
    <3> QED
      BY <1>1, <1>3, <1>6, <3>1, <3>2
  <2> QED
    BY <1>3, <1>4, <1>6, <2>1 DEF QueueInv, SentInOrder
<1>8. TypeOK'
  <2>1. Len(accepted') <= MaxRequests
    BY <1>1, <1>3, <1>6, SendAssumption
  <2> QED
    BY <1>3, <1>4, <1>6, <2>1 DEF Inv, TypeOK, Slot
<1>9. CountInv' /\ OutcomeInv'
  BY <1>3, <1>5 DEF Inv, CountInv, OutcomeInv, FrontNumber
<1> QED
  BY <1>7, <1>8, <1>9 DEF Inv

(* The transport takes the front message.  (HovalProtocolDecoder.cpp:694-698)*)
LEMMA TakenStep ==
  ASSUME Inv, ~isEmpty(sendBuffer), taken(front(sendBuffer)),
         UNCHANGED <<pingAge, frameWaiting, ready, accepted>>
  PROVE  Inv'
<1> DEFINE h == FrontNumber
<1>1. /\ front(sendBuffer).number = h
      /\ h \in Numbers
  BY FrontFacts
<1>2. /\ sendErrorCnt' = 0
      /\ delivered' = delivered \cup {h}
      /\ failures' = failures
      /\ Drop(front(sendBuffer))
  BY <1>1 DEF taken
<1>3. /\ sendBuffer' \in Rings(Slot)
      /\ finished' \in Seq(Messages)
      /\ FrontNumber' = h + 1
      /\ QueueInv'
  BY <1>2, DropMovesFront
<1>4. TypeOK'
  BY <1>1, <1>2, <1>3, SendAssumption DEF Inv, TypeOK, Slot
<1>5. CountInv'
  BY <1>1, <1>2, <1>3 DEF Inv, CountInv, Numbers
<1>6. OutcomeInv'
  <2>1. Len(finished) \in Nat /\ Len(finished') = Len(finished) + 1 /\ h = Len(finished) + 1
    BY <1>3 DEF Inv, TypeOK, FrontNumber
  <2> QED
    BY <1>2, <2>1 DEF Inv, OutcomeInv
<1> QED
  BY <1>3, <1>4, <1>5, <1>6 DEF Inv

(* The transport refuses it: it stays, or has used up its attempts.          *)
(* (HovalProtocolDecoder.cpp:699-710)                                        *)
LEMMA RefusedStep ==
  ASSUME Inv, ~isEmpty(sendBuffer), refused(front(sendBuffer)),
         UNCHANGED <<pingAge, frameWaiting, ready, accepted>>
  PROVE  Inv'
<1> DEFINE h == FrontNumber
<1>1. /\ front(sendBuffer).number = h
      /\ h \in Numbers
  BY FrontFacts
<1>2. /\ failures \in [Numbers -> 0..(MAX_SEND_ERROR_CNT + 1)]
      /\ failures[h] = sendErrorCnt
      /\ sendErrorCnt \in 0..MAX_SEND_ERROR_CNT
  BY <1>1 DEF Inv, TypeOK, CountInv
<1>3. /\ failures' = [failures EXCEPT ![h] = @ + 1]
      /\ delivered' = delivered
  BY <1>1 DEF refused
<1>4. /\ failures'[h] = sendErrorCnt + 1
      /\ failures' \in [Numbers -> 0..(MAX_SEND_ERROR_CNT + 1)]
      /\ \A n \in Numbers \ {h} : failures'[n] = failures[n]
  BY <1>1, <1>2, <1>3, SendAssumption
<1>5. Len(finished) \in Nat /\ h = Len(finished) + 1
  BY DEF Inv, TypeOK, FrontNumber
<1>6. CASE sendErrorCnt + 1 > MAX_SEND_ERROR_CNT
  <2>1. Drop(front(sendBuffer)) /\ sendErrorCnt' = 0
    BY <1>2, <1>6, SendAssumption DEF refused
  <2>2. /\ sendBuffer' \in Rings(Slot)
        /\ finished' \in Seq(Messages)
        /\ FrontNumber' = h + 1
        /\ QueueInv'
    BY <2>1, DropMovesFront
  <2>3. TypeOK'
    BY <1>3, <1>4, <2>1, <2>2, SendAssumption DEF Inv, TypeOK, Slot
  <2>4. CountInv'
    BY <1>1, <1>4, <2>1, <2>2 DEF Inv, CountInv, Numbers
  <2>5. OutcomeInv'
    <3>1. failures'[h] = MAX_SEND_ERROR_CNT + 1
      BY <1>2, <1>4, <1>6, SendAssumption
    <3>2. Len(finished') = Len(finished) + 1
      BY <1>5, <2>2 DEF FrontNumber
    <3>3. ASSUME NEW k \in 1..Len(finished)
          PROVE  k \in delivered' \/ failures'[k] = MAX_SEND_ERROR_CNT + 1
      <4>1. k \in Numbers \ {h}
        BY <1>1, <1>5, SendAssumption DEF Numbers
      <4> QED
        BY <1>3, <1>4, <4>1 DEF Inv, OutcomeInv
    <3> QED
      BY <1>5, <3>1, <3>2, <3>3 DEF OutcomeInv
  <2> QED
    BY <2>2, <2>3, <2>4, <2>5 DEF Inv
<1>7. CASE sendErrorCnt + 1 <= MAX_SEND_ERROR_CNT
  <2>1. sendErrorCnt' = sendErrorCnt + 1 /\ UNCHANGED <<sendBuffer, finished>>
    BY <1>2, <1>7, SendAssumption DEF refused
  <2>2. TypeOK'
    BY <1>2, <1>3, <1>4, <1>7, <2>1, SendAssumption DEF Inv, TypeOK
  <2>3. QueueInv'
    BY <2>1 DEF Inv, QueueInv, SentInOrder
  <2>4. CountInv'
    BY <1>1, <1>4, <1>5, <2>1 DEF Inv, CountInv, FrontNumber, Numbers
  <2>5. OutcomeInv'
    <3>1. ASSUME NEW k \in 1..Len(finished)
          PROVE  k \in delivered' \/ failures'[k] = MAX_SEND_ERROR_CNT + 1
      <4>1. k \in Numbers \ {h}
        BY <1>1, <1>5, SendAssumption DEF Numbers
      <4> QED
        BY <1>3, <1>4, <4>1 DEF Inv, OutcomeInv
    <3> QED
      BY <2>1, <3>1 DEF OutcomeInv
  <2> QED
    BY <2>2, <2>3, <2>4, <2>5 DEF Inv
<1> QED
  BY <1>2, <1>6, <1>7, SendAssumption

-------------------------------------------------------------------------------
LEMMA InvIsInductive == Inv /\ [Next]_vars => Inv'
<1> SUFFICES ASSUME Inv, [Next]_vars PROVE Inv'
  OBVIOUS
<1>1. ASSUME UNCHANGED <<queue, history>>,
             pingAge' \in {NEVER} \cup 0..PING_DELAY,
             frameWaiting' \in BOOLEAN, ready' \in BOOLEAN
      PROVE  Inv'
  BY <1>1 DEF Inv, TypeOK, QueueInv, SentInOrder, CountInv, OutcomeInv, FrontNumber,
     queue, history
<1>2. /\ pingAge \in {NEVER} \cup 0..PING_DELAY
      /\ frameWaiting \in BOOLEAN /\ ready \in BOOLEAN
      /\ 0 \in 0..PING_DELAY
  BY SendAssumption DEF Inv, TypeOK
<1>3. CASE Arrive
  BY <1>1, <1>2, <1>3 DEF Arrive
<1>4. CASE Tick
  BY <1>1, <1>2, <1>4, SendAssumption DEF Tick
<1>5. CASE Connection
  BY <1>1, <1>2, <1>5 DEF Connection
<1>6. CASE requestUpdate
  BY <1>6, SendMessageStep DEF requestUpdate
<1>7. ASSUME NEW t \in DOMAIN Width, write(t)
      PROVE  Inv'
  <2>1. Width[t] \in 0..2 /\ sendMessage(Width[t])
    BY <1>7 DEF write, Width, SingleMessageTypes
  <2> QED
    BY <2>1, SendMessageStep
<1>8. CASE ReceiveFrame
  BY <1>1, <1>2, <1>8 DEF ReceiveFrame
<1>9. CASE doSend
  <2>1. /\ ~isEmpty(sendBuffer)
        /\ UNCHANGED <<pingAge, frameWaiting, ready, accepted>>
    BY <1>9 DEF doSend
  <2>2. front(sendBuffer) \in Messages /\ front(sendBuffer).bodyLength <= 2
    BY <2>1, FrontFacts
  <2>3. taken(front(sendBuffer)) \/ refused(front(sendBuffer))
    BY <1>9, <2>2 DEF doSend, sendSingleMessage, MAX_MESSAGE_LENGTH,
       SINGLE_MESSAGE_HEADER_LENGTH
  <2> QED
    BY <2>1, <2>3, TakenStep, RefusedStep
<1>10. CASE doPing
  BY <1>1, <1>2, <1>10 DEF doPing
<1>11. CASE UNCHANGED vars
  BY <1>1, <1>2, <1>11 DEF vars
<1> QED
  BY <1>3, <1>4, <1>5, <1>6, <1>7, <1>8, <1>9, <1>10, <1>11 DEF Next, Request, task

LEMMA InvHolds == Spec => []Inv
  BY InitEstablishesInv, InvIsInductive, PTL DEF Spec

-------------------------------------------------------------------------------
(* Every variable stays in its range; the error count cannot wrap.           *)
THEOREM TypeCorrect == Spec => []TypeOK
<1>1. Inv => TypeOK
  BY DEF Inv
<1> QED
  BY <1>1, InvHolds, PTL

(* Messages leave the send buffer in the order they were accepted in, each   *)
(* of them once.                                                             *)
THEOREM MessagesStayInOrder == Spec => []SentInOrder
<1>1. Inv => SentInOrder
  BY DEF Inv, QueueInv
<1> QED
  BY <1>1, InvHolds, PTL

(* The error count is that of the front message, never of an earlier one.    *)
THEOREM ErrorCountIsOfFront == Spec => []ErrorsAreOfFront
<1>1. Inv => ErrorsAreOfFront
  <2>1. ASSUME Inv, isEmpty(sendBuffer) PROVE ErrorsAreOfFront
    BY <2>1 DEF Inv, CountInv, ErrorsAreOfFront
  <2>2. ASSUME Inv, ~isEmpty(sendBuffer) PROVE ErrorsAreOfFront
    BY <2>2, FrontFacts DEF Inv, CountInv, ErrorsAreOfFront
  <2> QED
    BY <2>1, <2>2
<1> QED
  BY <1>1, InvHolds, PTL

(* No accepted message is lost before it had all its attempts.               *)
THEOREM EveryMessageHasItsAttempts == Spec => []GivenUpOnlyAfterRetries
<1>1. Inv => GivenUpOnlyAfterRetries
  <2>1. ASSUME Inv, NEW k \in 1..Len(finished)
        PROVE  \/ finished[k].number \in delivered
               \/ failures[finished[k].number] = MAX_SEND_ERROR_CNT + 1
    <3> DEFINE c == Contents(sendBuffer)
    <3>1. /\ finished \in Seq(Messages) /\ c \in Seq(Messages)
          /\ accepted = finished \o c
      BY <2>1 DEF Inv, TypeOK, QueueInv, SentInOrder
    <3> HIDE DEF c
    <3>2. k \in 1..Len(accepted) /\ accepted[k] = finished[k]
      BY <3>1
    <3>3. finished[k].number = k
      BY <2>1, <3>2 DEF Inv, QueueInv
    <3> QED
      BY <2>1, <3>3 DEF Inv, OutcomeInv
  <2> QED
    BY <2>1 DEF GivenUpOnlyAfterRetries
<1> QED
  BY <1>1, InvHolds, PTL
===============================================================================
