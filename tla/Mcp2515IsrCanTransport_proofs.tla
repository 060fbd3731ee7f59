--------------------- MODULE Mcp2515IsrCanTransport_proofs ---------------------
(***************************************************************************)
(* The safety of the interrupt-driven transport for every buffer size,     *)
(* every number of controller buffers and every number of frames.          *)
(***************************************************************************)
EXTENDS Mcp2515IsrCanTransport, SimpleRingBuffer_proofs

(* The ring is well formed and only holds frames that were stored in it.     *)
RingInv == rxBuffer \in Rings(Stored) /\ Contents(rxBuffer) \in Seq(Frames)

(* Why the pointer is set whenever the interrupt can fire: the order in      *)
(* which stop() and start() touch the three variables of the connection.     *)
LinkInv ==
  /\ isr = "active" => attached
  /\ attached => s_instance = "this"
  /\ mainPc \in {"loop", "check_reset", "check_return"} => attached = started
  /\ mainPc \in {"stop_clear", "stop_flag"} => ~attached
  /\ mainPc \in {"begin_try", "begin_config", "start", "start_attach"}
       => ~attached /\ ~started
  /\ mainPc = "start_attach" => s_instance = "this"
  /\ mainPc = "start_flag" => attached

(* Why a reset of the counter forgets nothing: the call that resets it has   *)
(* already set overflowDetected, and nobody else has.                        *)
ReportInv ==
  /\ mainPc = "check_reset" => overflowDetected
  /\ overflowDetected => mainPc \in {"check_reset", "check_return"}

Inv == TypeOK /\ RingInv /\ LinkInv /\ StoredInOrder /\ DropsReported /\ ReportInv

-------------------------------------------------------------------------------
LEMMA InitEstablishesInv == Init => Inv
<1> SUFFICES ASSUME Init PROVE Inv
  OBVIOUS
<1>1. /\ rxBuffer \in Rings(Stored)
      /\ Contents(rxBuffer) = <<>>
  BY NewRingIsEmpty DEF Init, Stored
<1>2. 0 \in 0..(CAN_INIT_MAX_RETRIES - 1) /\ 0 \in 0..MaxFrames
  BY TransportAssumption
<1>3. TypeOK
  <2>1. chip \in SUBSET (1..arrived) /\ accepted \in Seq(Frames) /\ delivered \in Seq(Frames)
    BY DEF Init
  <2>2. /\ attached \in BOOLEAN /\ started \in BOOLEAN /\ ready \in BOOLEAN
        /\ overflowDetected \in BOOLEAN /\ unreported \in BOOLEAN
    BY DEF Init
  <2>3. arrived \in 0..MaxFrames /\ droppedMessageCount \in Nat
    BY <1>2 DEF Init
  <2>4. /\ s_instance \in {"this", "null"} /\ isr \in {"idle", "active"}
        /\ mainPc = "loop" /\ tries \in 0..(CAN_INIT_MAX_RETRIES - 1)
    BY <1>2 DEF Init
  <2> QED
    BY <1>1, <2>1, <2>2, <2>3, <2>4 DEF TypeOK
<1>4. RingInv /\ StoredInOrder
  BY <1>1 DEF Init, RingInv, StoredInOrder
<1>5. LinkInv /\ DropsReported /\ ReportInv
  BY DEF Init, LinkInv, DropsReported, ReportInv
<1> QED
  BY <1>3, <1>4, <1>5 DEF Inv

(* The ISR stores a frame behind the others, receive() takes the first one,  *)
(* nobody else touches the ring.  (Mcp2515IsrCanTransport.cpp:115-139)       *)
LEMMA RingSteps == Inv /\ [Next]_vars => RingInv' /\ StoredInOrder'
<1> SUFFICES ASSUME Inv, [Next]_vars PROVE RingInv' /\ StoredInOrder'
  OBVIOUS
<1>0. /\ rxBuffer \in Rings(Stored)
      /\ Contents(rxBuffer) \in Seq(Frames)
      /\ delivered \in Seq(Frames)
      /\ accepted = delivered \o Contents(rxBuffer)
      /\ chip \subseteq Frames
  BY TransportAssumption DEF Inv, TypeOK, RingInv, StoredInOrder, Frames
<1>1. CASE UNCHANGED <<rxBuffer, accepted, delivered>>
  BY <1>0, <1>1 DEF RingInv, StoredInOrder
<1>2. ASSUME NEW f \in chip, ReadFrame(f) PROVE RingInv' /\ StoredInOrder'
  <2>1. f \in Frames /\ f \in Stored
    BY <1>0 DEF Stored
  <2>2. CASE isFull(rxBuffer)
    BY <1>1, <1>2, <2>2 DEF ReadFrame
  <2>3. CASE ~isFull(rxBuffer)
    <3>1. /\ rxBuffer' = fillSlot(rxBuffer, f)
          /\ accepted' = Append(accepted, f)
          /\ delivered' = delivered
      BY <1>2, <2>3 DEF ReadFrame
    <3>2. /\ rxBuffer' \in Rings(Stored)
          /\ Contents(rxBuffer)' = Append(Contents(rxBuffer), f)
      BY <1>0, <2>1, <2>3, <3>1, FillSlotAppends
    <3>3. Append(accepted, f) = delivered \o Append(Contents(rxBuffer), f)
      <4> DEFINE c == Contents(rxBuffer)
      <4>1. /\ delivered \in Seq(Frames) /\ c \in Seq(Frames) /\ f \in Frames
            /\ accepted = delivered \o c
        BY <1>0, <2>1
      <4> HIDE DEF c
      <4>2. Append(accepted, f) = delivered \o Append(c, f)
        BY <4>1
      <4> QED
        BY <4>2 DEF c
    <3>4. Append(Contents(rxBuffer), f) \in Seq(Frames)
      BY <1>0, <2>1
    <3> QED
      BY <1>0, <3>1, <3>2, <3>3, <3>4 DEF RingInv, StoredInOrder
  <2> QED
    BY <2>2, <2>3
<1>3. CASE receive
  <2>1. CASE isEmpty(rxBuffer)
    BY <1>1, <1>3, <2>1 DEF receive, pop
  <2>2. CASE ~isEmpty(rxBuffer)
    <3>1. /\ rxBuffer' = incReadPos(rxBuffer)
          /\ accepted' = accepted
          /\ delivered' = Append(delivered, front(rxBuffer))
      BY <1>3, <2>2 DEF receive, pop
    <3>2. /\ rxBuffer' \in Rings(Stored)
          /\ Contents(rxBuffer)' = Tail(Contents(rxBuffer))
          /\ Contents(rxBuffer) # <<>>
          /\ front(rxBuffer) = Contents(rxBuffer)[1]
      BY <1>0, <2>2, <3>1, IncReadPosRemovesOldest
    <3>3. accepted = Append(delivered, front(rxBuffer)) \o Tail(Contents(rxBuffer))
      BY <1>0, <3>2, MoveHead
    <3>4. Tail(Contents(rxBuffer)) \in Seq(Frames)
      BY <1>0, <3>2
    <3> QED
      BY <3>1, <3>2, <3>3, <3>4 DEF RingInv, StoredInOrder
  <2> QED
    BY <2>1, <2>2
<1>4. CASE Arrive \/ isrTrampoline \/ LeaveIsr
  BY <1>1, <1>4 DEF Arrive, isrTrampoline, LeaveIsr, shared, history
<1>5. CASE Check
  BY <1>1, <1>5 DEF Check, CheckTest, CheckReset, CheckReturn, shared, history
<1>6. CASE Connect
  BY <1>1, <1>6 DEF Connect, StopDetach, StopClear, StopFlag, BeginTry, BeginConfig,
     StartInstance, StartAttach, StartFlag, shared, history
<1>7. CASE GiveUpConnection
  BY <1>1, <1>7 DEF GiveUpConnection, shared, history
<1>8. CASE UNCHANGED vars
  BY <1>1, <1>8 DEF vars, shared, history
<1> QED
  BY <1>2, <1>3, <1>4, <1>5, <1>6, <1>7, <1>8 DEF Next, ReadAny

(* Every variable stays in its range.                                        *)
LEMMA NextPreservesTypeOK == Inv /\ [Next]_vars => TypeOK'
<1> SUFFICES ASSUME Inv, [Next]_vars PROVE TypeOK'
  OBVIOUS
<1>0. TypeOK /\ rxBuffer' \in Rings(Stored)
  BY RingSteps DEF Inv, RingInv
<1> USE DEF hardware, shared, link, task, history, GoTo, MainAt
<1>1. CASE Arrive
  BY <1>0, <1>1, TransportAssumption DEF Arrive, TypeOK
<1>2. CASE isrTrampoline
  BY <1>0, <1>2 DEF isrTrampoline, TypeOK
<1>3. ASSUME NEW f \in chip, ReadFrame(f) PROVE TypeOK'
  <2>1. f \in Frames
    BY <1>0, TransportAssumption DEF TypeOK, Frames
  <2>2. accepted' \in Seq(Frames)
    BY <1>0, <1>3, <2>1 DEF ReadFrame, TypeOK
  <2>3. droppedMessageCount' \in Nat
    BY <1>0, <1>3 DEF ReadFrame, TypeOK
  <2>4. unreported' \in BOOLEAN
    BY <1>0, <1>3 DEF ReadFrame, TypeOK
  <2>5. chip' \in SUBSET (1..arrived')
    BY <1>0, <1>3 DEF ReadFrame, TypeOK
  <2> QED
    BY <1>0, <1>3, <2>2, <2>3, <2>4, <2>5 DEF ReadFrame, TypeOK
<1>4. CASE LeaveIsr
  BY <1>0, <1>4 DEF LeaveIsr, TypeOK
<1>5. CASE receive
  <2>1. delivered' \in Seq(Frames)
    <3>1. CASE isEmpty(rxBuffer)
      BY <1>0, <1>5, <3>1 DEF receive, TypeOK
    <3>2. CASE ~isEmpty(rxBuffer)
      <4>1. front(rxBuffer) = Contents(rxBuffer)[1] /\ Contents(rxBuffer) # <<>>
        BY <1>0, <3>2, IncReadPosRemovesOldest DEF TypeOK
      <4>2. front(rxBuffer) \in Frames
        BY <4>1 DEF Inv, RingInv
      <4> QED
        BY <1>0, <1>5, <3>2, <4>2 DEF receive, TypeOK
    <3> QED
      BY <3>1, <3>2
  <2> QED
    BY <1>0, <1>5, <2>1 DEF receive, TypeOK
<1>6. CASE CheckTest
  BY <1>0, <1>6 DEF CheckTest, TypeOK
<1>7. CASE CheckReset
  BY <1>0, <1>7 DEF CheckReset, TypeOK
<1>8. CASE CheckReturn
  BY <1>0, <1>8 DEF CheckReturn, TypeOK
<1>9. CASE StopDetach
  BY <1>0, <1>9 DEF StopDetach, TypeOK
<1>10. CASE StopClear
  BY <1>0, <1>10 DEF StopClear, TypeOK
<1>11. CASE StopFlag
  BY <1>0, <1>11 DEF StopFlag, TypeOK
<1>12. CASE BeginTry
  <2>1. tries' \in 0..(CAN_INIT_MAX_RETRIES - 1)
    BY <1>0, <1>12, TransportAssumption DEF BeginTry, TypeOK
  <2> QED
    BY <1>0, <1>12, <2>1 DEF BeginTry, TypeOK
<1>13. CASE BeginConfig
  BY <1>0, <1>13 DEF BeginConfig, TypeOK
<1>14. CASE StartInstance
  BY <1>0, <1>14 DEF StartInstance, TypeOK
<1>15. CASE StartAttach
  BY <1>0, <1>15 DEF StartAttach, TypeOK
<1>16. CASE StartFlag
  BY <1>0, <1>16 DEF StartFlag, TypeOK
<1>17. CASE GiveUpConnection
  BY <1>0, <1>17 DEF GiveUpConnection, TypeOK
<1>18. CASE UNCHANGED vars
  BY <1>0, <1>18 DEF vars, TypeOK
<1> QED
  BY <1>1, <1>2, <1>3, <1>4, <1>5, <1>6, <1>7, <1>8, <1>9, <1>10, <1>11, <1>12,
     <1>13, <1>14, <1>15, <1>16, <1>17, <1>18 DEF Next, ReadAny, Check, Connect

(* The main task detaches the interrupt before it clears the pointer and     *)
(* sets the pointer before it attaches; the ISR changes neither, and while   *)
(* it runs the main task does not.  (Mcp2515IsrCanTransport.cpp:66-97)       *)
LEMMA NextPreservesLinkInv == Inv /\ [Next]_vars => LinkInv'
<1> SUFFICES ASSUME Inv, [Next]_vars PROVE LinkInv'
  OBVIOUS
<1>0. TypeOK /\ LinkInv
  BY DEF Inv
<1> USE DEF LinkInv, hardware, shared, link, task, history, GoTo, MainAt
<1>1. CASE Arrive
  BY <1>0, <1>1 DEF Arrive
<1>2. CASE isrTrampoline
  BY <1>0, <1>2 DEF isrTrampoline
<1>3. ASSUME NEW f \in chip, ReadFrame(f) PROVE LinkInv'
  BY <1>0, <1>3 DEF ReadFrame
<1>4. CASE LeaveIsr
  BY <1>0, <1>4 DEF LeaveIsr
<1>5. CASE receive
  BY <1>0, <1>5 DEF receive
<1>6. CASE CheckTest
  BY <1>0, <1>6 DEF CheckTest
<1>7. CASE CheckReset
  BY <1>0, <1>7 DEF CheckReset
<1>8. CASE CheckReturn
  BY <1>0, <1>8 DEF CheckReturn
<1>9. CASE StopDetach
  BY <1>0, <1>9 DEF StopDetach, TypeOK
<1>10. CASE StopClear
  BY <1>0, <1>10 DEF StopClear
<1>11. CASE StopFlag
  BY <1>0, <1>11 DEF StopFlag, TypeOK
<1>12. CASE BeginTry
  BY <1>0, <1>12, Zenon DEF BeginTry, TypeOK
<1>13. CASE BeginConfig
  BY <1>0, <1>13 DEF BeginConfig, TypeOK
<1>14. CASE StartInstance
  BY <1>0, <1>14 DEF StartInstance
<1>15. CASE StartAttach
  BY <1>0, <1>15 DEF StartAttach
<1>16. CASE StartFlag
  BY <1>0, <1>16 DEF StartFlag
<1>17. CASE GiveUpConnection
  BY <1>0, <1>17 DEF GiveUpConnection
<1>18. CASE UNCHANGED vars
  BY <1>0, <1>18 DEF vars
<1> QED
  BY <1>1, <1>2, <1>3, <1>4, <1>5, <1>6, <1>7, <1>8, <1>9, <1>10, <1>11, <1>12,
     <1>13, <1>14, <1>15, <1>16, <1>17, <1>18 DEF Next, ReadAny, Check, Connect

(* The counter is reset only by a call that will report the overflow, and a  *)
(* drop between the test and the reset is covered by the same report.        *)
(* (Mcp2515IsrCanTransport.cpp:122-125, 168-174)                             *)
LEMMA NextPreservesReports == Inv /\ [Next]_vars => DropsReported' /\ ReportInv'
<1> SUFFICES ASSUME Inv, [Next]_vars PROVE DropsReported' /\ ReportInv'
  OBVIOUS
<1>0. TypeOK /\ DropsReported /\ ReportInv
  BY DEF Inv
<1> USE DEF DropsReported, ReportInv, hardware, shared, link, task, history, GoTo, MainAt
<1>1. CASE Arrive \/ isrTrampoline \/ LeaveIsr
  BY <1>0, <1>1 DEF Arrive, isrTrampoline, LeaveIsr
<1>2. ASSUME NEW f \in chip, ReadFrame(f) PROVE DropsReported' /\ ReportInv'
  <2>1. CASE isFull(rxBuffer)
    <3>1. droppedMessageCount' = droppedMessageCount + 1 /\ droppedMessageCount \in Nat
      BY <1>0, <1>2, <2>1 DEF ReadFrame, TypeOK
    <3>2. droppedMessageCount' > 0
      BY <3>1
    <3> QED
      BY <1>0, <1>2, <3>2 DEF ReadFrame
  <2>2. CASE ~isFull(rxBuffer)
    BY <1>0, <1>2, <2>2 DEF ReadFrame
  <2> QED
    BY <2>1, <2>2
<1>3. CASE receive
  BY <1>0, <1>3 DEF receive
<1>4. CASE CheckTest
  BY <1>0, <1>4 DEF CheckTest
<1>5. CASE CheckReset
  BY <1>0, <1>5 DEF CheckReset
<1>6. CASE CheckReturn
  BY <1>0, <1>6 DEF CheckReturn, TypeOK
<1>7. CASE Connect
  BY <1>0, <1>7 DEF Connect, StopDetach, StopClear, StopFlag, BeginTry, BeginConfig,
     StartInstance, StartAttach, StartFlag
<1>8. CASE GiveUpConnection
  BY <1>0, <1>8 DEF GiveUpConnection
<1>9. CASE UNCHANGED vars
  BY <1>0, <1>9 DEF vars
<1> QED
  BY <1>1, <1>2, <1>3, <1>4, <1>5, <1>6, <1>7, <1>8, <1>9 DEF Next, ReadAny, Check

LEMMA InvIsInductive == Inv /\ [Next]_vars => Inv'
  BY RingSteps, NextPreservesTypeOK, NextPreservesLinkInv, NextPreservesReports DEF Inv

LEMMA InvHolds == Spec => []Inv
  BY InitEstablishesInv, InvIsInductive, PTL DEF Spec

-------------------------------------------------------------------------------
(* Every variable stays in its range: ring positions inside the array, the   *)
(* retry counter of begin() below its limit.                                 *)
THEOREM TypeCorrect == Spec => []TypeOK
<1>1. Inv => TypeOK
  BY DEF Inv
<1> QED
  BY <1>1, InvHolds, PTL

(* The interrupt never fires into a null instance pointer.                   *)
THEOREM InterruptHasInstance == Spec => []IsrHasInstance
<1>1. Inv => IsrHasInstance
  BY DEF Inv, LinkInv, IsrHasInstance
<1> QED
  BY <1>1, InvHolds, PTL

(* Frames reach the main task once each and in the order they were stored.   *)
THEOREM FramesStayInOrder == Spec => []StoredInOrder
<1>1. Inv => StoredInOrder
  BY DEF Inv
<1> QED
  BY <1>1, InvHolds, PTL

(* No dropped frame is forgotten before it was reported.                     *)
THEOREM DropsAreReported == Spec => []DropsReported
<1>1. Inv => DropsReported
  BY DEF Inv
<1> QED
  BY <1>1, InvHolds, PTL
===============================================================================
