------------------------- MODULE Mcp2515IsrCanTransport -------------------------
(***************************************************************************)
(* The CAN transport of the RP2040 board: an interrupt service routine     *)
(* moves frames from the MCP2515 controller into rxBuffer, the main task   *)
(* takes them out, polls the error state and reconnects.  The main loop    *)
(* does so only while it is ready: when the device is switched off it      *)
(* stops calling and leaves the transport started.                         *)
(*                                                                         *)
(* One core runs both.  The ISR preempts the main task between any two of  *)
(* its steps and then runs to its end, so a step of the main task needs    *)
(* isr = "idle"; a section of the main task between noInterrupts() and     *)
(* interrupts() is one action.  The controller receives at any time.       *)
(***************************************************************************)
EXTENDS SimpleRingBuffer, FiniteSets

CONSTANTS CAN_INIT_MAX_RETRIES,  \* attempts begin() makes to set up the chip
          HwBuffers,             \* receive buffers of the MCP2515
          MaxFrames              \* bound: frames that arrive in a behaviour

ASSUME TransportAssumption ==
  /\ CAN_INIT_MAX_RETRIES \in Nat \ {0}
  /\ HwBuffers \in Nat \ {0}
  /\ MaxFrames \in Nat

Frames  == 1..MaxFrames      \* a frame is the number of its arrival
NoFrame == 0                 \* an empty slot of rxBuffer
Stored  == Frames \cup {NoFrame}

VARIABLES
  chip,                 \* frames in the receive buffers of the controller
  arrived,              \* how many frames the controller has seen
  attached,             \* isrTrampoline is attached to the interrupt pin
  s_instance,           \* "this", or "null" for the null pointer
  started,
  ready,                \* of the main loop: connected, and the device is on
  rxBuffer,
  droppedMessageCount,
  isr,                  \* "idle", or "active" inside onInterrupt()
  mainPc,               \* where the main task is
  tries,                \* the loop counter of begin()
  overflowDetected,     \* the field of the CanErrorInfo being filled
  \* history, no part of the program:
  accepted,             \* frames stored in rxBuffer, in the order of storing
  delivered,            \* frames receive() returned, in that order
  unreported            \* a frame was dropped since an overflow was reported

hardware == <<chip, arrived>>
shared   == <<rxBuffer, droppedMessageCount>>
link     == <<attached, s_instance, started, ready>>
task     == <<mainPc, tries, overflowDetected>>
history  == <<accepted, delivered, unreported>>
vars     == <<hardware, shared, link, isr, task, history>>

PinLow == chip # {}

Init ==
  /\ chip = {} /\ arrived = 0
  /\ attached = FALSE /\ s_instance = "null" /\ started = FALSE /\ ready = FALSE
  /\ rxBuffer = NewRing(NoFrame) /\ droppedMessageCount = 0
  /\ isr = "idle"
  /\ mainPc = "loop" /\ tries = 0 /\ overflowDetected = FALSE
  /\ accepted = <<>> /\ delivered = <<>> /\ unreported = FALSE

-------------------------------------------------------------------------------
(* The controller (external).                                                *)

\* A frame comes in; with all receive buffers taken the controller loses it.
Arrive ==
  /\ arrived < MaxFrames
  /\ arrived' = arrived + 1
  /\ chip' = IF Cardinality(chip) < HwBuffers THEN chip \cup {arrived + 1} ELSE chip
  /\ UNCHANGED <<shared, link, isr, task, history>>

-------------------------------------------------------------------------------
(* The interrupt service routine.                                            *)

\* Variant: the interrupt fires on the falling edge instead of the low level.
EdgeTriggered ==
  /\ isr = "idle"
  /\ attached /\ Cardinality(chip) = 1
  /\ isr' = "active"
  /\ UNCHANGED <<hardware, shared, link, task, history>>

isrTrampoline ==
  /\ isr = "idle"
  /\ attached /\ PinLow
  /\ isr' = "active"
  /\ UNCHANGED <<hardware, shared, link, task, history>>

\* Variant: the ISR stores with push(), which overwrites the oldest frame.
ReadFramePush(f) ==
  /\ isr = "active"
  /\ f \in chip
  /\ chip' = chip \ {f}
  /\ rxBuffer' = push(rxBuffer, f)
  /\ accepted' = Append(accepted, f)
  /\ UNCHANGED <<arrived, droppedMessageCount, link, isr, task, delivered, unreported>>

\* One turn of the loop of onInterrupt(): the frame read from the controller
\* is stored, or counted as dropped when rxBuffer is full.
ReadFrame(f) ==
  /\ isr = "active"
  /\ f \in chip
  /\ chip' = chip \ {f}
  /\ \/ /\ ~isFull(rxBuffer)
        /\ rxBuffer' = fillSlot(rxBuffer, f)
        /\ accepted' = Append(accepted, f)
        /\ UNCHANGED <<droppedMessageCount, unreported>>
     \/ /\ isFull(rxBuffer)
        /\ droppedMessageCount' = droppedMessageCount + 1
        /\ unreported' = TRUE
        /\ UNCHANGED <<rxBuffer, accepted>>
  /\ UNCHANGED <<arrived, link, isr, task, delivered>>

\* The pin is high again, or readMsgBufID() failed.
LeaveIsr ==
  /\ isr = "active"
  /\ isr' = "idle"
  /\ UNCHANGED <<hardware, shared, link, task, history>>

-------------------------------------------------------------------------------
(* The main task.                                                            *)

MainAt(pc) == isr = "idle" /\ mainPc = pc
GoTo(pc)   == mainPc' = pc

\* Variant: tests available(), which a full ring answers like an empty one.
ReceiveAvailable ==
  /\ MainAt("loop") /\ ready
  /\ LET nothing == isEmpty(rxBuffer) \/ isFull(rxBuffer)
     IN  /\ rxBuffer' = IF nothing THEN rxBuffer ELSE pop(rxBuffer)
         /\ delivered' = IF nothing THEN delivered
                         ELSE Append(delivered, front(rxBuffer))
  /\ UNCHANGED <<hardware, droppedMessageCount, link, isr, task, accepted, unreported>>

\* Called by the decoder, which has its turns only while the loop is ready.
receive ==
  /\ MainAt("loop") /\ ready
  /\ rxBuffer' = pop(rxBuffer)
  /\ delivered' = IF isEmpty(rxBuffer) THEN delivered
                  ELSE Append(delivered, front(rxBuffer))
  /\ UNCHANGED <<hardware, droppedMessageCount, link, isr, task, accepted, unreported>>

\* Variant: the reset is not inside the test.
CheckTestAlwaysReset ==
  /\ MainAt("loop") /\ ready
  /\ overflowDetected' = (droppedMessageCount > 0)
  /\ GoTo("check_reset")
  /\ UNCHANGED <<hardware, shared, link, isr, tries, history>>

\* Variant: a single dropped frame is not worth a report.
CheckTestTolerant ==
  /\ MainAt("loop") /\ ready
  /\ overflowDetected' = (droppedMessageCount > 1)
  /\ GoTo(IF droppedMessageCount > 1 THEN "check_reset" ELSE "check_return")
  /\ UNCHANGED <<hardware, shared, link, isr, tries, history>>

\* checkErrors(): test of the drop counter, its reset, return.  The error
\* registers of the controller change nothing in the transport.
CheckTest ==
  /\ MainAt("loop") /\ ready
  /\ overflowDetected' = (droppedMessageCount > 0)
  /\ GoTo(IF droppedMessageCount > 0 THEN "check_reset" ELSE "check_return")
  /\ UNCHANGED <<hardware, shared, link, isr, tries, history>>

CheckReset ==
  /\ MainAt("check_reset")
  /\ droppedMessageCount' = 0
  /\ GoTo("check_return")
  /\ UNCHANGED <<hardware, rxBuffer, link, isr, tries, overflowDetected, history>>

CheckReturn ==
  /\ MainAt("check_return")
  /\ unreported' = (unreported /\ ~overflowDetected)
  /\ overflowDetected' = FALSE
  /\ GoTo("loop")
  /\ UNCHANGED <<hardware, shared, link, isr, tries, accepted, delivered>>

\* The device was found switched off, or there were too many errors: the loop
\* stops calling.  Nobody stops the transport.
GiveUpConnection ==
  /\ MainAt("loop") /\ ready
  /\ ready' = FALSE
  /\ UNCHANGED <<hardware, shared, attached, s_instance, started, isr, task, history>>

\* Variant: stop() forgets to detach the interrupt.
StopWithoutDetach ==
  /\ MainAt("loop") /\ ~ready
  /\ GoTo(IF started THEN "stop_clear" ELSE "begin_try")
  /\ UNCHANGED <<hardware, shared, link, isr, tries, overflowDetected, history>>

\* HovalProtocolDecoder::connect(), which the loop calls until it is ready, calls
\* stop(), begin() and start() in turn.
StopDetach ==
  /\ MainAt("loop") /\ ~ready
  /\ attached' = (attached /\ ~started)
  /\ GoTo(IF started THEN "stop_clear" ELSE "begin_try")
  /\ UNCHANGED <<hardware, shared, s_instance, started, ready, isr, tries, overflowDetected, history>>

StopClear ==
  /\ MainAt("stop_clear")
  /\ s_instance' = IF s_instance = "this" THEN "null" ELSE s_instance
  /\ GoTo("stop_flag")
  /\ UNCHANGED <<hardware, shared, attached, started, ready, isr, tries, overflowDetected, history>>

StopFlag ==
  /\ MainAt("stop_flag")
  /\ started' = FALSE
  /\ GoTo("begin_try")
  /\ UNCHANGED <<hardware, shared, attached, s_instance, ready, isr, tries, overflowDetected, history>>

\* One attempt at canBus.begin(), which resets the controller when it works.
BeginTry ==
  /\ MainAt("begin_try")
  /\ \/ /\ chip' = {}
        /\ tries' = 0
        /\ GoTo("begin_config")
     \/ /\ tries + 1 < CAN_INIT_MAX_RETRIES
        /\ tries' = tries + 1
        /\ UNCHANGED <<chip, mainPc>>
     \/ /\ tries + 1 = CAN_INIT_MAX_RETRIES
        /\ tries' = 0
        /\ GoTo("loop")
        /\ UNCHANGED chip
  /\ UNCHANGED <<arrived, shared, link, isr, overflowDetected, history>>

\* Mode, masks and filters: start() is called only when all were accepted.
BeginConfig ==
  /\ MainAt("begin_config")
  /\ GoTo("start") \/ GoTo("loop")
  /\ UNCHANGED <<hardware, shared, link, isr, tries, overflowDetected, history>>

StartInstance ==
  /\ MainAt("start")
  /\ s_instance' = IF started THEN s_instance ELSE "this"
  /\ ready' = started
  /\ GoTo(IF started THEN "loop" ELSE "start_attach")
  /\ UNCHANGED <<hardware, shared, attached, started, isr, tries, overflowDetected, history>>

StartAttach ==
  /\ MainAt("start_attach")
  /\ attached' = TRUE
  /\ GoTo("start_flag")
  /\ UNCHANGED <<hardware, shared, s_instance, started, ready, isr, tries, overflowDetected, history>>

\* connect() has succeeded, which makes the loop ready.
StartFlag ==
  /\ MainAt("start_flag")
  /\ started' = TRUE
  /\ ready' = TRUE
  /\ GoTo("loop")
  /\ UNCHANGED <<hardware, shared, attached, s_instance, isr, tries, overflowDetected, history>>

-------------------------------------------------------------------------------
ReadAny == \E f \in chip : ReadFrame(f)
Check   == CheckTest \/ CheckReset \/ CheckReturn
Connect == \/ StopDetach \/ StopClear \/ StopFlag \/ BeginTry \/ BeginConfig
           \/ StartInstance \/ StartAttach \/ StartFlag

Next == \/ Arrive \/ isrTrampoline \/ ReadAny \/ LeaveIsr
        \/ receive \/ Check \/ GiveUpConnection \/ Connect

Spec == Init /\ [][Next]_vars

\* A level-triggered interrupt is taken while its pin is low and the ISR ends;
\* the main task finishes the call it is in.  Strong: a controller does not
\* fail every read for ever, and while the loop is ready every eighth of its
\* turns calls checkErrors() and at least the seven others receive(); the turns
\* are counted across reconnects.  Switching the device on is not assumed.
Fairness ==
  /\ WF_vars(isrTrampoline) /\ SF_vars(ReadAny) /\ WF_vars(LeaveIsr)
  /\ SF_vars(receive) /\ SF_vars(CheckTest)
  /\ WF_vars(CheckReset) /\ WF_vars(CheckReturn)
  /\ WF_vars(StopClear) /\ WF_vars(StopFlag)

FairSpec == Spec /\ Fairness

-------------------------------------------------------------------------------
(* Properties.                                                               *)

TypeOK ==
  /\ chip \in SUBSET (1..arrived)
  /\ arrived \in 0..MaxFrames
  /\ attached \in BOOLEAN /\ started \in BOOLEAN /\ ready \in BOOLEAN
  /\ s_instance \in {"this", "null"}
  /\ rxBuffer \in Rings(Stored)
  /\ droppedMessageCount \in Nat
  /\ isr \in {"idle", "active"}
  /\ mainPc \in {"loop", "check_reset", "check_return", "stop_clear", "stop_flag",
                 "begin_try", "begin_config", "start", "start_attach", "start_flag"}
  /\ tries \in 0..(CAN_INIT_MAX_RETRIES - 1)
  /\ overflowDetected \in BOOLEAN
  /\ accepted \in Seq(Frames) /\ delivered \in Seq(Frames)
  /\ unreported \in BOOLEAN

(* isrTrampoline dereferences s_instance without a test: whenever the        *)
(* interrupt can fire, or its routine runs, the pointer is set.  stop() and  *)
(* start() keep this through every interleaving because of the order of      *)
(* their steps.  (cpp:66-97)                                                 *)
IsrHasInstance == attached \/ isr = "active" => s_instance = "this"

(* What receive() has returned and what still waits is exactly what the ISR  *)
(* stored, in that order: no frame is lost, repeated or reordered between    *)
(* the interrupt and the main task, through every overflow and every         *)
(* reconnect.  (cpp:115-126, 130-139)                                        *)
StoredInOrder == accepted = delivered \o Contents(rxBuffer)

(* A dropped frame is never forgotten: until checkErrors() has returned      *)
(* overflowDetected, the counter or the call in progress still knows of it,  *)
(* although the main task resets the counter the ISR increments.             *)
(* (cpp:122-125, 168-174; CanTransport.h:56-59)                              *)
DropsReported ==
  unreported => droppedMessageCount > 0 \/ overflowDetected

(* A frame in the controller is read, unless the transport is taken down or  *)
(* the controller reset.  (cpp:99-128)                                       *)
ControllerIsDrained == (PinLow /\ attached) ~> (~PinLow \/ ~attached)

(* A stored frame is delivered, past overflows, error reports and the frames *)
(* before it, unless the loop gives up the connection first: a device that   *)
(* is switched off leaves frames in a transport that is still started.       *)
(* (cpp:130-139; HovalGatewayModule.cpp:70-92, 151-154)                      *)
StoredIsDelivered ==
  \A n \in Frames : (Len(accepted) >= n /\ ready)
                       ~> (Len(delivered) >= n \/ ~ready)

(* An overflow is reported unless the loop gives up the connection first.    *)
(* (cpp:168-172; HovalGatewayModule.cpp:70-87, 105-119, 151-154)             *)
OverflowIsReported == (unreported /\ ready) ~> (~unreported \/ ~ready)
===============================================================================
