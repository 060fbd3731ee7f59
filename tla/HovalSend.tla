------------------------------- MODULE HovalSend -------------------------------
(***************************************************************************)
(* The sending half of HovalProtocolHandler: the ring sendBuffer, the      *)
(* retries of its front message, and the ping that keeps the gateway known *)
(* on the Hoval bus.  Everything here runs in the main loop; one call of   *)
(* task() receives a frame, or sends, or pings, in this order of priority. *)
(* Requests come between two calls: polls from the mapper, writes from KNX *)
(* group objects, the latter also while the bus is not connected.          *)
(***************************************************************************)
EXTENDS SimpleRingBuffer, FiniteSets

CONSTANTS
  MAX_SEND_ERROR_CNT,  \* 10 in the program
  PING_DELAY,          \* 5000 ms in the program
  MaxRequests          \* bound: messages queued in a behaviour

ASSUME SendAssumption ==
  /\ MAX_SEND_ERROR_CNT \in 0..254     \* sendErrorCnt is a uint8_t
  /\ PING_DELAY \in Nat \ {0}
  /\ MaxRequests \in Nat

MAX_MESSAGE_LENGTH           == 8
SINGLE_MESSAGE_HEADER_LENGTH == 6

\* The data types by the bytes they take; the last ones need a multi-part message.
Width == [U8 |-> 1, S8 |-> 1, U16 |-> 2, S16 |-> 2, U32 |-> 4, S32 |-> 4, S64 |-> 8, RAW |-> 8]
SingleMessageTypes == {"U8", "S8", "U16", "S16"}

Numbers   == 1..MaxRequests
Messages  == [number : Numbers, bodyLength : 0..8]
NoMessage == [number |-> 0, bodyLength |-> 0]   \* the empty unique_ptr
NEVER     == -1                                 \* lastPingTimestamp = 0

VARIABLES
  sendBuffer,
  sendErrorCnt,
  pingAge,       \* millis() - lastPingTimestamp, counted up to PING_DELAY
  frameWaiting,  \* the transport has a received frame
  ready,         \* of the gateway module: task() is called
  \* history, no part of the program:
  accepted,      \* messages put into sendBuffer, in that order
  finished,      \* messages taken out, in that order
  delivered,     \* numbers of the messages the transport took
  failures       \* number -> attempts the transport refused

queue   == <<sendBuffer, sendErrorCnt>>
history == <<accepted, finished, delivered, failures>>
vars    == <<queue, pingAge, frameWaiting, ready, history>>

Init ==
  /\ sendBuffer = NewRing(NoMessage) /\ sendErrorCnt = 0
  /\ pingAge = NEVER
  /\ frameWaiting = FALSE /\ ready = FALSE
  /\ accepted = <<>> /\ finished = <<>>
  /\ delivered = {} /\ failures = [n \in Numbers |-> 0]

-------------------------------------------------------------------------------
(* Around the handler (external): the bus, the clock, the gateway module.    *)

Arrive ==
  /\ ~frameWaiting
  /\ frameWaiting' = TRUE
  /\ UNCHANGED <<queue, pingAge, ready, history>>

Tick ==
  /\ pingAge \in 0..(PING_DELAY - 1)
  /\ pingAge' = pingAge + 1
  /\ UNCHANGED <<queue, frameWaiting, ready, history>>

\* checkActive() connects or gives the connection up; the queue stays as it is.
Connection ==
  /\ ready' = ~ready
  /\ UNCHANGED <<queue, pingAge, frameWaiting, history>>

-------------------------------------------------------------------------------
(* Requests.                                                                 *)

\* Variant: no test for a full buffer; push() then drops the oldest message.
sendWithoutTest(bodyLength) ==
  /\ Len(accepted) < MaxRequests
  /\ LET message == [number |-> Len(accepted) + 1, bodyLength |-> bodyLength]
     IN  /\ sendBuffer' = push(sendBuffer, message)
         /\ accepted' = Append(accepted, message)
  /\ UNCHANGED <<sendErrorCnt, pingAge, frameWaiting, ready, finished, delivered, failures>>

\* With a full buffer the request is refused, and neither caller looks.
sendMessage(bodyLength) ==
  /\ Len(accepted) < MaxRequests
  /\ ~isFull(sendBuffer)
  /\ LET message == [number |-> Len(accepted) + 1, bodyLength |-> bodyLength]
     IN  /\ sendBuffer' = push(sendBuffer, message)
         /\ accepted' = Append(accepted, message)
  /\ UNCHANGED <<sendErrorCnt, pingAge, frameWaiting, ready, finished, delivered, failures>>

requestUpdate == sendMessage(0)

\* Types that need a multi-part message are refused.
write(rawType) == rawType \in SingleMessageTypes /\ sendMessage(Width[rawType])

-------------------------------------------------------------------------------
(* task().                                                                   *)

\* The frame goes to the receiving half; another one may wait behind it.
ReceiveFrame ==
  /\ ready /\ frameWaiting
  /\ frameWaiting' \in BOOLEAN
  /\ UNCHANGED <<queue, pingAge, ready, history>>

MaySend == ready /\ ~frameWaiting

Drop(message) ==
  /\ sendBuffer' = pop(sendBuffer)
  /\ finished' = Append(finished, message)

\* Variant: the count of refusals is not reset.
takenKeepsCount(message) ==
  /\ Drop(message)
  /\ delivered' = delivered \cup {message.number}
  /\ UNCHANGED <<sendErrorCnt, failures>>

taken(message) ==
  /\ Drop(message)
  /\ sendErrorCnt' = 0
  /\ delivered' = delivered \cup {message.number}
  /\ UNCHANGED failures

\* Variant: the count survives the message that is given up.
refusedWithoutReset(message) ==
  /\ failures' = [failures EXCEPT ![message.number] = @ + 1]
  /\ \/ sendErrorCnt + 1 > MAX_SEND_ERROR_CNT /\ Drop(message) /\ UNCHANGED sendErrorCnt
     \/ /\ sendErrorCnt + 1 <= MAX_SEND_ERROR_CNT
        /\ sendErrorCnt' = sendErrorCnt + 1
        /\ UNCHANGED <<sendBuffer, finished>>
  /\ UNCHANGED delivered

\* Variant: the message stays in the buffer when its attempts are used up.
refusedForEver(message) ==
  /\ sendErrorCnt' = IF sendErrorCnt + 1 > MAX_SEND_ERROR_CNT THEN 0 ELSE sendErrorCnt + 1
  /\ failures' = [failures EXCEPT ![message.number] = sendErrorCnt']
  /\ UNCHANGED <<sendBuffer, finished, delivered>>

refused(message) ==
  /\ failures' = [failures EXCEPT ![message.number] = @ + 1]
  /\ \/ sendErrorCnt + 1 > MAX_SEND_ERROR_CNT /\ Drop(message) /\ sendErrorCnt' = 0
     \/ /\ sendErrorCnt + 1 <= MAX_SEND_ERROR_CNT
        /\ sendErrorCnt' = sendErrorCnt + 1
        /\ UNCHANGED <<sendBuffer, finished>>
  /\ UNCHANGED delivered

\* The transport takes the frame or refuses it.
sendSingleMessage(message) == taken(message) \/ refused(message)

\* A longer message would need a multi-part message and is discarded.
doSend ==
  /\ MaySend
  /\ ~isEmpty(sendBuffer)
  /\ LET message == front(sendBuffer)
     IN  IF message.bodyLength <= MAX_MESSAGE_LENGTH - SINGLE_MESSAGE_HEADER_LENGTH
         THEN sendSingleMessage(message)
         ELSE Drop(message) /\ UNCHANGED <<sendErrorCnt, delivered, failures>>
  /\ UNCHANGED <<pingAge, frameWaiting, ready, accepted>>

PingDue == pingAge \in {NEVER, PING_DELAY}

\* Variant: the test for "never pinged" is the wrong way round.
doPingNeverFirst ==
  /\ MaySend
  /\ isEmpty(sendBuffer)
  /\ pingAge = PING_DELAY
  /\ pingAge' = 0
  /\ UNCHANGED <<queue, frameWaiting, ready, history>>

\* Whether the transport took the ping is not looked at.
doPing ==
  /\ MaySend
  /\ isEmpty(sendBuffer)
  /\ PingDue
  /\ pingAge' = 0
  /\ UNCHANGED <<queue, frameWaiting, ready, history>>

task == ReceiveFrame \/ doSend \/ doPing

-------------------------------------------------------------------------------
Request == requestUpdate \/ \E t \in DOMAIN Width : write(t)
Next == Arrive \/ Tick \/ Connection \/ Request \/ task

Spec == Init /\ [][Next]_vars

\* The main loop keeps calling task() while the bus is connected, time passes,
\* and the bus leaves gaps: it is far slower than the loop, so again and again
\* a frame is taken and none waits behind it.
Fairness ==
  /\ WF_vars(Tick)
  /\ SF_vars(ReceiveFrame /\ ~frameWaiting')
  /\ SF_vars(doSend) /\ SF_vars(doPing)

FairSpec == Spec /\ Fairness

-------------------------------------------------------------------------------
(* Properties.                                                               *)

\* The 11th refusal takes the message out; the uint8_t counter cannot wrap.
TypeOK ==
  /\ sendBuffer \in Rings(Messages \cup {NoMessage})
  /\ sendErrorCnt \in 0..MAX_SEND_ERROR_CNT
  /\ pingAge \in {NEVER} \cup 0..PING_DELAY
  /\ frameWaiting \in BOOLEAN /\ ready \in BOOLEAN
  /\ accepted \in Seq(Messages) /\ finished \in Seq(Messages)
  /\ Len(accepted) <= MaxRequests
  /\ delivered \subseteq Numbers
  /\ failures \in [Numbers -> 0..(MAX_SEND_ERROR_CNT + 1)]

(* The messages leave the buffer in the order they were accepted in, each of *)
(* them once: a message that is refused again and again is not overtaken,    *)
(* none is overwritten when requests come faster than the bus takes them,    *)
(* and none is dropped when the connection is lost.  (cpp:591-711)           *)
SentInOrder == accepted = finished \o Contents(sendBuffer)

(* sendErrorCnt is the number of failed attempts of the front message, not   *)
(* of one that went before: every message has all its attempts.              *)
(* (cpp:694-710)                                                             *)
ErrorsAreOfFront ==
  sendErrorCnt = IF isEmpty(sendBuffer) THEN 0 ELSE failures[front(sendBuffer).number]

(* An accepted message that leaves the buffer was taken by the transport or  *)
(* refused MAX_SEND_ERROR_CNT + 1 times; the branch that discards long       *)
(* messages unsent is never taken.  (cpp:632-655, 694-710, 762-802)          *)
GivenUpOnlyAfterRetries ==
  \A k \in 1..Len(finished) :
    \/ finished[k].number \in delivered
    \/ failures[finished[k].number] = MAX_SEND_ERROR_CNT + 1

(* An accepted message leaves the buffer, sent or given up, unless the       *)
(* connection is lost: neither a transport that refuses every frame nor      *)
(* received frames and pings block the buffer for ever.  (cpp:48-63)         *)
QueueDrains ==
  \A n \in Numbers : (Len(accepted) >= n /\ ready) ~> (Len(finished) >= n \/ ~ready)

(* When a ping is due it is sent, unless the connection is lost.             *)
(* (cpp:48-63, 613-628)                                                      *)
PingGoesOut == (PingDue /\ ready) ~> (~PingDue \/ ~ready)
===============================================================================
