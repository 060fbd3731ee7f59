------------------------------ MODULE HovalReceive ------------------------------
(***************************************************************************)
(* The receiving half of HovalProtocolHandler: CAN frames in, Hoval        *)
(* messages out.  Multi-part messages are put together in messageStack, an *)
(* array of RECEIVE_STACK_SIZE partly received messages that are found by  *)
(* their one-byte message id alone.                                        *)
(*                                                                         *)
(* The bus is the environment: it hands over any frame of any message of   *)
(* Sent, in any order, any number of times, or never (frames are lost when *)
(* the receive buffer overflows, repeated and interleaved by the devices), *)
(* and the malformed frames of Odd.  The bytes of a part are abstracted to *)
(* its name <<message, number>>; lengths are kept, because the checks of   *)
(* the code are about lengths.                                             *)
(***************************************************************************)
EXTENDS Integers, Sequences, FiniteSets

CONSTANTS
  RECEIVE_STACK_SIZE,
  MAX_AGE,        \* 1000 ms in the program; an entry idle for longer expires
  Sent,           \* messages on the bus: [name, id, parts, tail, known, data]
  Odd,            \* further frames no well-formed message contains
  nullptr

MAX_MESSAGE_LENGTH             == 8
SINGLE_MESSAGE_HEADER_LENGTH   == 6
FIRST_MESSAGE_MAX_BODY_LENGTH  == 1
FOLLOW_MESSAGE_HEADER_LENGTH   == 1
FOLLOW_MESSAGE_MAX_BODY_LENGTH == 7

Slots == 0 .. (RECEIVE_STACK_SIZE - 1)

uint8(n) == n % 256

-------------------------------------------------------------------------------
(* Frames.  index counts down from 31; a message of one part is a single     *)
(* message (count 0 in its header), its tail is the length of its payload.   *)
(* known: the type is in the filter table.  data: one of the function codes  *)
(* the handler decodes.                                                      *)

FrameOf(m, k) ==
  [first  |-> k = 1,
   last   |-> k = m.parts,
   index  |-> 32 - k,
   id     |-> m.id,
   count  |-> IF m.parts = 1 THEN 0 ELSE m.parts,
   length |-> IF m.parts = 1 THEN SINGLE_MESSAGE_HEADER_LENGTH + m.tail
              ELSE IF k = m.parts THEN FOLLOW_MESSAGE_HEADER_LENGTH + m.tail
              ELSE MAX_MESSAGE_LENGTH,
   known  |-> m.known,
   data   |-> m.data,
   part   |-> <<m.name, k>>]

BusFrames == (UNION {{FrameOf(m, k) : k \in 1..m.parts} : m \in Sent}) \cup Odd
PartNames == {f.part : f \in BusFrames}

WholeBody(m) == [k \in 1..m.parts |-> <<m.name, k>>]

ASSUME StackAssumption == RECEIVE_STACK_SIZE \in Nat \ {0} /\ MAX_AGE \in Nat

\* A message has up to 31 parts (5 bits) and a name of its own.
ASSUME SentAssumption ==
  \A m \in Sent :
    /\ m.id \in 0..255 /\ m.parts \in 1..31
    /\ m.tail \in IF m.parts = 1 THEN 0..2 ELSE 1..7
    /\ m.known \in BOOLEAN /\ m.data \in BOOLEAN
    /\ \A n \in Sent : n.name = m.name => n = m

\* Any other frame, of a name of its own; a single message the handler takes
\* belongs in Sent.
ASSUME OddAssumption ==
  \A f \in Odd :
    /\ f.first \in BOOLEAN /\ f.last \in BOOLEAN /\ f.known \in BOOLEAN /\ f.data \in BOOLEAN
    /\ f.index \in 0..31 /\ f.id \in 0..255 /\ f.count \in 0..31 /\ f.length \in 0..8
    /\ \A m \in Sent : f.part[1] # m.name
    /\ \A g \in Odd : f.part[1] = g.part[1] => f = g
    /\ ~(f.first /\ f.last /\ f.index # 0 /\ f.count = 0 /\ f.data /\ f.known /\ f.length >= 6)

\* Partly received messages.
Messages == [id : 0..255, maxBodyLength : 8..255, messageBodyLength : 1..255,
             body : Seq(PartNames), dynamic : BOOLEAN]

ASSUME NullAssumption == nullptr \notin Messages

-------------------------------------------------------------------------------
VARIABLES
  messageStack,   \* slot -> partly received message, or nullptr
  age,            \* slot -> millis() - messageStackLastUsed, counted up to
                  \* MAX_AGE + 1; 0 for a free slot, whose age is never read
  live,           \* HovalMessage objects allocated and not deleted
  \* history, no part of the program:
  processed,      \* body the last frame made processMessage() see, or <<>>
  crcRejected,    \* body the last frame made validateCrc() turn down, or <<>>
  progress        \* message -> parts received, each once, in order, undisturbed

stack   == <<messageStack, age>>
outcome == <<processed, crcRejected>>
vars    == <<stack, live, outcome, progress>>

Init ==
  /\ messageStack = [i \in Slots |-> nullptr]
  /\ age = [i \in Slots |-> 0]
  /\ live = 0
  /\ processed = <<>> /\ crcRejected = <<>>
  /\ progress = [m \in Sent |-> 0]

\* Time passes (external).
Tick ==
  /\ age' = [i \in Slots |-> IF messageStack[i] # nullptr /\ age[i] <= MAX_AGE
                             THEN age[i] + 1 ELSE age[i]]
  /\ UNCHANGED <<messageStack, live, outcome, progress>>

-------------------------------------------------------------------------------
(* The receive stack.                                                        *)

\* The first slot that is free or has expired; with none, the oldest entry.
slotToUse(st) ==
  LET usable == {i \in Slots : st[i] = nullptr \/ age[i] > MAX_AGE}
      oldest == {i \in Slots : \A j \in Slots : age[i] >= age[j]}
      from   == IF usable # {} THEN usable ELSE oldest
  IN  CHOOSE i \in from : \A j \in from : i <= j

\* The slots whose message has the id; pop takes the first of them.
slotsWithId(id) == {i \in Slots : messageStack[i] # nullptr /\ messageStack[i].id = id}
slotWithId(id)  == CHOOSE i \in slotsWithId(id) : \A j \in slotsWithId(id) : i <= j

\* Variant: the evicted message is not deleted.
pushWithoutDelete(st, message, held) ==
  LET i == slotToUse(st)
  IN  /\ messageStack' = [st EXCEPT ![i] = message]
      /\ age' = [age EXCEPT ![i] = 0]
      /\ live' = held

\* st: the stack the push starts from; held: objects allocated at that point.
\* The message evicted from the slot, if any, is deleted.
pushToReceiveStack(st, message, held) ==
  LET i == slotToUse(st)
  IN  /\ messageStack' = [st EXCEPT ![i] = message]
      /\ age' = [age EXCEPT ![i] = 0]
      /\ live' = held - (IF st[i] = nullptr THEN 0 ELSE 1)

popped(i) == [messageStack EXCEPT ![i] = nullptr]

-------------------------------------------------------------------------------
(* What a message object does.                                               *)

newMessage(id, maxBodyLength, dynamic) ==
  [id |-> id, maxBodyLength |-> maxBodyLength, messageBodyLength |-> 0,
   body |-> <<>>, dynamic |-> dynamic]

addToBody(message, part, length) ==
  IF message.messageBodyLength + length > message.maxBodyLength THEN message
  ELSE [message EXCEPT !.messageBodyLength = @ + length, !.body = Append(@, part)]

\* What the CRC check may answer.  A body of at most two bytes is not checked, and
\* the body of a whole message agrees with its CRC; of any other nothing is assumed,
\* since 16 bits may agree by chance.
validateCrc(message) ==
  IF message.messageBodyLength <= 2 \/ \E m \in Sent : message.body = WholeBody(m)
  THEN {TRUE} ELSE BOOLEAN

-------------------------------------------------------------------------------
(* The handlers.  log: both switches that make the handler log filtered      *)
(* messages are on; the console commands turn them at any time.              *)

NoOutcome == processed' = <<>> /\ crcRejected' = <<>>

\* Nothing is kept of the frame.
Ignored == NoOutcome /\ UNCHANGED <<stack, live>>

onSingleMessage(f) ==
  IF f.count = 0 /\ f.data /\ f.length >= SINGLE_MESSAGE_HEADER_LENGTH /\ f.known
  THEN \* allocated, processed and deleted again
       /\ processed' = <<f.part>> /\ crcRejected' = <<>>
       /\ UNCHANGED <<stack, live>>
  ELSE Ignored

onMultiPartMessageStart(f, log) ==
  IF /\ f.length = MAX_MESSAGE_LENGTH
     /\ f.count > 1
     /\ f.data
     /\ f.known \/ log
  THEN LET room == uint8(FIRST_MESSAGE_MAX_BODY_LENGTH
                           + (f.count - 1) * FOLLOW_MESSAGE_MAX_BODY_LENGTH)
           message == addToBody(newMessage(f.id, room, ~f.known),
                                f.part, FIRST_MESSAGE_MAX_BODY_LENGTH)
       IN  /\ pushToReceiveStack(messageStack, message, live + 1)
           /\ NoOutcome
  ELSE Ignored

\* Variant: counts follow-up frames from 0 where the code counts from 1.
offsetByOne(f) ==
  uint8((31 - f.index) * FOLLOW_MESSAGE_MAX_BODY_LENGTH + FIRST_MESSAGE_MAX_BODY_LENGTH)

offsetOf(f) ==
  uint8((31 - f.index - 1) * FOLLOW_MESSAGE_MAX_BODY_LENGTH + FIRST_MESSAGE_MAX_BODY_LENGTH)

payloadLengthOf(f) == uint8(f.length - FOLLOW_MESSAGE_HEADER_LENGTH)

\* Variant: the frame number is not compared with what was received so far.
fitsAnywhere(f, message) ==
  /\ message.messageBodyLength + payloadLengthOf(f) <= message.maxBodyLength
  /\ f.last \/ f.length = MAX_MESSAGE_LENGTH

\* The three checks that a follow-up frame continues the message.
fits(f, message) ==
  /\ offsetOf(f) + payloadLengthOf(f) <= message.maxBodyLength
  /\ offsetOf(f) = message.messageBodyLength
  /\ f.last \/ f.length = MAX_MESSAGE_LENGTH

\* Variant: a last frame ends the message wherever it comes.
countUnchecked(message) == TRUE

countMatches(message) ==
  message.maxBodyLength - message.messageBodyLength <= FOLLOW_MESSAGE_MAX_BODY_LENGTH

\* Variant: the destructor runs twice.
DropFromTwice(i) ==
  /\ messageStack' = popped(i)
  /\ age' = [age EXCEPT ![i] = 0]
  /\ live' = live - 2

\* The popped message is deleted, whatever was made of it.
DropFrom(i) ==
  /\ messageStack' = popped(i)
  /\ age' = [age EXCEPT ![i] = 0]
  /\ live' = live - 1

Complete(i, message) ==
  /\ DropFrom(i)
  /\ \E valid \in validateCrc(message) :
       /\ processed' = IF countMatches(message) /\ valid /\ ~message.dynamic
                       THEN message.body ELSE <<>>
       /\ crcRejected' = IF countMatches(message) /\ ~valid THEN message.body ELSE <<>>

onMultiPartMessageCont(f) ==
  IF slotsWithId(f.id) = {} THEN Ignored
  ELSE LET i       == slotWithId(f.id)
           message == addToBody(messageStack[i], f.part, payloadLengthOf(f))
       IN  IF ~fits(f, messageStack[i])
           THEN DropFrom(i) /\ NoOutcome
           ELSE IF f.last THEN Complete(i, message)
           ELSE /\ pushToReceiveStack(popped(i), message, live)
                /\ NoOutcome

onMultiPartMessage(f, log) ==
  IF f.index = 0 THEN Ignored
  ELSE IF f.first THEN onMultiPartMessageStart(f, log)
  ELSE onMultiPartMessageCont(f)

onMessageReceived(f, log) ==
  IF f.first /\ f.last
  THEN IF f.index = 0 THEN Ignored ELSE onSingleMessage(f)
  ELSE onMultiPartMessage(f, log)

-------------------------------------------------------------------------------
(* History.  The reception of m goes on undisturbed from its first part, if  *)
(* no message with its id is on the stack then, while its parts come in      *)
(* order, its entry is not evicted and no other frame carries its id.        *)

InProgress(m) == progress[m] \in 1..(m.parts - 1)
Holds(st, m)  == \E i \in Slots : st[i] # nullptr /\ st[i].body[1] = <<m.name, 1>>

Record(f) ==
  progress' = [m \in Sent |->
    IF f.part[1] = m.name
    THEN IF f = FrameOf(m, 1) THEN (IF slotsWithId(m.id) = {} THEN 1 ELSE 0)
         ELSE IF InProgress(m) /\ f = FrameOf(m, progress[m] + 1) THEN progress[m] + 1
         ELSE 0
    ELSE IF InProgress(m) /\ f.id # m.id /\ Holds(messageStack', m) THEN progress[m]
    ELSE 0]

Receive(f, log) == onMessageReceived(f, log) /\ Record(f)

Next == Tick \/ \E f \in BusFrames, log \in BOOLEAN : Receive(f, log)

Spec == Init /\ [][Next]_vars

-------------------------------------------------------------------------------
(* Properties.                                                               *)

TypeOK ==
  /\ messageStack \in [Slots -> Messages \cup {nullptr}]
  /\ \A i \in Slots : messageStack[i] # nullptr =>
       /\ messageStack[i].messageBodyLength <= messageStack[i].maxBodyLength
       /\ messageStack[i].body # <<>>
  /\ age \in [Slots -> 0..(MAX_AGE + 1)]
  /\ live \in 0..RECEIVE_STACK_SIZE

(* Between two frames exactly the messages on the stack are allocated: every *)
(* path of the handlers, those that give up included, deletes what it        *)
(* popped, evicted or created, once.  (cpp:98-158, 349-551)                  *)
NoLeak == live = Cardinality({i \in Slots : messageStack[i] # nullptr})

\* The messages that the parts of a body belong to.
Names(body) == {body[k][1] : k \in DOMAIN body}

\* It was begun by the first part of a message of the filter table, which announced
\* at most one part more than there are.
BegunAsKnown(body) ==
  \E f \in BusFrames : /\ f.first /\ f.data /\ f.known /\ f.part = body[1]
                        /\ Len(body) >= f.count - 1

\* Every other part was sent as the part of its place.
InPlace(body) ==
  \A k \in 2 .. Len(body) :
    \E f \in BusFrames : ~f.first /\ f.part = body[k] /\ f.index = 32 - k

WholeOrMixed(body) ==
  (\E m \in Sent : body = WholeBody(m)) \/ Cardinality(Names(body)) > 1

(* What is processed is a whole message of one sender, even if the CRC of    *)
(* every wrong body agreed by chance, except where ids collide; and then it  *)
(* still is of a known type, each part is at its place, and at most one part *)
(* is missing at its end.  Parts lost, repeated, reordered, left over from   *)
(* an unfinished message or kept through a reconnect make no other body.     *)
(* (cpp:349-551, HovalMessage.cpp:66-73)                                     *)
ProcessedInPlace ==
  processed # <<>> =>
    BegunAsKnown(processed) /\ InPlace(processed) /\ WholeOrMixed(processed)

(* Loss, repetition and reordering of the parts of one message are all       *)
(* caught by the length and offset checks: the CRC is only ever needed       *)
(* against parts of different messages with one id.  (cpp:473-512)           *)
CrcOnlyForCollisions ==
  crcRejected # <<>> => Cardinality(Names(crcRejected)) > 1

(* A message is lost only for a reason: when its parts came in order, its    *)
(* entry was not evicted and no other frame used its id, everything received *)
(* so far is on the stack, and its last part makes the handler process it,   *)
(* if its type is known.  (cpp:98-158, 349-551)                              *)
LostOnlyForAReason ==
  \A m \in Sent : m.data /\ m.parts > 1 /\ m.known =>
    /\ InProgress(m) => \E i \in Slots :
         /\ messageStack[i] # nullptr
         /\ messageStack[i].body = SubSeq(WholeBody(m), 1, progress[m])
    /\ progress[m] = m.parts => processed = WholeBody(m)

(* "Check if expected message size matches actual" (HovalProtocolDecoder.    *)
(* cpp:507): a body that reaches the CRC check has as many parts as its      *)
(* first part announced.                                                     *)
CountMatchesBeforeCrc ==
  crcRejected # <<>> =>
    \E m \in Sent : crcRejected[1] = <<m.name, 1>> /\ Len(crcRejected) = m.parts
===============================================================================
