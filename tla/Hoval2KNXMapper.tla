---------------------------- MODULE Hoval2KNXMapper ----------------------------
(***************************************************************************)
(* The mapper between KNX group objects and Hoval data points: updates     *)
(* from Hoval set group objects, writes to group objects become Hoval      *)
(* writes, and data points that were not heard of for requestInterval are  *)
(* polled.                                                                 *)
(*                                                                         *)
(* Around it: the send buffer of the protocol handler (a queue that        *)
(* refuses messages when full and may give one up), the Hoval device with  *)
(* its registers, and the updates it has sent and the gateway has not yet  *)
(* processed.  An update still under way may be older than a KNX write.    *)
(***************************************************************************)
EXTENDS Integers, Sequences, FiniteSets

CONSTANTS
  messageTransformers,  \* the table: a sequence of records [type, comObject,
                        \* prerequisite, ignoreIncoming, sendOnlyAsPrerequisite,
                        \* active, toKnx, toHoval]; the last two are functions
                        \* between raw and encoded values
  NoKO, NoInverse, NoValue,
  Configurations,       \* values of <<everyChange, repeats>>
  requestInterval,      \* in units of UPDATE_REQUEST_RATE_MS; 0: no polling
  SEND_BUFFER_SIZE,
  UnderWay,             \* bound: updates sent and not yet processed
  MaxKnxWrites,         \* bound: writes to group objects
  MaxChanges            \* bound: values the device changes by itself

transformers == messageTransformers   \* a definition, so that TLC evaluates it once

Entries     == 1..Len(transformers)
Types       == {transformers[i].type : i \in Entries}
KOs         == {transformers[i].comObject : i \in Entries}
KnxOnly     == {transformers[i].comObject : i \in {j \in Entries : transformers[j].ignoreIncoming}}
CanWrite(i) == transformers[i].toHoval # NoInverse

(* What the table of HovalMessageTransformer.h keeps to: an entry has a      *)
(* prerequisite only if it can be written, a prerequisite ignores updates    *)
(* and has none itself, a group object belongs to at most one entry that can *)
(* be written, and if one of its entries ignores updates, they all do.       *)
ASSUME TableAssumption ==
  /\ Len(transformers) \in Nat \ {0}
  /\ \A i \in Entries : transformers[i].prerequisite # NoKO =>
       /\ CanWrite(i)
       /\ \E j \in Entries : /\ transformers[j].comObject = transformers[i].prerequisite
                             /\ CanWrite(j) /\ transformers[j].prerequisite = NoKO
                             /\ transformers[j].ignoreIncoming
  /\ \A i, j \in Entries :
       CanWrite(i) /\ CanWrite(j) /\ transformers[i].comObject = transformers[j].comObject
         => i = j
  /\ \A i, j \in Entries :
       transformers[i].comObject = transformers[j].comObject
         => transformers[i].ignoreIncoming = transformers[j].ignoreIncoming

ASSUME MapperAssumption ==
  /\ Configurations \subseteq BOOLEAN \X BOOLEAN
  /\ requestInterval \in Nat \ {1}   \* an entry does not expire within the rate
  /\ SEND_BUFFER_SIZE \in Nat \ {0} /\ UnderWay \in Nat \ {0}
  /\ MaxKnxWrites \in Nat /\ MaxChanges \in Nat

WriterOf(ko) == CHOOSE i \in Entries : transformers[i].comObject = ko /\ CanWrite(i)

Of(t)        == {i \in Entries : transformers[i].type = t}
RawValues(t) == UNION {DOMAIN transformers[i].toKnx : i \in Of(t)}
HovalValues  == UNION {RawValues(t) : t \in Types}

\* What KNX can write to the group object of i, and what it can show.
Written(i) == DOMAIN transformers[i].toHoval
Shown(i)   == {transformers[i].toKnx[v] : v \in DOMAIN transformers[i].toKnx}
KnxValues  == UNION ({Shown(i) : i \in Entries} \cup {Written(i) : i \in {j \in Entries : CanWrite(j)}})

\* The entries of a data point show all of its values, and write no others.
ASSUME ConversionAssumption ==
  \A i \in Entries :
    /\ DOMAIN transformers[i].toKnx = RawValues(transformers[i].type)
    /\ CanWrite(i) => \A v \in Written(i) :
         transformers[i].toHoval[v] \in RawValues(transformers[i].type)

VARIABLES
  everyChange,      \* the parameter HVSendEveryChange
  repeats,          \* HVSendIntervalDelayTime is more than 0
  groupObject,      \* KO -> its value, NoValue until initialized
  lastValue,        \* entry -> last value stored by setLastValue, or NoValue
  lastSeen,         \* entry -> its age, counted up to requestInterval
  requestDue,       \* UPDATE_REQUEST_RATE_MS have passed since the last poll
  nextSendIndex,    \* the entry the next poll looks at
  sendBuffer,
  register,         \* of the device: type -> raw value
  underWay,         \* updates the device sent, oldest first
  asked,            \* data points the device has yet to answer a request for
  knxWrites, changes,
  \* history, no part of the program:
  knxBus,           \* KO -> last value KNX wrote, or was given to send, since the start
  writtenByKnx,     \* KO KNX alone may set -> value KNX wrote last
  left              \* message that left the send buffer last, NoValue once it is empty

config  == <<everyChange, repeats>>
mapper  == <<lastValue, lastSeen, requestDue, nextSendIndex>>
device  == <<register, underWay, asked>>
bounds  == <<knxWrites, changes>>
history == <<knxBus, writtenByKnx, left>>
vars    == <<config, groupObject, mapper, sendBuffer, device, bounds, history>>

\* After a restart the group objects only KNX sets may have been restored
\* from the flash memory; nothing else is kept.
Init ==
  /\ everyChange \in BOOLEAN /\ repeats \in BOOLEAN
  /\ <<everyChange, repeats>> \in Configurations
  /\ groupObject \in {f \in [KOs -> KnxValues \cup {NoValue}] :
       \A k \in KOs : f[k] # NoValue => k \in KnxOnly /\ f[k] \in Written(WriterOf(k))}
  /\ lastValue = [i \in Entries |-> NoValue]
  /\ lastSeen = [i \in Entries |-> 0]
  /\ requestDue = FALSE /\ nextSendIndex = 1
  /\ sendBuffer = <<>>
  /\ register \in {f \in [Types -> HovalValues] : \A t \in Types : f[t] \in RawValues(t)}
  /\ underWay = <<>> /\ asked = {}
  /\ knxWrites = 0 /\ changes = 0
  /\ knxBus = [k \in KOs |-> NoValue]
  /\ writtenByKnx = [k \in KnxOnly |-> groupObject[k]]
  /\ left = NoValue

-------------------------------------------------------------------------------
(* Around the mapper (external).                                             *)

\* A quarter of a second passes.  The main loop takes less than a millisecond:
\* since the last one it has come to task(), and the handler, which gives a
\* message up after 11 attempts, has emptied the send buffer.  The age of an
\* inactive entry is never read.
Tick ==
  /\ ~requestDue /\ sendBuffer = <<>>
  /\ requestDue' = TRUE
  /\ lastSeen' = [i \in Entries |-> IF transformers[i].active /\ lastSeen[i] < requestInterval
                                    THEN lastSeen[i] + 1 ELSE lastSeen[i]]
  /\ UNCHANGED <<config, groupObject, lastValue, nextSendIndex, sendBuffer, device, bounds, history>>

\* The device changes a value by itself.
Change(t, v) ==
  /\ changes < MaxChanges
  /\ changes' = changes + 1
  /\ register' = [register EXCEPT ![t] = v]
  /\ UNCHANGED <<config, groupObject, mapper, sendBuffer, underWay, asked, knxWrites, history>>

\* The device reports a value, asked or not.
Report(t) ==
  /\ Len(underWay) < UnderWay
  /\ underWay' = Append(underWay, [type |-> t, value |-> register[t]])
  /\ asked' = asked \ {t}
  /\ UNCHANGED <<config, groupObject, mapper, sendBuffer, register, bounds, history>>

Leaving == IF Len(sendBuffer) > 1 THEN Head(sendBuffer) ELSE NoValue

\* The front message of the send buffer reaches the device.
Deliver ==
  /\ sendBuffer # <<>>
  /\ sendBuffer' = Tail(sendBuffer)
  /\ LET m == Head(sendBuffer)
     IN  IF m.code = "WRITE_REQUEST"
         THEN register' = [register EXCEPT ![m.type] = m.value] /\ UNCHANGED asked
         ELSE asked' = asked \cup {m.type} /\ UNCHANGED register
  /\ left' = Leaving
  /\ UNCHANGED <<config, groupObject, mapper, underWay, bounds, knxBus, writtenByKnx>>

\* All its attempts failed.
GiveUp ==
  /\ sendBuffer # <<>>
  /\ sendBuffer' = Tail(sendBuffer)
  /\ left' = Leaving
  /\ UNCHANGED <<config, groupObject, mapper, device, bounds, knxBus, writtenByKnx>>

-------------------------------------------------------------------------------
(* To Hoval.                                                                 *)

\* Variant: without the test for a full buffer, the ring overwrites its oldest message.
QueuedOverOldest(messages) ==
  LET all == sendBuffer \o messages
  IN  SubSeq(all, IF Len(all) > SEND_BUFFER_SIZE THEN Len(all) - SEND_BUFFER_SIZE + 1 ELSE 1, Len(all))

\* Messages are refused once the buffer is full; nobody looks at the result.
Queued(messages) ==
  LET all == sendBuffer \o messages
  IN  SubSeq(all, 1, IF Len(all) < SEND_BUFFER_SIZE THEN Len(all) ELSE SEND_BUFFER_SIZE)

valueChanged(i, value) == lastValue[i] # value

writeRequest(i, value, needs) == [code  |-> "WRITE_REQUEST",
                                  type  |-> transformers[i].type,
                                  value |-> transformers[i].toHoval[value],
                                  needs |-> needs]

\* needs is history: the message of the prerequisite this one is to follow.
ToHoval(i, value, objects) ==
  LET p == transformers[i].prerequisite
  IN  writeRequest(i, value, IF p = NoKO THEN NoValue
                             ELSE writeRequest(WriterOf(p), objects[p], NoValue))

\* The entries a write to the group object of i makes the mapper write, in
\* order, with the values of the group objects.
Writes(i, objects) ==
  LET p     == transformers[i].prerequisite
      value == objects[transformers[i].comObject]
      own   == [entry |-> i, value |-> value]
  IN  IF transformers[i].sendOnlyAsPrerequisite \/ ~valueChanged(i, value) THEN <<>>
      ELSE IF p = NoKO THEN <<own>>
      ELSE IF objects[p] = NoValue THEN <<>>
      ELSE <<[entry |-> WriterOf(p), value |-> objects[p]], own>>

\* A telegram for the group object comes from the KNX bus.
sendToHovalBus(k, v) ==
  /\ knxWrites < MaxKnxWrites
  /\ knxWrites' = knxWrites + 1
  /\ groupObject' = [groupObject EXCEPT ![k] = v]
  /\ knxBus' = [knxBus EXCEPT ![k] = v]
  /\ writtenByKnx' = [j \in KnxOnly |-> IF j = k THEN v ELSE writtenByKnx[j]]
  /\ LET writes == Writes(WriterOf(k), groupObject')
         stored == {n \in DOMAIN writes : transformers[writes[n].entry].ignoreIncoming}
     IN  /\ sendBuffer' = Queued([n \in DOMAIN writes |->
                                    ToHoval(writes[n].entry, writes[n].value, groupObject')])
         /\ lastValue' = [e \in Entries |->
              IF \E n \in stored : writes[n].entry = e
              THEN writes[CHOOSE n \in stored : writes[n].entry = e].value
              ELSE lastValue[e]]
  /\ UNCHANGED <<config, lastSeen, requestDue, nextSendIndex, device, changes, left>>

next(i) == (i % Len(transformers)) + 1

\* Variant: stays at an entry that need not be asked for.
PollStuck ==
  /\ requestInterval # 0 /\ requestDue
  /\ requestDue' = FALSE
  /\ LET i == nextSendIndex
     IN  \/ /\ transformers[i].active /\ lastSeen[i] >= requestInterval
            /\ lastSeen' = [lastSeen EXCEPT ![i] = 0]
            /\ sendBuffer' = Queued(<<[code |-> "READ_REQUEST", type |-> transformers[i].type]>>)
         \/ /\ ~(transformers[i].active /\ lastSeen[i] >= requestInterval)
            /\ UNCHANGED <<lastSeen, sendBuffer>>
  /\ UNCHANGED <<config, groupObject, lastValue, nextSendIndex, device, bounds, history>>

\* Variant: marks the entry as seen and moves on without asking for it.
PollSilent ==
  /\ requestDue
  /\ requestDue' = FALSE
  /\ lastSeen' = [lastSeen EXCEPT ![nextSendIndex] = 0]
  /\ nextSendIndex' = next(nextSendIndex)
  /\ UNCHANGED <<config, groupObject, lastValue, sendBuffer, device, bounds, history>>

\* At most one poll per turn: the entry is asked for if it was not heard of
\* for the interval, and only otherwise the next one has its turn.  active:
\* its activeFunc and the transmit flag of its group object.
task ==
  /\ requestInterval # 0 /\ requestDue
  /\ requestDue' = FALSE
  /\ LET i == nextSendIndex
     IN  \/ /\ transformers[i].active /\ lastSeen[i] >= requestInterval
            /\ lastSeen' = [lastSeen EXCEPT ![i] = 0]
            /\ sendBuffer' = Queued(<<[code |-> "READ_REQUEST", type |-> transformers[i].type]>>)
            /\ UNCHANGED nextSendIndex
         \/ /\ ~(transformers[i].active /\ lastSeen[i] >= requestInterval)
            /\ nextSendIndex' = next(i)
            /\ UNCHANGED <<lastSeen, sendBuffer>>
  /\ UNCHANGED <<config, groupObject, lastValue, device, bounds, history>>

-------------------------------------------------------------------------------
(* From Hoval.                                                               *)

\* Variant: ignoreIncoming is not looked at.
AppliedAll(m) == Of(m.type)

\* The entries an update is applied to.
Applied(m) == {i \in Of(m.type) : ~transformers[i].ignoreIncoming}

Converted(i, m) == transformers[i].toKnx[m.value]

Changes(i, m) == Converted(i, m) # groupObject[transformers[i].comObject]

\* Variant: the send interval only holds back changes.
SentWhenChanged(i, m, due) == Changes(i, m) /\ (everyChange \/ due)

\* internalSendToKnx: a change is sent if that is configured, and any value once
\* the send interval of the entry is over.
Sent(i, m, due) == (Changes(i, m) /\ everyChange) \/ due

\* The applied entry that sets the group object, if there is one.
SetterOf(k, m) == {i \in Applied(m) : transformers[i].comObject = k}

\* An update of the device is processed.  due: entries whose interval is over.
hovalEvent(due) ==
  /\ underWay # <<>>
  /\ underWay' = Tail(underWay)
  /\ LET m == Head(underWay)
         setter(k) == CHOOSE i \in SetterOf(k, m) : TRUE
     IN  /\ groupObject' = [k \in KOs |-> IF SetterOf(k, m) = {} THEN groupObject[k]
                                          ELSE Converted(setter(k), m)]
         /\ knxBus' = [k \in KOs |->
              IF SetterOf(k, m) # {} /\ Sent(setter(k), m, setter(k) \in due)
              THEN Converted(setter(k), m) ELSE knxBus[k]]
         /\ lastValue' = [i \in Entries |->
              IF i \in Applied(m) /\ Changes(i, m)
              THEN Converted(i, m) ELSE lastValue[i]]
         /\ lastSeen' = [i \in Entries |-> IF i \in Of(m.type) THEN 0 ELSE lastSeen[i]]
  /\ UNCHANGED <<config, requestDue, nextSendIndex, sendBuffer, register, asked, bounds, writtenByKnx, left>>

\* It was lost before the mapper saw it.
LoseUpdate ==
  /\ underWay # <<>>
  /\ underWay' = Tail(underWay)
  /\ UNCHANGED <<config, groupObject, mapper, sendBuffer, register, asked, bounds, history>>

-------------------------------------------------------------------------------
KnxWrite  == \E i \in {j \in Entries : CanWrite(j)} :
               \E v \in Written(i) : sendToHovalBus(transformers[i].comObject, v)
\* The entries whose send interval may be over when the update is processed.
Dues      == IF repeats THEN SUBSET Applied(Head(underWay)) ELSE {{}}
Event     == underWay # <<>> /\ \E due \in Dues : hovalEvent(due)
ChangeAny == \E t \in Types : \E v \in RawValues(t) : Change(t, v)
ReportAny == \E t \in Types : Report(t)
Answer(t) == t \in asked /\ Report(t)
Heard(i)  == /\ underWay # <<>> /\ i \in Applied(Head(underWay))
             /\ \E due \in Dues : (repeats => i \in due) /\ hovalEvent(due)

Next == \/ Tick \/ ChangeAny \/ ReportAny \/ Deliver \/ GiveUp
        \/ KnxWrite \/ task \/ Event \/ LoseUpdate

Spec == Init /\ [][Next]_vars

\* Time passes, and the main loop comes back to task(); the device answers; of
\* the messages of a data point sent again and again in either direction not
\* all are lost.  The send interval of an entry, once over, stays so until an
\* update of the entry is processed, which therefore finds it over.
Fairness ==
  /\ WF_vars(Tick) /\ WF_vars(task)
  /\ \A t \in Types : /\ SF_vars(Answer(t))
                      /\ SF_vars(sendBuffer # <<>> /\ Head(sendBuffer).type = t /\ Deliver)
  /\ \A i \in {j \in Entries : transformers[j].active} : SF_vars(Heard(i))

FairSpec == Spec /\ Fairness

-------------------------------------------------------------------------------
(* Properties.                                                               *)

Update == {u \in [type : Types, value : HovalValues] : u.value \in RawValues(u.type)}
Writing(needed) ==
  {m \in [code : {"WRITE_REQUEST"}, type : Types, value : HovalValues, needs : needed] :
     m.value \in RawValues(m.type)}
Message == [code : {"READ_REQUEST"}, type : Types]
             \cup Writing({NoValue}) \cup Writing(Writing({NoValue}))

(* Every variable keeps its type; what is under way in either direction is a *)
(* value of its own data point.  (Hoval2KNXMapper.h, Hoval2KNXMapper.cpp)    *)
TypeOK ==
  /\ everyChange \in BOOLEAN /\ repeats \in BOOLEAN
  /\ groupObject \in [KOs -> KnxValues \cup {NoValue}]
  /\ lastValue \in [Entries -> KnxValues \cup {NoValue}]
  /\ lastSeen \in [Entries -> 0..requestInterval]
  /\ requestDue \in BOOLEAN
  /\ nextSendIndex \in Entries
  /\ sendBuffer \in Seq(Message) /\ Len(sendBuffer) <= SEND_BUFFER_SIZE
  /\ register \in [Types -> HovalValues]
  /\ \A t \in Types : register[t] \in RawValues(t)
  /\ underWay \in Seq(Update)
  /\ asked \subseteq Types
  /\ knxBus \in [KOs -> KnxValues \cup {NoValue}]
  /\ writtenByKnx \in [KnxOnly -> KnxValues \cup {NoValue}]
  /\ left \in Message \cup {NoValue}

IsWrite(m) == m.code = "WRITE_REQUEST"

(* Whatever is refused, delivered or given up, a value with a prerequisite   *)
(* is in the send buffer only behind its prerequisite, with the value the    *)
(* prerequisite's group object had at the time of the write; once it is at   *)
(* the front, that very message was the last one to leave.  No request, no   *)
(* other mode's prerequisite and no message of a later write comes between   *)
(* the two.  (Hoval2KNXMapper.cpp:93-138, HovalProtocolDecoder.cpp:591-611)  *)
PrerequisiteFirst ==
  \A n \in DOMAIN sendBuffer :
    IsWrite(sendBuffer[n]) /\ sendBuffer[n].needs # NoValue =>
      sendBuffer[n].needs = IF n = 1 THEN left ELSE sendBuffer[n - 1]

(* The group objects that share one register of the device keep what KNX     *)
(* wrote to them: no update of the register, and no write of the other one   *)
(* that comes back as an update, overwrites them.                            *)
(* (HovalMessageTransformer.h:272-274, Hoval2KNXMapper.cpp:71-77)            *)
IgnoringKeepKnxValue ==
  \A k \in KnxOnly : groupObject[k] = writtenByKnx[k]

(* Every active entry is heard of or asked for again and again, although the *)
(* poll stays at an entry it has asked for.  (Hoval2KNXMapper.cpp:11-33)     *)
EveryEntryIsPolled ==
  \A i \in Entries : transformers[i].active => []<>(lastSeen[i] < requestInterval)

Agrees(i) == groupObject[transformers[i].comObject]
               = transformers[i].toKnx[register[transformers[i].type]]

(* Once nobody changes anything any more, the group objects come to show     *)
(* what the device holds: a refused or lost write, an update that was older  *)
(* than a write, a lost update, all are made good by polling.                *)
(* (Hoval2KNXMapper.cpp:11-33, 64-86, 140-164)                               *)
ShowsDeviceInTheEnd ==
  <>[](\A i \in Entries :
         ~transformers[i].ignoreIncoming /\ (\E j \in Of(transformers[i].type) : transformers[j].active)
           => Agrees(i))

(* KNX comes to be shown what the device holds as well, in each              *)
(* configuration that sends at all: also when changes are not sent, after a  *)
(* restart, and after an update older than a KNX write overwrote the group   *)
(* object behind KNX's back.                                                 *)
(* (Hoval2KNXMapper.cpp:140-164, HovalMessageTransformer.h:166-188)          *)
KnxIsShownDevice ==
  <>[](\A i \in Entries :
         (everyChange \/ repeats) /\ ~transformers[i].ignoreIncoming /\ transformers[i].active
           => knxBus[transformers[i].comObject]
                = transformers[i].toKnx[register[transformers[i].type]])

(* "Last encoded KNX value received from Hoval" (Hoval2KNXMapper.h:30), "the *)
(* last value received from Hoval" (Hoval2KNXMapper.cpp:175): after an       *)
(* update was applied, lastValue is the value it brought.                    *)
LastValueIsLastReceived ==
  [][Event => \A i \in Applied(Head(underWay)) :
                lastValue'[i] = Converted(i, Head(underWay))]_vars
===============================================================================
