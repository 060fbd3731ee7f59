-------------------------- MODULE Hoval2KNXMapper_proofs --------------------------
(***************************************************************************)
(* Proofs about the mapper, for every table that meets TableAssumption and *)
(* ConversionAssumption.  The safety properties need little of the state;  *)
(* the type invariant needs that a group object only KNX sets holds a      *)
(* value that can be written, since a prerequisite may be sent at any time.*)
(***************************************************************************)
EXTENDS Hoval2KNXMapper, SequenceTheorems, TLAPS

(* What is kept in the group objects that only KNX sets can be written.      *)
KnxOnlyWritable ==
  \A k \in KnxOnly : groupObject[k] # NoValue => groupObject[k] \in Written(WriterOf(k))

Inv == TypeOK /\ KnxOnlyWritable /\ PrerequisiteFirst /\ IgnoringKeepKnxValue

-------------------------------------------------------------------------------
(* The table.                                                                *)

LEMMA EntriesOfKOs ==
  /\ \A i \in Entries : transformers[i].comObject \in KOs /\ transformers[i].type \in Types
  /\ KnxOnly \subseteq KOs
  BY DEF KOs, KnxOnly, Types

LEMMA TheWriter ==
  ASSUME NEW i \in Entries, CanWrite(i)
  PROVE  WriterOf(transformers[i].comObject) = i
<1>1. \E j \in Entries : transformers[j].comObject = transformers[i].comObject /\ CanWrite(j)
  OBVIOUS
<1>2. \A j \in Entries : transformers[j].comObject = transformers[i].comObject /\ CanWrite(j) => j = i
  BY TableAssumption
<1> QED BY <1>1, <1>2 DEF WriterOf

(* No update sets a group object of which an entry ignores updates.          *)
LEMMA KnxOnlyHasNoSetter ==
  ASSUME NEW k \in KnxOnly, NEW m PROVE SetterOf(k, m) = {}
<1>1. PICK i \in Entries : transformers[i].comObject = k /\ transformers[i].ignoreIncoming
  BY DEF KnxOnly
<1>2. \A j \in Entries : transformers[j].comObject = k => transformers[j].ignoreIncoming
  BY <1>1, TableAssumption
<1> QED BY <1>2 DEF SetterOf, Applied, Of

(* Values a group object can be given are values of the model.               *)
LEMMA WrittenIsKnxValue ==
  ASSUME NEW i \in Entries, CanWrite(i), NEW v \in Written(i) PROVE v \in KnxValues
  BY DEF KnxValues

LEMMA ConvertedIsKnxValue ==
  ASSUME NEW m \in Update, NEW i \in Applied(m) PROVE Converted(i, m) \in KnxValues
<1>1. i \in Entries /\ transformers[i].type = m.type
  BY DEF Applied, Of
<1>2. m.value \in DOMAIN transformers[i].toKnx
  BY <1>1, ConversionAssumption DEF Update
<1>3. Converted(i, m) \in Shown(i)
  BY <1>2 DEF Converted, Shown
<1> QED BY <1>1, <1>3 DEF KnxValues

LEMMA RawIsHovalValue ==
  ASSUME NEW t \in Types, NEW v \in RawValues(t) PROVE v \in HovalValues
  BY DEF HovalValues

(* A write request carries a value of its data point.                       *)
LEMMA RequestIsWriting ==
  ASSUME NEW i \in Entries, CanWrite(i), NEW v \in Written(i), NEW needed, NEW needs \in needed
  PROVE  writeRequest(i, v, needs) \in Writing(needed)
<1>1. transformers[i].toHoval[v] \in RawValues(transformers[i].type)
  BY ConversionAssumption
<1>2. transformers[i].type \in Types
  BY EntriesOfKOs
<1>3. transformers[i].toHoval[v] \in HovalValues
  BY <1>1, <1>2, RawIsHovalValue
<1> QED BY <1>1, <1>2, <1>3 DEF writeRequest, Writing

(* The send buffer never holds more than its size.                           *)
LEMMA QueuedType ==
  ASSUME sendBuffer \in Seq(Message), NEW messages \in Seq(Message)
  PROVE  Queued(messages) \in Seq(Message) /\ Len(Queued(messages)) <= SEND_BUFFER_SIZE
<1> DEFINE all == sendBuffer \o messages
           n   == IF Len(all) < SEND_BUFFER_SIZE THEN Len(all) ELSE SEND_BUFFER_SIZE
<1>1. all \in Seq(Message) /\ Len(all) \in Nat
  BY ConcatProperties
<1>2. n \in Nat /\ n <= Len(all) /\ n <= SEND_BUFFER_SIZE
  BY <1>1, MapperAssumption
<1>3. \A k \in 1..n : all[k] \in Message
  BY <1>1, <1>2, ElementOfSeq
<1> HIDE DEF n, all
<1>4. SubSeq(all, 1, n) \in Seq(Message) /\ Len(SubSeq(all, 1, n)) = IF 1 <= n THEN n - 1 + 1 ELSE 0
  BY <1>2, <1>3, SubSeqProperties
<1>5. Queued(messages) = SubSeq(all, 1, n)
  BY DEF Queued, all, n
<1> QED BY <1>2, <1>4, <1>5

-------------------------------------------------------------------------------
(* The order of messages in the send buffer.                                 *)

\* What has been said of the buffer, of any sequence of messages behind another one.
InOrder(messages, before) ==
  \A n \in DOMAIN messages :
    IsWrite(messages[n]) /\ messages[n].needs # NoValue =>
      messages[n].needs = IF n = 1 THEN before ELSE messages[n - 1]

(* Messages that are in order among themselves are queued in order, even     *)
(* when the rest of them is refused.                                         *)
LEMMA QueuedInOrder ==
  ASSUME sendBuffer \in Seq(Message), NEW before, InOrder(sendBuffer, before),
         NEW messages \in Seq(Message), InOrder(messages, NoValue)
  PROVE  InOrder(Queued(messages), before)
<1> DEFINE all == sendBuffer \o messages
           n   == IF Len(all) < SEND_BUFFER_SIZE THEN Len(all) ELSE SEND_BUFFER_SIZE
           b   == Len(sendBuffer)
<1>1. /\ all \in Seq(Message) /\ Len(all) = b + Len(messages)
      /\ b \in Nat /\ Len(messages) \in Nat
      /\ \A k \in 1 .. b : all[k] = sendBuffer[k]
      /\ \A k \in (b + 1) .. Len(all) : all[k] = messages[k - b]
  BY ConcatProperties
<1>2. n \in Nat /\ n <= Len(all)
  BY <1>1, MapperAssumption
<1>3. DOMAIN sendBuffer = 1 .. b /\ DOMAIN messages = 1 .. Len(messages)
  OBVIOUS
<1>4. Queued(messages) = SubSeq(all, 1, n)
  BY DEF Queued
<1> HIDE DEF all, n, b
<1>5. DOMAIN Queued(messages) = 1 .. n /\ \A k \in 1 .. n : Queued(messages)[k] = all[k]
  BY <1>1, <1>2, <1>4
<1> SUFFICES ASSUME NEW k \in 1 .. n, IsWrite(all[k]), all[k].needs # NoValue
             PROVE  all[k].needs = IF k = 1 THEN before ELSE all[k - 1]
  BY <1>2, <1>5 DEF InOrder
<1>6. CASE k <= b
  <2>1. all[k] = sendBuffer[k] /\ k \in DOMAIN sendBuffer
    BY <1>1, <1>2, <1>3, <1>6
  <2>2. k # 1 => all[k - 1] = sendBuffer[k - 1]
    BY <1>1, <1>2, <1>6
  <2> QED BY <2>1, <2>2 DEF InOrder
<1>7. CASE k > b
  <2>1. all[k] = messages[k - b] /\ k - b \in DOMAIN messages
    BY <1>1, <1>2, <1>3, <1>7
  <2>2. messages[k - b].needs = IF k - b = 1 THEN NoValue ELSE messages[k - b - 1]
    BY <2>1 DEF InOrder
  <2>3. k - b # 1 /\ messages[k - b].needs = messages[k - b - 1]
    BY <2>1, <2>2
  <2>4. k # 1 /\ k - 1 \in (b + 1) .. Len(all) /\ (k - 1) - b = k - b - 1
    BY <1>1, <1>2, <1>7, <2>3
  <2> QED BY <1>1, <2>1, <2>3, <2>4
<1> QED BY <1>1, <1>2, <1>6, <1>7

(* The front message leaves: the next one has just had it before it.         *)
LEMMA TailInOrder ==
  ASSUME sendBuffer \in Seq(Message), sendBuffer # <<>>, NEW before, InOrder(sendBuffer, before)
  PROVE  InOrder(Tail(sendBuffer), Leaving)
<1>1. /\ Len(Tail(sendBuffer)) = Len(sendBuffer) - 1 /\ Len(sendBuffer) \in Nat
      /\ DOMAIN Tail(sendBuffer) = 1 .. (Len(sendBuffer) - 1)
      /\ \A k \in 1 .. (Len(sendBuffer) - 1) : Tail(sendBuffer)[k] = sendBuffer[k + 1]
      /\ Head(sendBuffer) = sendBuffer[1]
      /\ DOMAIN sendBuffer = 1 .. Len(sendBuffer)
  BY HeadTailProperties
<1> SUFFICES ASSUME NEW k \in 1 .. (Len(sendBuffer) - 1), IsWrite(sendBuffer[k + 1]),
                    sendBuffer[k + 1].needs # NoValue
             PROVE  sendBuffer[k + 1].needs
                      = IF k = 1 THEN Leaving ELSE Tail(sendBuffer)[k - 1]
  BY <1>1 DEF InOrder
<1>2. sendBuffer[k + 1].needs = sendBuffer[k]
  <2>1. k + 1 \in DOMAIN sendBuffer /\ k + 1 # 1 /\ (k + 1) - 1 = k
    BY <1>1
  <2> QED BY <2>1 DEF InOrder
<1>3. CASE k = 1
  <2>1. Leaving = sendBuffer[1]
    BY <1>1, <1>3 DEF Leaving
  <2> QED BY <1>2, <1>3, <2>1
<1>4. CASE k # 1
  <2>1. k - 1 \in 1 .. (Len(sendBuffer) - 1) /\ (k - 1) + 1 = k
    BY <1>1, <1>4
  <2> QED BY <1>1, <1>2, <1>4, <2>1
<1> QED BY <1>3, <1>4

-------------------------------------------------------------------------------
(* The writes that one group object write leads to.                          *)

WriteOf == {w \in [entry : Entries, value : KnxValues] :
              CanWrite(w.entry) /\ w.value \in Written(w.entry)}

LEMMA WritesShape ==
  ASSUME NEW i \in Entries, CanWrite(i), NEW objects,
         objects[transformers[i].comObject] \in Written(i),
         \A k \in KnxOnly : objects[k] # NoValue => objects[k] \in Written(WriterOf(k))
  PROVE  /\ Writes(i, objects) \in Seq(WriteOf)
         /\ \A n \in DOMAIN Writes(i, objects) :
              LET w == Writes(i, objects)
                  p == transformers[w[n].entry].prerequisite
              IN  p # NoKO => /\ n > 1
                              /\ transformers[w[n - 1].entry].comObject = p
                              /\ transformers[w[n - 1].entry].prerequisite = NoKO
                              /\ w[n - 1].value = objects[p]
<1> DEFINE p     == transformers[i].prerequisite
           value == objects[transformers[i].comObject]
           own   == [entry |-> i, value |-> value]
           first == [entry |-> WriterOf(p), value |-> objects[p]]
<1>1. own \in WriteOf
  BY WrittenIsKnxValue DEF WriteOf
<1>2. ASSUME p # NoKO, objects[p] # NoValue
      PROVE  /\ first \in WriteOf
             /\ transformers[first.entry].comObject = p
             /\ transformers[first.entry].prerequisite = NoKO
  <2>1. PICK j \in Entries : /\ transformers[j].comObject = p /\ CanWrite(j)
                             /\ transformers[j].prerequisite = NoKO
                             /\ transformers[j].ignoreIncoming
    BY <1>2, TableAssumption
  <2>2. WriterOf(p) = j
    BY <2>1, TheWriter
  <2>3. objects[p] \in Written(j)
    BY <1>2, <2>1, <2>2 DEF KnxOnly
  <2>4. objects[p] \in KnxValues
    BY <2>1, <2>3, WrittenIsKnxValue
  <2> QED BY <2>1, <2>2, <2>3, <2>4 DEF WriteOf
<1>3. CASE Writes(i, objects) = <<>>
  BY <1>3
<1>4. CASE Writes(i, objects) = <<own>> /\ p = NoKO
  BY <1>1, <1>4
<1>5. CASE Writes(i, objects) = <<first, own>> /\ p # NoKO /\ objects[p] # NoValue
  <2>1. Writes(i, objects) \in Seq(WriteOf)
    BY <1>1, <1>2, <1>5
  <2>2. DOMAIN Writes(i, objects) = {1, 2}
    BY <1>5
  <2>3. transformers[first.entry].prerequisite = NoKO /\ transformers[first.entry].comObject = p
    BY <1>2, <1>5
  <2>4. Writes(i, objects)[1] = first /\ Writes(i, objects)[2] = own
    BY <1>5
  <2> HIDE DEF first
  <2> QED BY <2>1, <2>2, <2>3, <2>4 DEF first
<1>6. \/ Writes(i, objects) = <<>>
      \/ Writes(i, objects) = <<own>> /\ p = NoKO
      \/ Writes(i, objects) = <<first, own>> /\ p # NoKO /\ objects[p] # NoValue
  BY DEF Writes
<1> QED BY <1>3, <1>4, <1>5, <1>6

(* The messages of these writes: each with a prerequisite right behind it.   *)
LEMMA MessagesOfWrites ==
  ASSUME NEW writes \in Seq(WriteOf), NEW objects,
         \A n \in DOMAIN writes :
           LET p == transformers[writes[n].entry].prerequisite
           IN  p # NoKO => /\ n > 1
                           /\ transformers[writes[n - 1].entry].comObject = p
                           /\ transformers[writes[n - 1].entry].prerequisite = NoKO
                           /\ writes[n - 1].value = objects[p]
  PROVE  LET messages == [n \in DOMAIN writes |->
                            ToHoval(writes[n].entry, writes[n].value, objects)]
         IN  messages \in Seq(Message) /\ InOrder(messages, NoValue)
<1> DEFINE message(n) == ToHoval(writes[n].entry, writes[n].value, objects)
           messages   == [n \in DOMAIN writes |-> message(n)]
           p(n)       == transformers[writes[n].entry].prerequisite
<1>1. DOMAIN writes = 1 .. Len(writes) /\ Len(writes) \in Nat
  OBVIOUS
<1>2. \A n \in DOMAIN writes : /\ writes[n].entry \in Entries /\ CanWrite(writes[n].entry)
                                /\ writes[n].value \in Written(writes[n].entry)
  BY ElementOfSeq DEF WriteOf
<1>3. ASSUME NEW n \in DOMAIN writes, p(n) = NoKO
      PROVE  /\ message(n) = writeRequest(writes[n].entry, writes[n].value, NoValue)
             /\ message(n) \in Writing({NoValue})
             /\ message(n).needs = NoValue
  <2>1. message(n) = writeRequest(writes[n].entry, writes[n].value, NoValue)
    BY <1>3 DEF ToHoval
  <2>2. message(n) \in Writing({NoValue})
    BY <1>2, <2>1, RequestIsWriting
  <2>3. message(n).needs = NoValue
    BY <2>1 DEF writeRequest
  <2> QED BY <2>1, <2>2, <2>3
<1>4. ASSUME NEW n \in DOMAIN writes, p(n) # NoKO
      PROVE  /\ n > 1 /\ message(n).needs = message(n - 1)
             /\ message(n) \in Writing(Writing({NoValue}))
  <2>1. /\ n > 1 /\ transformers[writes[n - 1].entry].comObject = p(n)
        /\ p(n - 1) = NoKO /\ writes[n - 1].value = objects[p(n)]
    BY <1>4
  <2>2. n - 1 \in DOMAIN writes
    BY <1>1, <2>1
  <2>3. WriterOf(p(n)) = writes[n - 1].entry
    BY <1>2, <2>1, <2>2, TheWriter
  <2>4. /\ message(n - 1) = writeRequest(writes[n - 1].entry, writes[n - 1].value, NoValue)
        /\ message(n - 1) \in Writing({NoValue})
    BY <1>3, <2>1, <2>2
  <2>5. message(n) = writeRequest(writes[n].entry, writes[n].value, message(n - 1))
    BY <1>4, <2>1, <2>3, <2>4 DEF ToHoval
  <2> HIDE DEF message, p
  <2>6. message(n).needs = message(n - 1)
    BY <2>5 DEF writeRequest
  <2>7. message(n) \in Writing(Writing({NoValue}))
    BY <1>2, <2>4, <2>5, RequestIsWriting
  <2> QED BY <2>1, <2>6, <2>7
<1> HIDE DEF message, p
<1>5. \A n \in DOMAIN writes : message(n) \in Message
  BY <1>3, <1>4 DEF Message
<1>6. messages \in Seq(Message)
  BY <1>1, <1>5, IsASeq
<1>7. InOrder(messages, NoValue)
  <2> SUFFICES ASSUME NEW n \in DOMAIN writes, message(n).needs # NoValue
               PROVE  message(n).needs = IF n = 1 THEN NoValue ELSE messages[n - 1]
    BY DEF InOrder
  <2>1. p(n) # NoKO
    BY <1>3
  <2>2. n > 1 /\ message(n).needs = message(n - 1)
    BY <1>4, <2>1
  <2>3. n # 1 /\ n - 1 \in DOMAIN writes
    BY <1>1, <2>2
  <2> QED BY <2>2, <2>3
<1> QED BY <1>6, <1>7 DEF message

-------------------------------------------------------------------------------
(* The steps that matter.                                                    *)

LEMMA KnxWriteKeepsInv == Inv /\ KnxWrite => Inv'
<1> SUFFICES ASSUME Inv, NEW i \in Entries, CanWrite(i), NEW v \in Written(i),
                    sendToHovalBus(transformers[i].comObject, v)
             PROVE  Inv'
  BY DEF KnxWrite
<1> DEFINE k      == transformers[i].comObject
           writes == Writes(i, groupObject')
<1>1. k \in KOs /\ WriterOf(k) = i /\ v \in KnxValues /\ KnxOnly \subseteq KOs
  BY EntriesOfKOs, TheWriter, WrittenIsKnxValue
<1>2. /\ groupObject' \in [KOs -> KnxValues \cup {NoValue}]
      /\ groupObject'[k] = v /\ \A j \in KOs \ {k} : groupObject'[j] = groupObject[j]
  BY <1>1 DEF sendToHovalBus, Inv, TypeOK
<1>3. knxBus' \in [KOs -> KnxValues \cup {NoValue}]
  BY <1>1 DEF sendToHovalBus, Inv, TypeOK
<1>4. /\ writtenByKnx' \in [KnxOnly -> KnxValues \cup {NoValue}]
      /\ \A j \in KnxOnly : groupObject'[j] = writtenByKnx'[j]
  BY <1>1, <1>2 DEF sendToHovalBus, Inv, TypeOK, IgnoringKeepKnxValue
<1>5. \A j \in KnxOnly : groupObject'[j] # NoValue => groupObject'[j] \in Written(WriterOf(j))
  BY <1>1, <1>2 DEF Inv, KnxOnlyWritable
<1>6. /\ writes \in Seq(WriteOf)
      /\ \A n \in DOMAIN writes :
           LET p == transformers[writes[n].entry].prerequisite
           IN  p # NoKO => /\ n > 1
                           /\ transformers[writes[n - 1].entry].comObject = p
                           /\ transformers[writes[n - 1].entry].prerequisite = NoKO
                           /\ writes[n - 1].value = groupObject'[p]
  BY <1>1, <1>2, <1>5, WritesShape
<1> DEFINE messages == [n \in DOMAIN writes |->
                          ToHoval(writes[n].entry, writes[n].value, groupObject')]
<1>7. sendBuffer' = Queued(messages) /\ left' = left
  BY <1>1 DEF sendToHovalBus
<1>8. messages \in Seq(Message) /\ InOrder(messages, NoValue)
  <2> HIDE DEF writes
  <2> QED BY <1>6, MessagesOfWrites
<1>9. /\ sendBuffer' \in Seq(Message) /\ Len(sendBuffer') <= SEND_BUFFER_SIZE
      /\ PrerequisiteFirst'
  <2> HIDE DEF messages
  <2>1. InOrder(Queued(messages), left)
    BY <1>8, QueuedInOrder DEF Inv, TypeOK, PrerequisiteFirst, InOrder
  <2>2. PrerequisiteFirst'
    BY <1>7, <2>1 DEF PrerequisiteFirst, InOrder
  <2> QED BY <1>7, <1>8, <2>2, QueuedType DEF Inv, TypeOK
<1>10. lastValue' \in [Entries -> KnxValues \cup {NoValue}]
  <2> DEFINE stored == {n \in DOMAIN writes : transformers[writes[n].entry].ignoreIncoming}
  <2>1. \A n \in DOMAIN writes : writes[n].value \in KnxValues
    BY <1>6, ElementOfSeq DEF WriteOf
  <2>2. \A e \in Entries : (\E n \in stored : writes[n].entry = e)
          => writes[CHOOSE n \in stored : writes[n].entry = e].value \in KnxValues
    BY <2>1
  <2>3. lastValue' = [e \in Entries |->
              IF \E n \in stored : writes[n].entry = e
              THEN writes[CHOOSE n \in stored : writes[n].entry = e].value
              ELSE lastValue[e]]
    BY <1>1 DEF sendToHovalBus
  <2> HIDE DEF writes, stored
  <2> QED BY <2>2, <2>3 DEF Inv, TypeOK
<1>11. UNCHANGED <<config, lastSeen, requestDue, nextSendIndex, register, underWay, asked, left>>
  BY DEF sendToHovalBus, device
<1>12. TypeOK'
  BY <1>2, <1>3, <1>4, <1>9, <1>10, <1>11 DEF Inv, TypeOK, config
<1> QED BY <1>4, <1>5, <1>9, <1>12 DEF Inv, KnxOnlyWritable, IgnoringKeepKnxValue

LEMMA EventKeepsInv == Inv /\ Event => Inv'
<1> SUFFICES ASSUME Inv, NEW due, hovalEvent(due) PROVE Inv'
  BY DEF Event
<1> DEFINE m         == Head(underWay)
           setter(k) == CHOOSE i \in SetterOf(k, m) : TRUE
<1>1. m \in Update /\ Tail(underWay) \in Seq(Update)
  BY HeadTailProperties DEF hovalEvent, Inv, TypeOK
<1>2. ASSUME NEW k \in KOs, SetterOf(k, m) # {}
      PROVE  Converted(setter(k), m) \in KnxValues
  <2>1. setter(k) \in Applied(m)
    BY <1>2 DEF SetterOf
  <2> QED BY <1>1, <2>1, ConvertedIsKnxValue
<1>3. groupObject' = [k \in KOs |-> IF SetterOf(k, m) = {} THEN groupObject[k]
                                     ELSE Converted(setter(k), m)]
  BY DEF hovalEvent
<1>4. knxBus' = [k \in KOs |->
              IF SetterOf(k, m) # {} /\ Sent(setter(k), m, setter(k) \in due)
              THEN Converted(setter(k), m) ELSE knxBus[k]]
  BY DEF hovalEvent
<1>5. ASSUME NEW k \in KOs
      PROVE  groupObject'[k] \in KnxValues \cup {NoValue} /\ knxBus'[k] \in KnxValues \cup {NoValue}
  <2>1. knxBus[k] \in KnxValues \cup {NoValue} /\ groupObject[k] \in KnxValues \cup {NoValue}
    BY DEF Inv, TypeOK
  <2> HIDE DEF setter, m
  <2> QED BY <1>2, <1>3, <1>4, <2>1
<1>6. /\ groupObject' \in [KOs -> KnxValues \cup {NoValue}]
      /\ knxBus' \in [KOs -> KnxValues \cup {NoValue}]
  BY <1>3, <1>4, <1>5
<1>7. \A k \in KnxOnly : groupObject'[k] = groupObject[k]
  BY <1>3, KnxOnlyHasNoSetter, EntriesOfKOs
<1>8. lastValue' \in [Entries -> KnxValues \cup {NoValue}]
  <2>1. \A i \in Applied(m) : Converted(i, m) \in KnxValues
    BY <1>1, ConvertedIsKnxValue
  <2>2. lastValue' = [i \in Entries |->
              IF i \in Applied(m) /\ Changes(i, m)
              THEN Converted(i, m) ELSE lastValue[i]]
    BY DEF hovalEvent
  <2> HIDE DEF m
  <2> QED BY <2>1, <2>2 DEF Inv, TypeOK
<1>9. lastSeen' \in [Entries -> 0..requestInterval]
  <2>1. lastSeen' = [i \in Entries |-> IF i \in Of(m.type) THEN 0 ELSE lastSeen[i]]
    BY DEF hovalEvent
  <2>2. 0 \in 0..requestInterval
    BY MapperAssumption
  <2> HIDE DEF m
  <2> QED BY <2>1, <2>2 DEF Inv, TypeOK
<1>10. underWay' = Tail(underWay)
       /\ UNCHANGED <<config, requestDue, nextSendIndex, sendBuffer, register, asked, writtenByKnx, left>>
  BY DEF hovalEvent
<1>11. TypeOK'
  BY <1>1, <1>6, <1>8, <1>9, <1>10 DEF Inv, TypeOK, config
<1>12. PrerequisiteFirst'
  BY <1>10 DEF Inv, PrerequisiteFirst
<1>13. KnxOnlyWritable' /\ IgnoringKeepKnxValue'
  BY <1>7, <1>10 DEF Inv, KnxOnlyWritable, IgnoringKeepKnxValue
<1> QED BY <1>11, <1>12, <1>13 DEF Inv

-------------------------------------------------------------------------------
(* The others write no group object.                                         *)

LEMMA QuietStep ==
  ASSUME Inv, UNCHANGED <<groupObject, writtenByKnx>>, InOrder(sendBuffer', left'), TypeOK'
  PROVE  Inv'
  BY DEF Inv, PrerequisiteFirst, InOrder, KnxOnlyWritable, IgnoringKeepKnxValue

LEMMA StaysInOrder == Inv => InOrder(sendBuffer, left)
  BY DEF Inv, PrerequisiteFirst, InOrder

LEMMA TickKeepsInv == Inv /\ Tick => Inv'
<1> SUFFICES ASSUME Inv, Tick PROVE Inv'
  OBVIOUS
<1>1. ASSUME NEW i \in Entries PROVE lastSeen'[i] \in 0..requestInterval
  <2>1. lastSeen[i] \in 0..requestInterval
    BY DEF Inv, TypeOK
  <2>2. lastSeen'[i] = IF transformers[i].active /\ lastSeen[i] < requestInterval
                       THEN lastSeen[i] + 1 ELSE lastSeen[i]
    BY DEF Tick
  <2> QED BY <2>1, <2>2, MapperAssumption
<1>2. lastSeen' \in [Entries -> 0..requestInterval]
  BY <1>1 DEF Tick
<1>3. TypeOK'
  BY <1>2 DEF Inv, TypeOK, Tick, config, device, history
<1> QED BY <1>3, StaysInOrder, QuietStep DEF Tick, history

LEMMA TaskKeepsInv == Inv /\ task => Inv'
<1> SUFFICES ASSUME Inv, task PROVE Inv'
  OBVIOUS
<1> DEFINE request == [code |-> "READ_REQUEST", type |-> transformers[nextSendIndex].type]
<1>1. nextSendIndex \in Entries /\ next(nextSendIndex) \in Entries
  <2>1. nextSendIndex \in 1..Len(transformers) /\ Len(transformers) \in Nat \ {0}
    BY TableAssumption DEF Inv, TypeOK, Entries
  <2> QED BY <2>1 DEF Entries, next
<1>2. request \in Message /\ <<request>> \in Seq(Message)
  BY <1>1, EntriesOfKOs DEF Message
<1>3. Queued(<<request>>) \in Seq(Message) /\ Len(Queued(<<request>>)) <= SEND_BUFFER_SIZE
  BY <1>2, QueuedType DEF Inv, TypeOK
<1>4. [lastSeen EXCEPT ![nextSendIndex] = 0] \in [Entries -> 0..requestInterval]
  BY MapperAssumption DEF Inv, TypeOK
<1>5. TypeOK'
  BY <1>1, <1>3, <1>4 DEF Inv, TypeOK, task, config, device, history
<1>6. InOrder(sendBuffer', left')
  <2>1. <<request>> \in Seq(Message) /\ InOrder(<<request>>, NoValue)
    BY <1>2 DEF InOrder, IsWrite
  <2>2. InOrder(Queued(<<request>>), left)
    BY <2>1, StaysInOrder, QueuedInOrder DEF Inv, TypeOK
  <2>3. left' = left /\ (sendBuffer' = sendBuffer \/ sendBuffer' = Queued(<<request>>))
    BY DEF task, history
  <2> QED BY <2>2, <2>3, StaysInOrder
<1> QED BY <1>5, <1>6, QuietStep DEF task, history

LEMMA DeviceKeepsInv == Inv /\ (ChangeAny \/ ReportAny \/ Deliver \/ GiveUp \/ LoseUpdate) => Inv'
<1> SUFFICES ASSUME Inv PROVE ChangeAny \/ ReportAny \/ Deliver \/ GiveUp \/ LoseUpdate => Inv'
  OBVIOUS
<1>1. ASSUME NEW t \in Types, NEW v \in RawValues(t), Change(t, v) PROVE Inv'
  <2>1. v \in HovalValues
    BY RawIsHovalValue
  <2>2. TypeOK'
    BY <1>1, <2>1 DEF Inv, TypeOK, Change, config, mapper, history
  <2> QED BY <1>1, <2>2, StaysInOrder, QuietStep DEF Change, history
<1>2. ASSUME NEW t \in Types, Report(t) PROVE Inv'
  <2>1. [type |-> t, value |-> register[t]] \in Update
    BY DEF Inv, TypeOK, Update
  <2>2. underWay' \in Seq(Update)
    BY <1>2, <2>1 DEF Inv, TypeOK, Report
  <2>3. TypeOK'
    BY <1>2, <2>2 DEF Inv, TypeOK, Report, config, mapper, history
  <2> QED BY <1>2, <2>3, StaysInOrder, QuietStep DEF Report, history
<1>3. ASSUME sendBuffer # <<>>, sendBuffer' = Tail(sendBuffer), left' = Leaving
      PROVE  /\ sendBuffer' \in Seq(Message) /\ Len(sendBuffer') <= SEND_BUFFER_SIZE
             /\ Head(sendBuffer) \in Message /\ left' \in Message \cup {NoValue}
             /\ InOrder(sendBuffer', left')
  <2>1. /\ Head(sendBuffer) \in Message /\ Tail(sendBuffer) \in Seq(Message)
        /\ Len(Tail(sendBuffer)) = Len(sendBuffer) - 1 /\ Len(sendBuffer) \in Nat
    BY <1>3, HeadTailProperties DEF Inv, TypeOK
  <2>2. Len(Tail(sendBuffer)) <= SEND_BUFFER_SIZE
    BY <2>1, MapperAssumption DEF Inv, TypeOK
  <2>3. InOrder(Tail(sendBuffer), Leaving)
    BY <1>3, StaysInOrder, TailInOrder DEF Inv, TypeOK
  <2>4. Leaving \in Message \cup {NoValue}
    BY <2>1 DEF Leaving
  <2> QED BY <1>3, <2>1, <2>2, <2>3, <2>4
<1>4. ASSUME Deliver \/ GiveUp PROVE Inv'
  <2>1. /\ sendBuffer' \in Seq(Message) /\ Len(sendBuffer') <= SEND_BUFFER_SIZE
        /\ Head(sendBuffer) \in Message /\ left' \in Message \cup {NoValue}
        /\ InOrder(sendBuffer', left')
    BY <1>3, <1>4 DEF Deliver, GiveUp
  <2>2. /\ register' \in [Types -> HovalValues] /\ asked' \subseteq Types
        /\ \A t \in Types : register'[t] \in RawValues(t)
    <3>1. CASE GiveUp
      BY <3>1 DEF GiveUp, device, Inv, TypeOK
    <3>2. CASE Deliver
      <4>1. /\ Head(sendBuffer).type \in Types
            /\ Head(sendBuffer).code = "WRITE_REQUEST" =>
                 /\ Head(sendBuffer).value \in HovalValues
                 /\ Head(sendBuffer).value \in RawValues(Head(sendBuffer).type)
        BY <2>1 DEF Message, Writing
      <4> QED BY <3>2, <4>1 DEF Deliver, Inv, TypeOK
    <3> QED BY <1>4, <3>1, <3>2
  <2>3. UNCHANGED <<config, groupObject, mapper, underWay, bounds, knxBus, writtenByKnx>>
    BY <1>4 DEF Deliver, GiveUp, device
  <2>4. TypeOK'
    BY <2>1, <2>2, <2>3 DEF Inv, TypeOK, config, mapper
  <2> QED BY <2>1, <2>3, <2>4, QuietStep
<1>5. ASSUME LoseUpdate PROVE Inv'
  <2>1. Tail(underWay) \in Seq(Update)
    BY <1>5, HeadTailProperties DEF LoseUpdate, Inv, TypeOK
  <2>2. TypeOK'
    BY <1>5, <2>1 DEF Inv, TypeOK, LoseUpdate, config, mapper, history
  <2> QED BY <1>5, <2>2, StaysInOrder, QuietStep DEF LoseUpdate, history
<1> QED BY <1>1, <1>2, <1>4, <1>5 DEF ChangeAny, ReportAny

-------------------------------------------------------------------------------
LEMMA InitInv == Init => Inv
<1> SUFFICES ASSUME Init PROVE Inv
  OBVIOUS
<1>1. KnxOnly \subseteq KOs
  BY EntriesOfKOs
<1>2. /\ groupObject \in [KOs -> KnxValues \cup {NoValue}]
      /\ \A k \in KOs : groupObject[k] # NoValue => k \in KnxOnly /\ groupObject[k] \in Written(WriterOf(k))
      /\ knxBus = [k \in KOs |-> NoValue] /\ writtenByKnx = [k \in KnxOnly |-> groupObject[k]]
  BY DEF Init
<1>3. /\ lastValue \in [Entries -> KnxValues \cup {NoValue}]
      /\ lastSeen \in [Entries -> 0..requestInterval]
      /\ nextSendIndex \in Entries
  BY MapperAssumption, TableAssumption DEF Init, Entries
<1>4. /\ register \in [Types -> HovalValues] /\ \A t \in Types : register[t] \in RawValues(t)
      /\ requestDue \in BOOLEAN /\ asked \subseteq Types
  BY DEF Init
<1>5. /\ sendBuffer \in Seq(Message) /\ Len(sendBuffer) <= SEND_BUFFER_SIZE
      /\ underWay \in Seq(Update) /\ left = NoValue
      /\ everyChange \in BOOLEAN /\ repeats \in BOOLEAN
  BY MapperAssumption DEF Init
<1>6. writtenByKnx \in [KnxOnly -> KnxValues \cup {NoValue}]
  BY <1>1, <1>2
<1>7. TypeOK
  BY <1>2, <1>3, <1>4, <1>5, <1>6 DEF TypeOK
<1> QED BY <1>1, <1>2, <1>5, <1>7
    DEF Inv, KnxOnlyWritable, PrerequisiteFirst, IgnoringKeepKnxValue, Init

LEMMA NextInv == Inv /\ [Next]_vars => Inv'
<1>1. Inv /\ UNCHANGED vars => Inv'
  <2> SUFFICES ASSUME Inv, UNCHANGED vars PROVE Inv'
    OBVIOUS
  <2>1. TypeOK'
    BY DEF vars, config, mapper, device, bounds, history, Inv, TypeOK
  <2> QED BY <2>1, StaysInOrder, QuietStep DEF vars, history
<1> QED BY <1>1, KnxWriteKeepsInv, EventKeepsInv, TickKeepsInv, TaskKeepsInv, DeviceKeepsInv DEF Next

LEMMA InvAlways == Spec => []Inv
  BY InitInv, NextInv, PTL DEF Spec

-------------------------------------------------------------------------------
(* Every variable keeps its type, for every table; the send buffer does not  *)
(* overflow.  (Hoval2KNXMapper.cpp)                                          *)
THEOREM TypeCorrect == Spec => []TypeOK
<1>1. Inv => TypeOK BY DEF Inv
<1> QED BY <1>1, InvAlways, PTL

(* A value with a prerequisite is queued and sent only right behind it, with *)
(* the value meant for it, whatever is refused or given up.                  *)
(* (Hoval2KNXMapper.cpp:93-138, HovalProtocolDecoder.cpp:591-611, 701-710)   *)
THEOREM PrerequisitesComeFirst == Spec => []PrerequisiteFirst
<1>1. Inv => PrerequisiteFirst BY DEF Inv
<1> QED BY <1>1, InvAlways, PTL

(* Nothing overwrites what KNX wrote to the values sharing a register.       *)
(* (HovalMessageTransformer.h:272-274)                                       *)
THEOREM SharedValuesAreKept == Spec => []IgnoringKeepKnxValue
<1>1. Inv => IgnoringKeepKnxValue BY DEF Inv
<1> QED BY <1>1, InvAlways, PTL
===============================================================================
