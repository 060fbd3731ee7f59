# The KNX to Hoval gateway in TLA+

The gateway connects a Hoval ventilation unit or heat pump, which speaks its own
protocol on a CAN bus, with a KNX installation.  It runs on an RP2040 board with
an MCP2515 CAN controller, as a module (`lib/OFM-HovalGateway`) of the OpenKNX
framework.  This directory holds TLA+ models of its core, the TLC runs that check
them and TLAPS proofs about them.

File names without a directory are those of `lib/OFM-HovalGateway/src/`.

## The system

| Part | Source | State | Operations |
|---|---|---|---|
| Main loop | `HovalGatewayModule` | `ready`, `lastReconnectTry`, `lastHeartbeat`, `loopCount`, `canErrorCount`, `lastCanError`; group objects *online* and *diagnose* | `loop`, `checkActive`, `checkCanError`, `connect`, `processInputKo`, flash memory |
| CAN transport | `transport/Mcp2515IsrCanTransport`, `CanTransport.h` | `rxBuffer`, `droppedMessageCount`, `s_instance`, `started` | `onInterrupt` (interrupt), `begin`, `start`, `stop`, `receive`, `send`, `checkErrors` |
| Ring buffer | `SimpleRingBuffer.h` | two positions, no count | `offer`, `push`, `beginPush`/`endPush`, `pop`, `peek` |
| Protocol handler, receiving | `HovalProtocolDecoder`, `HovalMessage` | `messageStack`, an array of partly received messages, with ages | `onMessageReceived` and the handlers under it |
| Protocol handler, sending | `HovalProtocolDecoder` | `sendBuffer`, `sendErrorCnt`, `lastPingTimestamp` | `sendMessage`, `requestUpdate`, `write`, `doSend`, `doPing`, `task` |
| Mapper | `Hoval2KNXMapper`, `HovalMessageTransformer.h` | per table entry `lastValue`, `lastSeen`, `lastSend`; `nextSendIndex`; the group objects | `hovalEvent`, `sendToHovalBus`, `task` |
| Conversions | `HovalMessageTransformer.h`, `HovalMessage` | none | transformers and their inverses, decoding and encoding, `checkBounds` |
| Error slots | `HovalMessageTransformer.h`, `HovalMessage` | `errorBitSet`, `errorBitField`, `warningBitField`, and the group objects set from them | `hasError`, `activeErrors`, `activeWarnings`, `errorToString` |
| Type table | `HovalMessages.h`, `HashMap.h` | chains of nodes, filled once at start | `begin`, `findMessageType`; the map's `get`, `put`, `remove` |
| Flash memory | `HovalGatewayModule` | party and pause value with flags and a version | `writeFlash`, `readFlash` |
| CRC, factory, entry, configuration, board | `crc/`, `CanTransportFactory`, `src/main.cpp`, `HovalGateway.share.xml`, `hardware.h` | none | |

How they interact:

- **Main task.**  OpenKNX calls `loop()` again and again.  One call first looks at
  the connection (`checkActive`), every eighth call at the controller's errors, and
  then gives one turn to the handler (`hoval.task()`), and, if the handler had
  nothing to do, to the mapper (`hoval2KNX.task()`).  The handler calls the mapper
  back with every message (`hovalEvent`); the mapper queues requests and writes in
  the handler's send buffer.  The KNX stack calls `processInputKo` between two calls
  of `loop()`, whether or not the CAN bus is connected.
- **Interrupt.**  A low pin makes `onInterrupt` preempt the main task and move
  frames from the controller into `rxBuffer`.  It shares `rxBuffer`,
  `droppedMessageCount` and `s_instance` with the main task.
- **Outside.**  Several Hoval devices send on one bus, the device can be off (the
  active pin), the controller can refuse or fail, frames are lost, and multi-part
  messages of different devices may carry the same one-byte id.

What is hard: the interrupt against every step of `receive`, `checkErrors`, `stop`
and `start`; overflow of two buffers and of the receive stack; parts of messages
lost, repeated and mixed up; retries and giving up; three activities that take
turns by priority; writes from KNX crossing updates from Hoval, with change
detection on either side; two group objects on one Hoval register; five error slots on
three group objects; durations through tenths of hours, single precision and minutes; reconnecting
through power cuts, failures and error counts.  What makes each part correct is
stated by its properties below; PROJECT.json lists the hazards at their lines with
the properties that cover them.

## Modules

| Module | Models | Checked by | Proved in |
|---|---|---|---|
| `SimpleRingBuffer` | the ring as operators on a record, one per method | through its users | `SimpleRingBuffer_proofs` (lemmas) |
| `BoundedFifo` | what a user of the ring relies on: a bounded queue | `storage` | `Storage_proofs` |
| `RingBufferQueue` | the ring under every sequence of calls; refines `BoundedFifo` | `storage` | `Storage_proofs` |
| `HashMap` | the hash map as operators on a table of chains, one per method | through its users | `Storage_proofs` |
| `Dictionary` | what a user of the map relies on: a function with a value for *none* | `storage` | `Storage_proofs` |
| `HashMapDictionary` | the map under every sequence of calls; refines `Dictionary` | `storage` | `Storage_proofs` |
| `HovalFlash` | the two values in the flash memory, through restarts | `storage` | `Storage_proofs` |
| `Storage` | the last three side by side, so that one run checks them | `storage` | `Storage_proofs` |
| `Mcp2515IsrCanTransport` | interrupt and main task on `rxBuffer` | `transport` | `Mcp2515IsrCanTransport_proofs` |
| `HovalReceive` (`MCHovalReceive`) | frames to messages, the receive stack | `receive`, `receive_count` | `HovalReceive_proofs` |
| `HovalSend` | send buffer, retries, ping | `send` | `HovalSend_proofs` |
| `Hoval2KNXMapper` (`MCHoval2KNXMapper`) | updates, writes, prerequisites, polling | `mapper`, `mapper_poll`, `mapper_last_value` | `Hoval2KNXMapper_proofs` |
| `HovalMessages` | the data points and their lookup in the hash map | `values` | `HovalMessageTransformer_proofs` |
| `HovalValue` | decoding of a body, encoding and bounds of a write, single precision | `values` | `HovalMessageTransformer_proofs` |
| `HovalMessageTransformer` (`MCHovalMessageTransformer`) | the real table, every entry with its conversions both ways | `values` | `HovalMessageTransformer_proofs` |
| `ErrorSlots` | the error objects set from several slots | `errors` | `HovalMessageTransformer_proofs` |
| `HovalGatewayModule` | connecting, error counting, the *online* object | `gateway`, `gateway_online` | `HovalGatewayModule_proofs` |

The transport and the sender extend `SimpleRingBuffer`, so their models, runs and
proofs use the very ring that is shown to be a queue.  Likewise `HovalMessages` fills
the very map that is shown to be a dictionary, and looks its types up in it.

Each module also has a few operators commented *Variant*: a definition with a
plausible mistake in it (a missing reset, an off-by-one, a dropped test).  They are
used by nothing.  PROJECT.json says which property fails when the variant takes the
place of the definition, and so that the property depends on the code.

### Ring buffer

A record holds the array and the two positions; *empty* is the sentinel 255 in
`readPosition`, *full* is equality of the two.  A method is an operator returning the
record after the call, built like the code from `incReadPos` and `incInsertPos`.
`Contents` is the abstraction to a sequence.  `available()`, which says no for a
full ring, is called by nobody and only appears in a variant.

### Hash map, type table and flash memory

A chain is the sequence of its nodes, an operator returns the table after a call.
The loops of `get`, `put` and `remove` stop at the first node with the key
(`entryOf`); what becomes of the nodes before and behind it is what the properties are
about.  `HovalMessages` has every data point of `HovalMessages.h` and, in `filled`, the
loop of `begin()`; `TypeIds` are the ids of these data points and those that differ in
the device, the function group or the function number: 130, of which 31 are in the 53
chains.
In `HovalFlash` OpenKNX writes the flash whenever it likes (`writeFlash`), and a restart may
come at any time; the flash is at first empty or from another version.

### Transport

One action per step of the main task between which the interrupt can come:
`CheckTest`/`CheckReset`/`CheckReturn` for the three steps of `checkErrors`,
`StopDetach`/`StopClear`/`StopFlag`, `BeginTry`/`BeginConfig`,
`StartInstance`/`StartAttach`/`StartFlag`.  `receive` is one action because the code
disables interrupts around it.  `isrTrampoline` enters the interrupt routine, `ReadFrame` is
one turn of its loop (its own section with interrupts disabled), and while it is active the
main task does not move.  A read that fails ends the loop in the code as does a high pin;
both are `LeaveIsr`.  `ready` is the main loop's: only while it is set does `loop()` call
`receive` and `checkErrors`.  `GiveUpConnection` is the loop clearing it, because the device
was found switched off or errors were too many; the transport then stays started, the
interrupt goes on storing, and nobody collects until the device is on again and `connect()`
stops the transport and starts it anew.  `send()` changes no variable of the transport and
is part of the sender's model, as the outcome of an attempt.

### Receiving

`Receive(f, log)` is one call of `onMessageReceived`.  The bus is the whole
environment: any frame of any message of `Sent`, in any order, any number of times
or never, and the malformed frames of `Odd`.  This covers loss in the transport,
repetition, and devices interleaving their messages.  Bytes of a part are abstracted
to `<<message, number>>`; every length is kept, in 8-bit arithmetic, since the
checks are about lengths.  The CRC of the model (`validateCrc`) is the set of answers the check may
give: a whole message is accepted, as is a body of at most two bytes, which the code does
not check; any other body is accepted or turned down, since 16 bits may agree by chance.
So what is said of processed messages rests on the checks of lengths and offsets and on
the stack, and no message is kept off the bus to make it true.  One assumption about the bus is
left in `OddAssumption`: a complete single message that the handler takes counts as a
message of `Sent`.
`age` counts up to `MAX_AGE + 1`: an older entry is expired all the same, and which
of several expired entries is taken depends on its slot alone.  The log
switches decide whether filtered messages are received; the console may change them
at any time, so `log` is chosen for each frame.

### Sending

One call of `task()` receives, or sends, or pings, in this order.  A message is its
number of acceptance and its length.  The transport's answer to an attempt is free.
`Connection` is the main loop connecting and giving up: requests are accepted
meanwhile, and the buffer keeps them.  The message id does not influence what is
modelled; the value limits `write()` applies (`checkBounds`) are in `HovalValue`.

### Mapper

`messageTransformers` is a constant, a sequence of records with the fields of the
table; conversions are functions on the few values used.  `MCHoval2KNXMapper` has two
extracts of the real table: the party and pause entries, with the values that
share one register, and the air quality entries, where two group objects show one
data point.  The send buffer is the queue `HovalSend` implements; the device is its
registers and the updates under way, which may be older than a write.  Both can be
lost.  An update handled by the mapper sets all entries of its data point in one
step, as `sendToKNXBus` does.  `knxBus` is the value KNX wrote or the gateway handed to the
KNX stack for sending, since the start.  `left` is the message that left the send buffer last,
and `needs` in a write request the message of its prerequisite; both are history.  A change is sent
to KNX only if that is configured (`everyChange`, off by default), a value whose send interval is over
always (`repeats`: an interval is configured; `due`: the entries whose interval is over, free).
After a restart the party and pause values may have come back from the
flash memory without their change detection state: `Init` has both cases.

### Conversions

`HovalMessageTransformer` is one entry of the whole table at work: the initial state
picks the entry and the register of the device, `begin` fills the type table, `Update` is
a message with the register (or one of a wrong length), `KnxWrite` a telegram.  A value
passes through all of the code's steps: body, width and sign, decimals, conversion, and back
through inverse, scaling, rounding, bounds and bytes.  Single precision numbers are exact
pairs `m / 2^k`, rounded half to even to 24 bits, because the durations depend on
it.  The angular frequency of a rotor, a product of two floating point numbers that nothing
depends on, is kept in thousandths.  How the KNX library encodes a value is left out, except
that a percentage above 100 is refused.  Whether a write is sent is the mapper's model.

### Error slots

The device has one message per slot, and four entries of the table for each set three
group objects common to all slots and one text of the slot's own.  A slot is the first byte of its
message, from which the code takes the kind; the error code in a text is left out.  A
group object is `Uninitialized` until the first update, which then counts as a change.  `Sent` is
`internalSendToKnx` with both configurations of `sendOnChange` (`everyChange`); `due` are
the entries whose send interval is over.  Messages of a wrong length clear their slot, as
in the code, until the next one; a restart clears the gateway's side only.  The module
names its specification `ErrorSpec`, since one module of proofs extends it and the
conversions.

### Main loop

One action is one call of `loop()`.  `retryIn` is the time until another attempt; 0 also
stands for `lastReconnectTry = 0`.  `loopCount` is kept modulo `CAN_ERROR_LOOP_CNT`, which
is exact because the 60000 at which it starts again is a multiple of 8.  `did` says what the
call did.  The variable `started` is the transport's: `connect()` always stops it first.
`World` changes the device's power, whether the controller can be set up, and the error
flags, at any time.  An *online* object that was never set sends FALSE with its heartbeat.

## Runs

All passing runs finish with no error; deadlock is checked in all of them.

| Run | Distinct states | Question | Bounds |
|---|---|---|---|
| `storage` | 2609 | Do ring, map and flash keep what is stored, under every sequence of calls? | 3 slots, 2 values; 4 keys in 3 chains, 2 values; 3 percentages |
| `transport` | 23903 | Do interrupt and main task share their variables safely; is everything delivered and reported? | 2 slots, 2 controller buffers, 2 attempts, 5 frames |
| `receive` | 108916 | Are messages put together whole, freed once, lost only for a reason? | 3 stack entries; 6 messages, two with one id; 8 malformed frames |
| `send` | 43788 | Does every message leave in order and with all its attempts; do queue and ping progress? | 2 slots, 3 attempts, 3 requests |
| `mapper` | 720422 | Do values and prerequisites stay together in a buffer that refuses and gives up; do echoes leave shared registers alone? | party table, 2 writes, 1 change, the 3 places of the real buffer |
| `mapper_poll` | 101480 | Does polling make good every loss, for the group objects and for KNX? | air quality table, 1 write, 1 place in the buffer; only repetitions sent, or only changes |
| `values` | 13519 | Are types found, and values carried both ways as they are meant? | the whole table but the errors; values below |
| `errors` | 30824 | Do the error objects agree, and does KNX learn of every error? | 2 slots, empty, error and warning; 1 change, 1 fault |
| `gateway` | 13590 | Does the loop connect, reset and report correctly? | errors at every 3rd call, more than 2 in a row, 2 kinds of flags, delay of 2 |

Three runs look for what the repository says and the code does not do; see
*Findings*.

Why the bounds suffice.  Two or three slots make the rings wrap, fill and empty again; the
proofs lift the bound.  Five frames overflow a ring of two while the controller holds two
more. Three stack entries are fewer than the messages on the bus, so that free, expired and
evicted slots all occur; 2 or 3 parts are a first, an intermediate and a last one.  Three
attempts are enough for the error count to be passed on wrongly from one message to the
next.  In the party table two writes are a value and then the mode that needs it, or the
values of both modes; one change of the device by itself puts an update against either.  For
`mapper_poll` the buffer of one place makes polls and writes be refused; of the
configurations that send, the two in which only one of the reasons to send is left.
`mapper` is run with the default one, since its properties are of the other direction.  The
counters of the main loop only matter by reaching their limits.  Of the four keys three
share a chain, so one is first, one in the middle, one last.  `values` takes every tenth of
an hour up to the limit of 24 hours and every percentage; of 8-bit registers and of longer
durations those next to a bound of the code, and of 16-bit registers those at the edges of
sign and of what fits into minutes.  Two error slots are enough for a message of one to
touch the bit of the other, and the proofs lift this bound; one change and one fault suffice
since liveness is about what follows the last of them.  That at most one entry's send
interval is over at an update only delays what several updates with the same body do.

### What the runs show

- `storage`: the ring needs no count (`EncodingSound`) and implements a bounded queue
  (`ImplementsFifo`), the hash map implements a dictionary (`ImplementsDictionary`), both by
  refinement; a restart restores what was saved, unset values as unset
  (`SavedComesBack`).
- `transport`: the interrupt never meets a null instance (`IsrHasInstance`), what
  is stored is what is delivered, in order, through overflow and reconnect
  (`StoredInOrder`); a drop is remembered until reported although the main task
  resets the counter unprotected (`DropsReported`); and under fairness the
  controller is drained, and frames are delivered and overflows reported unless the
  connection is given up and stays so.
- `receive`: no leak and no double delete on any path (`NoLeak`); what is
  processed is a whole message or, where ids collide and the CRC agrees by chance, parts of
  several with each at its place, begun as a known type and at most one part short at the end
  (`ProcessedInPlace`); faults within one
  message never need the CRC (`CrcOnlyForCollisions`); and an undisturbed message is
  never lost (`LostOnlyForAReason`).
- `send`: order and no duplicates (`SentInOrder`), the count of refusals belongs to
  the front message (`ErrorsAreOfFront`), nobody is given up early
  (`GivenUpOnlyAfterRetries`), and the buffer drains and pings go out.
- `mapper`: in the send buffer, whatever is refused, sent or given up, a value stays right
  behind its prerequisite, which carries what its group object held at the time of the write
  (`PrerequisiteFirst`); echoes leave the shared values alone (`IgnoringKeepKnxValue`).
- `mapper_poll`: every entry has its turn (`EveryEntryIsPolled`) and, once nothing
  changes, group objects show the device's values whatever was lost
  (`ShowsDeviceInTheEnd`), and KNX is shown them too (`KnxIsShownDevice`): by repetition alone, though
  group objects then change silently in between, or by changes alone.
- `values`: exactly the types of the filter are found, each under its own id
  (`FindsExactlyTheFilter`); a write is inside the bounds and the allowed value nearest to what KNX
  means (`WritesWhatKnxMeans`); a group object shows the register
  (`ShowsTheRegister`); and what was shown and is written back changes nothing, although
  durations are truncated one way and rounded the other (`ShownComesBack`).
- `errors`: bit fields and group objects agree with the last messages and with each other
  through changes, bad messages and restarts (`BitsAreOfLastMessages`, `ObjectsAgree`); with changes
  not sent, the send interval alone still brings the sums, and the texts of
  errors, to KNX (`SumsReachKnx`, `TextsReachKnx`).
- `gateway`: the handler works only on a started transport (`ReadyIsStarted`), resets
  need enough failing looks in a row (`ResetsAfterErrorsInARow`), power loss and connection are said
  (`OfflineIsSaid`, `OnlineIsSaid`), unending errors lead to reconnects
  (`ErrorsForceReconnect`), and error checks leave the handler its turns
  (`HandlerGetsTurns`).

### Fairness

- *Transport.*  The interrupt is level-triggered: while the pin is low it is taken, and its
  routine ends.  The main task finishes the call it is in.  Strong fairness for `receive`
  and `CheckTest`, both enabled only while `ready`: the loop counts its turns while
  connected, also across reconnects, and every eighth looks at the errors, the seven others
  receive.  While the device is off nothing is assumed, and `StoredIsDelivered` and
  `OverflowIsReported` promise nothing. For `ReadAny`: the controller does not fail every
  read.
- *Sending.*  `task()` is called while the connection is up, time passes, and the bus,
  far slower than the loop, leaves turns without a frame waiting.
- *Mapper.*  Time passes while the connection is up, in steps of the 250 ms between two
  polls.  A turn of the loop takes less than a millisecond, so that between two steps
  the loop has come to `task()`, and the handler, which gives a message up after 11
  turns, has emptied its buffer of three (`Tick` waits for both).  A write from KNX
  may still fill the buffer right before a poll.  For each data point the device
  answers, and not every one of infinitely many messages in a direction is lost.  Once the
  send interval of an entry is over, it stays so until an update of the entry is processed, which
  thus finds it over (`Heard`).
- *Errors.*  Each slot is polled again and again (`EveryEntryIsPolled`), and the send
  interval of an entry, configured to be more than 0, passes, so that the next of its
  updates finds it over.
- *Main loop.*  `loop()` is called and time passes.  Nothing is assumed of the world.

## Proofs

TLAPS proves, for every value of the constants that meets the named assumptions:

- **Ring** (`BufferSizeAssumption`: 1 to 254 slots, the code's `static_assert`).
  Lemmas say what filling a slot and removing the oldest do to `Contents`.  The
  invariant is that the ring is well formed and holds only stored values;
  `TypeCorrect`, `EncodingIsSound` and `RingImplementsFifo` follow.
- **Transport** (`TransportAssumption`).  `Inv` adds three parts to the
  properties.  `LinkInv` ties the program counter of a reconnect to `attached`,
  `s_instance` and `started`: the pointer alone is not inductive, since it is cleared
  only after the interrupt was detached.  `ReportInv` says a call about to reset the
  counter has already taken note.  `RingInv` keeps the ring well formed.  Theorems:
  `TypeCorrect`, `InterruptHasInstance`, `FramesStayInOrder`, `DropsAreReported`.
- **Sending** (`SendAssumption`: the retry limit is below 255, or the 8-bit counter would wrap).
  `QueueInv` numbers the accepted messages, `CountInv` says the
  counter is that of the next message to leave and those behind were not tried,
  `OutcomeInv` speaks of those that left.  Theorems: `TypeCorrect`,
  `MessagesStayInOrder`, `ErrorCountIsOfFront`, `EveryMessageHasItsAttempts`.
- **Main loop** (`GatewayAssumption`).  The four invariants together are inductive; the
  bound on the counter in `TypeOK` is what the argument for resets needs.
  Theorems: `TypeCorrect`, `WorksOnStartedTransport`, `ResetsAreJustified`,
  `DiagnosisIsCurrent`.
- **Hash map** (`HashMapAssumption`: any hash function, any positive table size).  The
  invariant is that chains hold only their own keys, each once; without it a removed key
  might have a second node that `get` then finds.  Theorems: `ChainsAreSound`,
  `MapImplementsDictionary`.
- **Flash memory** (`NoDataAssumption`: no valid record looks like an empty flash).  The
  invariant says that what a restart would read now, from whatever the flash holds, is what
  was saved last.
  `FlashKeepsValues` follows, and `StorageIsSound` is the conjunction of ring, map and
  flash for `Storage`.
- **Receiving** (`StackAssumption`: any size of the stack and any age; `SentAssumption`: any
  set of messages of up to 31 parts; `OddAssumption`: any other frames; `NullAssumption`;
  nothing is assumed of the CRC but that it accepts whole messages).  That a body is whole
  follows neither from its length nor from its last part.  `StackSound` therefore says of
  each entry where its parts came from: the first decided its id, every further one is at
  the place its frame's index says, and the length counts them.  With it and the test of the
  number of parts, a body that comes to the CRC and is not whole has parts of several
  messages: so much holds of what is processed (`ProcessedInPlace`) and of what is turned
  down (`CrcOnlyForCollisions`).  For losses (`LostOnlyForAReason`) a second invariant
  follows each message in progress: while its parts come in order, its entry is not evicted
  and no other frame uses its id, this entry is the only one with the id and holds exactly
  the parts received so far.  Theorems: `TypeCorrect`, `NothingLeaks`, `ProcessedIsInPlace`,
  `CrcIsForCollisions`, `LossesHaveReasons`.
- **Conversions** (`ValuesAssumption`: any set of 8 and 16 bit registers, of durations of
  16 bits and of percentages up to 100; the run takes some of them, the proof holds for
  all).  A quotient in single precision is off by at most half a unit of a
  mantissa of 24 bits, and a value of 16 bits leaves at least 8 places: rounding ten times
  the hours gives the nearest tenth, and truncating sixty times the hours is at
  most one minute short.  On this rest, entry by entry of the real table, what is
  written and what is shown.  None of the properties is inductive, since they
  compare the register or the group object with what the last step did: `Traced` says that
  whatever set the group object explains its value, and that a telegram explains the
  register's.  Theorems: `TypeCorrect`, `WritesAreMeant`, `RegisterIsShown`, and, for
  every step, `WhatIsShownComesBack`.
- **Type table.**  `TypesAreFound` goes by induction over the turns of the loop in `begin()`:
  after each of them exactly the types so far are found.  It uses of the hash
  function only that it gives numbers, so it would hold for any other.
- **Error slots** (`SlotsAssumption`: any number of slots).  `ObjectsAgree` is not
  inductive: the invariant says what each object is computed from, the bit fields for the sums
  and the last message for a text, and agreement follows.  Theorems: `ErrorTypeCorrect`,
  `BitsAreCurrent`, `ErrorsAgree`, `ChangesAreSent`.
- **Mapper** (`TableAssumption` and `ConversionAssumption`: any table in which a
  prerequisite ignores updates and has none itself, a group object has one writer, and
  conversions stay within their data point; TLC evaluates them for both extracts of the real
  table).  The type invariant needs `KnxOnlyWritable`: a group object only KNX sets holds
  something that can be written, since it may be sent as a prerequisite at any time.
  `PrerequisiteFirst` is inductive with it: the messages of one write are in order among
  themselves and are queued behind the others, a full buffer cuts off their end
  (`QueuedInOrder`), and when the front leaves, the next one has just had it before it
  (`TailInOrder`).  Theorems: `TypeCorrect`, `PrerequisitesComeFirst`,
  `SharedValuesAreKept`.

Two lemmas serve throughout `HovalMessageTransformer_proofs`: a nonempty set of naturals has a
least element (`Least`), and induction follows from it (`Induct`), stated over sets
because the library's induction theorems take an operator.  With them the exponent of a quotient
is found, and the recursive function that fills the type table is unfolded.

The type invariants of the ring, the transport, the sender, the mapper, the error slots and
the main loop, and `DiagnoseIsLastError`, `ChainsSound` and `EveryChangeIsSent`, are proved
and therefore in no run.

Every safety property the passing runs check is proved.  Only model-checked is everything
about liveness, which the prover does not handle with fairness: that the controller is
drained and overflows are reported, that the send buffer drains and pings go out, the
mapper's polling and that KNX is shown the device, that sums and texts reach KNX, and the
four properties of the main loop that say something happens in the end.

## Findings

1. `receive_count`: the test of the expected size lets a message pass that is short by
   exactly one full part; only the CRC stops it.
2. `mapper_last_value`: `lastValue` is not set by an update equal to the group object,
   so it is not the last value received.  After KNX wrote a value and the device confirmed it,
   writing the former value again is skipped as unchanged.
3. `gateway_online`: after an error reset with failing attempts at reconnecting, *online* keeps
   saying TRUE, and its heartbeat repeats it.

Observations that no run is about:

- The comment at `transport/Mcp2515IsrCanTransport.h:41` says only the interrupt writes
  `droppedMessageCount`; `checkErrors()` resets it too (`.cpp:171`), unprotected.  Harmless
  for reporting (`DropsReported`), wrong for the number, which nobody reads.
- The other half of `PrerequisiteFirst` does not hold: two writes of party and pause mode in a
  row fill the send buffer of three with value, mode, value; the second mode is refused, nobody
  looks at the result of `write()`, and the value goes out alone, although the comment at
  `HovalMessageTransformer.h:272-274` says it must never be.  It changes the register the first
  mode is running on.  Giving up the mode after its value went out does the same.
- Where two devices use one id at the same time, a body one part short may be put together
  from both; only the CRC turns it down, and of a body of at most two bytes
  (`HovalMessage.cpp:69`) not even that.
- The text of an error that is over is not sent unless every change is, which is not
  the default: KNX keeps the old text until it reads the object.
- The two status objects are written as they are not shown: air quality 1 is shown as 9
  (bits shifted, mode added), and writing 9 back writes 0; writing 1 writes 1.
- The comment at `HovalMessage.cpp:292` has 3 as W; `mapErrorType` takes 3 for B and 8 for W.

## Not modelled

The CRC's arithmetic (the repository tests it, `test/test_hovalcrc.cpp`); decoding to 32
and 64 bits, strings, times and error codes, which no entry uses or nothing depends on; logging and
console commands; the factory, entry point and configuration.  `include/knxprod.h` is generated
from the configuration: constants and macros without behaviour.  OpenKNX, the KNX
stack and the MCP2515 driver are outside the repository and appear as the environment.
Timestamps are elapsed times: the special value 0 and the wrap of `millis()` are
left out.

## Plan

What more could be done, in this order:

1. Composition of transport, receiving and mapper, in which `receive` takes the
   frames the interrupt stored; of main loop and sending, for writes that are queued while
   the device is off.
2. An abstract sender (a queue whose messages are taken or given up in order) that `HovalSend`
   implements, and that the mapper's send buffer is an instance of; likewise an
   abstract receive buffer, a lossy queue with a flag for loss, for the transport.
