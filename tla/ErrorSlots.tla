------------------------------- MODULE ErrorSlots -------------------------------
(***************************************************************************)
(* The active errors of the device: it holds some slots and reports each   *)
(* in a message of its own, and the entries of ActiveError1 to ActiveError5*)
(* put them together in static bit fields, from which one alarm object and *)
(* two status objects are set for all slots, beside one text per slot.     *)
(*                                                                         *)
(* A slot is modelled by the first byte of its message; what else a text   *)
(* holds is left out.  Of the time since an entry sent last only whether   *)
(* the send interval has passed is modelled.                               *)
(***************************************************************************)
EXTENDS Naturals, FiniteSets

CONSTANTS
  Slots,          \* 1..5 in the program
  FirstBytes,     \* what the device may hold in a slot
  Short,          \* stands for a body that does not have 16 bytes
  Uninitialized,  \* the value of a group object that has none yet
  MaxChanges,     \* bound: changes of a slot
  MaxFaults       \* bound: messages of a wrong length, and restarts

Types == {"", "B", "W", "?"}   \* error_type; "" is '\0'

\* The group objects: one for each sum, and a text for each slot.
Sums == {"active_error", "active_error_error", "active_error_warning"}
Objects == Sums \cup Slots

ASSUME SlotsAssumption ==
  /\ Slots \cap Sums = {}
  /\ FirstBytes \subseteq 0..255 /\ 0 \in FirstBytes
  /\ Short \notin 0..255
  /\ MaxChanges \in Nat /\ MaxFaults \in Nat

VARIABLES
  everyChange,    \* the parameter HVSendEveryChange
  slot,           \* of the device: slot -> first byte of its message
  errorBitSet, errorBitField, warningBitField,   \* the slots whose bit is set
  groupObjects,   \* object -> value
  changes, faults,
  \* history, no part of the program:
  received,       \* slot -> error_type of its last message since the restart
  knx             \* object -> value KNX was sent last

bits == <<errorBitSet, errorBitField, warningBitField>>
errorVars == <<everyChange, slot, bits, groupObjects, changes, faults, received, knx>>

ErrorInit ==
  /\ everyChange \in BOOLEAN
  /\ slot \in [Slots -> FirstBytes]
  /\ errorBitSet = {} /\ errorBitField = {} /\ warningBitField = {}
  /\ groupObjects = [o \in Objects |-> Uninitialized]
  /\ changes = 0 /\ faults = 0
  /\ received = [s \in Slots |-> ""]
  /\ knx = [o \in Objects |-> Uninitialized]

-------------------------------------------------------------------------------
mapErrorType(b) == CASE b = 3 -> "B" [] b = 8 -> "W" [] OTHER -> "?"

\* error_type of errorMessage(): none for a wrong length, an empty slot, and the
\* message that follows the confirmation of a warning.
errorType(body) == IF body \in {Short, 0, 180} THEN "" ELSE mapErrorType(body)

\* Variant: a bit that is set stays.
withBitOnly(field, s, on) == IF on THEN field \cup {s} ELSE field

withBit(field, s, on) == IF on THEN field \cup {s} ELSE field \ {s}

\* The three bit fields after a message of the slot s.
hasError(s, type) == withBit(errorBitSet, s, type # "")

\* Variant: warnings count as errors.
activeErrorsAll(s, type) == withBit(errorBitField, s, type # "")

activeErrors(s, type)   == withBit(errorBitField, s, type \notin {"", "W"})
activeWarnings(s, type) == withBit(warningBitField, s, type = "W")

\* The values the entries of the slot s give their group objects.
Transformed(s, type) ==
  [o \in Sums \cup {s} |->
     CASE o = "active_error"         -> hasError(s, type) # {}
       [] o = "active_error_error"   -> activeErrors(s, type)
       [] o = "active_error_warning" -> activeWarnings(s, type)
       [] OTHER                      -> type]

\* Variant: texts are never repeated.
RepeatsSums(o, type) == o \in Sums

\* Variant: the objects of all entries are only repeated while there is an error.
RepeatsErrors(o, type) == type # ""

\* An entry repeats its value after the send interval; a text only one with an error.
Repeats(o, type) == o \in Sums \/ type # ""

\* internalSendToKnx of the entry for o, whose send interval is over if it is in
\* due.  A group object that is not initialized counts as changed.
Sent(o, value, type, due) ==
  \/ groupObjects[o] # value /\ everyChange
  \/ o \in due /\ Repeats(o, type)

\* hovalEvent for an update of the slot s with this body.
hovalEvent(s, body, due) ==
  LET type   == errorType(body)
      values == Transformed(s, type)
  IN  /\ UNCHANGED <<everyChange, slot, changes>>
      /\ received' = [received EXCEPT ![s] = type]
      /\ errorBitSet' = hasError(s, type)
      /\ errorBitField' = activeErrors(s, type)
      /\ warningBitField' = activeWarnings(s, type)
      /\ groupObjects' =
           [o \in Objects |-> IF o \in DOMAIN values THEN values[o] ELSE groupObjects[o]]
      /\ knx' = [o \in Objects |->
                   IF o \in DOMAIN values /\ Sent(o, values[o], type, due) THEN values[o] ELSE knx[o]]

SlotUpdate(s, due) == UNCHANGED faults /\ hovalEvent(s, slot[s], due)

-------------------------------------------------------------------------------
(* Around it (external): the device, its messages, the power.                *)

Change(s, b) ==
  /\ changes < MaxChanges
  /\ changes' = changes + 1
  /\ slot' = [slot EXCEPT ![s] = b]
  /\ UNCHANGED <<everyChange, bits, groupObjects, faults, received, knx>>

ShortUpdate(s, due) ==
  /\ faults < MaxFaults
  /\ faults' = faults + 1
  /\ hovalEvent(s, Short, due)

\* The gateway starts again: its static variables and group objects are as at
\* first.  The device and the KNX bus go on.
Restart ==
  /\ faults < MaxFaults
  /\ faults' = faults + 1
  /\ errorBitSet' = {} /\ errorBitField' = {} /\ warningBitField' = {}
  /\ groupObjects' = [o \in Objects |-> Uninitialized]
  /\ received' = [s \in Slots |-> ""]
  /\ UNCHANGED <<everyChange, slot, changes, knx>>

\* Bound: an update finds the send interval of at most one entry over.  Several
\* are as many updates with the same body.
Due(s) == {{}} \cup {{o} : o \in Sums \cup {s}}

ErrorNext ==
  \/ \E s \in Slots : \E due \in Due(s) : SlotUpdate(s, due) \/ ShortUpdate(s, due)
  \/ \E s \in Slots, b \in FirstBytes : Change(s, b)
  \/ Restart

\* The device is asked for every slot again and again (Hoval2KNXMapper,
\* EveryEntryIsPolled), and when the send interval of an entry, which is
\* configured to be more than 0, has passed, the next of its updates finds it so.
ErrorFairness == \A s \in Slots : \A o \in Sums \cup {s} : WF_errorVars(SlotUpdate(s, {o}))

ErrorSpec == ErrorInit /\ [][ErrorNext]_errorVars /\ ErrorFairness

-------------------------------------------------------------------------------
(* Every variable keeps its type, and every group object the one of its data *)
(* point: an alarm, a status for each slot, a text.                          *)
(* (HovalMessageTransformer.h:306-349)                                       *)
ObjectValues(o) ==
  {Uninitialized} \cup CASE o = "active_error" -> BOOLEAN
                   [] o \in Slots       -> Types
                   [] OTHER             -> SUBSET Slots

ErrorTypeOK ==
  /\ everyChange \in BOOLEAN
  /\ slot \in [Slots -> FirstBytes]
  /\ errorBitSet \subseteq Slots /\ errorBitField \subseteq Slots /\ warningBitField \subseteq Slots
  /\ changes \in 0..MaxChanges /\ faults \in 0..MaxFaults
  /\ received \in [Slots -> Types]
  /\ \A o \in Objects : groupObjects[o] \in ObjectValues(o) /\ knx[o] \in ObjectValues(o)

(* The static bit fields hold what the last message of every slot said, and  *)
(* nothing from before a restart: a message of one slot never sets or clears *)
(* the bit of another, and an error that turns into a warning changes both   *)
(* fields.  (HovalMessageTransformer.h:99-147)                               *)
BitsAreOfLastMessages ==
  /\ errorBitSet = {s \in Slots : received[s] # ""}
  /\ errorBitField = {s \in Slots : received[s] \in {"B", "?"}}
  /\ warningBitField = {s \in Slots : received[s] = "W"}

(* The group objects never contradict each other: the alarm is on exactly    *)
(* when an error or a warning is shown, no slot is shown as both, and each   *)
(* text says what the status objects say of its slot.  They are set by four  *)
(* entries for each slot.  (HovalMessageTransformer.h:306-349)               *)
ObjectsAgree ==
  \/ \A o \in Objects : groupObjects[o] = Uninitialized
  \/ LET errors   == groupObjects["active_error_error"]
         warnings == groupObjects["active_error_warning"]
     IN  /\ groupObjects["active_error"] = (errors \cup warnings # {})
         /\ errors \cap warnings = {}
         /\ \A s \in Slots : /\ s \in errors => groupObjects[s] \in {"B", "?"}
                             /\ s \in warnings => groupObjects[s] = "W"
                             /\ s \notin errors \cup warnings => groupObjects[s] \in {"", Uninitialized}

(* When every change is to be sent, KNX has at any time the value of every   *)
(* group object that is initialized, also after a restart.                   *)
(* (Hoval2KNXMapper.cpp:146-163)                                             *)
EveryChangeIsSent ==
  everyChange => \A o \in Objects : groupObjects[o] \in {Uninitialized, knx[o]}

(* In the end KNX is shown the errors the device has, whatever was changed,  *)
(* garbled or forgotten before: the sums also when changes are not sent, by  *)
(* the send interval alone.  (HovalMessageTransformer.h:166-188)             *)
Errors   == {s \in Slots : errorType(slot[s]) \in {"B", "?"}}
Warnings == {s \in Slots : errorType(slot[s]) = "W"}
SumsReachKnx ==
  <>[](/\ knx["active_error"] = (Errors \cup Warnings # {})
       /\ knx["active_error_error"] = Errors
       /\ knx["active_error_warning"] = Warnings)

(* So is the text of every slot that has an error.                           *)
(* (HovalMessageTransformer.h:171-183, Hoval2KNXMapper.cpp:152-163)          *)
TextsReachKnx ==
  <>[](\A s \in Slots : everyChange \/ errorType(slot[s]) # "" => knx[s] = errorType(slot[s]))
===============================================================================
