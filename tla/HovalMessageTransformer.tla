------------------------- MODULE HovalMessageTransformer -------------------------
(***************************************************************************)
(* One entry of the table in HovalMessageTransformer.h at work, value by   *)
(* value: the device reports its register and the group object shows it, a *)
(* telegram sets the group object and the register is written.  Whether a  *)
(* write is sent at all, and when, is the mapper's model (Hoval2KNXMapper);*)
(* here every write reaches the device.                                    *)
(*                                                                         *)
(* The entries for the active errors are in ErrorSlots.                    *)
(***************************************************************************)
EXTENDS HovalValue, FiniteSets

CONSTANTS
  NoValue,
  Raw8,      \* bound: the values of a register of 8 bits,
  Raw16,     \* and of 16 bits
  Minutes,   \* bound: the durations KNX writes
  Percents   \* bound: the percentages KNX writes

UINT8       == 0 .. 255
UINT16      == 0 .. 65535
Percentages == 0 .. 100

ASSUME ValuesAssumption ==
  /\ Raw8 \subseteq UINT8 /\ Raw16 \subseteq UINT16
  /\ Minutes \subseteq UINT16 /\ Percents \subseteq Percentages

\* An entry: its data point, its group object, how the two are converted, the
\* list value a switch stands for, and whether it has an inverse transformer.
Entry(type, comObject, conversion, code, inverse) ==
  [type |-> type, comObject |-> comObject, conversion |-> conversion, code |-> code,
   inverse |-> inverse]

Switch(type, comObject, code) == Entry(type, comObject, "State", code, TRUE)
ReadOnly(type, comObject, conversion) == Entry(type, comObject, conversion, 0, FALSE)
ReadWrite(type, comObject, conversion) == Entry(type, comObject, conversion, 0, TRUE)

messageTransformers ==
  { Switch(OperatingMode, "operating_mode_standby", 0),
    Switch(OperatingMode, "operating_mode_week1", 1),
    Switch(OperatingMode, "operating_mode_week2", 2),
    Switch(OperatingMode, "operating_mode_constant", 4),
    Switch(OperatingMode, "operating_mode_economy", 5),
    ReadWrite(OperatingMode, "operating_mode", "Status3"),
    Switch(AirQualityControl, "airqualitycontrol_standby", 0),
    Switch(AirQualityControl, "airqualitycontrol_normal", 1),
    Switch(AirQualityControl, "airqualitycontrol_voc", 2),
    Switch(AirQualityControl, "airqualitycontrol_humidity", 3),
    Switch(AirQualityControl, "airqualitycontrol_antifreeze", 4),
    Switch(AirQualityControl, "airqualitycontrol_coolvent", 5),
    Switch(AirQualityControl, "airqualitycontrol_error", 6),
    ReadWrite(AirQualityControl, "airqualitycontrol", "Status3"),
    ReadOnly(VentilationControlStatus, "ventilation_control_status", "Status3"),
    ReadOnly(Modulation, "modulation", "Scaling"),
    ReadWrite(NormalModulation, "normal_modulation", "Scaling"),
    ReadWrite(EconomyModulation, "economy_modulation", "Scaling"),
    ReadWrite(HumiditySetpoint, "humidity_setpoint", "Scaling"),
    ReadOnly(HumidityExhaust, "humidity_exhaust", "Scaling"),
    ReadOnly(VentilationExhaust, "ventilation_exhaust", "Scaling"),
    ReadWrite(PartyMode, "party_mode", "Minutes"),
    ReadWrite(PauseMode, "pause_mode", "Minutes"),
    ReadWrite(PartyPauseValue, "party_value", "Scaling"),
    ReadWrite(PartyPauseValue, "pause_value", "Scaling"),
    ReadOnly(TemperatureOutdoor, "temperature_outdoor", "Float"),
    ReadOnly(TemperatureExhaust, "temperature_exhaust", "Float"),
    ReadOnly(VocExhaust, "voc_exhaust", "Scaling"),
    ReadOnly(VocOutdoor, "voc_outdoor", "Scaling"),
    ReadOnly(VentilatorExhaustPWM, "ventilator_exhaust_pwm", "Scaling"),
    ReadOnly(VentilatorOutdoorPWM, "ventilator_outdoor_pwm", "Scaling"),
    ReadOnly(RPMRotor1, "rpm_rotor1", "Frequency"),
    ReadOnly(RPMRotor2, "rpm_rotor2", "Frequency"),
    ReadOnly(MaintenanceRemainingTime, "maintenance_remaining", "Weeks") }

\* The party and the pause value never learn what the device reports.
ignoreIncoming(e) == e.comObject \in {"party_value", "pause_value"}

-------------------------------------------------------------------------------
(* From the body of an update to the value of the group object.              *)

toDptStatusMode3(status, mode) == (status % 2^5) * 2^3 + (mode % 2^3)

\* (uint16_t)(f * 60).  Beyond 16 bits the conversion is undefined: the processor
\* limits it or keeps the low bits.
minutesOf(f) ==
  LET m == truncated(product(f, 60))
  IN  IF m < 2^16 THEN {m} ELSE {2^16 - 1, m % 2^16}

\* floatValue() * 0.10472, in thousandths of a radian per second.
angularFrequency(body, type) ==
  (decoded(body, type.rawType) * 10472) \div (100 * pow10[type.decimals])

maintenanceWeeksToHrs(body) == IF Len(body) < 4 THEN 0 ELSE body[4] * 24 * 7

\* The values the update may give the group object; old is the one before.  How
\* the KNX library encodes them is left out, but for one case:
\* DPT_Scaling has no code for more than 100: what the KNX library then leaves in
\* the object is its own choice (external).
transformed(e, body, old) ==
  CASE e.conversion = "State"   -> {decoded(body, "U8") = e.code}
    [] e.conversion = "Status3" -> {toDptStatusMode3(decoded(body, "U8"), 1)}
    [] e.conversion = "Scaling" -> LET percent == decoded(body, "U8")
                                   IN  IF percent > 100 THEN {old, 0} ELSE {percent}
    [] e.conversion = "Minutes" -> minutesOf(floatValue(body, e.type))
    [] e.conversion = "Float"   -> {floatValue(body, e.type)}
    [] e.conversion = "Frequency" -> {angularFrequency(body, e.type)}
    [] e.conversion = "Weeks"   -> {maintenanceWeeksToHrs(body)}

-------------------------------------------------------------------------------
(* From the value of the group object to the body of a write request.        *)

switchValue(e, value) == IF value THEN e.code ELSE 0

statusValue(e, value) ==
  IF e.comObject = "operating_mode"
  THEN IF value \div 2^3 > 5 THEN 0 ELSE value
  ELSE IF value > 6 THEN 0 ELSE value

inverseTransformed(e, value) ==
  CASE e.conversion = "State"   -> HovalValue(switchValue(e, value), "LIST")
    [] e.conversion = "Status3" -> HovalValue(statusValue(e, value), "LIST")
    [] e.conversion = "Scaling" -> HovalValue(value, "UINT8")
    [] e.conversion = "Minutes" -> HovalValue(quotient(value, 60), "FLOAT")

\* What KNX can write to the group object of e.
KnxValues(e) ==
  CASE e.conversion = "State"   -> BOOLEAN
    [] e.conversion = "Status3" -> Raw8
    [] e.conversion = "Scaling" -> Percents
    [] e.conversion = "Minutes" -> Minutes

-------------------------------------------------------------------------------
VARIABLES
  entry,       \* the entry of this behaviour
  begun,       \* begin() has filled the handler's table of types
  register,    \* of the device: the body of the update it would send
  groupObject, \* the value of the group object of the entry
  last         \* history: what set groupObject last, [by, value]

vars == <<entry, begun, register, groupObject, last>>

Nothing == [by |-> "nobody", value |-> NoValue]

Registers(e) ==
  CASE e.type.rawType = "U8"           -> {<<b>> : b \in Raw8}
    [] e.type.rawType \in {"U16", "S16"} -> {bytes(v, "U16") : v \in Raw16}
    [] e.type.rawType = "RAW"          -> {<<0, 0, 0, w>> : w \in Raw8} \cup {<<0, 0, 0>>}

Init ==
  /\ entry \in messageTransformers
  /\ begun = FALSE
  /\ register \in Registers(entry)
  /\ groupObject = NoValue /\ last = Nothing

\* After the startup delay the handler fills the table of types.
begin ==
  /\ ~begun
  /\ begun' = TRUE
  /\ UNCHANGED <<entry, register, groupObject, last>>

\* An update with this body arrives: that of the register, or one of another
\* length.  It is dropped if its type is not found.
Update(body) ==
  /\ findMessageType(begun, HovalMessageTypeId(entry.type)) = entry.type
  /\ ~ignoreIncoming(entry)
  /\ groupObject' \in transformed(entry, body, groupObject)
  /\ last' = [by |-> "device", value |-> body]
  /\ UNCHANGED <<entry, begun, register>>

\* A telegram sets the group object; the device takes the body of the write
\* request as its register.
KnxWrite(value) ==
  /\ groupObject' = value
  /\ last' = [by |-> "knx", value |-> value]
  /\ register' = written(entry.type, inverseTransformed(entry, value))
  /\ UNCHANGED <<entry, begun>>

Next ==
  \/ begin
  \/ \E body \in {register, <<0>> \o register} : Update(body)
  \/ entry.inverse /\ \E value \in KnxValues(entry) : KnxWrite(value)

Spec == Init /\ [][Next]_vars
-------------------------------------------------------------------------------
Raw == decoded(register, entry.type.rawType)
Allowed(type) == MAX(type.minValue, 0) .. MIN(type.maxValue, 2^8)

(* Registers hold bytes of the length of their type.                         *)
(* (HovalProtocolDecoder.cpp:762-802)                                        *)
TypeOK ==
  /\ entry \in messageTransformers
  /\ \A i \in DOMAIN register : register[i] \in 0..255
  /\ entry.type.rawType # "RAW" => Len(register) = Integer[entry.type.rawType].bytes
  /\ last.by = "nobody" => groupObject = NoValue

(* Exactly the types of the filter are found, each under its own id: no      *)
(* chain of the table loses one, and no data point of another device,        *)
(* function group or function is taken for one.                              *)
(* (HovalProtocolDecoder.cpp:27-36, :180-184; HovalMessage.h:90-97)          *)
FindsExactlyTheFilter ==
  begun =>
    \A id \in TypeIds :
      LET type == findMessageType(begun, id)
      IN  IF \E t \in Filtered : HovalMessageTypeId(t) = id
          THEN type \in Filtered /\ HovalMessageTypeId(type) = id
          ELSE type = nullptr

(* Whatever KNX writes, what the device is sent is inside the bounds of the  *)
(* data point and what KNX means: for a switch its list value or 0, for a    *)
(* percentage or a duration a value that no other allowed value is closer    *)
(* to, through division in single precision, rounding, bounds and bytes.     *)
(* (HovalMessageTransformer.h:17-30, :56-59; HovalMessage.cpp:455;           *)
(* HovalProtocolDecoder.cpp:726-760)                                         *)
distance(raw, value) == IF entry.conversion = "Minutes" THEN Abs(6 * raw - value)
                        ELSE Abs(raw - value)
WritesWhatKnxMeans ==
  last.by = "knx" =>
    /\ Raw \in Allowed(entry.type)
    /\ CASE entry.conversion = "State"   -> Raw = IF last.value THEN entry.code ELSE 0
         [] entry.conversion = "Status3" -> TRUE
         [] OTHER -> \A r \in Allowed(entry.type) : distance(Raw, last.value) <= distance(r, last.value)

(* After an update of the right length the group object shows the register:  *)
(* a switch is on for its own value only, and a duration is at most one      *)
(* minute short, by the truncation (one above 65535 minutes is left out); of *)
(* revolutions it shows the angular frequency, pi / 30 of them, to a         *)
(* thousandth.  (HovalMessageTransformer.h:12-79; HovalMessage.cpp:160-259)  *)
ShowsTheRegister ==
  last.by = "device" /\ last.value = register =>
    CASE entry.conversion = "State"   -> groupObject <=> Raw = entry.code
      [] entry.conversion = "Status3" -> groupObject \div 2^3 = Raw % 2^5 /\ groupObject % 2^3 = 1
      [] entry.conversion = "Scaling" -> Raw <= 100 => groupObject = Raw
      [] entry.conversion = "Minutes" -> 6 * Raw < 2^16 => groupObject \in (6 * Raw - 1) .. (6 * Raw)
      [] entry.conversion = "Float"   -> scaleFloat(groupObject, entry.type.decimals) = Raw
      [] entry.conversion = "Frequency" -> Abs(339 * groupObject - 355 * Raw) <= 339
      [] entry.conversion = "Weeks"   -> groupObject < 2^16

(* What KNX was shown and writes back leaves the register as it is, although *)
(* durations are truncated to minutes on their way to KNX and rounded to     *)
(* tenths of hours on their way back.  Of a switch only "on" comes back, and *)
(* the two objects with status and mode bits do not: their inverse takes the *)
(* bits for the value.  (HovalMessageTransformer.h:49-59, :213-215, :247-249)*)
ShownComesBack ==
  [][ /\ last.by = "device" /\ last.value = register
      /\ entry.inverse /\ Raw \in Allowed(entry.type)
      /\ entry.conversion # "Status3" /\ (entry.conversion = "State" => groupObject)
      /\ last'.by = "knx" /\ last'.value = groupObject
      => register' = register ]_vars
===============================================================================
