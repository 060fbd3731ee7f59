------------------------------ MODULE HovalMessages ------------------------------
(***************************************************************************)
(* The data points of HovalMessages.h, and the table in which the protocol *)
(* handler looks them up: a hash map that begin() fills with the types of  *)
(* messageFilter.                                                          *)
(***************************************************************************)
EXTENDS Integers, Sequences

CONSTANT nullptr

INT32_MIN == -2147483647 - 1   \* no lower bound
INT32_MAX == 2147483647        \* no upper bound

HOVAL_HOMEVENT                   == 512 \div 2^4
HOVAL_FUNCTION_GROUP_VENTILATION == 50

HovalMessageType(unitType, functionGroup, functionNumber, dataPointId, rawType, decimals, dataType, minValue, maxValue) ==
  [unitType |-> unitType, functionGroup |-> functionGroup, functionNumber |-> functionNumber,
   dataPointId |-> dataPointId, rawType |-> rawType, decimals |-> decimals,
   dataType |-> dataType, minValue |-> minValue, maxValue |-> maxValue]

\* The types the table consists of: a data point of the ventilation that is only
\* read, one with bounds that is written, and one of the device itself.
Measured(dp, raw, decimals, data) ==
  HovalMessageType(HOVAL_HOMEVENT, HOVAL_FUNCTION_GROUP_VENTILATION, 0, dp, raw, decimals, data,
                   INT32_MIN, INT32_MAX)
Setting(dp, raw, decimals, data, least, greatest) ==
  HovalMessageType(HOVAL_HOMEVENT, HOVAL_FUNCTION_GROUP_VENTILATION, 0, dp, raw, decimals, data,
                   least, greatest)
OfDevice(dp, raw, decimals, data) ==
  HovalMessageType(HOVAL_HOMEVENT, 0, 0, dp, raw, decimals, data, INT32_MIN, INT32_MAX)

TemperatureOutdoor       == Measured(0, "S16", 1, "FLOAT")
DisplayState             == Measured(503, "U8", 0, "UINT8")
ActiveWeek               == Measured(504, "U8", 0, "UINT8")
ActiveWeekName           == Measured(505, "RAW", 0, "STRING")
DeviceName               == Measured(4005, "RAW", 0, "STRING")
PartyMode                == Setting(2010, "U16", 1, "FLOAT", 0, 240)
PauseMode                == Setting(2018, "U16", 1, "FLOAT", 0, 240)
HumidityExhaust          == Measured(37600, "U8", 0, "UINT8")
TemperatureExhaust       == Measured(37602, "S16", 1, "FLOAT")
VocExhaust               == Measured(37608, "U8", 0, "UINT8")
VocOutdoor               == Measured(37611, "U8", 0, "UINT8")
VentilationExhaust       == Measured(38600, "U8", 0, "UINT8")
Modulation               == Measured(38606, "U8", 0, "UINT8")
AirQualityControl        == Setting(39600, "U8", 0, "LIST", 0, 6)
VentilationControlStatus == Measured(39652, "U8", 0, "LIST")
OperatingMode            == Setting(40650, "U8", 0, "LIST", 0, 5)
NormalModulation         == Setting(40651, "U8", 0, "UINT8", 15, 100)
EconomyModulation        == Setting(40686, "U8", 0, "UINT8", 15, 100)
HumiditySetpoint         == Setting(40687, "U8", 0, "UINT8", 30, 65)
PartyPauseValue          == Setting(40714, "U8", 0, "UINT8", 15, 100)

VentilatorExhaustPWM      == OfDevice(41600, "U8", 0, "UINT8")
VentilatorOutdoorPWM      == OfDevice(41601, "U8", 0, "UINT8")
RPMRotor1                 == OfDevice(41604, "U16", 2, "FLOAT")
RPMRotor2                 == OfDevice(41605, "U16", 2, "FLOAT")
Welcome                   == OfDevice(4005, "RAW", 0, "STRING")
MaintenanceResetCounter   == OfDevice(21054, "U8", 0, "UINT8")
MaintenanceRemainingTime  == OfDevice(21058, "RAW", 0, "RAW")
MaintenanceRemainingTime2 == OfDevice(20037, "RAW", 0, "RAW")

ActiveErrors == [i \in 1..5 |-> OfDevice(29041 + i, "RAW", 0, "ERRORTYPE")]

-------------------------------------------------------------------------------
messageFilter ==
  <<OperatingMode, NormalModulation, EconomyModulation, Modulation, HumiditySetpoint,
    HumidityExhaust, VocExhaust, VocOutdoor, AirQualityControl, VentilationControlStatus,
    TemperatureOutdoor, TemperatureExhaust, VentilationExhaust, PartyMode, PauseMode,
    PartyPauseValue, MaintenanceRemainingTime, MaintenanceRemainingTime2>>
  \o ActiveErrors \o
  <<ActiveWeek, ActiveWeekName, DisplayState, DeviceName, VentilatorExhaustPWM,
    VentilatorOutdoorPWM, RPMRotor1, RPMRotor2>>

Filtered == {messageFilter[i] : i \in DOMAIN messageFilter}
Declared == Filtered \cup {Welcome, MaintenanceResetCounter}   \* these are not in the filter

HovalMessageTypeId(type) ==
  [unitType |-> type.unitType, functionGroup |-> type.functionGroup,
   functionNumber |-> type.functionNumber, dataPointId |-> type.dataPointId]

\* The ids a frame may carry: those of the types, and the same data points of
\* another device, function group or function.
TypeIds ==
  LET ids == {HovalMessageTypeId(t) : t \in Declared}
  IN  ids \cup {[id EXCEPT !.unitType = 64] : id \in ids}
          \cup {[id EXCEPT !.functionGroup = 50 - @] : id \in ids}
          \cup {[id EXCEPT !.functionNumber = 1] : id \in ids}

hashCode(id) ==
  (id.dataPointId + 31 * id.functionNumber + 31 * 31 * id.functionGroup
     + 31 * 31 * 31 * id.unitType) % 2^16

messageFilterHash == [id \in TypeIds |-> hashCode(id)]

TypeMap == INSTANCE HashMap WITH Keys <- TypeIds, tableSize <- 53, hashFunc <- messageFilterHash

\* Variant: the last type is left out.
fillOneLess ==
  LET table[i \in 0 .. Len(messageFilter)] ==
        IF i = 0 THEN TypeMap!emptyTable
        ELSE TypeMap!put(table[i - 1], HovalMessageTypeId(messageFilter[i]), messageFilter[i])
  IN  table[Len(messageFilter) - 1]

\* The table begin() leaves: table[i] is the one after i turns of its loop.
filled ==
  LET table[i \in 0 .. Len(messageFilter)] ==
        IF i = 0 THEN TypeMap!emptyTable
        ELSE TypeMap!put(table[i - 1], HovalMessageTypeId(messageFilter[i]), messageFilter[i])
  IN  table[Len(messageFilter)]

\* What is found once begin() has filled the table; before, the table is empty.
found == [id \in TypeIds |-> TypeMap!get(filled, id)]

findMessageType(begun, id) == IF begun THEN found[id] ELSE TypeMap!get(TypeMap!emptyTable, id)
===============================================================================
