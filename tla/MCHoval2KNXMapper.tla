--------------------------- MODULE MCHoval2KNXMapper ---------------------------
(***************************************************************************)
(* Two extracts of the table of HovalMessageTransformer.h: the party and   *)
(* pause entries, whose values share one register, and the entries of the  *)
(* air quality control, several group objects of one data point.           *)
(***************************************************************************)
EXTENDS Hoval2KNXMapper, TLC

Entry(type, comObject, toKnx, toHoval) ==
  [type |-> type, comObject |-> comObject, prerequisite |-> NoKO,
   ignoreIncoming |-> FALSE, sendOnlyAsPrerequisite |-> FALSE, active |-> TRUE,
   toKnx |-> toKnx, toHoval |-> toHoval]

\* Tenths of an hour and minutes; 20 minutes are sent as 0.3 hours.
Mode(type, comObject, value, toHoval) ==
  [type |-> type, comObject |-> comObject, prerequisite |-> value,
   ignoreIncoming |-> FALSE, sendOnlyAsPrerequisite |-> FALSE, active |-> TRUE,
   toKnx |-> 0 :> 0 @@ 3 :> 18, toHoval |-> toHoval]

\* Percent, kept inside the range 15..100 of the data point on the way out.
SharedValue(comObject, toHoval) ==
  [type |-> "PartyPauseValue", comObject |-> comObject, prerequisite |-> NoKO,
   ignoreIncoming |-> TRUE, sendOnlyAsPrerequisite |-> TRUE, active |-> FALSE,
   toKnx |-> 15 :> 15 @@ 100 :> 100, toHoval |-> toHoval]

PartyTable == <<Mode("PartyMode", "party_mode", "party_value", 0 :> 0 @@ 20 :> 3),
                Mode("PauseMode", "pause_mode", "pause_value", 20 :> 3),
                SharedValue("party_value", 100 :> 100), SharedValue("pause_value", 10 :> 15)>>

\* 0 standby, 5 CoolVent: two switches of one data point (both of which
\* KNX only turns on here), the second without
\* its transmit flag and therefore never polled, and an error flag.
AirQualityTable ==
  <<Entry("AirQualityControl", "coolvent", 0 :> 0 @@ 5 :> 1, 1 :> 5),
    [Entry("AirQualityControl", "standby", 0 :> 1 @@ 5 :> 0, 1 :> 0)
      EXCEPT !.active = FALSE],
    Entry("Error", "error", 0 :> 0, NoInverse)>>

\* As shipped, values are sent every five minutes, and changes not at once.
AsShipped   == {<<FALSE, TRUE>>}
ChangesOnly == {<<TRUE, FALSE>>}
EitherWay   == AsShipped \cup ChangesOnly
===============================================================================
