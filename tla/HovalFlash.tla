------------------------------- MODULE HovalFlash -------------------------------
(***************************************************************************)
(* The values for party and pause in the flash memory.  They are on no     *)
(* register of their own, so after a restart nothing but this memory can   *)
(* tell what KNX wrote.  OpenKNX decides when it is written: when the      *)
(* power fails, if it notices in time.                                     *)
(***************************************************************************)
EXTENDS Naturals

CONSTANTS Percents, Uninitialized, NoData

VARIABLES
  objects,  \* the group objects of the two values
  flash,    \* what OpenKNX keeps for this module
  saved     \* history: the group objects when the flash was written last
flashVars == <<objects, flash, saved>>

ValueObjects == {"party_value", "pause_value"}

HOV_FLASH_VERSION == 1

Unset == [o \in ValueObjects |-> Uninitialized]

Record(version, flags, values) == [version |-> version, flags |-> flags, values |-> values]

\* Empty flash is told from written flash: OpenKNX calls readFlash with size 0.
ASSUME NoDataAssumption ==
  \A version \in 1..2, flags \in SUBSET ValueObjects,
     values \in [ValueObjects -> Percents \cup {Uninitialized, 0}] :
       NoData # Record(version, flags, values)

\* The flash is empty or left by another version of the firmware.
FlashInit ==
  /\ objects = Unset /\ saved = Unset
  /\ flash \in {NoData} \cup {Record(HOV_FLASH_VERSION + 1, ValueObjects, [o \in ValueObjects |-> p]) :
                                p \in Percents}

writeFlash ==
  LET flags == {o \in ValueObjects : objects[o] # Uninitialized}
  IN  /\ flash' = Record(HOV_FLASH_VERSION, flags,
                         [o \in ValueObjects |-> IF o \in flags THEN objects[o] ELSE 0])
      /\ saved' = objects
      /\ UNCHANGED objects

\* Variant: the flags are not looked at.
readValues == IF flash = NoData \/ flash.version # HOV_FLASH_VERSION THEN Unset ELSE flash.values

\* The group objects after readFlash(), from those of a start.
readFlash ==
  IF flash = NoData \/ flash.version # HOV_FLASH_VERSION THEN Unset
  ELSE [o \in ValueObjects |-> IF o \in flash.flags THEN flash.values[o] ELSE Uninitialized]

KnxSets(o, p) == objects' = [objects EXCEPT ![o] = p] /\ UNCHANGED <<flash, saved>>

Restart == objects' = readFlash /\ UNCHANGED <<flash, saved>>

FlashNext == (\E o \in ValueObjects, p \in Percents : KnxSets(o, p)) \/ writeFlash \/ Restart

FlashSpec == FlashInit /\ [][FlashNext]_flashVars

-------------------------------------------------------------------------------
(* A restart brings back exactly what the group objects held when the flash  *)
(* was written last: a value nobody had set comes back as none, not as 0,    *)
(* and what another version has written is not taken for values.             *)
(* (HovalGatewayModule.cpp:234-276)                                          *)
SavedComesBack == [][Restart => objects' = saved]_flashVars
===============================================================================
