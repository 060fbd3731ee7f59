-------------------------------- MODULE Storage ---------------------------------
(***************************************************************************)
(* What the gateway keeps data in: the ring buffer, the hash map and the   *)
(* flash memory, each under every sequence of calls.  They share nothing,  *)
(* so a behaviour is about one of them and the others stay as they are.    *)
(***************************************************************************)
EXTENDS RingBufferQueue, HashMapDictionary, HovalFlash

VARIABLE used   \* the storage this behaviour is about

StorageInit == Init /\ MapInit /\ FlashInit /\ used \in {"ring", "map", "flash"}

StorageNext ==
  /\ UNCHANGED used
  /\ \/ used = "ring"  /\ Next      /\ UNCHANGED <<table, flashVars>>
     \/ used = "map"   /\ MapNext   /\ UNCHANGED <<vars, flashVars>>
     \/ used = "flash" /\ FlashNext /\ UNCHANGED <<vars, table>>

StorageSpec == StorageInit /\ [][StorageNext]_<<vars, table, flashVars, used>>

-------------------------------------------------------------------------------
\* The first three keys share a chain, so that one is first, one in the middle and
\* one last; the fourth is alone.
Chained == <<0, 3, 6, 1>>
===============================================================================
