--------------------------- MODULE HashMapDictionary ---------------------------
(***************************************************************************)
(* The hash map under every sequence of calls.  Refines Dictionary.        *)
(***************************************************************************)
EXTENDS HashMap

CONSTANT Data   \* the pointers that can be stored

ASSUME HashMapAssumption ==
  /\ tableSize \in Nat \ {0}
  /\ hashFunc \in [Keys -> Nat]
  /\ nullptr \notin Data

VARIABLE table

MapInit == table = emptyTable

Put(k, d) == table' = put(table, k, d)
Remove(k) == table' = remove(table, k)

MapNext == \E k \in Keys : (\E d \in Data : Put(k, d)) \/ Remove(k)

MapSpec == MapInit /\ [][MapNext]_table

-------------------------------------------------------------------------------
(* Every node is in the chain of its key and no key has two nodes, whatever  *)
(* was put and removed before: an older value can never come back.           *)
(* (HashMap.h:90-157)                                                        *)
ChainsSound == \A h \in HashKeys : ChainSound(h, table[h])

(* The hash map implements the dictionary: get returns the value put last    *)
(* under the key, also when keys share a chain and whatever position in it   *)
(* was updated or removed.  (HashMap.h:72-157)                               *)
Dict == INSTANCE Dictionary WITH map <- [k \in Keys |-> get(table, k)]
ImplementsDictionary == Dict!Spec
===============================================================================
