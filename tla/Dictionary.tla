------------------------------- MODULE Dictionary -------------------------------
(***************************************************************************)
(* What a user of HashMap relies on: a function from keys to what get()    *)
(* returns for them.                                                       *)
(***************************************************************************)
CONSTANTS Keys, Data, nullptr

VARIABLE map

Init == map = [k \in Keys |-> nullptr]

Put(k, d) == map' = [map EXCEPT ![k] = d]
Remove(k) == map' = [map EXCEPT ![k] = nullptr]

Next == \E k \in Keys : (\E d \in Data : Put(k, d)) \/ Remove(k)

Spec == Init /\ [][Next]_map
===============================================================================
