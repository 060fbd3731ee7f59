------------------------ MODULE MCHovalMessageTransformer ------------------------
(***************************************************************************)
(* Values for HovalMessageTransformer: every duration up to two hours,     *)
(* every eleventh of the others up to the bound of 24 hours, and some that *)
(* are beyond it.                                                          *)
(***************************************************************************)
EXTENDS HovalMessageTransformer

Raw8Tested     == (0..9) \cup {14, 15, 16, 17, 25, 29, 30, 31, 32, 33, 41, 47, 48, 49, 57, 64,
                               65, 66, 99, 100, 101, 249, 255}
Raw16Tested    == (0..240) \cup {241, 300, 500, 10922, 10923, 32767, 32768, 65236, 65535}
MinutesTested  == (0..130) \cup {11 * i : i \in 12..130}
                     \cup {1436, 1437, 1438, 1439, 1440, 1443, 32768, 65535}
PercentsTested == 0..100
===============================================================================
