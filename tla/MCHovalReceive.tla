----------------------------- MODULE MCHovalReceive -----------------------------
(***************************************************************************)
(* Two devices that use the same message id, a third message, one that is  *)
(* not in the filter table, a single message, and the malformed frames the *)
(* handler guards against.                                                 *)
(***************************************************************************)
EXTENDS HovalReceive

Msg(name, id, parts, tail, known) ==
  [name |-> name, id |-> id, parts |-> parts, tail |-> tail, known |-> known, data |-> TRUE]

MCSent == {Msg("a", 1, 3, 7, TRUE),     \* shares its id with b
           Msg("b", 1, 2, 7, TRUE),
           Msg("c", 2, 2, 2, TRUE),
           Msg("u", 3, 2, 2, FALSE),    \* filtered
           Msg("s", 0, 1, 1, TRUE),     \* single
           [Msg("t", 2, 2, 2, TRUE) EXCEPT !.data = FALSE]}  \* display text

OddFrame(part, first, last, index, id, count, length) ==
  [first |-> first, last |-> last, index |-> index, id |-> id, count |-> count,
   length |-> length, known |-> TRUE, data |-> TRUE, part |-> <<part, 0>>]

MCOdd == {OddFrame("short", FALSE, FALSE, 30, 1, 0, 5),    \* short intermediate
          OddFrame("empty", FALSE, TRUE, 30, 2, 0, 0),     \* no byte, stale id
          OddFrame("brief", FALSE, TRUE, 30, 1, 0, 2),     \* ends a body of two bytes
          OddFrame("long", TRUE, FALSE, 31, 1, 4, 8),      \* announces four parts
          OddFrame("early", FALSE, TRUE, 31, 1, 0, 8),     \* follow-up numbered 0
          OddFrame("zero", FALSE, FALSE, 0, 1, 0, 8),      \* index 0
          OddFrame("one", TRUE, FALSE, 31, 1, 1, 8),       \* count 1
          OddFrame("special", TRUE, TRUE, 0, 1, 0, 2)}     \* index 0, single
===============================================================================
