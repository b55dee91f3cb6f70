-------------------------------- MODULE Console --------------------------------
(***************************************************************************)
(* What write() and read() of lib.c promise to a program (lib.c, comments  *)
(* in write() and read()): the texts it writes appear on the screen, all   *)
(* of them, once and in order, and read() returns with the line that was   *)
(* typed after it was called.                                              *)
(***************************************************************************)
EXTENDS Naturals, Sequences

CONSTANTS Text, Line, Dark

VARIABLES
  written,  \* the texts that are not on the screen yet
  shown,    \* the last text that appeared
  reader    \* "idle", "asking", or the line typed for it

Put(t) ==
  /\ reader = "idle"
  /\ Len(written) < 2
  /\ written' = Append(written, t)
  /\ UNCHANGED <<shown, reader>>

Show ==
  /\ written # <<>>
  /\ shown' = Head(written)
  /\ written' = Tail(written)
  /\ UNCHANGED reader

Ask ==
  /\ reader = "idle"
  /\ reader' = "asking"
  /\ UNCHANGED <<written, shown>>

Type(l) ==
  /\ reader = "asking"
  /\ reader' = l
  /\ UNCHANGED <<written, shown>>

Return ==
  /\ reader \in Line
  /\ reader' = "idle"
  /\ UNCHANGED <<written, shown>>

Init == written = <<>> /\ shown = Dark /\ reader = "idle"

Next ==
  \/ \E t \in Text : Put(t)
  \/ Show \/ Ask \/ Return
  \/ \E l \in Line : Type(l)

Spec == Init /\ [][Next]_<<written, shown, reader>>
===============================================================================
