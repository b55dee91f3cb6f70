------------------------------- MODULE MCSystem -------------------------------
(***************************************************************************)
(* The four processes of RViX in a table with one empty slot, with the     *)
(* timer kept out of the critical sections and with the timer everywhere.  *)
(***************************************************************************)
EXTENDS System

MCName == [p \in Procs |-> CASE p = VFS -> 10 [] p = terminal -> 11
                             [] p = uinput -> 13 [] p = shell -> 12]
Everywhere == Procs \X Labels
OutsideCriticalSections == Everywhere \ CriticalSections
==============================================================================
