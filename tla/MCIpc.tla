-------------------------------- MODULE MCIpc --------------------------------
(***************************************************************************)
(* Small instances of Ipc for TLC: two processes that fill their table or  *)
(* leave a slot of it UNUSED, and three that fill it.  The names are       *)
(* RViX's own (bootstrap.c).                                               *)
(***************************************************************************)
EXTENDS Ipc

MCName == [p \in Procs |-> 10 + p]
==============================================================================
