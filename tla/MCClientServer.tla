---------------------------- MODULE MCClientServer ----------------------------
EXTENDS ClientServer

MCName == [p \in Procs |-> 10 + p]
==============================================================================
