-------------------------------- MODULE MCTraps --------------------------------
\* Traps for TLC: the name of slot p is p + 10.
EXTENDS Traps

MCName == [p \in Procs |-> p + 10]

Everywhere == Handler \cup {"tail"}
==============================================================================
