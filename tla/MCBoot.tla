-------------------------------- MODULE MCBoot --------------------------------
(***************************************************************************)
(* Boot for TLC: tables of 8 entries, 56 pages of RAM, and the four        *)
(* servers, two of which serve devices.  The RAM that is there runs from   *)
(* none to all of it; with all of it a server may be missing from the      *)
(* archive, hidden by a directory of its name, or too large.  With just    *)
(* enough for the kernel's own table the archive is any one of up to two   *)
(* members, their sizes around the multiples of a block, up to two octal   *)
(* digits.                                                                 *)
(***************************************************************************)
EXTENDS Boot

MCServers ==
  <<[namebin |-> "VFS", param |-> 0], [namebin |-> "terminal", param |-> 1],
    [namebin |-> "uinput", param |-> 1], [namebin |-> "shell", param |-> 0]>>

File(i) == [name |-> MCServers[i].namebin, type |-> "0", size |-> 1, contents |-> i]
Whole == [i \in 1..4 |-> File(5 - i)]

Members == [name : {"VFS", "shell"}, type : {"0", "NUL", "5"}, size : {0, 1, 4, 9},
            contents : {7}]

KernelTables == 12  \* pages of the kernel's own table

MCStarts ==
  {[pages |-> n, archive |-> Whole] : n \in 0 .. PHYSTOP - END}
    \cup {[pages |-> PHYSTOP - END, archive |-> [Whole EXCEPT ![i] = f]] :
            i \in 1..4,
            f \in {[name |-> "VFS", type |-> "5", size |-> 0, contents |-> 5],
                   [name |-> "uinput", type |-> "NUL", size |-> 2, contents |-> 6]}}
    \cup {[pages |-> KernelTables, archive |-> a] :
            a \in UNION {[1..n -> Members] : n \in 0..2}}
==============================================================================
