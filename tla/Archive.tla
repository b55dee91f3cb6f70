-------------------------------- MODULE Archive --------------------------------
(***************************************************************************)
(* The tar archive that is linked to the kernel, as a sequence of members: *)
(* a name, a type and the contents' size in bytes (and, for programs, the  *)
(* contents as one value).                                                 *)
(***************************************************************************)
EXTENDS Naturals, Sequences, SequencesExt

Regular == {"0", "NUL"}  \* the values of tar_header.type for a plain file

\* Where find_binary() should end: the first plain file of that name, or 0.
FirstNamed(members, name) ==
  SelectInSeq(members, LAMBDA f : f.type \in Regular /\ f.name = name)
==============================================================================
