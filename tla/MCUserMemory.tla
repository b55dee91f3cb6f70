----------------------------- MODULE MCUserMemory -----------------------------
(***************************************************************************)
(* UserMemory for TLC.  Which page serves which purpose makes no           *)
(* difference to the functions: they compare addresses only for equality,  *)
(* and with NULL.  So two states in which the spaces look alike and the    *)
(* same number of pages is free are the same state to TLC, as if it knew   *)
(* that Pages is a symmetric set.                                          *)
(***************************************************************************)
EXTENDS UserMemory

CONSTANTS s1, s2

MCSpaces == {s1, s2}
MCData == {1}

Look(s) ==
  [n \in Vpn |->
     LET va == n * PGSIZE
         w == walk(k, root[s], va, FALSE)
         pte == entry(w, va)
     IN  <<w.ret # NULL, pte.flags, IF valid(pte) THEN k.ram[pte.pa][0].pa ELSE NULL>>]

UpToPages ==
  <<sz, Cardinality(DOMAIN FreeList(k)), k.panic, EachPageOnce,
    [s \in Spaces |-> IF root[s] = NULL THEN <<>> ELSE <<Cardinality(Tables(s)), Look(s)>>]>>
==============================================================================
