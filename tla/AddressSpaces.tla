----------------------------- MODULE AddressSpaces -----------------------------
(***************************************************************************)
(* What vm.c promises its callers: every address space is a size and a     *)
(* function from page numbers to pages of its own; a call that runs out of *)
(* memory changes nothing.                                                 *)
(***************************************************************************)
EXTENDS Naturals

CONSTANTS Space, Value, Blank, PGSIZE, MAXSIZE

VARIABLES size, mem  \* of every space; [n |-> [value, user]] for the pages it has

Ceil(sz) == (sz + PGSIZE - 1) \div PGSIZE
Before(sz) == {n \in 0 .. Ceil(MAXSIZE) : n < Ceil(sz)}
Fresh == [value |-> Blank, user |-> TRUE]

set(s, sz, pages) ==
  /\ size' = [size EXCEPT ![s] = sz]
  /\ mem' = [mem EXCEPT ![s] = pages]

ASInit == size = [s \in Space |-> 0] /\ mem = [s \in Space |-> <<>>]

\* New pages are blank, whoever had them before.
Grow(s) ==
  \E sz \in size[s] .. MAXSIZE :
    set(s, sz, [n \in DOMAIN mem[s] \cup (Before(sz) \ Before(size[s])) |->
                  IF n \in DOMAIN mem[s] THEN mem[s][n] ELSE Fresh])

Shrink(s) ==
  \E sz \in 0 .. size[s] :
    set(s, sz, [n \in DOMAIN mem[s] \cap Before(sz) |-> mem[s][n]])

\* The copy has pages of its own with the same values and the same guards.
Copy(s, t) ==
  /\ size[t] = 0
  /\ set(t, size[s], mem[s])

Guard(s) ==
  \E n \in DOMAIN mem[s] : set(s, size[s], [mem[s] EXCEPT ![n].user = FALSE])

\* The user writes to a page of its own; no other page of any space changes.
Store(s) ==
  \E n \in DOMAIN mem[s], v \in Value :
    /\ mem[s][n].user
    /\ set(s, size[s], [mem[s] EXCEPT ![n].value = v])

ASNext ==
  \E s \in Space :
    \/ Grow(s) \/ Shrink(s) \/ Guard(s) \/ Store(s)
    \/ \E t \in Space \ {s} : Copy(s, t)

ASSpec == ASInit /\ [][ASNext]_<<size, mem>>
==============================================================================
