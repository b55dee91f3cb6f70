------------------------------ MODULE UserMemory ------------------------------
(***************************************************************************)
(* Address spaces made with vm.c in the order its comments ask for: a      *)
(* table is created, grows and shrinks from the size it has, is copied     *)
(* into an empty one, and is freed with its size.  Memory may run out at   *)
(* any kalloc() of any call.                                               *)
(***************************************************************************)
EXTENDS Vm, FiniteSets

CONSTANTS
  Spaces,   \* the page tables in use
  MAXSIZE,  \* bound on the size of a space, in bytes
  Data      \* what a user may write into a page

ASSUME UserMemoryAssumption ==
  /\ MAXSIZE \in Nat
  /\ MAXSIZE <= MAXVA
  /\ Data \subseteq Int

VARIABLES
  k,     \* the memory
  root,  \* the page table of each space, or NULL
  sz     \* its size

umvars == <<k, root, sz>>

\* Page numbers that a space may have, and the page behind one.
Vpn == 0 .. (PGROUNDUP(MAXSIZE) \div PGSIZE) - 1
Pte(s, n) ==
  IF root[s] = NULL THEN word(NULL, {})
  ELSE entry(walk(k, root[s], n * PGSIZE, FALSE), n * PGSIZE)
Mapped(s) == {n \in Vpn : valid(Pte(s, n))}

UMInit ==
  /\ k = kinit(PHYSTOP - END)
  /\ root = [s \in Spaces |-> NULL]
  /\ sz = [s \in Spaces |-> 0]

create(s) ==
  /\ root[s] = NULL
  /\ k' = uvmcreate(k)
  /\ root' = [root EXCEPT ![s] = k'.ret]
  /\ UNCHANGED sz

grow(s) ==
  /\ root[s] # NULL
  /\ \E n \in sz[s] + 1 .. MAXSIZE :
       /\ k' = uvmalloc(k, root[s], sz[s], n, {"W"})
       /\ sz' = IF k'.ret = 0 THEN sz ELSE [sz EXCEPT ![s] = k'.ret]
  /\ UNCHANGED root

shrink(s) ==
  /\ root[s] # NULL
  /\ \E n \in 0 .. sz[s] - 1 :
       /\ k' = uvmdealloc(k, root[s], sz[s], n)
       /\ sz' = [sz EXCEPT ![s] = k'.ret]
  /\ UNCHANGED root

copy(s, t) ==
  /\ root[s] # NULL /\ root[t] # NULL
  /\ sz[s] > 0 /\ sz[t] = 0
  /\ k' = uvmcopy(k, root[s], root[t], sz[s])
  /\ sz' = IF k'.ret = 0 THEN [sz EXCEPT ![t] = sz[s]] ELSE sz
  /\ UNCHANGED root

clear(s) ==
  /\ \E n \in Mapped(s) : k' = uvmclear(k, root[s], n * PGSIZE)
  /\ UNCHANGED <<root, sz>>

free(s) ==
  /\ root[s] # NULL
  /\ k' = uvmfree(k, root[s], sz[s])
  /\ root' = [root EXCEPT ![s] = NULL]
  /\ sz' = [sz EXCEPT ![s] = 0]

\* A program writes to a page that the table lets it write to.
store(s) ==
  /\ root[s] # NULL
  /\ \E n \in Vpn, d \in Data :
       /\ walkaddr(k, root[s], n * PGSIZE) # NULL
       /\ k' = [k EXCEPT !.ram[walkaddr(k, root[s], n * PGSIZE)] = Page(word(d, {}))]
  /\ UNCHANGED <<root, sz>>

UMNext ==
  \E s \in Spaces :
    \/ create(s) \/ grow(s) \/ shrink(s) \/ clear(s) \/ free(s) \/ store(s)
    \/ \E t \in Spaces \ {s} : copy(s, t)

UMSpec == UMInit /\ [][UMNext]_umvars

------------------------------------------------------------------------------
UMTypeOK ==
  /\ k.freelist \in Pages \cup {NULL}
  /\ k.ram \in [Pages -> [Words -> [pa : Int, flags : SUBSET Flags]]]
  /\ k.panic \in Panics
  /\ root \in [Spaces -> Pages \cup {NULL}]
  /\ sz \in [Spaces -> 0..MAXSIZE]

\* The tables of a space: its root and what valid entries that are no leaves
\* lead to, level by level.
Children(t) ==
  {k.ram[t][i].pa : i \in {j \in Words : valid(k.ram[t][j]) /\ ~leaf(k.ram[t][j])}}
Tables(s) ==
  IF root[s] = NULL THEN {}
  ELSE LET mid == Children(root[s])
       IN  {root[s]} \cup mid \cup UNION {Children(t) : t \in mid}

\* However many calls failed halfway, no page is lost and none has two uses:
\* it is referred to once, from the free list, as a root, or by an entry of a
\* table in use (kalloc.c:40-43, vm.c:289).
EachPageOnce ==
  LET list == FreeList(k)
      tables == UNION {Tables(s) : s \in Spaces}
      entries == {e \in tables \X Words : valid(k.ram[e[1]][e[2]])}
      references(p) ==
        Cardinality({i \in DOMAIN list : list[i] = p})
          + Cardinality({s \in Spaces : root[s] = p})
          + Cardinality({e \in entries : k.ram[e[1]][e[2]].pa = p})
  IN  \A p \in Pages : references(p) = 1

\* Callers that keep to the sizes they were given never reach a panic: no
\* remap in mappages(), no leaf in freewalk(), no bad address in kfree().
NoMemoryPanic == k.panic = "none"

Abstract == INSTANCE AddressSpaces WITH
  Space <- Spaces, Value <- Data, Blank <- 0, size <- sz,
  mem <- [s \in Spaces |-> [n \in Mapped(s) |->
           [value |-> k.ram[Pte(s, n).pa][0].pa, user |-> "U" \in Pte(s, n).flags]]]

\* The trees are address spaces: blank new pages, copies that share nothing,
\* and no trace of a call that ran out of memory.
ImplementsAddressSpaces == Abstract!ASSpec
==============================================================================
