---------------------------------- MODULE Vm ----------------------------------
(***************************************************************************)
(* vm.c: page tables of three levels, in pages that kalloc() gives.        *)
(* Virtual addresses count bytes, PGSIZE to a page.                        *)
(***************************************************************************)
EXTENDS Kalloc

CONSTANT PGSIZE

ASSUME PageAssumption == PGSIZE \in Nat \ {0}

\* What the panics of these calls are about, and "none".
Panics == {"none", "kfree", "access_fault", "walk", "remap", "mappages", "uvmunmap",
           "freewalk", "uvmclear"}

\* One bit less than three levels of indices can tell apart.
MAXVA == (WORDS * WORDS * WORDS * PGSIZE) \div 2

PX(level, va) ==
  LET vpn == va \div PGSIZE
  IN  (CASE level = 2 -> (vpn \div WORDS) \div WORDS
         [] level = 1 -> vpn \div WORDS
         [] OTHER -> vpn) % WORDS
PGROUNDUP(sz) == ((sz + PGSIZE - 1) \div PGSIZE) * PGSIZE

\* How often a for loop goes round that visits from, from + PGSIZE, ... below to.
rounds(from, to) == IF from < to THEN PGROUNDUP(to - from) \div PGSIZE ELSE 0

PTE2PA(w) == w.pa
valid(w) == "V" \in w.flags
leaf(w) == w.flags \cap {"R", "W", "X"} # {}

\* One round of the loop in walk(): k.ret is the table of this level, and
\* then the next one or NULL.
link(a, table, i) ==
  IF a.ret = NULL THEN a ELSE [a EXCEPT !.ram[table][i] = word(a.ret, {"V"})]

descend(k, i, alloc) ==
  IF k.ret = NULL THEN k
  ELSE IF k.ret \notin Pages THEN return(stop(k, "access_fault"), NULL)
  ELSE IF valid(k.ram[k.ret][i]) THEN return(k, PTE2PA(k.ram[k.ret][i]))
  ELSE IF alloc THEN link(kalloc_zeroed(k), k.ret, i)
  ELSE return(k, NULL)

in_ram(k) ==
  IF k.ret \in Pages \cup {NULL} THEN k ELSE return(stop(k, "access_fault"), NULL)

\* The last table of the walk, whose entry PX(0, va) is va's, or NULL.
walk(k, pagetable, va, alloc) ==
  IF va >= MAXVA THEN return(stop(k, "walk"), NULL)
  ELSE in_ram(descend(descend(return(k, pagetable), PX(2, va), alloc), PX(1, va), alloc))

\* va's entry, after a walk w to it.
entry(w, va) == IF w.ret = NULL THEN word(NULL, {}) ELSE w.ram[w.ret][PX(0, va)]

user_page(pte) == IF {"V", "U"} \subseteq pte.flags THEN PTE2PA(pte) ELSE NULL
walkaddr(k, pagetable, va) ==
  IF va >= MAXVA THEN NULL ELSE user_page(entry(walk(k, pagetable, va, FALSE), va))

ismapped(k, pagetable, va) == valid(entry(walk(k, pagetable, va, FALSE), va))

map_entry(w, va, pte) ==
  IF w.ret = NULL THEN return(w, -1)
  ELSE IF valid(entry(w, va)) THEN return(stop(w, "remap"), -1)
  ELSE [w EXCEPT !.ram[w.ret][PX(0, va)] = pte, !.ret = 0]

mappages(k, pagetable, va, size, pa, perm) ==
  LET page(s, a, to) ==
        IF s.ret = -1 THEN s
        ELSE map_entry(walk(s, pagetable, a, TRUE), a, word(to, perm \cup {"V"}))
      map(s, i) == page(s, va + (i - 1) * PGSIZE, pa + i - 1)
  IN  IF va % PGSIZE # 0 \/ size % PGSIZE # 0 \/ size = 0
      THEN stop(k, "mappages")
      ELSE Loop(map, return(k, 0), rounds(va, va + size))

uvmcreate(k) == kalloc_zeroed(k)

unmap_entry(w, va, do_free) ==
  IF valid(entry(w, va))
  THEN [(IF do_free THEN kfree(w, PTE2PA(entry(w, va))) ELSE w)
          EXCEPT !.ram[w.ret][PX(0, va)] = word(NULL, {})]
  ELSE w

uvmunmap(k, pagetable, va, npages, do_free) ==
  LET page(s, a) == unmap_entry(walk(s, pagetable, a, FALSE), a, do_free)
      unmap(s, i) == page(s, va + (i - 1) * PGSIZE)
  IN  IF va % PGSIZE # 0 THEN stop(k, "uvmunmap")
      ELSE Loop(unmap, k, npages)

\* Faulty variant: pages are taken from the table and not freed.
uvmdealloc_no_free(k, pagetable, oldsz, newsz) ==
  IF newsz >= oldsz THEN return(k, oldsz)
  ELSE LET npages == (PGROUNDUP(oldsz) - PGROUNDUP(newsz)) \div PGSIZE
       IN  return(uvmunmap(k, pagetable, PGROUNDUP(newsz), npages, FALSE), newsz)

uvmdealloc(k, pagetable, oldsz, newsz) ==
  IF newsz >= oldsz THEN return(k, oldsz)
  ELSE LET npages == (PGROUNDUP(oldsz) - PGROUNDUP(newsz)) \div PGSIZE
       IN  return(uvmunmap(k, pagetable, PGROUNDUP(newsz), npages, TRUE), newsz)

\* A page that cannot be had or mapped gives back those before it.
uvmalloc(k, pagetable, oldsz, newsz, xperm) ==
  LET undo(s, a) == return(uvmdealloc(s, pagetable, a, PGROUNDUP(oldsz)), 0)
      mapped(p, mem, a) == IF p.ret = 0 THEN return(p, newsz) ELSE undo(kfree(p, mem), a)
      got(m, a) ==
        IF m.ret = NULL THEN undo(m, a)
        ELSE mapped(mappages(m, pagetable, a, PGSIZE, m.ret, {"R", "U"} \cup xperm), m.ret, a)
      grow(s, i) ==
        IF s.ret = 0 THEN s ELSE got(kalloc_zeroed(s), PGROUNDUP(oldsz) + (i - 1) * PGSIZE)
  IN  IF newsz < oldsz THEN return(k, oldsz)
      ELSE Loop(grow, return(k, newsz), rounds(PGROUNDUP(oldsz), newsz))

\* freewalk() of a table whose children sub() frees.
freetable(k, pagetable, sub(_, _)) ==
  LET entry_of(s, i, pte) ==
        IF valid(pte) /\ ~leaf(pte)
        THEN [sub(s, PTE2PA(pte)) EXCEPT !.ram[pagetable][i] = word(NULL, {})]
        ELSE IF valid(pte) THEN stop(s, "freewalk") ELSE s
      visit(s, i) == entry_of(s, i - 1, s.ram[pagetable][i - 1])
  IN  IF pagetable \notin Pages THEN stop(k, "access_fault")
      ELSE kfree(Loop(visit, k, WORDS), pagetable)

\* Three levels; below the last there is no table in a tree that walk() built.
freewalk(k, pagetable) ==
  LET level0(s, t) == freetable(s, t, LAMBDA u, w : stop(u, "access_fault"))
      level1(s, t) == freetable(s, t, level0)
  IN  freetable(k, pagetable, level1)

\* Faulty variant: a last page that is only partly used stays mapped.
uvmfree_partial(k, pagetable, sz) ==
  freewalk(IF sz > 0 THEN uvmunmap(k, pagetable, 0, sz \div PGSIZE, TRUE) ELSE k, pagetable)

uvmfree(k, pagetable, sz) ==
  freewalk(IF sz > 0 THEN uvmunmap(k, pagetable, 0, PGROUNDUP(sz) \div PGSIZE, TRUE) ELSE k,
           pagetable)

\* Faulty variant: what was copied before memory ran out stays.
uvmcopy_no_undo(k, new, i) == return(k, -1)

\* err: of uvmcopy().
uvmcopy_err(k, new, i) == return(uvmunmap(k, new, 0, i \div PGSIZE, TRUE), -1)

uvmcopy(k, old, new, sz) ==
  LET mapped(p, mem, i) == IF p.ret = 0 THEN p ELSE uvmcopy_err(kfree(p, mem), new, i)
      got(m, i, pte) ==
        IF m.ret = NULL THEN uvmcopy_err(m, new, i)
        ELSE mapped(mappages([m EXCEPT !.ram[m.ret] = m.ram[PTE2PA(pte)]],
                             new, i, PGSIZE, m.ret, pte.flags), m.ret, i)
      page(s, i, pte) == IF valid(pte) THEN got(kalloc(s), i, pte) ELSE s
      at(s, i) == page(s, i, entry(walk(s, old, i, FALSE), i))
      copy(s, i) == IF s.ret # 0 THEN s ELSE at(s, (i - 1) * PGSIZE)
  IN  Loop(copy, return(k, 0), rounds(0, sz))

clear_user(w, va) ==
  IF w.ret = NULL THEN stop(w, "uvmclear")
  ELSE [w EXCEPT !.ram[w.ret][PX(0, va)].flags = @ \ {"U"}]
uvmclear(k, pagetable, va) == clear_user(walk(k, pagetable, va, FALSE), va)
==============================================================================
