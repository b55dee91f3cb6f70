-------------------------------- MODULE Kalloc --------------------------------
(***************************************************************************)
(* kalloc.c: the pages of RAM from the end of the kernel to PHYSTOP, on a  *)
(* free list that is threaded through the pages themselves.                *)
(*                                                                         *)
(* The functions are operators from the memory before a call to the memory *)
(* after it.  A memory k is a record:                                      *)
(*   freelist   the first free page, or NULL                               *)
(*   ram        what every page holds: WORDS words                         *)
(*   ret        what the last function returned                            *)
(*   panic      the panic that stopped the kernel, or "none"               *)
(* A word is an address and the flag bits of a page table entry, which is  *)
(* what vm.c reads it as.  Addresses count pages.                          *)
(***************************************************************************)
EXTENDS Integers

CONSTANTS
  WORDS,      \* words in a page (512)
  KERNBASE,   \* the first page of RAM: firmware and kernel text, the trampoline last
  ETEXT,      \* the first page of kernel data
  END,        \* the first page after the kernel: PGROUNDUP(end)
  PHYSTOP     \* the first page after RAM

ASSUME MemoryAssumption ==
  /\ WORDS \in Nat \ {0, 1}
  /\ {KERNBASE, ETEXT, END, PHYSTOP} \subseteq Nat
  /\ 1 < KERNBASE /\ KERNBASE < ETEXT /\ ETEXT < END /\ END <= PHYSTOP

NULL == 0
UART0 == 1                  \* the registers of the UART, below the kernel
trampoline == ETEXT - 1
Wild == PHYSTOP             \* any address where there is no RAM
Pages == END .. PHYSTOP - 1
Words == 0 .. WORDS - 1

Flags == {"V", "R", "W", "X", "U"}
word(pa, flags) == [pa |-> pa, flags |-> flags]
Page(w) == [i \in Words |-> w]

\* memset(page, 0), memset(page, 1) and memset(page, 5): as page table
\* entries, bytes of 1 say "valid, a table", bytes of 5 "valid, writable".
Zeros == Page(word(NULL, {}))
Ones == Page(word(Wild, {"V"}))
Fives == Page(word(Wild, {"V", "W"}))

\* A for loop of n rounds, where round(s, i) is what round i makes of s.
Loop(round(_, _), k, n) ==
  LET s[i \in 0..n] == IF i = 0 THEN k ELSE round(s[i - 1], i) IN s[n]

stop(k, why) == IF k.panic = "none" THEN [k EXCEPT !.panic = why] ELSE k
return(k, r) == [k EXCEPT !.ret = r]

kfree(k, pa) ==
  IF pa \in Pages
  THEN [k EXCEPT !.ram[pa] = [Ones EXCEPT ![0] = word(k.freelist, {})],
                 !.freelist = pa]
  ELSE stop(k, "kfree")

\* Faulty variant: the page is filled before its pointer is read.
kalloc_late(k) ==
  IF k.freelist = NULL THEN return(k, NULL)
  ELSE [k EXCEPT !.ret = k.freelist,
                 !.ram[k.freelist] = Fives,
                 !.freelist = Fives[0].pa]

kalloc(k) ==
  IF k.freelist = NULL THEN return(k, NULL)
  ELSE [k EXCEPT !.ret = k.freelist,
                 !.freelist = k.ram[k.freelist][0].pa,
                 !.ram[k.freelist] = Fives]

\* A page for a table or for user memory: kalloc() and memset().
zeroed(a) == IF a.ret = NULL THEN a ELSE [a EXCEPT !.ram[a.ret] = Zeros]
kalloc_zeroed(k) == zeroed(kalloc(k))

\* kinit() frees the n pages that the machine has.
Off == [freelist |-> NULL, ram |-> [p \in Pages |-> Zeros], ret |-> NULL, panic |-> "none"]
freerange(k, n) == LET free(s, i) == kfree(s, END + i - 1) IN Loop(free, k, n)
kinit(n) == freerange(Off, n)

\* The pages on the free list by their place in it; a list in a circle is
\* cut off, but only where a page comes again.
FreeList(k) ==
  LET next(p) == IF p \in Pages THEN k.ram[p][0].pa ELSE NULL
      at[i \in 0 .. PHYSTOP - END] == IF i = 0 THEN k.freelist ELSE next(at[i - 1])
  IN  [i \in {j \in 0 .. PHYSTOP - END : at[j] \in Pages} |-> at[i]]
==============================================================================
