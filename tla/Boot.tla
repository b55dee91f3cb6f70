---------------------------------- MODULE Boot ----------------------------------
(***************************************************************************)
(* From reset to the first yield(): main() hands the pages of RAM to the   *)
(* allocator and makes the kernel's page table, and init_servers() has     *)
(* proc_born() make a process of every server it finds in the archive.     *)
(* kalloc() may fail at any of its calls.                                  *)
(***************************************************************************)
EXTENDS Vm, Tar, FiniteSets

CONSTANTS
  MAX_PROS,
  servers,    \* the table of init_servers(): [namebin, param] in order
  Starts      \* [pages |-> what kinit() finds, archive |-> what is linked]

ASSUME BootAssumption ==
  /\ MAX_PROS \in Nat \ {0}
  /\ servers \in Seq(Range(servers))
  /\ \A i \in DOMAIN servers : servers[i].param \in {0, 1} /\ servers[i].namebin # ""
  /\ \A s \in Starts :
       /\ s.pages \in 0 .. PHYSTOP - END
       /\ s.archive \in Seq(Range(s.archive))
       /\ \A i \in DOMAIN s.archive : /\ s.archive[i].name # ""
                                      /\ s.archive[i].size \in Nat
                                      /\ rest(s.archive[i].size)[DIGITS - 1] = 0
                                      /\ s.archive[i].contents \in Int
  /\ WORDS % 2 = 0
  /\ PHYSTOP * PGSIZE < MAXVA - 4 * PGSIZE

TRAMPOLINE == MAXVA - PGSIZE
TRAPFRAME == TRAMPOLINE - PGSIZE
IPC == TRAPFRAME - PGSIZE
VUART == IPC - PGSIZE

VARIABLES
  k,                 \* the memory
  kernel_pagetable,
  proc,              \* the process table
  line,              \* what is done next
  server,            \* the entry of servers that is started
  slot               \* and the place in proc it gets

bootvars == <<k, kernel_pagetable, proc, line, server, slot, tarvars>>

Procs == 0 .. MAX_PROS - 1
Unused == [state |-> "UNUSED", server |-> 0, trapframe |-> NULL, ipc_page |-> NULL,
           pagetable |-> NULL, ipc_data |-> NULL, kstack |-> NULL]

at(l) == k.panic = "none" /\ line = l

BootInit ==
  /\ \E s \in Starts : k = kinit(s.pages) /\ archive = s.archive
  /\ header = 0
  /\ result = <<>>
  /\ kernel_pagetable = NULL
  /\ proc = [p \in Procs |-> Unused]
  /\ line = "kvminit"
  /\ server = 1
  /\ slot = 0

------------------------------------------------------------------------------
checked(r) == IF r.ret = 0 THEN r ELSE stop(r, "kvmmap")

\* Faulty variant: RAM is executable, too.
kvmmap_exec(m, kpgtbl, va, pa, sz, perm) ==
  checked(mappages(m, kpgtbl, va, sz, pa, perm \cup {"X"}))

kvmmap(m, kpgtbl, va, pa, sz, perm) ==
  checked(mappages(m, kpgtbl, va, sz, pa, perm))

map_kernel(m, kpgtbl) ==
  LET text == kvmmap(m, kpgtbl, KERNBASE * PGSIZE, KERNBASE,
                     (ETEXT - KERNBASE) * PGSIZE, {"R", "X"})
      data == kvmmap(text, kpgtbl, ETEXT * PGSIZE, ETEXT,
                     (PHYSTOP - ETEXT) * PGSIZE, {"R", "W"})
  IN  return(kvmmap(data, kpgtbl, TRAMPOLINE, trampoline, PGSIZE, {"R", "X"}), kpgtbl)

\* Nobody asks whether there was a page for the root.
root_filled(m) == IF m.ret = NULL THEN stop(m, "access_fault") ELSE map_kernel(m, m.ret)
kvmmake(m) == root_filled(kalloc_zeroed(m))

kvminit ==
  /\ at("kvminit")
  /\ k' = kvmmake(k)
  /\ kernel_pagetable' = k'.ret
  /\ line' = "init_servers"
  /\ UNCHANGED <<proc, server, slot, tarvars>>

\* Faulty variant: the last free slot.
last_slot(free) == CHOOSE p \in free : \A q \in free : p >= q

first_slot(free) == CHOOSE p \in free : \A q \in free : p <= q

\* The search for the file of the next server.
find ==
  /\ at("init_servers")
  /\ server \in DOMAIN servers
  /\ find_binary(servers[server].namebin)
  /\ UNCHANGED <<k, kernel_pagetable, proc, line, server, slot>>

\* Once the search is over, a slot for the server.
init_servers ==
  /\ at("init_servers")
  /\ result # <<>>
  /\ LET free == {p \in Procs : proc[p].state = "UNUSED"}
         i == first_slot(free)
     IN  IF result[1] = 0
         THEN k' = stop(k, "server not found") /\ UNCHANGED <<proc, line, slot>>
         ELSE IF free = {}
         THEN k' = stop(k, "NOT FREE SLOTS FOR PROCESS") /\ UNCHANGED <<proc, line, slot>>
         ELSE /\ slot' = i
              /\ proc' = [proc EXCEPT ![i].state = "RUN", ![i].server = server]
              /\ line' = "trapframe"
              /\ UNCHANGED k
  /\ UNCHANGED <<kernel_pagetable, server, tarvars>>

\* if ((pc->field = ...) == 0) PANIC(...), where a is the memory after the call.
keep(field, a, next) ==
  /\ proc' = [proc EXCEPT ![slot][field] = a.ret]
  /\ IF a.ret = NULL
     THEN k' = stop(a, field) /\ UNCHANGED line
     ELSE k' = a /\ line' = next
  /\ UNCHANGED <<kernel_pagetable, server, slot, tarvars>>

born_trapframe == at("trapframe") /\ keep("trapframe", kalloc(k), "ipc_page")
born_ipc_page == at("ipc_page") /\ keep("ipc_page", kalloc(k), "pagetable")
born_pagetable == at("pagetable") /\ keep("pagetable", uvmcreate(k), "trampoline")
born_ipc_data == at("ipc_data") /\ keep("ipc_data", kalloc(k), "kstack")
born_kstack == at("kstack") /\ keep("kstack", kalloc(k), "binary")

\* A page of proc_born() at va.  When it cannot be mapped the table is freed
\* (after undone, unless that is NULL, is taken out of it), and proc_born()
\* goes on with the table all the same.
map_page(va, pa, perm, undone, next) ==
  LET table == proc[slot].pagetable
      undo(m) == IF undone = NULL THEN m ELSE uvmunmap(m, table, undone, 1, FALSE)
      mapped(m) == IF m.ret < 0 THEN uvmfree(undo(m), table, 0) ELSE m
  IN  /\ k' = mapped(mappages(k, table, va, PGSIZE, pa, perm))
      /\ line' = next
      /\ UNCHANGED <<kernel_pagetable, proc, server, slot, tarvars>>

\* Faulty variant: the trampoline is for the user, too.
born_trampoline_user ==
  at("trampoline") /\ map_page(TRAMPOLINE, trampoline, {"R", "X", "U"}, NULL, "map_trapframe")

born_trampoline ==
  at("trampoline") /\ map_page(TRAMPOLINE, trampoline, {"R", "X"}, NULL, "map_trapframe")

born_map_trapframe ==
  /\ at("map_trapframe")
  /\ map_page(TRAPFRAME, proc[slot].trapframe, {"R", "W"}, TRAMPOLINE, "map_ipc")

born_map_ipc ==
  /\ at("map_ipc")
  /\ map_page(IPC, proc[slot].ipc_page, {"R", "W", "U"}, IPC,
              IF servers[server].param = 1 THEN "map_uart" ELSE "ipc_data")

born_map_uart ==
  at("map_uart") /\ map_page(VUART, UART0, {"R", "W", "U"}, VUART, "ipc_data")

\* The page of the program, with what find_binary() found.
program(a) == [a EXCEPT !.ram[a.ret] = Page(word(contents(result[1]), {}))]

next_server ==
  /\ proc' = [proc EXCEPT ![slot].state = "RUNABBLE"]
  /\ line' = "init_servers"
  /\ server' = server + 1
  /\ header' = 0
  /\ result' = <<>>

\* Faulty variant: the page of the program is given back once it is mapped.
born_binary_free ==
  /\ at("binary")
  /\ LET a == kalloc(k)
     IN  /\ result[2] <= PGSIZE /\ a.ret # NULL
         /\ k' = kfree(mappages(program(a), proc[slot].pagetable, 0, PGSIZE, a.ret,
                               {"U", "X", "R", "W"}), a.ret)
         /\ next_server
  /\ UNCHANGED <<kernel_pagetable, archive, slot>>

\* The program goes to a page of its own at virtual address 0.  Whether it
\* could be mapped there is not asked.
born_binary ==
  /\ at("binary")
  /\ LET a == kalloc(k)
     IN  IF result[2] > PGSIZE
         THEN /\ k' = stop(k, "size of bin process too large !")
              /\ UNCHANGED <<proc, line, server, header, result>>
         ELSE IF a.ret = NULL
         THEN /\ k' = stop(a, "dont get phys page for process !")
              /\ UNCHANGED <<proc, line, server, header, result>>
         ELSE /\ k' = mappages(program(a), proc[slot].pagetable, 0, PGSIZE, a.ret,
                               {"U", "X", "R", "W"})
              /\ next_server
  /\ UNCHANGED <<kernel_pagetable, archive, slot>>

\* All servers are started; main() yields, and Ipc goes on from here.
proc_born_step ==
  \/ born_trapframe \/ born_ipc_page \/ born_pagetable
  \/ born_trampoline \/ born_map_trapframe \/ born_map_ipc \/ born_map_uart
  \/ born_ipc_data \/ born_kstack \/ born_binary

BootNext == kvminit \/ find \/ init_servers \/ proc_born_step

\* Nothing interrupts main() before it yields; the loop of find_binary() goes on.
BootSpec == BootInit /\ [][BootNext]_bootvars /\ WF_bootvars(find)

------------------------------------------------------------------------------
Vpns == 0 .. MAXVA \div PGSIZE - 1
Pte(table, n) == entry(walk(k, table, n * PGSIZE, FALSE), n * PGSIZE)
Maps(table) == {<<n, Pte(table, n).pa, Pte(table, n).flags \ {"V"}>> :
                  n \in {v \in Vpns : valid(Pte(table, v))}}

BootTypeOK ==
  /\ k.freelist \in Pages \cup {NULL}
  /\ k.ram \in [Pages -> [Words -> [pa : Int, flags : SUBSET Flags]]]
  /\ kernel_pagetable \in Pages \cup {NULL}
  /\ proc \in [Procs -> [state : {"UNUSED", "RUN", "RUNABBLE"}, server : 0 .. Len(servers),
                         trapframe : Pages \cup {NULL}, ipc_page : Pages \cup {NULL},
                         pagetable : Pages \cup {NULL}, ipc_data : Pages \cup {NULL},
                         kstack : Pages \cup {NULL}]]
  /\ server \in 1 .. Len(servers) + 1
  /\ slot \in Procs

\* The kernel's own table lets it go on where it was (every page of RAM at its
\* own address), never write to its text and never execute data.
KernelMap ==
  k.panic = "none" /\ kernel_pagetable # NULL =>
    Maps(kernel_pagetable) =
      {<<n, n, {"R", "X"}>> : n \in KERNBASE .. ETEXT - 1}
        \cup {<<n, n, {"R", "W"}>> : n \in ETEXT .. PHYSTOP - 1}
        \cup {<<TRAMPOLINE \div PGSIZE, trampoline, {"R", "X"}>>}

Program(p) == archive[FirstNamed(archive, servers[proc[p].server].namebin)].contents
Running == {p \in Procs : proc[p].state = "RUNABBLE"}

\* What a process sees: the trampoline and its own trapframe, which it cannot
\* touch in user mode, its own ipc page, the UART if it serves devices, and
\* its own program.  Nobody asks whether the program could be mapped, but it
\* is missing only if the last page is gone, and nothing is born after it.
ProcessMap ==
  k.panic = "none" => \A p \in Running :
    LET maps == Maps(proc[p].pagetable)
        low == {e \in maps : e[1] = 0}
    IN  /\ low = {} => k.freelist = NULL
        /\ maps \ low =
             {<<TRAMPOLINE \div PGSIZE, trampoline, {"R", "X"}>>,
              <<TRAPFRAME \div PGSIZE, proc[p].trapframe, {"R", "W"}>>,
              <<IPC \div PGSIZE, proc[p].ipc_page, {"R", "W", "U"}>>}
               \cup {e \in {<<VUART \div PGSIZE, UART0, {"R", "W", "U"}>>} :
                       servers[proc[p].server].param = 1}
        /\ \A e \in low :
             /\ e[2] \in Pages /\ k.ram[e[2]][0].pa = Program(p)
             /\ e[3] = {"R", "W", "X", "U"}

\* No page of the kernel's table or of a process that can run is free or has a
\* second use, also after a proc_born() that ran out of memory.
PagesApart ==
  k.panic = "none" /\ kernel_pagetable # NULL =>
    LET list == FreeList(k)
        roots == {kernel_pagetable} \cup {proc[p].pagetable : p \in Running}
        below(ts) == {k.ram[e[1]][e[2]].pa : e \in {x \in ts \X Words :
                       valid(k.ram[x[1]][x[2]]) /\ ~leaf(k.ram[x[1]][x[2]])}}
        tables == roots \cup below(roots) \cup below(below(roots))
        own(p) == {proc[p].trapframe, proc[p].ipc_page, proc[p].ipc_data, proc[p].kstack}
                    \cup {e[2] : e \in {m \in Maps(proc[p].pagetable) : m[1] = 0}}
    IN  /\ \A i, j \in DOMAIN list : list[i] = list[j] => i = j
        /\ (tables \cup UNION {own(p) : p \in Running}) \cap {list[i] : i \in DOMAIN list} = {}
        /\ \A p \in Running :
             /\ Cardinality(own(p)) >= 4
             /\ own(p) \cap tables = {}
             /\ \A q \in Running \ {p} :
                  own(p) \cap own(q) = {} /\ proc[p].pagetable # proc[q].pagetable

\* main() yields with the servers in the first slots, in the order of the
\* table, ready to run, and all other slots free: where Ipc and System start.
HandsOver ==
  at("init_servers") /\ server > Len(servers) =>
    \A p \in Procs :
      IF p < Len(servers)
      THEN proc[p].state = "RUNABBLE" /\ proc[p].server = p + 1
      ELSE proc[p] = Unused

\* The search never takes contents for a header, whatever they are: it finds
\* the first plain file of that name and its size, and nothing else.
FindsFirst ==
  result # <<>> =>
    LET i == FirstNamed(archive, servers[server].namebin)
    IN  result = IF i = 0 THEN <<0, 0>> ELSE <<Start(i) + 1, archive[i].size>>

\* Each search ends, also when the file is not there.
SearchEnds ==
  (at("init_servers") /\ server \in DOMAIN servers) ~> result # <<>>
==============================================================================
