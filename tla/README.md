# RViX in TLA+

RViX is a small RISC-V microkernel (C and assembly, one hart, QEMU `virt`) with
servers in user mode.  This directory holds TLA+ models of it, the TLC runs that
check them on small instances, and theorems about them checked by TLAPS.

## 1. The system

| component | code | state it keeps | operations |
|---|---|---|---|
| process table, scheduler | `process_manager.c/.h`, `switch_context.S` | `proc[]` (state, trapframe, ipc block, page table, kernel stack), `current`, `next`, the static `idx` of `sheduller()` | `proc_born`, `sheduller`, `yield` |
| IPC | `ipc.c` | in each process's ipc block: `name`, `que[MAX_PROS]`, `is_wait_msg`; its ipc page | calls 0..5: `send`, `recv`, `ipc_buf_cpy`, `buf2ipc_cpy`, `sleep_prc`, `wakeup` |
| user traps | `trap_handle.c`, `trampoline.S` | trapframes, `stvec`, `sepc`, the armed timer | `usertrap`, `prepare_uret`, `uservec`, `userret` |
| kernel traps | `trap_handle.c`, `kernelvec.S` | the interrupted kernel context | `kerneltrap` |
| page allocator | `kalloc.c` | the free list threaded through free pages | `kinit`, `kfree`, `kalloc` |
| page tables | `vm.c` | Sv39 trees | `walk`, `mappages`, `uvmunmap`, `uvmalloc`, `uvmdealloc`, `uvmcopy`, `uvmfree`, ... |
| boot | `entry.S`, `main.c`, `bootstrap.c` | the tar archive with the programs | `init_servers`, `find_binary`, `oct2int` |
| user library and programs | `user/*.c` | ipc page at `IPC_BUFF`, `ipc_send` | `write`, `read`, `puts`, `gets`; VFS, terminal, uinput, shell |
| printing, strings, memory | `common.c` | the index and the arguments of `printf()` | `printf`, `puts`, `memset`, `memmove`, `strcmp`, ... |
| timer, SBI, PLIC | `timer.c`, `HAL.c`, `PLIC.c` | device registers | `set_timer`, `sbi_call` |

How they interact.  A program makes an `ecall`; `uservec` saves its registers in
its trapframe and enters `usertrap()`, which runs the call on the process table
through `current`.  A call that leaves `current` in state SLEEP, and every timer
interrupt, ends in `yield()`: `sheduller()` picks the next RUNABBLE slot in
cyclic order and the hart continues in *that* process's kernel stack, where its
own earlier `yield()` returns and its own trap ends.  Messages are six
registers, copied from trapframe to trapframe; a sender whose destination is
not SLEEP puts its name into the destination's `que` and sleeps until a
`recv()` there takes its name out.  Longer data travels in ipc pages, copied by
the kernel on behalf of VFS and uinput.

What is hard about it:

* the state of a process is written from four places (its own call, a partner's
  call, `yield()`, `sleep_prc()`/`wakeup()` of a third process) and read by
  others as if it said *why* the process sleeps;
* `yield()` decides between SLEEP and RUNABBLE by the flag `is_wait_msg`, which
  calls of other processes set and clear;
* timer interrupts can fall between any two instructions of a program, hence
  between any two calls; and, because `usertrap()` turns interrupts on for a
  call, between any two statements of a handler, where `kerneltrap()` cuts the
  call short;
* the queue is an array of places and not a list;
* `sheduller()` falls back to the current process when nothing is ready;
* messages and pages travel by two routes: registers when a partner is ready,
  pages by separate calls of VFS and uinput, with the timer in between;
* memory may run out in the middle of `uvmalloc()`, `uvmcopy()` or
  `proc_born()`, whose error branches no test reaches;
* texts end at a NUL in a page that several programs share, so every length
  near the end of the page and every page not cleared matters.

What makes each part correct, in the words of the properties below:

| part | properties |
|---|---|
| scheduler, IPC | `OnlyCurrentRuns`, `NoLostWakeup`, `ReadyRuns`, `EverySwitchAdvances`; under the discipline `ImplementsChannels` and the invariants it rests on, `FirstPlaceServed` |
| handlers under interrupts | `SenderIsFound`, `OtherChannelsKept` |
| programs | `ImplementsConsole`, `SleepingShellIsServed`, `NoFault`, `TextShown`, `GetsAnswered` |
| memory | `EachPageOnce`, `ImplementsAddressSpaces`, `NoMemoryPanic` |
| boot | `KernelMap`, `ProcessMap`, `PagesApart`, `HandsOver`, `FindsFirst`, `SearchEnds` |
| printing, texts, lines | `PrintfRenders`, `WritesShow`, `LinesArrive`, `PagesClean`, `ComparesLine` |

## 2. Modules

| module | what it is |
|---|---|
| `Ipc` | scheduler, user trap handler, the calls of the kernel, under *any* programs |
| `ClientServer` | `Ipc` with servers that only receive and clients that only send, plus the user half of `recv()` |
| `Channels` | abstract: loss-free channels that keep the order of each sender |
| `Traps` | `send()` and `recv()` statement by statement, with timer interrupts inside |
| `System` | `Ipc` with VFS, terminal, uinput and shell, and their ipc pages |
| `Console` | abstract: a screen that shows each text once and in order, and a keyboard that answers `gets()` |
| `Kalloc`, `Vm` | the page allocator and the page table functions, as operators on memory |
| `UserMemory` | address spaces made with `Vm` by callers that keep to its comments |
| `AddressSpaces` | abstract: sizes and pages, calls that happen whole or not at all |
| `Boot` | `main()` to its `yield()`: `kinit`, `kvminit`, `init_servers`, `proc_born` |
| `Archive`, `Tar` | the archive of programs, and `find_binary()` block by block |
| `Common` | `common.c` as operators: memory, strings, the conversions of `printf()` |
| `Text` | `printf()`, the user library and the loops of terminal and uinput, by characters |
| `IpcProofs`, `ClientServerProofs`, `TrapsProofs`, `SystemProofs`, `UserMemoryProofs`, `TextProofs`, `BootProofs` | theorems and their proofs |
| `Induction` | lemmas on natural numbers and loops that the proofs share |
| `MC*` | instances for TLC |

How they compose: `ClientServer` and `System` EXTEND `Ipc` and restrict its
calls to what programs do; `Traps` EXTENDS `ClientServer` and takes its handlers
apart; `Boot` and `UserMemory` EXTEND `Vm`, which EXTENDS `Kalloc`, and `Boot`
also EXTENDS `Tar`, whose search it makes for every server; `Text` EXTENDS
`Common`.  `Boot` ends in the state in which `Ipc` begins (`HandsOver`).

### Ipc

A step is one passage through the kernel: a trap from user mode with its whole
handler and the `yield()` at its end, or the return to user mode.  Between the
two, other processes run: `trap[p]` is the trap `p` has entered and not returned
from, and stays set while `p` sleeps in `yield()`.

| variable | code |
|---|---|
| `state`, `current`, `idx` | `proc[].state`, `current`, the static of `sheduller()` |
| `is_wait_msg`, `que` | the fields of `ipc_data`; a free place is 0; the flag starts as `JUNK`, for `kalloc()` fills pages with 5s and nobody clears it |
| `trapframe` | the saved `a0..a5`: `a3` (the sender's name after a transfer) and `body` (the rest) |
| `trap` | which `usertrap()` frame sits on `p`'s kernel stack |
| `timer` | whether `set_timer()` has armed an interrupt |
| `panic` | the `PANIC()` reached |

`send` has three disjuncts, as the code has: to a SLEEP process (copy and wake),
to any other (queue and sleep), and into a full queue (`PANIC`).  `recv` has two.
`after_call` is the tail of `usertrap()`: yield if the handler left the caller
SLEEP.  `yield(st)` reads `is_wait_msg'`, because `yield()` runs after the
handler wrote the flag.

Abstractions, by name:

* **Atomic handlers.**  `usertrap()` enables interrupts (line 65) before a call,
  so the timer can fire inside a handler.  `Ipc` takes every handler as one
  step; what an interrupt inside `send()` and `recv()` does is the subject of
  `Traps`.
* **PANIC stops the model.**  `PANIC()` prints and spins; in `Ipc` nothing
  happens after it (`spin`).
* **Unknown names.**  `find_name_process()` of a name nobody has reads through
  the NULL `ipc_data` of an empty slot, or returns NULL when the table is full;
  both are `bad_trap`.
* `current`'s registers after a timer interrupt are not a message: `Stale`.

### ClientServer

`Servers` only call `recv()`, all other processes only call `send()` to a
server.  This is how the terminal and a program that prints use the kernel, and
the discipline the head comment of `ipc.c` describes.  `ipc_send` is the
variable of that name in the servers: `recv_return` copies the registers to it.
VFS is outside of the discipline, for it also sends (see the findings).

### Traps

The same discipline with one step per statement of `send()` and `recv()`, from
the ecall (`call_send`, `call_recv`) to the tail of `usertrap()`.  `at[p]` is the
statement `p` is at, `peer[p]` its local variable `dst` or `src`, and `asked` the
clients whose message nobody has taken yet.  `kerneltrap` is a timer interrupt
at one of the places in `Interruptible`.  It is not transparent: `stvec` holds the C function
itself, so no register is saved, and its `ret` jumps to where `ra` points, which
inside `IPC_call()` is at best the return into `usertrap()`.  So the model lets
the interrupted process lose the rest of its call and go on at line 78; since
`yield()` has returned, its state is RUN and it leaves for user mode.

What a call cut short costs is in `Harms`: a client that is interrupted in `send()`
before its name is queued and flagged, or before its server is woken, and a client
whose name its server has taken out of the queue but whose message it has not copied
yet, when the server is interrupted there.  The history `harmed` collects them.  A client
whose server has its message but was cut short before waking it is not among them: its
message has arrived, although it may sleep for ever, or keep a flag that puts it to
sleep later.  Of the others nothing may be lost, wherever the timer strikes, and
whatever became of the names of the harmed ones (`SenderIsFound`,
`OtherChannelsKept`, whose `ChannelStep` is what `Channels` does with one of its
sequences).

Assumptions: `ra` is `IPC_call()`'s return address.  The build is `-O2`, where
the handlers are inlined or reached by tail calls and this holds; where a frame
was pushed, the stack pointer would be wrong as well, which is worse than what
is modelled.  The interrupt that line 79 or 103 arms does not come before user
mode is reached, for a time slice is longer than that path.

### Channels

For each server and client a sequence of at most two messages: one already
handed to the server but not yet returned from `recv()`, and one the client is
blocked with.  `ClientServer!Chan` maps `inbox` to the bodies in those two
trapframes and `got` to `ipc_send`.

### System and Console

The kernel's variables are those of `Ipc`; `pc` is what a program does next,
`page` what its ipc page holds, `arg` the variable `namesrc` of VFS and
`name_reader` of uinput, `text` the next argument of `puts()` in the shell, and
`shown` the last text `terminal` wrote.  A step is either a step of `Ipc` that
the program at `pc` asks for (`VFS_copy`, `shell_write`, ...), a return from the
kernel, a switch, or a step of one program in user mode (`UNCHANGED vars`).
Texts and lines are single values, so printing a text, or copying or clearing a
page, is one step.  `recv_return` decides as the `if`s of `VFS.c` do; registers
that hold no message (a process run without one, a register overwritten by
somebody else) may look like any message (`Looks`, `Sender`).

`Preempted` says at which places in the programs the timer may strike.
`Console` is what the shell relies on; the refinement maps the two pages with
unwritten text to its queue and the shell's `pc` to the state of its reader.

### Kalloc, Vm, UserMemory, AddressSpaces

A memory is a record: the free list's head, the words of every page, the last
return value and the panic.  A function of `kalloc.c` or `vm.c` is an operator
from memory to memory; a loop is a recursive function of the number of rounds
(`Loop`), and the recursion of `freewalk()` is its three levels.  A word is an address and the flag bits, so a page *is* a page
table, a link of the free list, or user memory according to who reads it, and
the bytes 1 and 5 that `kfree()` and `kalloc()` leave are table entries that
look valid.  An address without RAM that is used as a table is an "access
fault".

`UserMemory` is the caller, which RViX does not have yet (only `proc_born()`
uses page tables): it creates, grows, shrinks, copies, guards, writes to and
frees spaces with the sizes the functions returned.  Sizes count bytes, so that
rounding matters.  `AddressSpaces` says what the caller may rely on: new pages
are blank, copies share nothing, and a call that ran out of memory did nothing.

### Boot, Archive, Tar

`line` walks through `main()` and `proc_born()`, one step for each thing that is
allocated or mapped, error branches included.  The amount of RAM is any number
of pages, so every `kalloc()` fails in some behaviour.  A process's page holds
its program as one value.

`Tar` has the archive's blocks as memory: a header at the start of each
member, and anything in its contents, headers of the wanted name included.  A
step of `find` is one round of the loop of `find_binary()` on behalf of the next
server; `result` and `header` are its variables, and `init_servers` goes on with
`result`.  What is known of an octal digit is what `oct2int()` makes of it, so the
archive is written (`octal`, external: tar did it) and read digit by digit.

### Common, Text

`Common` has a memory as a function from addresses to characters and the
functions of `common.c` on it.  A loop is a recursive function or a fold or, where
it only looks for the first place with some property, that place.  `memset()`, `memcpy()` and
`memmove()` are what their loops leave, character by character of the result;
`MCText` has the loops themselves, overlapping areas included, and compares
(`LoopsAgree`).  `printint()` computes in the
width of a long, its argument cut or extended as `va_arg` does it; -xx of the
smallest number wraps, as compiled code does.  `conversion` is the chain of `if`s
of `printf()`: which characters it takes, whether it takes an argument, and
what it prints.

A format is a sequence of `Pieces`, each with its arguments and what it should
print.  `TextAssumption` says what that is without reference to how `printint()`
works: a numeral is the digits that, read from the left, are the number, none of
those in front a zero (`Numeral`), a pointer has all of its digits (`Pointer`), and
a conversion that `printf()` does not know is printed as it is (`Plain`).

`Text` is one program, terminal and uinput with their ipc pages, run one after
the other as `line` says: one step per round of `printf()`'s loop, per character
that terminal writes, per key that uinput reads, and one for a call up to the
server it reaches.  Calls to VFS that VFS ignores end at once (`ends`).  The
interleavings of these programs are those of `System`; `Text` says what a text
is.  `typed`, `asked`, `call` and `answer` are histories.

The page at 0 holds the program, its variables and, downwards from its end, its stack
(`process_manager.c:145`).  `store` is the program writing to that page between two
calls, at the places in `Stores`; `image` is the history of what `proc_born()` and the
program itself have put there, and `PagesClean` says that the kernel's copies and the
servers change none of it.  The buffers of `puts()` and `write()` are read from the
page as the stores have left it.

## 3. Runs

| run | instance | shows |
|---|---|---|
| `kernel` | 2 processes, 2 slots, all calls, faults, fair hart | types; one RUN process, which `current` and `idx` agree on; nobody goes to sleep in `recv()` past a queued sender; a ready process runs |
| `client_server` | 2 servers, 2 clients, 2 messages, 4 slots, serving servers | the invariants of the discipline, no overflow, bounded bypass, refinement of `Channels`, service of the first place |
| `system` | 4 programs, 5 slots, preempted outside critical sections | `Console` is implemented; what the shell puts is shown, what it asks for arrives |
| `traps` | 1 server, 2 clients, 2 messages; interrupts at every place of the handlers | only the clients in `Harms` lose a message; the channels of the others are kept |
| `user_memory` | 2 spaces of up to 3 pages, 9 pages of RAM, tables of 2 entries | no page lost or used twice; failed calls leave no trace |
| `boot` | 4 servers, 0 to 56 pages of RAM, tables of 8 entries, many archives | the search finds the first plain file and ends; what is mapped where; the table `main()` hands over |
| `text` | pages of 4 characters, ints of 4 bits | `printf()` renders; texts and lines arrive whole; nothing old is left in a page |
| `wait_flag` | violation | a waiting process is run without a message (idle fall-back) |
| `overwrite` | violation | a queued sender is woken and overwritten by a third process |
| `starvation` | violation | the second place of a queue can wait for ever |
| `early_read` | violation, preempted everywhere | the shell leaves `gets()` before anything was typed |
| `interrupted` | violation, interrupts everywhere in the handlers | `send()` returns with its message neither handed over nor queued |

Bounds.  All state is finite, so no counter is cut off; the only bounds are the
constants.  Two processes are enough for every call to meet every state of its
partner, a process that names itself included; with two slots a queue can
overflow.  Slots that stay UNUSED, which the cyclic search passes over, are in
`system` (one of five) and in `wait_flag`; `system` therefore checks
`OnlyCurrentRuns` again.  Four processes let two clients compete for two servers,
in both orders around the table, with a server in slot 0, where `idx` starts.
Two message bodies tell messages apart; more would only rename them.  The
starvation run needs two clients and one server.

`system` has the four programs the repository starts and one empty slot.  It
keeps the timer out of `CriticalSections`; with the timer everywhere the state
space is too large to exhaust (over 20 million states) and the properties fail
anyway, as `early_read` shows.  `CriticalSections` is as small as it can be:
of its five places, opening any one to the timer breaks `ImplementsConsole`.

`traps` lets the timer strike at every place of the handlers.  One server and two
clients are enough for one client to wait in the queue, or to leave its name there, while the other is served, and every
place of a handler can be met by every state of the partner; the server can be in
each place while both names, one or none are queued.  That the queue can fill with
leftovers and a sender stop in PANIC() is part of it.  Of the places, `doze` and
`tail` cost nothing, nor does `Harms` list them: at `doze` the name is queued and
`is_wait_msg` is set, so `yield()` itself writes SLEEP.

`user_memory` has tables of two entries and spaces of up to three pages, so a
space needs one or two tables of the last level; nine pages are too few for two
full spaces (14), and every call runs out of memory at each of its allocations in
some state.  A page has two bytes, so sizes within a page and at its end differ.
Page numbers are interchangeable (they are only compared), so the run
identifies states that differ in which page serves which purpose: its VIEW is
the look of the spaces, their number of tables and the number of free pages.

`boot` runs through every amount of RAM from none to more than the kernel and four
processes need (52 pages), and with enough RAM through archives in which one of
the servers is replaced by a directory of a server's name or by a program that
is too large.  Tables have 8 entries so that, as in Sv39, the four pages at the
top of an address space share a last-level table; there the error branches for
TRAPFRAME, IPC and VUART cannot be taken, neither in the model nor in the code.
With the RAM the kernel's own table takes, `boot` also has all archives of up to
two members out of two names, three types and sizes 0, 1, 4 and 9, with blocks of
4: empty, short, full, and over two blocks with a two-digit octal size.
`boot` comes to an end, as does the code it models, so deadlock is not checked
there; `early_read` ends in a PANIC in some behaviours.

`text` has pages of four characters, so texts and lines of every length up to
more than a page occur, cut by `puts()`, by uinput for want of room, and
crossing a NUL; buffers of `write()` start anywhere in the program's page.  The
program stores to the last place of its page, where its stack begins and where the
buffers that cross the end of a text end; more places only multiply the contents that
the run starts from anyway.  An
int has four bits and a long eight, with a `buf[]` of four, the length of
`-128`, as 20 characters is that of the smallest 64-bit number.  `printf()` gets
formats of one and two pieces (`PIECES`): every conversion, alone and before and
after every other, with the smallest, largest and negative numbers, and
conversions it does not know, such as `%lp` and `%lll`; the expected numerals are defined in `MCText`
without reference to how `printint()` works.  Before the run starts, TLC also
compares the loops of `memset()`, `memcpy()` and `memmove()` with what `Common`
says they leave.

Fairness.  `Hart`: the hart does not stop, and an armed timer fires in a program
that makes no call (weak fairness of the handler steps and of the timer).
`ReadyRuns` is conditional on programs that from some moment on only pass
messages: every return to user mode arms the timer anew (`trap_handle.c:103`), so a
program that calls `wakeup()` again and again is never preempted.  The first
process started is an exception: nothing arms a timer for it (`set_timer()` is
commented out in `main()`), so it has to call `recv()` itself, which the
terminal, the process in slot 1 that `sheduller()` starts first, does.
`Service` adds that a server calls `recv()` again and again: strong fairness,
because a timer interrupt takes user mode away from it and gives it back,
arbitrarily often, before it gets to its `ecall`.  Clients are not assumed to
send.  `FairSysSpec` asks of each program that it makes its next step if it gets
the hart again and again (strong fairness): every return to user mode arms the
timer anew, and a time slice is long enough for an instruction.  uinput's step
includes the user, who types sooner or later.  `BootSpec` only assumes that the
loop of `find_binary()` goes on.

## 4. Proofs

| theorem | statement |
|---|---|
| `Typing` | `Spec => []TypeOK` |
| `HartAndTableAgree` | `Spec => []OnlyCurrentRuns` |
| `BoundedBypass` | `Spec => EverySwitchAdvances` |
| `WakeupsKept` | `Spec => NoLostWakeup` |
| `SendersBlock`, `ServersSleepInRecv`, `RecvReturns`, `QueuesSuffice`, `FlagKeepsAsleep` | `CSSpec => []...` for `QueuedSendersBlocked`, `SleepingServersReceive`, `RecvReturnsMessage`, `NoPanic`, `FlaggedSleep` |
| `CSTyping` | `CSSpec => []CSTypeOK` |
| `Refinement` (of `ClientServerProofs`) | `CSSpec => ImplementsChannels` |
| `SendersAreFound` | `TrapsSpec => []SenderIsFound` |
| `OthersKeepChannels` | `TrapsSpec => OtherChannelsKept` |
| `SystemTyping` | `SysSpec => []SysTypeOK` |
| `SystemUsesKernel` | `SysSpec => Spec` |
| `NoFaultOccurs`, `SleepingShellHasServer`, `GetsFindsLine` | `Quiet => (SysSpec => []...)` for `NoFault`, `SleepingShellIsServed`, `GetsReturnsLine` |
| `ConsoleKept` | `Quiet => (SysSpec => ImplementsConsole)` |
| `TextTyping`, `WritesAreShown`, `LinesAreRead`, `PagesAreCleaned`, `CommandsAreKnown` | `TextSpec => []...` for `TextTypeOK`, `WritesShow`, `LinesArrive`, `PagesClean`, `ComparesLine` |
| `PrintfIsRendered` | `TextSpec => []PrintfRenders` |
| `UMTyping`, `PagesOnce`, `NoPanic` | `UMSpec => []...` for `UMTypeOK`, `EachPageOnce`, `NoMemoryPanic` |
| `Refinement` (of `UserMemoryProofs`) | `UMSpec => ImplementsAddressSpaces` |
| `FirstIsFound`, `ServersAreHandedOver` | `BootSpec => []FindsFirst`, `[]HandsOver` |
| `BootTypes`, `KernelIsMapped`, `ProcessesAreMapped`, `NoPageTwice` | `BootSpec => []...` for `BootTypeOK`, `KernelMap`, `ProcessMap`, `PagesApart` |

The theorems about the kernel hold for every table size, every number of born
processes, servers and clients, and every set of message bodies, under
`IpcAssumption` (names are distinct and nonzero, at least one process) and
`ClientServerAssumption` (there is a client).  Those about `System` also assume
`SystemAssumption` (the four programs and their messages), those about `Text`
`CommonAssumption` (an int of any even number of bits, and a `buf[]` that the largest
and the smallest number fit into) and
`TextAssumption` (what characters, programs and texts are, what a format should
print, and that the characters it spells out are strings, which the provers
do not know of literals; the page size is any from two characters up), those about `UserMemory` `MemoryAssumption`,
`PageAssumption` and `UserMemoryAssumption` (where the kernel and RAM end, tables
of any width from two entries up, pages of any number of bytes, sizes within
`MAXVA`), and those about `Boot` `BootAssumption` as well (the archive and the table of
servers are sequences with names in them, contents are numbers, and tar can write
the sizes; a table has an even number of entries, of which the kernel uses the lower
half of the root, as Sv39 has 512; RAM ends below the four pages at the top).

Those about `Traps` hold for every set of `Interruptible` places.  Those about the
console have a hypothesis, because without it they are false: `Quiet` says that the
timer stays out of `CriticalSections`, five places in VFS and terminal, which are as
few as they can be (section 3).  With the timer everywhere `early_read` violates
`GetsReturnsLine`.

The inductive invariant of `Ipc` is `TypeOK /\ OnlyCurrentRuns`: `yield()` only
keeps "one RUN process" if the process it takes the hart from was the RUN one,
and `sheduller()` only stays in the table if `idx` does.  Bounded bypass follows
from it and from arithmetic modulo `MAX_PROS`.  `WakeupsKept` does, too: a handler
never leaves its caller both asleep in `recv()` and with a sender in its queue,
and the processes it puts to sleep besides its caller are those that
`sleep_prc()` names (`StepOverlooks`, action by action).

The invariant of `ClientServer`, `CSInv`, is the conjunction of all its state
properties; none is inductive alone.  A blocked client stays in exactly one
place because nobody writes to a SLEEP client, which holds because only servers
are sent to; a sleeping server has an empty queue, so the direct transfer never
overtakes a queued one; the fall-back of `sheduller()` is never taken because if
all were asleep every client would be in a queue of a server that sleeps with an
empty one; and a queue never overflows because its names are distinct clients,
of which there are fewer than places left once the sender itself is counted
(a pigeonhole argument on cardinalities, `QueuesSuffice`).

The refinement proof takes one lemma per action: `send` appends one message to
one channel, in either of its forms; the return of `recv()` removes one;
queued `recv()` moves a message from the second to the first part of a channel,
and everything else stutters.

`SystemUsesKernel` shows that every step of `System` is one of `Ipc` or leaves its
variables alone: one lemma for the calls (`Calls`), one for the steps.  The
calls need that the messages are `Body`, which depends on the types of `arg`,
so it is proved with `SysTypeOK` (`ServedTypes` is the case of a program that
takes junk registers for a message).

`TrapsInv` is what is left of `CSInv` when a handler may be anywhere in its
statements and may end anywhere.  Its first case, `Sound`, says of each statement what
its predecessors have done: which peer was found, in which state it was, who is in
which queue, what the trapframes hold.  The steps of two processes never overlap in the
kernel (a process leaves the hart in `yield()` only), so at most one process is in the
middle of a handler, and what it has read of its peer still holds when it uses it,
unless an interrupt cuts in; then the handler does not go on.  A harmed client's name
may stay in a queue while the client is anywhere, so what is said of a queued client is
said of those outside `harmed` only; that their names are not disturbed needs that
every name in a queue, a leftover included, is a client's in a server's queue
(`Waiting`), and that a sleeping server has an empty one (`Receivers`).

The second case, `Stuck`, is where calls cut short can lead in the end: every client
sleeps in nobody's queue, and the last server to go to sleep is run on by the
fall-back of `sheduller()`, flagged and without a message.  `Sound` says that a server
only keeps its flag asleep, so it ends there; but all channels are empty, the
server never gets anything again, and nobody else ever runs.  The lemma of a
statement has a step for each part of the invariant that the statement can disturb,
and a last one for what it does to the channels.

`ConsoleInv` follows the one message of the shell that can be under way.  It
lists, for each place of the shell's program, where the three servers can be, who
sleeps for whom, what the registers and the pages hold: a text on its way from
the shell to terminal, or a request for a line on its way through VFS to uinput.
`Quiet` keeps other programs from acting between a `recv()` of VFS and the call it
leads to.  `NoFault` follows
because VFS only calls with names it took out of a message, and the refinement
because the part of the invariant about pages says which steps can change a page
that holds an unwritten text.

`TextInv` has, for each place of the loops of terminal and uinput, what the four
pages hold: so many characters of the text or of the line, then zeros up to the
end (`Holds`).  A call copies a page (`BufCpy` says what `ipc_buf_cpy()` and
`buf2ipc_cpy()` leave in every page), terminal's position is the length of what
is on the screen, uinput's that of what was typed, and each round of a loop keeps
it so.  The case of a text that fills the page is the one in which the zeros are
missing and terminal panics.  The page at 0 is `image` throughout: `BufCpy` says that a
copy leaves it alone, and a store of the program changes both in the same place
(`StoreKeeps`).

`TextTyping` adds that `printf()` stays within its format (`FormatOK`): a round
takes a character after the `%` only if the one before it is not NUL, and one more
for each `l` of a conversion, which is no NUL either (`ConversionFits`).  Pieces one
after the other are one format (`Flat`, by induction on their number).

`PrintInv` says where `printf()` is between two rounds: the pieces up to some j are
done, the format, the arguments and the texts of those after it are still to come
(`Tails`), and of a conversion that `printf()` does not know a character or two may
be left, which are printed one by one (`Rest`).  A round at the beginning of a piece
prints all of it but such a rest and takes its argument if it has one (`PieceRound`),
with no look at the next piece: a conversion has its letter before the piece ends.
The numbers need induction on their digits (`PrintintIs`): dividing a numeral of n
digits takes away its last digit each time, n times and not before
(`DividingReads`, `DigitAtEnd`), and a smaller number in a larger base does not
need more of `buf[]` (`FewerDigits`).

`BootInv` says that the search is at the header of some member and that the
members before it are of other files, and that the slots before that of the next
server are taken, in order, and those after it free.  A round of the search ends
at the next header because `oct2int()` undoes `octal()` (`OctalReads`, by induction
on the digits), the headers are where `Start` says (`StartOf`), in growing order
(`StartsGrow`), so no block of contents is taken for one (`AtStart`).

`MemInv` is about the memory of `Boot` as long as the kernel has not stopped.  It
says that each page of RAM can be given one use (`Sound`): it is free, with a rank
on the list; it is a table, linked from exactly one entry of a table one level up
unless it is a root; or it is held, with a tag that names the process and the
field it serves.  Unlike in `UMInv`, leaves say nothing about uses: the kernel maps
all of RAM, pages that processes hold and its own tables included, and every table
maps the trampoline.  What a table maps is a separate part of `Sound`: `Kernel` for the
kernel's, `Process` for a process after so many steps of `proc_born()` (`Stage`),
with the program (`Started`) once the process is RUNABBLE.  A process may lack its
program only if there was no page for the last mapping, so only while nothing is
free.  A step works on one table and on pages taken from the list, so all that is
known of the others stays (`Stay`, `Alike`).

Most of the work is in the error branches.  Of the mappings at the top only the
trampoline's can fail, because the four pages below `MAXVA` share all their tables
(`TopPages`), and then the root has at most one branch, without leaves (`NotMapped`).
`uvmfree()` gives these pages back (`BareFreed`), and `proc_born()` goes on with the
freed root, whose words now look like entries for pages outside of RAM (`Ruined`).  The next
`mappages()` follows one of them and faults, and what `freewalk()` would make of
such a table does not matter any more but for the types (`Frozen`, `MapRuined`).
The theorems read the properties off `Sound`: `NoPageTwice` needs that ranks, links
and tags are unique, `KernelIsMapped` and `ProcessesAreMapped` that `walk()` finds what
was mapped and nothing else.

`UMInv` says that the pages of RAM can be given uses (`Use`) that the memory
agrees with (`Tree`): a free page has a rank, and leads to the one of the next
lower rank; a table has a level, a space and the indices that lead to it; and a
page that is no root has one table and one index with the entry for it, while
every valid entry of a table leads to a page whose use says so, by a leaf exactly
on the last level.  A use also says what a page of user memory holds and what its
entry allows (`Shown`).  The invariant adds that no space has a page beyond its size, which
is why `uvmunmap()` leaves no leaf for `freewalk()` and `mappages()` finds no
entry to remap.  The uses are a witness only, existentially quantified, as the
code keeps none of this; each lemma says what a function makes of them.  Inside
a call some pages have no entry yet (`Z`), and some entries of `freewalk()` lead
to pages already freed (`X`); both sets are empty again when the call returns,
through every one of its error branches.  That the loops exist as functions
(`LoopExists`) and stay where each round leads (`LoopStays`) is proved once.
`PagesOnce` counts: ranks go down by one along the list, and the list ends,
because there are no more ranks than pages (`PlacesOnce`, a pigeonhole argument);
the tables reached from the roots are all tables (`TablesLevel`), and each page
below a root has exactly the one entry (`EntriesOnce`).

`Refinement` reads the abstract step off the uses before and after a call
(`StepKept`).  A call touches no page of another space and none of its own below the
old or the new size (`Keeps`); what `uvmalloc()` adds is blank (`Blank`), what
`uvmcopy()` adds is in other pages the same as in the first space (`Copies`), and a
call that runs out of memory leaves all user memory as it was (`Still`), its contents
and its guards included.  `walk()` finds exactly the pages that the uses name (`Find`,
`FindAll`), so the map of a space that the refinement mapping reads from the memory
is the one its uses draw (`Drawn`), and each kind of step has a lemma that says how
the drawn map changes (`DrawGrow`, `DrawShrink`, `DrawCopy`, `DrawOne`).

`Induction` has the induction these need, and what is known of loops.  The library's theorems about it take
a formula as an operator, which the provers cannot instantiate; `Least`, `UpTo`
and `Recursion` name a *set* of numbers, or a step function, instead, and are
proved from the well-founded order of the natural numbers.  It is enough for
recursive functions, and `Tar` is written with those.

Only model-checked: liveness (`ReadyRuns`, `FirstPlaceServed`, `TextShown`,
`GetsAnswered`, `SearchEnds`), which the prover does not handle under fairness.

## 5. Findings

Places where the code does not do what its comments say:

* `wait_flag`.  `process_manager.h:36` and `ipc.c:51` call `is_wait_msg` the flag
  that keeps the scheduler from changing the status of a waiting process.  When
  nothing is ready, the fall-back at `process_manager.c:187-189` runs the process
  that has just gone to sleep, with its flag set and without a message.
* `overwrite`.  `ipc.c:197` says `extract_que()` returns the name of a waiting
  process.  A sender that is blocked in a queue is SLEEP, so another `send()` to it
  takes the direct path (`ipc.c:59-64`): its registers are overwritten and it is
  woken, while its name stays in the queue.
* `starvation`.  `process_manager.h:35` and `ipc.c:197` speak of a queue.
  `add_que()` takes the first free place and `extract_que()` the first used one
  (`ipc.c:188-211`), so a sender in the second place can wait for ever.
* `early_read`.  `lib.c:102-110` says that `read()` sleeps until its line is there.
  `recv()` in VFS makes the reader ready before VFS puts it to sleep again
  (`VFS.c:50`); a timer interrupt in between lets `read()` return with nothing.

* `interrupted`.  `ipc.c:49-51` says of `send()` that it copies the message and
  leaves, or queues the sender and puts it to sleep; `trap_handle.c:18-20` says that
  kerneltrap() is called by kernelvec, whose address is in `stvec`, after the
  registers were saved.  `usertrap()` writes the address of `kerneltrap()` itself
  (line 45) and enables interrupts (line 65): an interrupt inside `send()` skips
  the rest of it, and the sender returns to user mode with its message neither
  handed over nor queued.

Seen while modelling, without a run of their own:

* `sleep_prc()` of a process on itself does not sleep: `yield()` makes it
  RUNABBLE again (`process_manager.c:210-212`).
* `proc_born()` does not look at the result of its last `mappages()`
  (`process_manager.c:154`) and goes on with a page table it has freed
  (`process_manager.c:98-101`).  The second ends in an access fault at the next
  mapping, because a freed page is filled with valid-looking entries; the first
  leaves a ready process without a program.  Neither happens with 128 MB of RAM.
* `write()` takes a text of exactly `PGSIZE` bytes (`lib.c:86`).  terminal's page
  then has no NUL, and terminal reads on into the trapframe above, which it may
  not: the kernel panics (`WritesShow` allows this case and no other).  `puts()`
  stops one character earlier.
* Every return to user mode arms the timer anew (`trap_handle.c:103`), so a program
  that makes non-blocking calls all the time keeps the hart.
* `scause & 0xFF` (`trap_handle.c:51`) takes a load access fault, cause 5, for the
  timer interrupt and runs the faulting load again and again.
* If the timer strikes between VFS's `recv()` and its `sleep()` or `ipc_buf_cpy()`,
  or in terminal around its printing, texts can be lost or VFS can be woken with
  registers that hold no message, up to a PANIC on a name that nobody has.

## 6. Not modelled

* Interrupts inside the calls 2 to 5, inside a PANIC() and in `prepare_uret()`;
  in `Traps` a message is not torn, that is, an interrupt in the middle of
  `copy_reg()` is not taken apart from one before or after it.
* What `kerneltrap()` does to registers and stack besides cutting the call short
  (it depends on the compiler).
* `kernelvec.S`, which is never installed; `init_process()`, `start.c` and
  `prg1.c`-`prg3.c`, which nothing starts; `PLIC.c`, which nothing calls;
  `copyin()`, `copyinstr()`, `copyout()`, which are commented out.
* Devices and firmware calls; `kvminithart()` and the registers `main()` sets; the
  contexts that `switch_context.S` saves (a switch is a change of `current`).
* `buf2ipc_cpy()` with a buffer that crosses the end of its page: what lies
  behind it is another page of the allocator's choice (`ipc.c:135`).
* A program's stores into its page while a call is under way, and which of its places
  are code, variables or stack.
* Sizes that do not fit an `int`: `servers.c:8` and `33` cut the size of a text, and
  `oct2int()` may overflow; no size in `Text` or `Tar` reaches that.
* The timer where it breaks the console: in terminal while it prints (`VFS.c:29`,
  `terminal.c:20`), and a program that makes non-blocking calls all the time
  (`trap_handle.c:103`).  `Preempted` and the premise of `ReadyRuns` leave these out, so
  no property of the console or of the scheduler speaks of them.
* What becomes of a client that is cut off from its wake-up in `Traps`, beyond the
  channels.
* Interleavings within a text: in `System` terminal prints a page in one step, and
  in `Text` the programs take turns.

## 7. Plan

Done in this order: `Ipc`, `ClientServer` with `Channels` and its proofs,
`System` with `Console`, `Kalloc`/`Vm`/`UserMemory`, `Boot`/`Tar`, `Traps`,
`Common`/`Text`.

Theorems done: all properties of all runs that are not liveness, the refinements
of `Channels`, `Console` and `AddressSpaces` included.

Next models: the calls 2 to 5 statement by statement in `Traps`, and `prg1.c`-`prg3.c`
as clients beside the shell.
