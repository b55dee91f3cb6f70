----------------------------- MODULE SystemProofs -----------------------------
(***************************************************************************)
(* The programs of RViX use the kernel as Ipc describes it: a step of      *)
(* System is a step of Ipc or leaves the kernel alone.  So what is proved  *)
(* of Ipc for unknown programs holds in System, wherever the timer may     *)
(* strike.                                                                 *)
(***************************************************************************)
EXTENDS System, IpcProofs

\* The four programs are the processes.
LEMMA Programs ==
  /\ Procs = {VFS, terminal, uinput, shell}
  /\ \A p \in Procs : Name[p] \in Names
BY SystemAssumption, NameFacts DEF Procs, VFS, terminal, uinput, shell

LEMMA MessageTypes ==
  /\ Write \in Body /\ Read \in Body /\ Ping \in Body
  /\ \A n \in Names \cup {0} : Input(n) \in Body
  /\ \A b \in Body : b.a0 \in Names \cup {0, 1}
  /\ "name dst not found" \in Fault
<1>1. Body = Messages /\ 0 \notin Names
  BY SystemAssumption, NameFacts
<1>2. Input(0) = Ping
  BY DEF Input, Ping, Message
<1>3. \A b \in Messages : b.a0 \in Names \cup {0, 1}
  BY DEF Messages, Write, Read, Ping, Input, Message
<1>4. \A n \in Names \cup {0} : Input(n) \in Messages
  BY <1>2 DEF Messages
<1> QED
  BY <1>1, <1>3, <1>4 DEF Messages, Fault

\* The four calls of these programs are calls of Ipc.
LEMMA Calls ==
  /\ \A d, s : ipc_buf_cpy(d, s) => Next
  /\ \A n : sleep(n) \/ wake(n) => Next
  /\ \A p \in Procs, b \in Body : send(Name[p], b) => Next
  /\ recv => Next
BY Programs, MessageTypes
DEF ipc_buf_cpy, sleep, wake, Next, MessageCall, StateCall

LEMMA KernelStepOrNone == SysTypeOK /\ [SysNext]_sysvars => [Next]_vars
<1> SUFFICES ASSUME SysTypeOK, [SysNext]_sysvars PROVE [Next]_vars
  OBVIOUS
<1>1. CASE recv_return \/ plain_return \/ switch \/ server_recv
  BY <1>1, Calls DEF recv_return, plain_return, switch, server_recv, Next, KernelStep
<1>2. CASE terminal_step
  BY <1>2 DEF terminal_step, terminal_start, terminal_print, terminal_clear, user
<1>3. CASE VFS_step
  <2>1. Input(arg[VFS]) \in Body
    BY MessageTypes DEF SysTypeOK
  <2> QED
    BY <1>3, <2>1, Calls, Programs, MessageTypes
    DEF VFS_step, VFS_copy, VFS_ping, VFS_sleep, VFS_input
<1>4. CASE uinput_step
  BY <1>4, Calls DEF uinput_step, uinput_line, uinput_copy, uinput_wake, user
<1>5. CASE shell_step
  BY <1>5, Calls, Programs, MessageTypes
  DEF shell_step, shell_puts, shell_write, shell_gets, shell_strcmp, user
<1>6. CASE UNCHANGED sysvars
  BY <1>6 DEF sysvars
<1> QED
  BY <1>1, <1>2, <1>3, <1>4, <1>5, <1>6 DEF SysNext

\* The variables of the programs, apart from the kernel's.
ProgramsOK ==
  /\ pc \in [Procs -> Labels]
  /\ page \in [Procs -> Pages]
  /\ arg \in [Procs -> Names \cup {0, 1}]
  /\ arg[VFS] \in Names \cup {0}
  /\ text \in Texts \cup {"own"}
  /\ shown \in Pages

LEMMA CopyKeepsPages ==
  ASSUME page \in [Procs -> Pages], NEW d, NEW s, ipc_buf_cpy(d, s)
  PROVE  page' \in [Procs -> Pages]
<1>1. CASE {d, s} \subseteq Names
  BY <1>1, NameFacts DEF ipc_buf_cpy, Pages
<1>2. CASE ~ {d, s} \subseteq Names
  BY <1>2 DEF ipc_buf_cpy
<1> QED
  BY <1>1, <1>2

LEMMA ServedTypes ==
  ASSUME NEW p \in Procs, NEW regs \in Regs, NEW r \in Served(p, regs)
  PROVE  /\ r.pc \in Labels
         /\ r.arg \in Names \cup {0, 1}
         /\ p = VFS => r.arg \in Names \cup {0}
<1>1. Looks(regs.body) \subseteq Body
  BY SystemAssumption DEF Looks, Regs
<1>2. Sender(regs) \subseteq Names \cup {0}
  BY DEF Sender, Regs
<1>3. CASE p = VFS
  <2>1. r \in {x \in [pc : {"copy", "sleep", "recv"}, arg : Sender(regs)] :
                 \E m \in Looks(regs.body) : x.pc = VFS_request(m)}
    BY <1>3 DEF Served, VFS, uinput
  <2>2. r \in [pc : {"copy", "sleep", "recv"}, arg : Sender(regs)]
    BY <2>1
  <2>3. r.pc \in {"copy", "sleep", "recv"} /\ r.arg \in Sender(regs)
    BY <2>2
  <2>4. r.pc \in Labels
    BY <2>3 DEF Labels
  <2>5. r.arg \in Names \cup {0}
    BY <1>2, <2>3
  <2> QED
    BY <2>4, <2>5
<1>4. CASE p = uinput
  <2>1. PICK m \in Looks(regs.body) : r = [pc |-> "poll", arg |-> m.a0]
    BY <1>4 DEF Served, VFS, uinput
  <2>2. r.pc = "poll" /\ r.arg = m.a0
    BY <2>1
  <2>3. m.a0 \in Names \cup {0, 1}
    BY <1>1, MessageTypes
  <2> QED
    BY <1>4, <2>2, <2>3 DEF Labels, VFS, uinput
<1>5. CASE p # VFS /\ p # uinput
  <2>1. r = [pc |-> "print", arg |-> 0]
    BY <1>5 DEF Served
  <2> QED
    BY <1>5, <2>1 DEF Labels
<1> QED
  BY <1>3, <1>4, <1>5

LEMMA ProgramsStep ==
  ASSUME SysTypeOK, [SysNext]_sysvars
  PROVE  ProgramsOK'
<1> USE DEF SysTypeOK, ProgramsOK
<1>1. CASE recv_return
  <2>1. current \in Procs /\ trapframe[current] \in Regs
    BY <1>1 DEF recv_return, usertrap_return, Kernel, TypeOK
  <2>2. PICK r \in Served(current, trapframe[current]) :
          /\ goto(current, r.pc)
          /\ arg' = [arg EXCEPT ![current] = r.arg]
    BY <1>1 DEF recv_return
  <2>3. pc' \in [Procs -> Labels] /\ arg' \in [Procs -> Names \cup {0, 1}]
    BY <2>1, <2>2, ServedTypes DEF goto
  <2>4. arg'[VFS] \in Names \cup {0}
    BY <2>1, <2>2, ServedTypes, Programs
  <2> QED
    BY <1>1, <2>3, <2>4 DEF recv_return
<1>2. CASE plain_return \/ switch \/ server_recv \/ UNCHANGED sysvars
  BY <1>2 DEF plain_return, switch, server_recv, sysvars, programs
<1>3. CASE terminal_step
  BY <1>3, Programs
  DEF terminal_step, terminal_start, terminal_print, terminal_clear, goto, Labels, Pages
<1>4. CASE VFS_step
  <2>1. pc' \in [Procs -> Labels] /\ UNCHANGED <<arg, text, shown>>
    BY <1>4, Programs
    DEF VFS_step, VFS_copy, VFS_ping, VFS_sleep, VFS_input, goto, Labels
  <2>2. page' \in [Procs -> Pages]
    BY <1>4, CopyKeepsPages DEF VFS_step, VFS_copy, VFS_ping, VFS_sleep, VFS_input
  <2> QED
    BY <2>1, <2>2
<1>5. CASE uinput_step
  <2>1. pc' \in [Procs -> Labels] /\ UNCHANGED <<arg, text, shown>>
    BY <1>5, Programs
    DEF uinput_step, uinput_line, uinput_copy, uinput_wake, goto, Labels
  <2>2. page' \in [Procs -> Pages]
    BY <1>5, CopyKeepsPages, Programs
    DEF uinput_step, uinput_line, uinput_copy, uinput_wake, Pages
  <2> QED
    BY <2>1, <2>2
<1>6. CASE shell_step
  <2>1. AfterPuts \in Labels /\ AfterText \in Texts \cup {"own"}
    BY DEF AfterPuts, AfterText, NextText, Texts, Labels
  <2>2. pc' \in [Procs -> Labels] /\ UNCHANGED <<arg, shown>>
    BY <1>6, <2>1, Programs
    DEF shell_step, shell_puts, shell_write, shell_gets, shell_strcmp, goto, Labels
  <2>3. text' \in Texts \cup {"own"}
    BY <1>6, <2>1
    DEF shell_step, shell_puts, shell_write, shell_gets, shell_strcmp, Texts
  <2>4. page' \in [Procs -> Pages]
    BY <1>6, Programs
    DEF shell_step, shell_puts, shell_write, shell_gets, shell_strcmp, Pages
  <2> QED
    BY <2>2, <2>3, <2>4
<1> QED
  BY <1>1, <1>2, <1>3, <1>4, <1>5, <1>6 DEF SysNext

SysInv == Inv /\ SysTypeOK

LEMMA SysInitInv == SysInit => SysInv
<1> SUFFICES ASSUME SysInit PROVE SysInv
  OBVIOUS
<1>1. Inv
  BY InitInv DEF SysInit
<1>2. ProgramsOK
  BY Programs DEF SysInit, ProgramsOK, Labels, Pages, Texts
<1> QED
  BY <1>1, <1>2 DEF SysInv, Inv, SysTypeOK, ProgramsOK

LEMMA SysStepInv == SysInv /\ [SysNext]_sysvars => SysInv'
<1> SUFFICES ASSUME SysInv, [SysNext]_sysvars PROVE SysInv'
  OBVIOUS
<1>1. Inv'
  BY KernelStepOrNone, StepInv DEF SysInv
<1>2. ProgramsOK'
  BY ProgramsStep DEF SysInv
<1> QED
  BY <1>1, <1>2 DEF SysInv, Inv, SysTypeOK, ProgramsOK

\* The programs of RViX and their pages keep their types wherever the timer
\* strikes, also when VFS or uinput are handed registers that hold no message.
THEOREM SystemTyping == SysSpec => []SysTypeOK
<1>1. SysSpec => []SysInv
  BY SysInitInv, SysStepInv, PTL DEF SysSpec
<1> QED
  BY <1>1, PTL DEF SysInv

\* RViX with its programs is an instance of the kernel under any programs, so
\* every theorem about Spec is one about SysSpec.
THEOREM SystemUsesKernel == SysSpec => Spec
<1>1. SysInit => Init
  BY DEF SysInit
<1>2. SysInv => SysTypeOK
  BY DEF SysInv
<1> QED
  BY SysInitInv, SysStepInv, KernelStepOrNone, <1>1, <1>2, PTL DEF SysSpec, Spec

------------------------------------------------------------------------------
(***************************************************************************)
(* With the timer kept out of the critical sections (Quiet): the           *)
(* invariant that ties the four processes together, and what follows from  *)
(* it.  At any time one message of the shell is under way at most, and the *)
(* invariant says where: which process holds it, who sleeps for it, what   *)
(* the registers and the ipc pages hold meanwhile.                         *)
(*                                                                         *)
(* The lemma of a step first computes the variables after the step         *)
(* process by process, and then goes through the parts of the invariant.   *)
(***************************************************************************)

\* The four programs, their names and their messages are distinct.
LEMMA Cast ==
  /\ Procs = {VFS, terminal, uinput, shell}
  /\ VFS # terminal /\ VFS # uinput /\ VFS # shell
  /\ terminal # uinput /\ terminal # shell /\ uinput # shell
  /\ Procs \subseteq Slots /\ 0 \in Slots /\ NoProc \notin Procs
  /\ \A p \in Procs : Name[p] \in Names /\ Name[p] # 0 /\ find_name_process(Name[p]) = p
  /\ \A p, q \in Procs : Name[p] = Name[q] => p = q
BY Programs, SlotFacts, NameFacts, IpcAssumption DEF VFS, terminal, uinput, shell

\* What the proofs below use of the types, without the texts of the panics.
Sorted ==
  /\ state \in [Slots -> States]
  /\ current \in Procs \cup {NoProc}
  /\ is_wait_msg \in [Procs -> {0, 1, JUNK}]
  /\ que \in [Procs -> [Slots -> Names \cup {0}]]
  /\ trapframe \in [Procs -> Regs]
  /\ trap \in [Procs -> Traps]
  /\ pc \in [Procs -> Labels]
  /\ page \in [Procs -> Pages]
  /\ arg \in [Procs -> Names \cup {0, 1}]
  /\ text \in Texts \cup {"own"}
  /\ OnlyCurrentRuns

LEMMA SortedFacts == SysInv => Sorted
BY DEF SysInv, Inv, SysTypeOK, TypeOK, Sorted

\* Where yield() goes: to a ready process, the one next in the table if it is
\* one of those the programs count on.
LEMMA YieldTo ==
  ASSUME Sorted, current \in Procs, NEW st, yield(st),
         \A s \in Slots \ Procs : st[s] # "RUNABBLE",
         st \in [Slots -> States]
  PROVE  \E n \in Procs :
           /\ current' = n /\ idx' = n
           /\ \/ st[n] = "RUNABBLE"
              \/ n = current /\ \A p \in Procs : st[p] # "RUNABBLE"
           /\ \A p \in Procs :
                state'[p] = IF p = n THEN "RUN"
                            ELSE IF p # current THEN st[p]
                            ELSE IF is_wait_msg'[p] = 1 THEN "SLEEP" ELSE "RUNABBLE"
           /\ current = VFS /\ st[terminal] = "RUNABBLE" => n = terminal
           /\ current = VFS /\ st[terminal] # "RUNABBLE" /\ st[uinput] = "RUNABBLE" => n = uinput
           /\ current = shell /\ st[VFS] = "RUNABBLE" => n = VFS
<1>1. PICK n \in Slots :
        /\ sheduller(st, n)
        /\ current' = n
        /\ state' = [st EXCEPT
             ![current] = IF is_wait_msg'[current] = 1 THEN "SLEEP" ELSE "RUNABBLE",
             ![n] = "RUN"]
  BY DEF yield
<1>2. idx = current
  BY DEF Sorted, OnlyCurrentRuns
<1>3. /\ n \in Procs /\ idx' = n
      /\ \/ st[n] = "RUNABBLE"
         \/ n = current /\ \A p \in Procs : st[p] # "RUNABBLE"
  <2>1. CASE st[n] = "RUNABBLE" /\ idx' = n
    BY <2>1
  <2>2. CASE n = current /\ idx' = idx /\ \A s \in Slots : st[s] # "RUNABBLE"
    BY <1>2, <2>2, Cast
  <2> QED
    BY <1>1, <2>1, <2>2 DEF sheduller
<1>4. \A p \in Procs :
        state'[p] = IF p = n THEN "RUN"
                    ELSE IF p # current THEN st[p]
                    ELSE IF is_wait_msg'[p] = 1 THEN "SLEEP" ELSE "RUNABBLE"
  BY <1>1, <1>3, Cast
<1>5. MAX_PROS \in Nat /\ MAX_PROS >= 4 /\ Slots = 0 .. (MAX_PROS - 1) /\ Procs = 0 .. 3
  BY IpcAssumption, SystemAssumption DEF Slots, Procs
<1>6. (\E s \in Procs : st[s] = "RUNABBLE") =>
        \E k \in 1 .. MAX_PROS :
          /\ n = (current + k) % MAX_PROS
          /\ \A j \in 1 .. (k - 1) : st[(current + j) % MAX_PROS] # "RUNABBLE"
  BY <1>1, <1>2, Cast DEF sheduller
<1>7. ASSUME current = VFS, st[terminal] = "RUNABBLE"
      PROVE  n = terminal
  <2>1. PICK k \in 1 .. MAX_PROS :
          /\ n = (0 + k) % MAX_PROS
          /\ \A j \in 1 .. (k - 1) : st[(0 + j) % MAX_PROS] # "RUNABBLE"
    BY <1>6, <1>7, Cast DEF VFS
  <2>2. (0 + 1) % MAX_PROS = 1
    BY <1>5, Wrap
  <2>3. k = 1
    BY <1>7, <2>1, <2>2 DEF terminal
  <2> QED
    BY <2>1, <2>2, <2>3 DEF terminal
<1>8. ASSUME current = VFS, st[terminal] # "RUNABBLE", st[uinput] = "RUNABBLE"
      PROVE  n = uinput
  <2>1. PICK k \in 1 .. MAX_PROS :
          /\ n = (0 + k) % MAX_PROS
          /\ \A j \in 1 .. (k - 1) : st[(0 + j) % MAX_PROS] # "RUNABBLE"
    BY <1>6, <1>8, Cast DEF VFS
  <2>2. (0 + 1) % MAX_PROS = 1 /\ (0 + 2) % MAX_PROS = 2
    BY <1>5, Wrap
  <2>3. k = 1 \/ k = 2
    BY <1>8, <2>1, <2>2 DEF uinput
  <2>4. k # 1
    <3>1. SUFFICES ASSUME k = 1 PROVE FALSE
      OBVIOUS
    <3>2. n = terminal
      BY <2>1, <2>2, <3>1 DEF terminal
    <3> QED
      BY <1>3, <1>8, <3>2, Cast
  <2> QED
    BY <2>1, <2>2, <2>3, <2>4 DEF uinput
<1>9. ASSUME current = shell, st[VFS] = "RUNABBLE"
      PROVE  n = VFS
  <2>1. PICK k \in 1 .. MAX_PROS :
          /\ n = (3 + k) % MAX_PROS
          /\ \A j \in 1 .. (k - 1) : st[(3 + j) % MAX_PROS] # "RUNABBLE"
    BY <1>6, <1>9, Cast DEF shell
  <2>2. (3 + (MAX_PROS - 3)) % MAX_PROS = 0
    BY <1>5, Wrap
  <2>3. k <= MAX_PROS - 3
    <3>1. SUFFICES ASSUME ~ k <= MAX_PROS - 3 PROVE FALSE
      OBVIOUS
    <3>2. MAX_PROS - 3 \in 1 .. (k - 1)
      BY <1>5, <3>1
    <3>3. st[(3 + (MAX_PROS - 3)) % MAX_PROS] # "RUNABBLE"
      BY <2>1, <3>2
    <3> QED
      BY <1>9, <2>2, <3>3 DEF VFS
  <2>4. (3 + k) % MAX_PROS = IF 3 + k < MAX_PROS THEN 3 + k ELSE 3 + k - MAX_PROS
    BY <1>5, Wrap
  <2>5. CASE k = MAX_PROS - 3
    BY <1>5, <2>1, <2>4, <2>5 DEF VFS
  <2>6. CASE k < MAX_PROS - 3
    BY <1>3, <1>5, <2>1, <2>4, <2>6
  <2> QED
    BY <1>5, <2>3, <2>5, <2>6
<1> QED
  BY <1>1, <1>3, <1>4, <1>7, <1>8, <1>9

------------------------------------------------------------------------------
(* The invariant.                                                          *)

\* p has left recv() in the kernel, with a message in its registers.
Holds(p) == trap[p] = "recv" /\ state[p] # "SLEEP"

\* Where the message of the shell is, in the queue of VFS or in its hands, ...
ShellQueued == que[VFS][0] = Name[shell]
RequestHeld == Holds(VFS) \/ pc[VFS] \in {"copy", "sleep"}

\* ... and where the name of a shell that reads is, after VFS put it to sleep.
VFSQueued == que[uinput][0] = Name[VFS]
InputHeld == Holds(uinput) \/ pc[uinput] \in {"poll", "copy", "wake"}
ReaderKept == pc[VFS] = "input" \/ VFSQueued \/ InputHeld

\* What the shell sends, and where the text is that terminal has to print.
Request == IF pc[shell] = "strcmp" THEN Read ELSE Write
TextPending == pc[VFS] = "ping" \/ Holds(terminal) \/ pc[terminal] = "print"

\* Where each program and its last trap can be, and together with which.
Places ==
  /\ pc[terminal] \in {"start", "recv", "print", "clear"}
  /\ pc[VFS] \in {"recv", "copy", "ping", "sleep", "input"}
  /\ pc[uinput] \in {"recv", "poll", "copy", "wake"}
  /\ pc[shell] \in {"puts", "write", "gets", "strcmp"}
  /\ trap[terminal] \in {"born", "user", "recv"}
  /\ trap[VFS] \in {"born", "user", "timer", "recv", "send", "buf", "sleep_prc"}
  /\ trap[uinput] \in {"born", "user", "timer", "recv", "buf", "wakeup"}
  /\ trap[shell] \in {"born", "user", "timer", "send"}
  /\ \A p \in {VFS, terminal, uinput} : trap[p] = "recv" => pc[p] = "recv"
  /\ trap[terminal] = "born" => pc[terminal] = "start"
  /\ pc[VFS] \in {"copy", "sleep"} => trap[VFS] = "user"
  /\ trap[VFS] \in {"born", "send"} => pc[VFS] = "recv"
  /\ trap[uinput] = "born" => pc[uinput] = "recv"
  /\ trap[shell] = "born" => pc[shell] = "puts"
  /\ trap[shell] = "send" => pc[shell] # "write"

\* Only VFS and uinput are sent anything that waits, one message at a time.
Queues ==
  \A i \in Slots :
    /\ que[terminal][i] = 0
    /\ que[shell][i] = 0
    /\ que[VFS][i] # 0 => i = 0 /\ ShellQueued
    /\ que[uinput][i] # 0 => i = 0 /\ VFSQueued

\* Who sleeps, and what for: a process that waits for a message has none, a
\* sender sleeps until it is received, a reader until uinput wakes it.
Sleepers ==
  /\ \A p \in Procs : is_wait_msg[p] = 1 => state[p] = "SLEEP"
  /\ state[terminal] = "SLEEP" => trap[terminal] = "recv" /\ is_wait_msg[terminal] = 1
  /\ state[uinput] = "SLEEP" =>
       trap[uinput] = "recv" /\ is_wait_msg[uinput] = 1 /\ ~VFSQueued
  /\ state[VFS] = "SLEEP" => is_wait_msg[VFS] = 1
  /\ state[VFS] = "SLEEP" /\ ~VFSQueued => trap[VFS] = "recv" /\ ~ShellQueued
  /\ state[shell] = "SLEEP" => ShellQueued \/ ReaderKept
  /\ ShellQueued =>
       state[shell] = "SLEEP" /\ trap[shell] = "send" /\ is_wait_msg[shell] = 1
  /\ VFSQueued => state[VFS] = "SLEEP" /\ trap[VFS] = "send"
  /\ ReaderKept => /\ state[shell] = "SLEEP" /\ trap[shell] = "send"
                   /\ is_wait_msg[shell] # 1 /\ ~ShellQueued /\ pc[shell] = "strcmp"
  /\ InputHeld => ~VFSQueued /\ pc[VFS] # "input"

\* Who runs: a request is worked on before anybody else runs, and before
\* terminal has started nobody else has.
Turns ==
  /\ current \in Procs => state[current] = "RUN"
  /\ pc[terminal] # "start" => state[terminal] = "SLEEP" \/ current = terminal
  /\ RequestHeld => current = VFS /\ state[shell] = "RUNABBLE" /\ trap[shell] = "send"
  /\ Holds(uinput) => current = uinput
  /\ current = terminal => state[VFS] = "RUNABBLE" /\ pc[VFS] = "recv"
  /\ pc[terminal] = "start" =>
       /\ timer = FALSE
       /\ current \in {NoProc, terminal}
       /\ trap[VFS] = "born" /\ trap[uinput] = "born" /\ trap[shell] = "born"
  /\ current = NoProc => pc[terminal] = "start" /\ trap[terminal] = "born" /\ idx = 0

\* What the registers and the local variables hold while a message is under way.
Contents ==
  /\ trap[shell] = "send" => trapframe[shell].body = Request
  /\ VFSQueued => trapframe[VFS].body = Input(Name[shell])
  /\ Holds(VFS) => trapframe[VFS].a3 = Name[shell] /\ trapframe[VFS].body = Request
  /\ Holds(uinput) => trapframe[uinput].body = Input(Name[shell])
  /\ pc[VFS] \in {"copy", "sleep", "input"} => arg[VFS] = Name[shell]
  /\ pc[uinput] \in {"poll", "copy", "wake"} => arg[uinput] = Name[shell]
  /\ pc[VFS] = "copy" => pc[shell] # "strcmp"
  /\ pc[VFS] = "sleep" => pc[shell] = "strcmp"

\* The ipc page of terminal holds a text exactly while one is to be printed, ...
TerminalPage ==
  /\ pc[terminal] = "start" => page[terminal] \notin Texts
  /\ pc[terminal] \notin {"start", "clear"} =>
       /\ TextPending => page[terminal] \in Texts
       /\ ~TextPending => page[terminal] = "zero"

\* ... and the one of the shell a text until VFS took it and, when gets()
\* returns, the line.
ShellPage ==
  /\ pc[shell] = "write" => page[shell] \in Texts /\ text # "own"
  /\ pc[shell] \in {"puts", "gets"} /\ (ShellQueued \/ RequestHeld) => page[shell] \in Texts
  /\ ~ShellQueued /\ ~RequestHeld =>
       /\ pc[shell] = "gets" => page[shell] = "zero"
       /\ pc[shell] = "puts" => page[shell] \notin Texts
       /\ pc[shell] = "puts" /\ text = "own" => page[shell] = "zero"
  /\ pc[shell] = "strcmp" =>
       IF ShellQueued \/ RequestHeld \/ (ReaderKept /\ pc[uinput] # "wake")
       THEN page[shell] = "zero" ELSE page[shell] \in Lines
  /\ pc[shell] \in {"gets", "strcmp"} => text # "own"

PageContents ==
  /\ TerminalPage
  /\ ShellPage
  /\ pc[uinput] = "copy" => page[uinput] \in Lines

ConsoleInv ==
  /\ panic = "none"
  /\ Places /\ Queues /\ Sleepers /\ Turns /\ Contents /\ PageContents

\* The timer does not strike in the critical sections.
Quiet == Preempted \cap CriticalSections = {}

------------------------------------------------------------------------------
(* The steps.                                                              *)

\* terminal clears its page, prints what VFS put there, and clears it again.
LEMMA TerminalStep ==
  ASSUME SysInv, ConsoleInv, terminal_step
  PROVE  ConsoleInv'
<1>1. Sorted
  BY SortedFacts
<1>2. /\ UNCHANGED <<state, current, idx, is_wait_msg, que, trapframe, trap, timer, panic>>
      /\ UNCHANGED <<arg, text>>
      /\ current = terminal /\ trap[terminal] = "user"
  BY DEF terminal_step, terminal_start, terminal_print, terminal_clear, user, at, UserMode, vars
<1>3. \A p \in Procs : p # terminal => pc'[p] = pc[p] /\ page'[p] = page[p]
  BY <1>1, Cast DEF terminal_step, terminal_start, terminal_print, terminal_clear, goto, Sorted
<1>4. \/ pc[terminal] = "start" /\ pc'[terminal] = "recv" /\ page'[terminal] = "zero"
      \/ pc[terminal] = "print" /\ pc'[terminal] = "clear" /\ page' = page
      \/ pc[terminal] = "clear" /\ pc'[terminal] = "recv" /\ page'[terminal] = "zero"
  BY <1>1, Cast
  DEF terminal_step, terminal_start, terminal_print, terminal_clear, goto, user, at, Sorted
<1>5. Places'
  BY <1>2, <1>3, <1>4, Cast DEF ConsoleInv, Places
<1>6. Queues'
  BY <1>2, <1>3, <1>4, Cast DEF ConsoleInv, Queues, ShellQueued, VFSQueued
<1>7. Sleepers'
  BY <1>2, <1>3, <1>4, Cast
  DEF ConsoleInv, Sleepers, ShellQueued, VFSQueued, ReaderKept, InputHeld, Holds
<1>8. Turns'
  BY <1>2, <1>3, <1>4, Cast DEF ConsoleInv, Turns, RequestHeld, Holds
<1>9. Contents'
  BY <1>2, <1>3, <1>4, Cast DEF ConsoleInv, Contents, VFSQueued, Holds, Request
<1>10. PageContents'
  BY <1>2, <1>3, <1>4, Cast
  DEF ConsoleInv, PageContents, TerminalPage, ShellPage, TextPending, Holds, ShellQueued,
      RequestHeld, ReaderKept, InputHeld, VFSQueued, Turns, Places
<1> QED
  BY <1>2, <1>5, <1>6, <1>7, <1>8, <1>9, <1>10 DEF ConsoleInv

\* A return to user mode with nothing to hand over.
LEMMA PlainReturn ==
  ASSUME SysInv, ConsoleInv, plain_return
  PROVE  ConsoleInv'
<1>1. Sorted
  BY SortedFacts
<1>2. /\ UNCHANGED <<state, current, idx, is_wait_msg, que, trapframe, panic>>
      /\ UNCHANGED <<pc, page, arg, text>>
      /\ current \in Procs /\ trap[current] \notin {"recv", "user"}
      /\ trap[current] = "born" => timer' = timer
      /\ trap' = [trap EXCEPT ![current] = "user"]
  BY DEF plain_return, prepare_uret, usertrap_return, Kernel, programs
<1>3. trap'[current] = "user" /\ \A p \in Procs : p # current => trap'[p] = trap[p]
  BY <1>1, <1>2 DEF Sorted
<1>4. current = terminal => trap[terminal] = "born"
  BY <1>2 DEF ConsoleInv, Places
<1>5. Places'
  BY <1>2, <1>3, Cast DEF ConsoleInv, Places
<1>6. Queues'
  BY <1>2 DEF ConsoleInv, Queues, ShellQueued, VFSQueued
<1>7. Sleepers'
  BY <1>2, <1>3, Cast
  DEF ConsoleInv, Sleepers, Turns, ShellQueued, VFSQueued, ReaderKept, InputHeld, Holds
<1>8. Turns'
  BY <1>2, <1>3, <1>4, Cast
  DEF ConsoleInv, Turns, RequestHeld, Holds
<1>9. Contents'
  BY <1>2, <1>3, Cast DEF ConsoleInv, Contents, VFSQueued, Holds, Request
<1>10. PageContents'
  BY <1>2, <1>3, Cast
  DEF ConsoleInv, PageContents, TerminalPage, ShellPage, TextPending, Holds, ShellQueued,
      RequestHeld, ReaderKept, InputHeld, VFSQueued
<1> QED
  BY <1>2, <1>5, <1>6, <1>7, <1>8, <1>9, <1>10 DEF ConsoleInv

\* The messages of these programs tell VFS and uinput what to do.
LEMMA Orders ==
  /\ Write \in Messages /\ Read \in Messages
  /\ Input(Name[shell]) \in Messages /\ Input(Name[shell]).a0 = Name[shell]
  /\ VFS_request(Write) = "copy" /\ VFS_request(Read) = "sleep"
  /\ \A m \in Messages : Looks(m) = {m}
<1>1. \A m \in Messages : m # NoBody
  BY IpcAssumption, SystemAssumption
<1>2. Name[shell] \in Names
  BY Cast
<1> QED
  BY <1>1, <1>2 DEF Messages, Write, Read, Input, Message, VFS_request, Looks

\* A program leaves recv() with its message: VFS with the request of a shell
\* that is ready again, terminal with a text in its page, uinput with the name
\* of a reader that sleeps.
LEMMA RecvReturn ==
  ASSUME SysInv, ConsoleInv, recv_return
  PROVE  ConsoleInv'
<1>1. Sorted
  BY SortedFacts
<1>2. /\ UNCHANGED <<state, current, idx, is_wait_msg, que, trapframe, panic>>
      /\ UNCHANGED <<page, text>>
      /\ current \in Procs /\ trap[current] = "recv"
      /\ trap' = [trap EXCEPT ![current] = "user"]
  BY DEF recv_return, usertrap_return, Kernel
<1>3. trap'[current] = "user" /\ \A p \in Procs : p # current => trap'[p] = trap[p]
  BY <1>1, <1>2 DEF Sorted
<1>4. Holds(current) /\ pc[current] = "recv" /\ current \in {VFS, terminal, uinput}
  BY <1>2, Cast DEF ConsoleInv, Places, Turns, Holds
<1>5. PICK r \in Served(current, trapframe[current]) :
        goto(current, r.pc) /\ arg' = [arg EXCEPT ![current] = r.arg]
  BY DEF recv_return
<1>6. /\ pc'[current] = r.pc /\ arg'[current] = r.arg
      /\ \A p \in Procs : p # current => pc'[p] = pc[p] /\ arg'[p] = arg[p]
  BY <1>1, <1>2, <1>5 DEF goto, Sorted
<1>7. CASE current = VFS
  <2>1. /\ trapframe[VFS].a3 = Name[shell] /\ trapframe[VFS].body = Request
        /\ state[shell] = "RUNABBLE" /\ trap[shell] = "send"
    BY <1>4, <1>7 DEF ConsoleInv, Contents, Turns, RequestHeld
  <2>2. Looks(trapframe[VFS].body) = {Request} /\ Sender(trapframe[VFS]) = {Name[shell]}
    BY <2>1, Orders, Cast DEF Request, Sender
  <2>3. r.pc = VFS_request(Request) /\ r.arg = Name[shell]
    <3>1. r \in {x \in [pc : {"copy", "sleep", "recv"}, arg : Sender(trapframe[VFS])] :
                   \E m \in Looks(trapframe[VFS].body) : x.pc = VFS_request(m)}
      <4>1. r \in Served(VFS, trapframe[VFS])
        BY <1>5, <1>7
      <4> QED
        BY <4>1 DEF Served, VFS, uinput
    <3>2. r \in [pc : {"copy", "sleep", "recv"}, arg : {Name[shell]}] /\ r.pc = VFS_request(Request)
      BY <2>2, <3>1
    <3> QED
      BY <3>2
  <2>4. r.pc = IF pc[shell] = "strcmp" THEN "sleep" ELSE "copy"
    BY <2>3, Orders DEF Request
  <2>5. Places'
    BY <1>2, <1>3, <1>6, <1>7, <2>4, Cast DEF ConsoleInv, Places
  <2>6. Queues'
    BY <1>2 DEF ConsoleInv, Queues, ShellQueued, VFSQueued
  <2>7. Sleepers'
    BY <1>2, <1>3, <1>4, <1>6, <1>7, <2>1, <2>4, Cast
    DEF ConsoleInv, Sleepers, Turns, ShellQueued, VFSQueued, ReaderKept, InputHeld, Holds
  <2>8. Turns'
    BY <1>2, <1>3, <1>4, <1>6, <1>7, <2>1, <2>4, Cast
    DEF ConsoleInv, Turns, Sleepers, Places, RequestHeld, Holds
  <2>9. Contents'
    BY <1>2, <1>3, <1>4, <1>6, <1>7, <2>1, <2>3, <2>4, Cast
    DEF ConsoleInv, Contents, VFSQueued, Holds, Request
  <2>10. PageContents'
    BY <1>2, <1>3, <1>4, <1>6, <1>7, <2>1, <2>4, Cast
    DEF ConsoleInv, PageContents, TerminalPage, ShellPage, TextPending, Holds, ShellQueued,
        RequestHeld, ReaderKept, InputHeld, VFSQueued
  <2> QED
    BY <1>2, <2>5, <2>6, <2>7, <2>8, <2>9, <2>10 DEF ConsoleInv
<1>8. CASE current = terminal
  <2>1. r.pc = "print"
    BY <1>5, <1>8, Cast DEF Served
  <2>5. Places'
    BY <1>2, <1>3, <1>6, <1>8, <2>1, Cast DEF ConsoleInv, Places
  <2>6. Queues'
    BY <1>2 DEF ConsoleInv, Queues, ShellQueued, VFSQueued
  <2>7. Sleepers'
    BY <1>2, <1>3, <1>4, <1>6, <1>8, <2>1, Cast
    DEF ConsoleInv, Sleepers, Turns, ShellQueued, VFSQueued, ReaderKept, InputHeld, Holds
  <2>8. Turns'
    BY <1>2, <1>3, <1>4, <1>6, <1>8, <2>1, Cast
    DEF ConsoleInv, Turns, RequestHeld, Holds
  <2>9. Contents'
    BY <1>2, <1>3, <1>6, <1>8, Cast
    DEF ConsoleInv, Contents, VFSQueued, Holds, Request
  <2>10. PageContents'
    BY <1>2, <1>3, <1>4, <1>6, <1>8, <2>1, Cast
    DEF ConsoleInv, PageContents, TerminalPage, ShellPage, TextPending, Holds, ShellQueued,
        RequestHeld, ReaderKept, InputHeld, VFSQueued
  <2> QED
    BY <1>2, <2>5, <2>6, <2>7, <2>8, <2>9, <2>10 DEF ConsoleInv
<1>9. CASE current = uinput
  <2>1. trapframe[uinput].body = Input(Name[shell])
    BY <1>4, <1>9 DEF ConsoleInv, Contents
  <2>2. r.pc = "poll" /\ r.arg = Name[shell]
    <3>1. PICK m \in Looks(trapframe[uinput].body) : r = [pc |-> "poll", arg |-> m.a0]
      BY <1>5, <1>9, Cast DEF Served
    <3>2. m = Input(Name[shell])
      BY <2>1, <3>1, Orders
    <3> QED
      BY <3>1, <3>2, Orders
  <2>5. Places'
    BY <1>2, <1>3, <1>6, <1>9, <2>2, Cast DEF ConsoleInv, Places
  <2>6. Queues'
    BY <1>2 DEF ConsoleInv, Queues, ShellQueued, VFSQueued
  <2>7. Sleepers'
    BY <1>2, <1>3, <1>4, <1>6, <1>9, <2>2, Cast
    DEF ConsoleInv, Sleepers, Turns, ShellQueued, VFSQueued, ReaderKept, InputHeld, Holds
  <2>8. Turns'
    BY <1>2, <1>3, <1>4, <1>6, <1>9, <2>2, Cast
    DEF ConsoleInv, Turns, RequestHeld, Holds
  <2>9. Contents'
    BY <1>2, <1>3, <1>6, <1>9, <2>2, Cast
    DEF ConsoleInv, Contents, VFSQueued, Holds, Request
  <2>10. PageContents'
    BY <1>2, <1>3, <1>4, <1>6, <1>9, <2>2, Cast
    DEF ConsoleInv, PageContents, TerminalPage, ShellPage, TextPending, Holds, ShellQueued,
        RequestHeld, ReaderKept, InputHeld, VFSQueued
  <2> QED
    BY <1>2, <2>5, <2>6, <2>7, <2>8, <2>9, <2>10 DEF ConsoleInv
<1> QED
  BY <1>4, <1>7, <1>8, <1>9

\* The first yield(), of main(): the terminal comes first.
LEMMA MainYield ==
  ASSUME SysInv, ConsoleInv, main_yield, UNCHANGED programs
  PROVE  ConsoleInv'
<1>1. Sorted
  BY SortedFacts
<1>2. /\ UNCHANGED <<is_wait_msg, que, trapframe, trap, timer, panic>>
      /\ UNCHANGED <<pc, page, arg, text>>
      /\ current = NoProc
  BY DEF main_yield, programs
<1>3. PICK n \in Slots :
        /\ sheduller(state, n)
        /\ current' = n
        /\ state' = [state EXCEPT ![n] = "RUN"]
  BY DEF main_yield
<1>4. /\ pc[terminal] = "start" /\ trap[terminal] = "born" /\ idx = 0
      /\ \A p \in Procs : trap[p] = "born"
  BY <1>2, Cast DEF ConsoleInv, Turns
<1>5. \A p \in Procs : state[p] = "RUNABBLE"
  BY <1>1, <1>2, <1>4, Cast
  DEF ConsoleInv, Sorted, OnlyCurrentRuns, States, Sleepers, ShellQueued, VFSQueued, ReaderKept,
      InputHeld, Holds, Places
<1>6. n = terminal
  <2>1. MAX_PROS \in Nat /\ MAX_PROS >= 4
    BY IpcAssumption, SystemAssumption
  <2>2. (0 + 1) % MAX_PROS = 1
    BY <2>1, Wrap
  <2>3. PICK k \in 1 .. MAX_PROS :
          /\ n = (0 + k) % MAX_PROS
          /\ \A j \in 1 .. (k - 1) : state[(0 + j) % MAX_PROS] # "RUNABBLE"
    BY <1>3, <1>4, <1>5, Cast DEF sheduller
  <2>4. k = 1
    BY <1>5, <2>2, <2>3, Cast DEF terminal
  <2> QED
    BY <2>2, <2>3, <2>4 DEF terminal
<1>7. state'[terminal] = "RUN" /\ \A p \in Procs : p # terminal => state'[p] = "RUNABBLE"
  BY <1>1, <1>3, <1>5, <1>6, Cast DEF Sorted
<1>8. Places' /\ Queues'
  BY <1>2 DEF ConsoleInv, Places, Queues, ShellQueued, VFSQueued
<1>9. Sleepers'
  BY <1>2, <1>4, <1>5, <1>7, Cast
  DEF ConsoleInv, Sleepers, ShellQueued, VFSQueued, ReaderKept, InputHeld, Holds
<1>10. Turns'
  BY <1>2, <1>3, <1>4, <1>5, <1>6, <1>7, Cast
  DEF ConsoleInv, Turns, Places, RequestHeld, Holds
<1>11. Contents'
  BY <1>2, <1>4, <1>5, <1>7, Cast DEF ConsoleInv, Contents, VFSQueued, Holds, Request
<1>12. PageContents'
  BY <1>2, <1>4, <1>5, <1>7, Cast
  DEF ConsoleInv, PageContents, TerminalPage, ShellPage, TextPending, Holds, ShellQueued,
      RequestHeld, ReaderKept, InputHeld, VFSQueued
<1> QED
  BY <1>2, <1>8, <1>9, <1>10, <1>11, <1>12 DEF ConsoleInv

\* A timer interrupt strikes the shell, uinput, or VFS away from the requests
\* it works on; the hart goes to another of them.
LEMMA TimerInterrupt ==
  ASSUME Quiet, SysInv, ConsoleInv, timer_interrupt, <<current, pc[current]>> \in Preempted,
         UNCHANGED programs
  PROVE  ConsoleInv'
<1>1. Sorted
  BY SortedFacts
<1>2. /\ UNCHANGED <<is_wait_msg, que, panic>>
      /\ UNCHANGED <<pc, page, arg, text>>
      /\ current \in Procs /\ trap[current] = "user"
      /\ trap' = [trap EXCEPT ![current] = "timer"]
      /\ trapframe' = [trapframe EXCEPT ![current] = Stale]
      /\ timer = TRUE
      /\ yield(state)
  BY DEF timer_interrupt, uservec, UserMode, programs
<1>3. /\ trap'[current] = "timer"
      /\ \A p \in Procs : p # current => trap'[p] = trap[p] /\ trapframe'[p] = trapframe[p]
  BY <1>1, <1>2 DEF Sorted
<1>4. <<current, pc[current]>> \notin CriticalSections
  BY DEF Quiet
<1>5. /\ current \in {VFS, uinput, shell}
      /\ current = VFS => pc[VFS] \notin {"copy", "sleep"}
      /\ pc[terminal] # "start"
  BY <1>2, <1>4, Cast DEF ConsoleInv, Places, Turns, CriticalSections
<1>6. PICK n \in Procs :
        /\ current' = n
        /\ state[n] = "RUNABBLE" \/ n = current
        /\ \A p \in Procs :
             state'[p] = IF p = n THEN "RUN"
                         ELSE IF p # current THEN state[p]
                         ELSE IF is_wait_msg'[p] = 1 THEN "SLEEP" ELSE "RUNABBLE"
  BY <1>1, <1>2, YieldTo DEF Sorted, OnlyCurrentRuns
<1>7. /\ state[current] = "RUN" /\ is_wait_msg[current] # 1
      /\ \A p \in Procs : state'[p] = "SLEEP" <=> state[p] = "SLEEP"
  BY <1>2, <1>6, Cast DEF ConsoleInv, Turns, Sleepers
<1>8. n # terminal
  BY <1>5, <1>6, Cast DEF ConsoleInv, Turns
<1>9. Places'
  BY <1>2, <1>3, <1>5, Cast DEF ConsoleInv, Places
<1>10. Queues'
  BY <1>2 DEF ConsoleInv, Queues, ShellQueued, VFSQueued
<1>11. Sleepers'
  BY <1>2, <1>3, <1>5, <1>7, Cast
  DEF ConsoleInv, Sleepers, ShellQueued, VFSQueued, ReaderKept, InputHeld, Holds
<1>12. Turns'
  BY <1>2, <1>3, <1>5, <1>6, <1>7, <1>8, Cast
  DEF ConsoleInv, Turns, RequestHeld, Holds
<1>13. Contents'
  BY <1>2, <1>3, <1>5, <1>7, Cast
  DEF ConsoleInv, Contents, Sleepers, VFSQueued, Holds, Request
<1>14. PageContents'
  BY <1>2, <1>3, <1>5, <1>7, Cast
  DEF ConsoleInv, PageContents, TerminalPage, ShellPage, TextPending, Holds, ShellQueued,
      RequestHeld, ReaderKept, InputHeld, VFSQueued
<1> QED
  BY <1>2, <1>9, <1>10, <1>11, <1>12, <1>13, <1>14 DEF ConsoleInv

\* recv() with a message waiting: VFS takes that of the shell, uinput that of
\* VFS, and the receiver goes on.
LEMMA RecvQueued ==
  ASSUME SysInv, ConsoleInv, pc[current] = "recv", recv_queued, UNCHANGED programs
  PROVE  ConsoleInv'
<1>1. Sorted
  BY SortedFacts
<1>2. PICK i \in Slots :
        /\ que[current][i] # 0
        /\ trap' = [trap EXCEPT ![current] = "recv"]
        /\ que' = [que EXCEPT ![current][i] = 0]
        /\ trapframe' = [trapframe EXCEPT ![current] =
             [a3 |-> que[current][i],
              body |-> IF find_name_process(que[current][i]) = current THEN NoBody
                       ELSE trapframe[find_name_process(que[current][i])].body]]
        /\ is_wait_msg' = [is_wait_msg EXCEPT ![find_name_process(que[current][i])] = 0]
        /\ after_call([state EXCEPT ![find_name_process(que[current][i])] = "RUNABBLE"])
  BY DEF recv_queued, FirstUsed
<1>3. /\ UNCHANGED <<panic, pc, page, arg, text>>
      /\ current \in Procs /\ trap[current] = "user" /\ state[current] = "RUN"
  BY DEF recv_queued, UserMode, programs, ConsoleInv, Turns
<1>4. CASE current = VFS
  <2>1. i = 0 /\ ShellQueued /\ que[VFS][0] = Name[shell]
    BY <1>2, <1>4 DEF ConsoleInv, Queues, ShellQueued
  <2>2. /\ trapframe'[VFS].a3 = Name[shell]
        /\ trapframe'[VFS].body = trapframe[shell].body
        /\ is_wait_msg' = [is_wait_msg EXCEPT ![shell] = 0]
        /\ after_call([state EXCEPT ![shell] = "RUNABBLE"])
    BY <1>1, <1>2, <1>4, <2>1, Cast DEF Sorted
  <2>3. state' = [state EXCEPT ![shell] = "RUNABBLE"] /\ UNCHANGED <<current, timer>>
    BY <1>1, <1>3, <1>4, <2>2, Cast DEF after_call, Sorted
  <2>4. /\ state'[shell] = "RUNABBLE" /\ is_wait_msg'[shell] = 0 /\ trap'[VFS] = "recv"
        /\ \A p \in Procs : p # shell => state'[p] = state[p] /\ is_wait_msg'[p] = is_wait_msg[p]
        /\ \A p \in Procs : p # VFS => trap'[p] = trap[p] /\ trapframe'[p] = trapframe[p]
    BY <1>1, <1>2, <1>4, <2>2, <2>3, Cast DEF Sorted
  <2>5. /\ \A p \in Procs : p # VFS => que'[p] = que[p]
        /\ \A j \in Slots : que'[VFS][j] = 0
    BY <1>1, <1>2, <1>4, <2>1, Cast DEF Sorted, ConsoleInv, Queues
  <2>6. Places'
    BY <1>3, <1>4, <2>4, Cast DEF ConsoleInv, Places
  <2>7. Queues'
    BY <2>5, Cast DEF ConsoleInv, Queues, ShellQueued, VFSQueued
  <2>8. Sleepers'
    BY <1>3, <1>4, <2>1, <2>4, <2>5, Cast
    DEF ConsoleInv, Sleepers, ShellQueued, VFSQueued, ReaderKept, InputHeld, Holds
  <2>9. Turns'
    BY <1>3, <1>4, <2>1, <2>3, <2>4, Cast
    DEF ConsoleInv, Turns, Sleepers, RequestHeld, Holds
  <2>10. Contents'
    BY <1>3, <1>4, <2>1, <2>2, <2>4, <2>5, Cast
    DEF ConsoleInv, Contents, Sleepers, VFSQueued, Holds, Request
  <2>11. PageContents'
    BY <1>3, <1>4, <2>1, <2>4, <2>5, Cast
    DEF ConsoleInv, Sleepers, PageContents, TerminalPage, ShellPage, TextPending, Holds, ShellQueued,
        RequestHeld, ReaderKept, InputHeld, VFSQueued
  <2> QED
    BY <1>3, <2>6, <2>7, <2>8, <2>9, <2>10, <2>11 DEF ConsoleInv
<1>5. CASE current = uinput
  <2>1. i = 0 /\ VFSQueued /\ que[uinput][0] = Name[VFS]
    BY <1>2, <1>5 DEF ConsoleInv, Queues, VFSQueued
  <2>2. /\ trapframe'[uinput].body = trapframe[VFS].body
        /\ is_wait_msg' = [is_wait_msg EXCEPT ![VFS] = 0]
        /\ after_call([state EXCEPT ![VFS] = "RUNABBLE"])
    BY <1>1, <1>2, <1>5, <2>1, Cast DEF Sorted
  <2>3. state' = [state EXCEPT ![VFS] = "RUNABBLE"] /\ UNCHANGED <<current, timer>>
    BY <1>1, <1>3, <1>5, <2>2, Cast DEF after_call, Sorted
  <2>4. /\ state'[VFS] = "RUNABBLE" /\ is_wait_msg'[VFS] = 0 /\ trap'[uinput] = "recv"
        /\ \A p \in Procs : p # VFS => state'[p] = state[p] /\ is_wait_msg'[p] = is_wait_msg[p]
        /\ \A p \in Procs : p # uinput => trap'[p] = trap[p] /\ trapframe'[p] = trapframe[p]
    BY <1>1, <1>2, <1>5, <2>2, <2>3, Cast DEF Sorted
  <2>5. /\ \A p \in Procs : p # uinput => que'[p] = que[p]
        /\ \A j \in Slots : que'[uinput][j] = 0
    BY <1>1, <1>2, <1>5, <2>1, Cast DEF Sorted, ConsoleInv, Queues
  <2>6. Places'
    BY <1>3, <1>5, <2>4, Cast DEF ConsoleInv, Places
  <2>7. Queues'
    BY <2>5, Cast DEF ConsoleInv, Queues, ShellQueued, VFSQueued
  <2>8. Sleepers'
    BY <1>3, <1>5, <2>1, <2>4, <2>5, Cast
    DEF ConsoleInv, Sleepers, Places, ShellQueued, VFSQueued, ReaderKept, InputHeld, Holds
  <2>9. Turns'
    BY <1>3, <1>5, <2>1, <2>3, <2>4, Cast
    DEF ConsoleInv, Turns, Sleepers, RequestHeld, Holds
  <2>10. Contents'
    BY <1>3, <1>5, <2>1, <2>2, <2>4, <2>5, Cast
    DEF ConsoleInv, Contents, Sleepers, VFSQueued, Holds, Request
  <2>11. PageContents'
    BY <1>3, <1>5, <2>1, <2>4, <2>5, Cast
    DEF ConsoleInv, Sleepers, PageContents, TerminalPage, ShellPage, TextPending, Holds, ShellQueued,
        RequestHeld, ReaderKept, InputHeld, VFSQueued
  <2> QED
    BY <1>3, <2>6, <2>7, <2>8, <2>9, <2>10, <2>11 DEF ConsoleInv
<1> QED
  BY <1>2, <1>3, <1>4, <1>5, Cast DEF ConsoleInv, Queues, Places

\* recv() with an empty queue: the receiver sleeps, and somebody else is ready.
LEMMA RecvEmpty ==
  ASSUME SysInv, ConsoleInv, pc[current] = "recv", recv_empty, UNCHANGED programs
  PROVE  ConsoleInv'
<1>1. Sorted
  BY SortedFacts
<1>2. /\ UNCHANGED <<que, panic, pc, page, arg, text>>
      /\ current \in Procs /\ trap[current] = "user" /\ state[current] = "RUN"
      /\ trap' = [trap EXCEPT ![current] = "recv"]
      /\ trapframe' = [trapframe EXCEPT ![current] = Stale]
      /\ is_wait_msg' = [is_wait_msg EXCEPT ![current] = 1]
      /\ que[current][0] = 0
      /\ after_call([state EXCEPT ![current] = "SLEEP"])
  BY Cast DEF recv_empty, uservec, UserMode, programs, ConsoleInv, Turns, Empty
<1>3. /\ trap'[current] = "recv" /\ is_wait_msg'[current] = 1
      /\ \A p \in Procs : p # current =>
           /\ trap'[p] = trap[p] /\ trapframe'[p] = trapframe[p]
           /\ is_wait_msg'[p] = is_wait_msg[p]
  BY <1>1, <1>2 DEF Sorted
<1>4. current \in {VFS, terminal, uinput} /\ ~RequestHeld /\ ~Holds(uinput)
  BY <1>2, Cast DEF ConsoleInv, Places, Turns, RequestHeld, Holds
<1>5. \A p \in Procs : state[p] \in {"RUN", "RUNABBLE", "SLEEP"} /\ (state[p] = "RUN" => p = current)
  BY <1>1, Cast DEF Sorted, OnlyCurrentRuns, States
<1>6. \E p \in Procs : p # current /\ state[p] = "RUNABBLE"
  <2>1. CASE current = terminal
    BY <2>1, Cast DEF ConsoleInv, Turns
  <2>2. CASE current = uinput
    BY <1>2, <1>5, <2>2, Cast
    DEF ConsoleInv, Places, Sleepers, ReaderKept, InputHeld, Holds, VFSQueued
  <2>3. CASE current = VFS
    BY <1>2, <1>4, <1>5, <2>3, Cast
    DEF ConsoleInv, Places, Sleepers, ReaderKept, InputHeld, Holds, VFSQueued, ShellQueued
  <2> QED
    BY <1>4, <2>1, <2>2, <2>3
<1> DEFINE st == [state EXCEPT ![current] = "SLEEP"]
<1>7. /\ st \in [Slots -> States] /\ st[current] = "SLEEP"
      /\ \A p \in Procs : p # current => st[p] = state[p]
      /\ \A s \in Slots \ Procs : st[s] # "RUNABBLE"
  BY <1>1, <1>2, Cast DEF Sorted, OnlyCurrentRuns, States
<1> HIDE DEF st
<1>8. yield(st)
  BY <1>2, <1>7 DEF after_call, st
<1>9. PICK n \in Procs :
        /\ current' = n
        /\ st[n] = "RUNABBLE" \/ (n = current /\ \A p \in Procs : st[p] # "RUNABBLE")
        /\ \A p \in Procs :
             state'[p] = IF p = n THEN "RUN"
                         ELSE IF p # current THEN st[p]
                         ELSE IF is_wait_msg'[p] = 1 THEN "SLEEP" ELSE "RUNABBLE"
  BY <1>1, <1>2, <1>7, <1>8, YieldTo
<1>10. /\ n # current /\ state[n] = "RUNABBLE" /\ state'[n] = "RUN" /\ state'[current] = "SLEEP"
       /\ \A p \in Procs : p # n /\ p # current => state'[p] = state[p]
  BY <1>2, <1>3, <1>6, <1>7, <1>9
<1>11. n # terminal
  BY <1>4, <1>10, Cast DEF ConsoleInv, Turns
<1>12. Places'
  BY <1>2, <1>3, <1>4, Cast DEF ConsoleInv, Places
<1>13. Queues'
  BY <1>2 DEF ConsoleInv, Queues, ShellQueued, VFSQueued
<1>14. Sleepers'
  BY <1>2, <1>3, <1>4, <1>10, Cast
  DEF ConsoleInv, Sleepers, ShellQueued, VFSQueued, ReaderKept, InputHeld, Holds
<1>15. Turns'
  BY <1>2, <1>3, <1>4, <1>9, <1>10, <1>11, Cast
  DEF ConsoleInv, Turns, RequestHeld, Holds
<1>16. Contents'
  BY <1>2, <1>3, <1>4, <1>10, Cast
  DEF ConsoleInv, Contents, VFSQueued, Holds, Request, RequestHeld, Sleepers
<1>17. PageContents'
  BY <1>2, <1>3, <1>4, <1>10, Cast
  DEF ConsoleInv, PageContents, TerminalPage, ShellPage, TextPending, Holds, ShellQueued,
      RequestHeld, ReaderKept, InputHeld, VFSQueued
<1> QED
  BY <1>2, <1>12, <1>13, <1>14, <1>15, <1>16, <1>17 DEF ConsoleInv

\* Both outcomes of recv().
LEMMA ServerRecv ==
  ASSUME SysInv, ConsoleInv, server_recv
  PROVE  ConsoleInv'
BY RecvQueued, RecvEmpty DEF server_recv, recv

\* What send(q, b) by the current process p does to a destination that sleeps
\* in recv(): q is ready with the message, p gives up the hart but is ready.
LEMMA SendToSleeper ==
  ASSUME SysInv, ConsoleInv, NEW p \in Procs, NEW q \in Procs, NEW b \in Body, p # q,
         current = p, send(Name[q], b), state[q] = "SLEEP"
  PROVE  /\ UserMode
         /\ UNCHANGED <<que, panic>>
         /\ trap'[p] = "send" /\ trapframe'[p].body = b
         /\ trapframe'[q].a3 = Name[p] /\ trapframe'[q].body = b
         /\ is_wait_msg'[q] = 0
         /\ \A r \in Procs : r # p => trap'[r] = trap[r]
         /\ \A r \in Procs : r # p /\ r # q => trapframe'[r] = trapframe[r]
         /\ \A r \in Procs : r # q => is_wait_msg'[r] = is_wait_msg[r]
         /\ \E n \in Procs :
              /\ current' = n /\ n # p
              /\ state[n] = "RUNABBLE" \/ n = q
              /\ state'[n] = "RUN" /\ state'[p] = "RUNABBLE"
              /\ n # q => state'[q] = "RUNABBLE"
              /\ \A r \in Procs : r \notin {n, p, q} => state'[r] = state[r]
              /\ p = shell /\ q = VFS => n = q
              /\ p = VFS /\ q = terminal => n = q
              /\ p = VFS /\ q = uinput /\ state[terminal] # "RUNABBLE" => n = q
<1>1. Sorted /\ state[p] = "RUN" /\ is_wait_msg[p] # 1 /\ find_name_process(Name[q]) = q
  BY SortedFacts, Cast DEF ConsoleInv, Turns, Sleepers
<1>2. send_direct(q, b)
  BY <1>1 DEF send, send_queue, send_overflow
<1>3. /\ UserMode
      /\ UNCHANGED <<que, panic>>
      /\ trap'[p] = "send" /\ trapframe'[p].body = b
      /\ trapframe'[q].a3 = Name[p] /\ trapframe'[q].body = b
      /\ is_wait_msg'[q] = 0
      /\ \A r \in Procs : r # p => trap'[r] = trap[r]
      /\ \A r \in Procs : r # p /\ r # q => trapframe'[r] = trapframe[r]
      /\ \A r \in Procs : r # q => is_wait_msg'[r] = is_wait_msg[r]
  BY <1>1, <1>2 DEF send_direct, Sorted
<1> DEFINE st == [state EXCEPT ![p] = "SLEEP", ![q] = "RUNABBLE"]
<1>4. /\ st \in [Slots -> States] /\ st[p] = "SLEEP" /\ st[q] = "RUNABBLE"
      /\ \A r \in Procs : r # p /\ r # q => st[r] = state[r]
      /\ \A s \in Slots \ Procs : st[s] # "RUNABBLE"
  BY <1>1, Cast DEF Sorted, OnlyCurrentRuns, States
<1>5. after_call(st)
  BY <1>2 DEF send_direct
<1> HIDE DEF st
<1>6. yield(st)
  BY <1>4, <1>5 DEF after_call
<1>7. PICK n \in Procs :
        /\ current' = n
        /\ \/ st[n] = "RUNABBLE"
           \/ n = current /\ \A r \in Procs : st[r] # "RUNABBLE"
        /\ \A r \in Procs :
             state'[r] = IF r = n THEN "RUN"
                         ELSE IF r # current THEN st[r]
                         ELSE IF is_wait_msg'[r] = 1 THEN "SLEEP" ELSE "RUNABBLE"
        /\ current = VFS /\ st[terminal] = "RUNABBLE" => n = terminal
        /\ current = VFS /\ st[terminal] # "RUNABBLE" /\ st[uinput] = "RUNABBLE" => n = uinput
        /\ current = shell /\ st[VFS] = "RUNABBLE" => n = VFS
  BY <1>1, <1>4, <1>6, YieldTo
<1>8. n # p /\ st[n] = "RUNABBLE" /\ is_wait_msg'[p] # 1
  BY <1>1, <1>3, <1>4, <1>7
<1>9. p = VFS /\ q = uinput /\ state[terminal] # "RUNABBLE" => n = q
  BY <1>4, <1>7, Cast
<1> QED
  BY <1>3, <1>4, <1>7, <1>8, <1>9

\* And to one that does not sleep: p is in the queue of q and sleeps, flagged.
LEMMA SendToQueue ==
  ASSUME SysInv, ConsoleInv, NEW p \in Procs, NEW q \in Procs, NEW b \in Body, p # q,
         current = p, send(Name[q], b), state[q] # "SLEEP", que[q][0] = 0
  PROVE  /\ UserMode
         /\ UNCHANGED panic
         /\ trap'[p] = "send" /\ trapframe'[p].body = b
         /\ is_wait_msg'[p] = 1 /\ state'[p] = "SLEEP"
         /\ que'[q][0] = Name[p]
         /\ \A i \in Slots : i # 0 => que'[q][i] = que[q][i]
         /\ \A r \in Procs : r # p => /\ trap'[r] = trap[r] /\ trapframe'[r] = trapframe[r]
                                      /\ is_wait_msg'[r] = is_wait_msg[r]
         /\ \A r \in Procs : r # q => que'[r] = que[r]
         /\ \E n \in Procs :
              /\ current' = n /\ n # p
              /\ state[n] = "RUNABBLE" /\ state'[n] = "RUN"
              /\ \A r \in Procs : r \notin {n, p} => state'[r] = state[r]
<1>1. Sorted /\ state[p] = "RUN" /\ find_name_process(Name[q]) = q
  BY SortedFacts, Cast DEF ConsoleInv, Turns
<1>2. send_queue(q, b)
  BY <1>1, Cast DEF send, send_direct, send_overflow, Full
<1>3. PICK i \in Slots :
        /\ FirstFree(que[q], i)
        /\ que' = [que EXCEPT ![q][i] = Name[p]]
  BY <1>2 DEF send_queue
<1>4. i = 0
  <2>1. MAX_PROS \in Nat /\ Slots = 0 .. (MAX_PROS - 1)
    BY IpcAssumption DEF Slots
  <2>2. i # 0 => 0 \in 0 .. (i - 1)
    BY <2>1
  <2> QED
    BY <1>3, <2>2 DEF FirstFree
<1>5. /\ que'[q][0] = Name[p]
      /\ \A j \in Slots : j # 0 => que'[q][j] = que[q][j]
      /\ \A r \in Procs : r # q => que'[r] = que[r]
  BY <1>1, <1>3, <1>4 DEF Sorted
<1>6. /\ UserMode
      /\ UNCHANGED panic
      /\ trap'[p] = "send" /\ trapframe'[p].body = b
      /\ is_wait_msg'[p] = 1
      /\ \A r \in Procs : r # p => /\ trap'[r] = trap[r] /\ trapframe'[r] = trapframe[r]
                                   /\ is_wait_msg'[r] = is_wait_msg[r]
  BY <1>1, <1>2 DEF send_queue, uservec, Sorted
<1> DEFINE st == [state EXCEPT ![p] = "SLEEP"]
<1>7. /\ st \in [Slots -> States] /\ st[p] = "SLEEP"
      /\ \A r \in Procs : r # p => st[r] = state[r]
      /\ \A s \in Slots \ Procs : st[s] # "RUNABBLE"
      /\ st[q] = "RUNABBLE"
  BY <1>1, Cast DEF Sorted, OnlyCurrentRuns, States
<1>8. after_call(st)
  BY <1>2 DEF send_queue
<1> HIDE DEF st
<1>9. yield(st)
  BY <1>7, <1>8 DEF after_call
<1>10. PICK n \in Procs :
         /\ current' = n
         /\ \/ st[n] = "RUNABBLE"
            \/ n = current /\ \A r \in Procs : st[r] # "RUNABBLE"
         /\ \A r \in Procs :
              state'[r] = IF r = n THEN "RUN"
                          ELSE IF r # current THEN st[r]
                          ELSE IF is_wait_msg'[r] = 1 THEN "SLEEP" ELSE "RUNABBLE"
  BY <1>1, <1>7, <1>9, YieldTo
<1> QED
  BY <1>5, <1>6, <1>7, <1>10

\* VFS tells the terminal, which sleeps in recv(), of the text in its page, and
\* the terminal has the hart at once.
LEMMA VFSPing ==
  ASSUME SysInv, ConsoleInv, VFS_ping
  PROVE  ConsoleInv'
<1>1. Sorted /\ Ping \in Body
  BY SortedFacts, MessageTypes
<1>2. /\ current = VFS /\ pc[VFS] = "ping" /\ pc'[VFS] = "recv"
      /\ \A p \in Procs : p # VFS => pc'[p] = pc[p]
      /\ UNCHANGED <<page, arg, text>>
      /\ send(Name[terminal], Ping)
  BY <1>1, Cast DEF VFS_ping, at, goto, Sorted
<1>3. pc[terminal] # "start" /\ state[terminal] = "SLEEP" /\ state[VFS] = "RUN"
  BY <1>2, Cast DEF ConsoleInv, Turns
<1>4. trap[terminal] = "recv" /\ pc[terminal] = "recv"
  BY <1>3, Cast DEF ConsoleInv, Sleepers, Places
<1>5. /\ UNCHANGED <<que, panic>>
      /\ trap[VFS] = "user" /\ trap'[VFS] = "send"
      /\ is_wait_msg'[terminal] = 0
      /\ current' = terminal /\ state'[terminal] = "RUN" /\ state'[VFS] = "RUNABBLE"
      /\ \A r \in Procs : r # VFS => trap'[r] = trap[r]
      /\ \A r \in Procs : r # VFS /\ r # terminal =>
           trapframe'[r] = trapframe[r] /\ state'[r] = state[r]
      /\ \A r \in Procs : r # terminal => is_wait_msg'[r] = is_wait_msg[r]
  BY <1>1, <1>2, <1>3, SendToSleeper, Cast DEF UserMode
<1>6. Places'
  BY <1>2, <1>3, <1>4, <1>5, Cast
  DEF ConsoleInv, Places
<1>7. Queues'
  BY <1>2, <1>3, <1>4, <1>5, Cast
  DEF ConsoleInv, Queues, ShellQueued, VFSQueued
<1>8. Sleepers'
  BY <1>2, <1>3, <1>4, <1>5, Cast
  DEF ConsoleInv, Sleepers, Places, ShellQueued, VFSQueued, ReaderKept, InputHeld, Holds
<1>9. Turns'
  BY <1>2, <1>3, <1>4, <1>5, Cast
  DEF ConsoleInv, Turns, Sleepers, Places, RequestHeld, Holds
<1>10. Contents'
  BY <1>2, <1>3, <1>4, <1>5, Cast
  DEF ConsoleInv, Contents, Sleepers, Places, Turns, RequestHeld, VFSQueued, Holds, Request
<1>11. PageContents'
  BY <1>2, <1>3, <1>4, <1>5, Cast
  DEF ConsoleInv, PageContents, TerminalPage, ShellPage, Sleepers, Places, Turns, TextPending,
      Holds, ShellQueued, RequestHeld, ReaderKept, InputHeld, VFSQueued
<1> QED
  BY <1>5, <1>6, <1>7, <1>8, <1>9, <1>10, <1>11 DEF ConsoleInv

\* VFS passes the reader on to uinput, that it finds asleep in recv() or not.
LEMMA VFSInput ==
  ASSUME SysInv, ConsoleInv, VFS_input
  PROVE  ConsoleInv'
<1>1. Sorted
  BY SortedFacts
<1>2. /\ current = VFS /\ pc[VFS] = "input" /\ pc'[VFS] = "recv" /\ state[VFS] = "RUN"
      /\ \A p \in Procs : p # VFS => pc'[p] = pc[p]
      /\ UNCHANGED <<page, arg, text>>
      /\ send(Name[uinput], Input(Name[shell]))
  BY <1>1, Cast DEF VFS_input, at, goto, Sorted, ConsoleInv, Turns, Contents
<1>3. pc[terminal] # "start" /\ state[terminal] = "SLEEP" /\ ~VFSQueued
  BY <1>2, Cast DEF ConsoleInv, Turns, Sleepers
<1>4. Input(Name[shell]) \in Body
  BY MessageTypes, Cast
<1>5. CASE state[uinput] = "SLEEP"
  <2>1. trap[uinput] = "recv" /\ pc[uinput] = "recv"
    BY <1>5, Cast DEF ConsoleInv, Sleepers, Places
  <2>2. /\ UNCHANGED <<que, panic>>
        /\ trap[VFS] = "user" /\ trap'[VFS] = "send"
        /\ trapframe'[uinput].body = Input(Name[shell])
        /\ is_wait_msg'[uinput] = 0
        /\ current' = uinput /\ state'[uinput] = "RUN" /\ state'[VFS] = "RUNABBLE"
        /\ \A r \in Procs : r # VFS => trap'[r] = trap[r]
        /\ \A r \in Procs : r # VFS /\ r # uinput =>
             trapframe'[r] = trapframe[r] /\ state'[r] = state[r]
        /\ \A r \in Procs : r # uinput => is_wait_msg'[r] = is_wait_msg[r]
    BY <1>2, <1>3, <1>4, <1>5, SendToSleeper, Cast DEF UserMode
  <2>3. Places'
    BY <1>2, <1>3, <1>5, <2>1, <2>2, Cast
    DEF ConsoleInv, Places
  <2>4. Queues'
    BY <1>2, <1>3, <1>5, <2>1, <2>2, Cast
    DEF ConsoleInv, Queues, ShellQueued, VFSQueued
  <2>5. Sleepers'
    BY <1>2, <1>3, <1>5, <2>1, <2>2, Cast
    DEF ConsoleInv, Sleepers, Places, ShellQueued, VFSQueued, ReaderKept, InputHeld, Holds
  <2>6. Turns'
    BY <1>2, <1>3, <1>5, <2>1, <2>2, Cast
    DEF ConsoleInv, Turns, Sleepers, Places, RequestHeld, Holds
  <2>7. Contents'
    BY <1>2, <1>3, <1>5, <2>1, <2>2, Cast
    DEF ConsoleInv, Contents, Sleepers, Places, Turns, RequestHeld, VFSQueued, Holds, Request
  <2>8. PageContents'
    BY <1>2, <1>3, <1>5, <2>1, <2>2, Cast
    DEF ConsoleInv, PageContents, TerminalPage, ShellPage, Sleepers, Places, Turns, TextPending,
        Holds, ShellQueued, RequestHeld, ReaderKept, InputHeld, VFSQueued
  <2> QED
    BY <2>2, <2>3, <2>4, <2>5, <2>6, <2>7, <2>8 DEF ConsoleInv
<1>6. CASE state[uinput] # "SLEEP"
  <2>1. que[uinput][0] = 0
    BY <1>3, Cast DEF ConsoleInv, Queues
  <2>2. PICK n \in Procs :
          /\ current' = n /\ n # VFS
          /\ state[n] = "RUNABBLE" /\ state'[n] = "RUN"
          /\ \A r \in Procs : r \notin {n, VFS} => state'[r] = state[r]
    BY <1>2, <1>4, <1>6, <2>1, SendToQueue, Cast
  <2>3. /\ UNCHANGED panic
        /\ trap[VFS] = "user" /\ trap'[VFS] = "send"
        /\ trapframe'[VFS].body = Input(Name[shell])
        /\ is_wait_msg'[VFS] = 1 /\ state'[VFS] = "SLEEP"
        /\ que'[uinput][0] = Name[VFS]
        /\ \A i \in Slots : i # 0 => que'[uinput][i] = que[uinput][i]
        /\ \A r \in Procs : r # VFS => /\ trap'[r] = trap[r] /\ trapframe'[r] = trapframe[r]
                                       /\ is_wait_msg'[r] = is_wait_msg[r]
        /\ \A r \in Procs : r # uinput => que'[r] = que[r]
    BY <1>2, <1>4, <1>6, <2>1, SendToQueue, Cast DEF UserMode
  <2>4. n # terminal /\ n # shell
    BY <1>2, <1>3, <2>2, Cast DEF ConsoleInv, Sleepers, ReaderKept
  <2>5. Places'
    BY <1>2, <1>3, <1>6, <2>1, <2>2, <2>3, <2>4, Cast
    DEF ConsoleInv, Places
  <2>6. Queues'
    BY <1>2, <1>3, <1>6, <2>1, <2>2, <2>3, <2>4, Cast
    DEF ConsoleInv, Queues, ShellQueued, VFSQueued
  <2>7. Sleepers'
    BY <1>2, <1>3, <1>6, <2>1, <2>2, <2>3, <2>4, Cast
    DEF ConsoleInv, Sleepers, Places, ShellQueued, VFSQueued, ReaderKept, InputHeld, Holds
  <2>8. Turns'
    BY <1>2, <1>3, <1>6, <2>1, <2>2, <2>3, <2>4, Cast
    DEF ConsoleInv, Turns, Sleepers, Places, RequestHeld, Holds
  <2>9. Contents'
    BY <1>2, <1>3, <1>6, <2>1, <2>2, <2>3, <2>4, Cast
    DEF ConsoleInv, Contents, Sleepers, Places, Turns, RequestHeld, VFSQueued, Holds, Request
  <2>10. PageContents'
    BY <1>2, <1>3, <1>6, <2>1, <2>2, <2>3, <2>4, Cast
    DEF ConsoleInv, PageContents, TerminalPage, ShellPage, Sleepers, Places, Turns, TextPending,
        Holds, ShellQueued, RequestHeld, ReaderKept, InputHeld, VFSQueued
  <2> QED
    BY <2>3, <2>5, <2>6, <2>7, <2>8, <2>9, <2>10 DEF ConsoleInv
<1> QED
  BY <1>5, <1>6

\* The shell sends to VFS, that it finds asleep in recv() or awake.
LEMMA ShellSend ==
  ASSUME SysInv, ConsoleInv, shell_write \/ shell_gets
  PROVE  ConsoleInv'
<1>1. Sorted /\ Read \in Body /\ Write \in Body
  BY SortedFacts, MessageTypes
<1>2. /\ current = shell /\ state[shell] = "RUN"
      /\ \/ /\ pc[shell] = "write" /\ pc'[shell] \in {"puts", "gets"}
            /\ pc'[shell] = "gets" => text' # "own"
         \/ pc[shell] = "gets" /\ pc'[shell] = "strcmp" /\ text' = text
      /\ \A p \in Procs : p # shell => pc'[p] = pc[p]
      /\ UNCHANGED <<page, arg>>
  BY <1>1, Cast
  DEF shell_write, shell_gets, AfterPuts, AfterText, at, goto, Sorted, ConsoleInv, Turns
<1>3. send(Name[VFS], Request')
  BY <1>2, <1>1, Cast DEF shell_write, shell_gets, Request, at
<1>4. /\ ~ShellQueued /\ ~RequestHeld /\ ~ReaderKept /\ pc[terminal] # "start"
      /\ state[terminal] = "SLEEP"
  BY <1>2, Cast DEF ConsoleInv, Turns, Sleepers
<1>5. Request' \in Body
  BY <1>1 DEF Request
<1>6. CASE state[VFS] = "SLEEP"
  <2>1. trap[VFS] = "recv" /\ pc[VFS] = "recv"
    BY <1>4, <1>6, Cast DEF ConsoleInv, Sleepers, Places, ReaderKept
  <2>2. /\ UNCHANGED <<que, panic>>
        /\ trap[shell] = "user" /\ trap'[shell] = "send"
        /\ trapframe'[shell].body = Request'
        /\ trapframe'[VFS].a3 = Name[shell] /\ trapframe'[VFS].body = Request'
        /\ is_wait_msg'[VFS] = 0
        /\ current' = VFS /\ state'[VFS] = "RUN" /\ state'[shell] = "RUNABBLE"
        /\ \A r \in Procs : r # shell => trap'[r] = trap[r]
        /\ \A r \in Procs : r # VFS /\ r # shell =>
             trapframe'[r] = trapframe[r] /\ state'[r] = state[r]
        /\ \A r \in Procs : r # VFS => is_wait_msg'[r] = is_wait_msg[r]
    BY <1>2, <1>3, <1>5, <1>6, SendToSleeper, Cast DEF UserMode
  <2>3. Places'
    BY <1>2, <1>4, <1>6, <2>1, <2>2, Cast
    DEF ConsoleInv, Places
  <2>4. Queues'
    BY <1>2, <1>4, <1>6, <2>1, <2>2, Cast
    DEF ConsoleInv, Queues, ShellQueued, VFSQueued
  <2>5. Sleepers'
    BY <1>2, <1>4, <1>6, <2>1, <2>2, Cast
    DEF ConsoleInv, Sleepers, Places, ShellQueued, VFSQueued, ReaderKept, InputHeld, Holds
  <2>6. Turns'
    BY <1>2, <1>4, <1>6, <2>1, <2>2, Cast
    DEF ConsoleInv, Turns, Sleepers, Places, RequestHeld, Holds
  <2>7. Contents'
    BY <1>2, <1>4, <1>6, <2>1, <2>2, Cast
    DEF ConsoleInv, Contents, Sleepers, Places, Turns, RequestHeld, VFSQueued, Holds, Request
  <2>8. PageContents'
    BY <1>2, <1>4, <1>6, <2>1, <2>2, Cast
    DEF ConsoleInv, PageContents, TerminalPage, ShellPage, Sleepers, Places, Turns, TextPending,
        Holds, ShellQueued, RequestHeld, ReaderKept, InputHeld, VFSQueued
  <2> QED
    BY <2>2, <2>3, <2>4, <2>5, <2>6, <2>7, <2>8 DEF ConsoleInv
<1>7. CASE state[VFS] # "SLEEP"
  <2>1. que[VFS][0] = 0
    BY <1>4, Cast DEF ConsoleInv, Queues
  <2>2. PICK n \in Procs :
          /\ current' = n /\ n # shell
          /\ state[n] = "RUNABBLE" /\ state'[n] = "RUN"
          /\ \A r \in Procs : r \notin {n, shell} => state'[r] = state[r]
    BY <1>2, <1>3, <1>5, <1>7, <2>1, SendToQueue, Cast
  <2>3. /\ UNCHANGED panic
        /\ trap[shell] = "user" /\ trap'[shell] = "send"
        /\ trapframe'[shell].body = Request'
        /\ is_wait_msg'[shell] = 1 /\ state'[shell] = "SLEEP"
        /\ que'[VFS][0] = Name[shell]
        /\ \A i \in Slots : i # 0 => que'[VFS][i] = que[VFS][i]
        /\ \A r \in Procs : r # shell => /\ trap'[r] = trap[r] /\ trapframe'[r] = trapframe[r]
                                         /\ is_wait_msg'[r] = is_wait_msg[r]
        /\ \A r \in Procs : r # VFS => que'[r] = que[r]
    BY <1>2, <1>3, <1>5, <1>7, <2>1, SendToQueue, Cast DEF UserMode
  <2>4. n # terminal
    BY <1>4, <2>2
  <2>5. Places'
    BY <1>2, <1>4, <1>7, <2>1, <2>2, <2>3, <2>4, Cast
    DEF ConsoleInv, Places
  <2>6. Queues'
    BY <1>2, <1>4, <1>7, <2>1, <2>2, <2>3, <2>4, Cast
    DEF ConsoleInv, Queues, ShellQueued, VFSQueued
  <2>7. Sleepers'
    BY <1>2, <1>4, <1>7, <2>1, <2>2, <2>3, <2>4, Cast
    DEF ConsoleInv, Sleepers, Places, ShellQueued, VFSQueued, ReaderKept, InputHeld, Holds
  <2>8. Turns'
    BY <1>2, <1>4, <1>7, <2>1, <2>2, <2>3, <2>4, Cast
    DEF ConsoleInv, Turns, Sleepers, Places, RequestHeld, Holds
  <2>9. Contents'
    BY <1>2, <1>4, <1>7, <2>1, <2>2, <2>3, <2>4, Cast
    DEF ConsoleInv, Contents, Sleepers, Places, Turns, RequestHeld, VFSQueued, Holds, Request
  <2>10. PageContents'
    BY <1>2, <1>4, <1>7, <2>1, <2>2, <2>3, <2>4, Cast
    DEF ConsoleInv, PageContents, TerminalPage, ShellPage, Sleepers, Places, Turns, TextPending,
        Holds, ShellQueued, RequestHeld, ReaderKept, InputHeld, VFSQueued
  <2> QED
    BY <2>3, <2>5, <2>6, <2>7, <2>8, <2>9, <2>10 DEF ConsoleInv
<1> QED
  BY <1>6, <1>7

\* VFS copies the text of the shell, which waits to leave send(), to the terminal.
LEMMA VFSCopy ==
  ASSUME SysInv, ConsoleInv, VFS_copy
  PROVE  ConsoleInv'
<1>1. Sorted
  BY SortedFacts
<1>2. /\ current = VFS /\ pc[VFS] = "copy" /\ pc'[VFS] = "ping"
      /\ \A p \in Procs : p # VFS => pc'[p] = pc[p]
      /\ UNCHANGED <<arg, text>>
      /\ state[VFS] = "RUN"
      /\ ipc_buf_cpy(Name[terminal], Name[shell])
  BY <1>1, Cast DEF VFS_copy, at, goto, Sorted, ConsoleInv, Turns, Contents
<1>3. /\ buffer_call
      /\ page' = [page EXCEPT ![terminal] = page[shell], ![shell] = "zero"]
  BY <1>2, Cast DEF ipc_buf_cpy
<1>4. /\ UNCHANGED <<is_wait_msg, que, panic, state, current, idx, timer>>
      /\ trap[VFS] = "user" /\ trap'[VFS] = "buf"
      /\ \A p \in Procs : p # VFS => trap'[p] = trap[p] /\ trapframe'[p] = trapframe[p]
  BY <1>1, <1>2, <1>3 DEF buffer_call, uservec, UserMode, after_call, Sorted
<1>5. /\ page'[terminal] = page[shell] /\ page'[shell] = "zero"
      /\ page'[uinput] = page[uinput]
  BY <1>1, <1>3, Cast DEF Sorted
<1>6. /\ RequestHeld /\ ~ShellQueued /\ pc[shell] \in {"puts", "gets"}
      /\ pc[terminal] = "recv" /\ state[terminal] = "SLEEP" /\ page[shell] \in Texts
  BY <1>2, Cast
  DEF ConsoleInv, RequestHeld, Sleepers, Turns, Contents, Places, PageContents, ShellPage
<1>8. Places'
  BY <1>2, <1>4, <1>5, <1>6, Cast
  DEF ConsoleInv, Places
<1>9. Queues'
  BY <1>2, <1>4, <1>5, <1>6, Cast
  DEF ConsoleInv, Queues, ShellQueued, VFSQueued
<1>10. Sleepers'
  BY <1>2, <1>4, <1>5, <1>6, Cast
  DEF ConsoleInv, Sleepers, Places, ShellQueued, VFSQueued, ReaderKept, InputHeld, Holds
<1>11. Turns'
  BY <1>2, <1>4, <1>5, <1>6, Cast
  DEF ConsoleInv, Turns, Sleepers, Places, RequestHeld, Holds
<1>12. Contents'
  BY <1>2, <1>4, <1>5, <1>6, Cast
  DEF ConsoleInv, Contents, Sleepers, Places, Turns, RequestHeld, VFSQueued, Holds, Request
<1>13. PageContents'
  BY <1>2, <1>4, <1>5, <1>6, Cast
  DEF ConsoleInv, PageContents, TerminalPage, ShellPage, Sleepers, Places, Turns, TextPending,
      Holds, ShellQueued, RequestHeld, ReaderKept, InputHeld, VFSQueued, Texts, Lines
<1> QED
  BY <1>4, <1>8, <1>9, <1>10, <1>11, <1>12, <1>13 DEF ConsoleInv

\* uinput copies the line to the shell that sleeps.
LEMMA UinputCopy ==
  ASSUME SysInv, ConsoleInv, uinput_copy
  PROVE  ConsoleInv'
<1>1. Sorted
  BY SortedFacts
<1>2. /\ current = uinput /\ pc[uinput] = "copy" /\ pc'[uinput] = "wake"
      /\ \A p \in Procs : p # uinput => pc'[p] = pc[p]
      /\ UNCHANGED <<arg, text>>
      /\ state[uinput] = "RUN"
      /\ ipc_buf_cpy(Name[shell], Name[uinput])
  BY <1>1, Cast DEF uinput_copy, at, goto, Sorted, ConsoleInv, Turns, Contents
<1>3. /\ buffer_call
      /\ page' = [page EXCEPT ![shell] = page[uinput], ![uinput] = "zero"]
  BY <1>2, Cast DEF ipc_buf_cpy
<1>4. /\ UNCHANGED <<is_wait_msg, que, panic, state, current, idx, timer>>
      /\ trap[uinput] = "user" /\ trap'[uinput] = "buf"
      /\ \A p \in Procs : p # uinput => trap'[p] = trap[p] /\ trapframe'[p] = trapframe[p]
  BY <1>1, <1>2, <1>3 DEF buffer_call, uservec, UserMode, after_call, Sorted
<1>5. /\ page'[shell] = page[uinput] /\ page[uinput] \in Lines
      /\ page'[terminal] = page[terminal]
  BY <1>1, <1>2, <1>3, Cast DEF Sorted, ConsoleInv, PageContents
<1>6. ReaderKept /\ ~RequestHeld /\ ~ShellQueued /\ pc[shell] = "strcmp"
  BY <1>2, Cast DEF ConsoleInv, Turns, Sleepers, ReaderKept, InputHeld, RequestHeld
<1>8. Places'
  BY <1>2, <1>4, <1>5, <1>6, Cast
  DEF ConsoleInv, Places
<1>9. Queues'
  BY <1>2, <1>4, <1>5, <1>6, Cast
  DEF ConsoleInv, Queues, ShellQueued, VFSQueued
<1>10. Sleepers'
  BY <1>2, <1>4, <1>5, <1>6, Cast
  DEF ConsoleInv, Sleepers, Places, ShellQueued, VFSQueued, ReaderKept, InputHeld, Holds
<1>11. Turns'
  BY <1>2, <1>4, <1>5, <1>6, Cast
  DEF ConsoleInv, Turns, Sleepers, Places, RequestHeld, Holds
<1>12. Contents'
  BY <1>2, <1>4, <1>5, <1>6, Cast
  DEF ConsoleInv, Contents, Sleepers, Places, Turns, RequestHeld, VFSQueued, Holds, Request
<1>13. PageContents'
  BY <1>2, <1>4, <1>5, <1>6, Cast
  DEF ConsoleInv, PageContents, TerminalPage, ShellPage, Sleepers, Places, Turns, TextPending,
      Holds, ShellQueued, RequestHeld, ReaderKept, InputHeld, VFSQueued, Texts, Lines
<1> QED
  BY <1>4, <1>8, <1>9, <1>10, <1>11, <1>12, <1>13 DEF ConsoleInv

\* VFS puts the reader to sleep.
LEMMA VFSSleep ==
  ASSUME SysInv, ConsoleInv, VFS_sleep
  PROVE  ConsoleInv'
<1>1. Sorted
  BY SortedFacts
<1>2. /\ current = VFS /\ pc[VFS] = "sleep" /\ pc'[VFS] = "input"
      /\ \A p \in Procs : p # VFS => pc'[p] = pc[p]
      /\ UNCHANGED <<page, arg, text>>
      /\ state[VFS] = "RUN" /\ arg[VFS] = Name[shell]
      /\ sleep_prc(Name[shell])
  BY <1>1, Cast DEF VFS_sleep, sleep, at, goto, Sorted, ConsoleInv, Turns, Contents
<1>3. /\ UNCHANGED <<is_wait_msg, que, panic, current, idx, timer>>
      /\ state' = [state EXCEPT ![shell] = "SLEEP"]
      /\ trap[VFS] = "user" /\ trap'[VFS] = "sleep_prc"
      /\ \A p \in Procs : p # VFS => trap'[p] = trap[p] /\ trapframe'[p] = trapframe[p]
  BY <1>1, <1>2, Cast DEF sleep_prc, uservec, UserMode, after_call, Sorted
<1>4. state'[shell] = "SLEEP" /\ \A p \in Procs : p # shell => state'[p] = state[p]
  BY <1>1, <1>3, Cast DEF Sorted
<1>5. /\ state[shell] = "RUNABBLE" /\ trap[shell] = "send" /\ pc[shell] = "strcmp"
      /\ ~ShellQueued /\ ~ReaderKept /\ RequestHeld
  BY <1>2, Cast DEF ConsoleInv, Turns, Sleepers, RequestHeld, Contents
<1>7. Places'
  BY <1>2, <1>3, <1>4, <1>5, Cast
  DEF ConsoleInv, Places
<1>8. Queues'
  BY <1>2, <1>3, <1>4, <1>5, Cast
  DEF ConsoleInv, Queues, ShellQueued, VFSQueued
<1>9. Sleepers'
  BY <1>2, <1>3, <1>4, <1>5, Cast
  DEF ConsoleInv, Sleepers, Places, ShellQueued, VFSQueued, ReaderKept, InputHeld, Holds
<1>10. Turns'
  BY <1>2, <1>3, <1>4, <1>5, Cast
  DEF ConsoleInv, Turns, Sleepers, Places, RequestHeld, Holds
<1>11. Contents'
  BY <1>2, <1>3, <1>4, <1>5, Cast
  DEF ConsoleInv, Contents, Sleepers, Places, Turns, RequestHeld, VFSQueued, Holds, Request
<1>12. PageContents'
  BY <1>2, <1>3, <1>4, <1>5, Cast
  DEF ConsoleInv, PageContents, TerminalPage, ShellPage, Sleepers, Places, Turns, TextPending,
      Holds, ShellQueued, RequestHeld, ReaderKept, InputHeld, VFSQueued, Texts, Lines
<1> QED
  BY <1>3, <1>7, <1>8, <1>9, <1>10, <1>11, <1>12 DEF ConsoleInv

\* uinput wakes the reader.
LEMMA UinputWake ==
  ASSUME SysInv, ConsoleInv, uinput_wake
  PROVE  ConsoleInv'
<1>1. Sorted
  BY SortedFacts
<1>2. /\ current = uinput /\ pc[uinput] = "wake" /\ pc'[uinput] = "recv"
      /\ \A p \in Procs : p # uinput => pc'[p] = pc[p]
      /\ UNCHANGED <<page, arg, text>>
      /\ state[uinput] = "RUN" /\ arg[uinput] = Name[shell]
      /\ wakeup(Name[shell])
  BY <1>1, Cast DEF uinput_wake, wake, at, goto, Sorted, ConsoleInv, Turns, Contents
<1>3. /\ UNCHANGED <<is_wait_msg, que, panic, current, idx, timer>>
      /\ state' = [state EXCEPT ![shell] = "RUNABBLE"]
      /\ trap[uinput] = "user" /\ trap'[uinput] = "wakeup"
      /\ \A p \in Procs : p # uinput => trap'[p] = trap[p] /\ trapframe'[p] = trapframe[p]
  BY <1>1, <1>2, Cast DEF wakeup, uservec, UserMode, after_call, Sorted
<1>4. state'[shell] = "RUNABBLE" /\ \A p \in Procs : p # shell => state'[p] = state[p]
  BY <1>1, <1>3, Cast DEF Sorted
<1>5. /\ state[shell] = "SLEEP" /\ ~ShellQueued /\ pc[shell] = "strcmp" /\ ~RequestHeld
      /\ pc[VFS] # "input" /\ ~VFSQueued
  BY <1>2, Cast DEF ConsoleInv, Turns, Sleepers, RequestHeld, ReaderKept, InputHeld
<1>7. Places'
  BY <1>2, <1>3, <1>4, <1>5, Cast
  DEF ConsoleInv, Places
<1>8. Queues'
  BY <1>2, <1>3, <1>4, <1>5, Cast
  DEF ConsoleInv, Queues, ShellQueued, VFSQueued
<1>9. Sleepers'
  BY <1>2, <1>3, <1>4, <1>5, Cast
  DEF ConsoleInv, Sleepers, Places, ShellQueued, VFSQueued, ReaderKept, InputHeld, Holds
<1>10. Turns'
  BY <1>2, <1>3, <1>4, <1>5, Cast
  DEF ConsoleInv, Turns, Sleepers, Places, RequestHeld, Holds
<1>11. Contents'
  BY <1>2, <1>3, <1>4, <1>5, Cast
  DEF ConsoleInv, Contents, Sleepers, Places, Turns, RequestHeld, VFSQueued, Holds, Request
<1>12. PageContents'
  BY <1>2, <1>3, <1>4, <1>5, Cast
  DEF ConsoleInv, PageContents, TerminalPage, ShellPage, Sleepers, Places, Turns, TextPending,
      Holds, ShellQueued, RequestHeld, ReaderKept, InputHeld, VFSQueued, Texts, Lines
<1> QED
  BY <1>3, <1>7, <1>8, <1>9, <1>10, <1>11, <1>12 DEF ConsoleInv

\* The user types a line.
LEMMA UinputLine ==
  ASSUME SysInv, ConsoleInv, uinput_line
  PROVE  ConsoleInv'
<1>1. Sorted
  BY SortedFacts
<1>2. /\ current = uinput /\ pc[uinput] = "poll" /\ pc'[uinput] = "copy"
      /\ \A p \in Procs : p # uinput => pc'[p] = pc[p] /\ page'[p] = page[p]
      /\ page'[uinput] \in Lines
      /\ UNCHANGED <<state, current, idx, is_wait_msg, que, trapframe, trap, timer, panic>>
      /\ UNCHANGED <<arg, text>>
  BY <1>1, Cast DEF uinput_line, user, at, goto, Sorted, vars
<1>3. trap[uinput] = "user"
  BY <1>2 DEF uinput_line, user, UserMode
<1>5. Places'
  BY <1>2, <1>3, Cast
  DEF ConsoleInv, Places
<1>6. Queues'
  BY <1>2, <1>3, Cast
  DEF ConsoleInv, Queues, ShellQueued, VFSQueued
<1>7. Sleepers'
  BY <1>2, <1>3, Cast
  DEF ConsoleInv, Sleepers, Places, ShellQueued, VFSQueued, ReaderKept, InputHeld, Holds
<1>8. Turns'
  BY <1>2, <1>3, Cast
  DEF ConsoleInv, Turns, Sleepers, Places, RequestHeld, Holds
<1>9. Contents'
  BY <1>2, <1>3, Cast
  DEF ConsoleInv, Contents, Sleepers, Places, Turns, RequestHeld, VFSQueued, Holds, Request
<1>10. PageContents'
  BY <1>2, <1>3, Cast
  DEF ConsoleInv, PageContents, TerminalPage, ShellPage, Sleepers, Places, Turns, TextPending,
      Holds, ShellQueued, RequestHeld, ReaderKept, InputHeld, VFSQueued, Texts, Lines
<1> QED
  BY <1>2, <1>5, <1>6, <1>7, <1>8, <1>9, <1>10 DEF ConsoleInv

\* The shell fills its page, or looks at the line in it.
LEMMA ShellStep ==
  ASSUME SysInv, ConsoleInv, shell_puts \/ shell_strcmp
  PROVE  ConsoleInv'
<1>1. Sorted
  BY SortedFacts
<1>2. /\ current = shell /\ trap[shell] = "user" /\ state[shell] = "RUN"
      /\ UNCHANGED <<state, current, idx, is_wait_msg, que, trapframe, trap, timer, panic, arg>>
      /\ \A p \in Procs : p # shell => pc'[p] = pc[p] /\ page'[p] = page[p]
  BY <1>1, Cast
  DEF shell_puts, shell_strcmp, user, at, goto, Sorted, vars, UserMode, ConsoleInv, Turns
<1>3. ~ShellQueued /\ ~RequestHeld /\ ~ReaderKept
  BY <1>2, Cast DEF ConsoleInv, Turns, Sleepers
<1>4. \/ /\ pc[shell] = "puts" /\ pc'[shell] = "puts" /\ page'[shell] = page[shell]
         /\ text' = "prompt" /\ page[shell] = "zero"
      \/ /\ pc[shell] = "puts" /\ pc'[shell] = "write"
         /\ text # "own" /\ text' = text /\ page'[shell] = text
      \/ /\ pc[shell] = "strcmp" /\ pc'[shell] = "puts" /\ page'[shell] = page[shell]
         /\ text' \in {"prompt", "reply"} /\ page[shell] \in Lines
  <2>1. CASE shell_puts
    BY <1>1, <1>3, <2>1, Cast
    DEF shell_puts, user, at, goto, AfterPuts, AfterText, NextText, Sorted, ConsoleInv,
        PageContents, ShellPage
  <2>2. CASE shell_strcmp
    BY <1>1, <1>3, <2>2, Cast
    DEF shell_strcmp, user, at, goto, Sorted, ConsoleInv, PageContents, ShellPage
  <2> QED
    BY <2>1, <2>2
<1>5. text \in Texts \cup {"own"}
  BY <1>1 DEF Sorted
<1>7. Places'
  BY <1>2, <1>3, <1>4, <1>5, Cast
  DEF ConsoleInv, Places
<1>8. Queues'
  BY <1>2, <1>3, <1>4, <1>5, Cast
  DEF ConsoleInv, Queues, ShellQueued, VFSQueued
<1>9. Sleepers'
  BY <1>2, <1>3, <1>4, <1>5, Cast
  DEF ConsoleInv, Sleepers, Places, ShellQueued, VFSQueued, ReaderKept, InputHeld, Holds
<1>10. Turns'
  BY <1>2, <1>3, <1>4, <1>5, Cast
  DEF ConsoleInv, Turns, Sleepers, Places, RequestHeld, Holds
<1>11. Contents'
  BY <1>2, <1>3, <1>4, <1>5, Cast
  DEF ConsoleInv, Contents, Sleepers, Places, Turns, RequestHeld, VFSQueued, Holds, Request
<1>12. PageContents'
  BY <1>2, <1>3, <1>4, <1>5, Cast
  DEF ConsoleInv, PageContents, TerminalPage, ShellPage, Sleepers, Places, Turns, TextPending,
      Holds, ShellQueued, RequestHeld, ReaderKept, InputHeld, VFSQueued, Texts, Lines
<1> QED
  BY <1>2, <1>7, <1>8, <1>9, <1>10, <1>11, <1>12 DEF ConsoleInv

\* init_servers() leaves the system in the invariant.
LEMMA ConsoleInitInv == SysInit => ConsoleInv
<1> SUFFICES ASSUME SysInit PROVE ConsoleInv
  OBVIOUS
<1>1. /\ pc[terminal] = "start" /\ pc[shell] = "puts" /\ pc[VFS] = "recv" /\ pc[uinput] = "recv"
      /\ text = "blank1" /\ page[shell] = "junk" /\ page[terminal] = "junk"
  BY Cast DEF SysInit
<1>2. /\ current = NoProc /\ idx = 0 /\ timer = FALSE /\ panic = "none"
      /\ \A p \in Procs : state[p] = "RUNABBLE" /\ trap[p] = "born" /\ is_wait_msg[p] = JUNK
      /\ \A p \in Procs, i \in Slots : que[p][i] = 0
  BY Cast DEF SysInit, Init
<1>3. Places /\ Queues /\ Turns
  BY <1>1, <1>2, Cast DEF Places, Queues, Turns, RequestHeld, Holds, ShellQueued, VFSQueued
<1>4. Sleepers
  BY <1>1, <1>2, Cast
  DEF Sleepers, ShellQueued, VFSQueued, ReaderKept, InputHeld, Holds, JUNK
<1>5. Contents /\ PageContents
  BY <1>1, <1>2, Cast
  DEF Contents, PageContents, TerminalPage, ShellPage, TextPending, Holds, ShellQueued,
      RequestHeld, ReaderKept, InputHeld, VFSQueued, Texts
<1> QED
  BY <1>2, <1>3, <1>4, <1>5 DEF ConsoleInv

\* Every step of the system keeps it.
LEMMA ConsoleStepInv ==
  ASSUME Quiet, SysInv, ConsoleInv, [SysNext]_sysvars
  PROVE  ConsoleInv'
<1>1. CASE recv_return \/ plain_return \/ server_recv
  BY <1>1, RecvReturn, PlainReturn, ServerRecv
<1>2. CASE switch
  BY <1>2, MainYield, TimerInterrupt DEF switch
<1>3. CASE terminal_step
  BY <1>3, TerminalStep
<1>4. CASE VFS_step
  BY <1>4, VFSCopy, VFSPing, VFSSleep, VFSInput DEF VFS_step
<1>5. CASE uinput_step
  BY <1>5, UinputLine, UinputCopy, UinputWake DEF uinput_step
<1>6. CASE shell_step
  BY <1>6, ShellStep, ShellSend DEF shell_step
<1>7. CASE UNCHANGED sysvars
  BY <1>7
  DEF sysvars, vars, programs, ConsoleInv, Places, Queues, Sleepers, Turns, Contents, PageContents,
      TerminalPage, ShellPage, TextPending, Holds, ShellQueued, RequestHeld, ReaderKept, InputHeld,
      VFSQueued, Request
<1> QED
  BY <1>1, <1>2, <1>3, <1>4, <1>5, <1>6, <1>7 DEF SysNext

\* So it always holds.
LEMMA ConsoleInvariant ==
  ASSUME Quiet
  PROVE  SysSpec => [](SysInv /\ ConsoleInv)
<1>1. SysInit => SysInv /\ ConsoleInv
  BY SysInitInv, ConsoleInitInv
<1>2. SysInv /\ ConsoleInv /\ [SysNext]_sysvars => (SysInv /\ ConsoleInv)'
  BY SysStepInv, ConsoleStepInv
<1> QED
  BY <1>1, <1>2, PTL DEF SysSpec

------------------------------------------------------------------------------
(* What follows.                                                           *)

\* While the timer stays out of the critical sections, no call of the four
\* programs names a process that does not exist and no queue overflows: the
\* "name dst not found" and "over msg len in que" of ipc.c are not reached.
THEOREM NoFaultOccurs == Quiet => (SysSpec => []NoFault)
<1> SUFFICES ASSUME Quiet PROVE SysSpec => []NoFault
  OBVIOUS
<1>1. ConsoleInv => NoFault
  BY DEF ConsoleInv, NoFault
<1> QED
  BY <1>1, ConsoleInvariant, PTL

\* A sleeping shell is never forgotten: VFS has its request in the queue, or
\* its name is on the way to uinput or with uinput, which wakes it.
THEOREM SleepingShellHasServer == Quiet => (SysSpec => []SleepingShellIsServed)
<1> SUFFICES ASSUME Quiet PROVE SysSpec => []SleepingShellIsServed
  OBVIOUS
<1>1. ASSUME SysInv, ConsoleInv PROVE SleepingShellIsServed
  <2> SUFFICES ASSUME state[shell] = "SLEEP" PROVE SleepingShellIsServed
    BY DEF SleepingShellIsServed
  <2>1. CASE ShellQueued
    <3>1. \E i \in Slots : que[VFS][i] = Name[shell]
      BY <2>1, Cast DEF ShellQueued
    <3> QED
      BY <3>1 DEF SleepingShellIsServed
  <2>2. CASE pc[VFS] = "input"
    BY <1>1, <2>2, Cast DEF ConsoleInv, Contents, SleepingShellIsServed
  <2>3. CASE VFSQueued
    <3>1. que[uinput][0] = Name[VFS] /\ trapframe[VFS].body = Input(Name[shell])
      BY <1>1, <2>3 DEF ConsoleInv, Contents, VFSQueued
    <3>2. \E i \in Slots : que[uinput][i] = Name[VFS] /\ trapframe[VFS].body = Input(Name[shell])
      BY <3>1, Cast
    <3> QED
      BY <3>2 DEF SleepingShellIsServed
  <2>4. CASE Holds(uinput)
    <3>1. pc[uinput] = "recv"
      BY <1>1, <2>4, Cast DEF ConsoleInv, Places, Holds
    <3>2. trapframe[uinput].body = Input(Name[shell])
      BY <1>1, <2>4 DEF ConsoleInv, Contents
    <3> QED
      BY <2>4, <3>1, <3>2 DEF Holds, SleepingShellIsServed
  <2>5. CASE pc[uinput] \in {"poll", "copy", "wake"}
    BY <1>1, <2>5, Cast DEF ConsoleInv, Contents, SleepingShellIsServed
  <2> QED
    BY <1>1, <2>1, <2>2, <2>3, <2>4, <2>5 DEF ConsoleInv, Sleepers, ReaderKept, InputHeld
<1> QED
  BY <1>1, ConsoleInvariant, PTL

\* What read() of lib.c promises holds while the timer stays out of the
\* critical sections: a program that leaves gets() finds a line.  MCEarlyRead
\* is the same property without that hypothesis, where it fails.
THEOREM GetsFindsLine == Quiet => (SysSpec => []GetsReturnsLine)
<1> SUFFICES ASSUME Quiet PROVE SysSpec => []GetsReturnsLine
  OBVIOUS
<1>1. ASSUME SysInv, ConsoleInv PROVE GetsReturnsLine
  <2> SUFFICES ASSUME current = shell, pc[shell] = "strcmp" PROVE page[shell] \in Lines
    BY DEF GetsReturnsLine, at
  <2>1. state[shell] = "RUN"
    BY <1>1, Cast DEF ConsoleInv, Turns
  <2>2. ~ShellQueued /\ ~RequestHeld /\ ~ReaderKept
    BY <1>1, <2>1, Cast DEF ConsoleInv, Sleepers, Turns
  <2> QED
    BY <1>1, <2>2 DEF ConsoleInv, PageContents, ShellPage
<1> QED
  BY <1>1, ConsoleInvariant, PTL

------------------------------------------------------------------------------
(* The four processes implement the Console of lib.c's comments, while the *)
(* timer stays out of the critical sections.  A text is Put when puts()    *)
(* has it in the ipc page of the shell, and Shown when terminal prints it; *)
(* between, ipc_buf_cpy() moves it and no other step touches it.  A line   *)
(* is asked for with gets() and Typed when uinput copies it to the shell.  *)

\* The text in the page of terminal that is not on the screen yet, and the one
\* in the page of the shell.
OnTerminal ==
  IF pc[terminal] # "clear" /\ page[terminal] \in Texts THEN <<page[terminal]>> ELSE <<>>
InShell == IF page[shell] \in Texts THEN <<page[shell]>> ELSE <<>>

\* So what is on its way is at most these two, that of terminal first.
LEMMA TwoTexts == Written = OnTerminal \o InShell
BY DEF Written, OnTerminal, InShell

\* A text is no line, and an empty page neither.
LEMMA PageKinds ==
  /\ "zero" \notin Texts /\ "zero" \notin Lines /\ "junk" \notin Texts
  /\ "idle" \notin Lines /\ "asking" \notin Lines
  /\ \A l \in Lines : l \notin Texts
BY DEF Texts, Lines

\* A step that leaves pages, the screen and the shell alone.
LEMMA ScreenStutters ==
  ASSUME UNCHANGED <<page, shown, pc[shell]>>,
         pc[terminal] = "clear" <=> pc'[terminal] = "clear"
  PROVE  UNCHANGED <<Written, shown, Reader>>
BY DEF Written, Reader

\* Switches, returns, messages and sleeps are no steps of the Console.
LEMMA KernelStutters ==
  ASSUME SysInv, ConsoleInv,
         recv_return \/ plain_return \/ switch \/ server_recv \/ VFS_ping \/ VFS_sleep
           \/ VFS_input \/ uinput_wake
  PROVE  UNCHANGED <<Written, shown, Reader>>
<1>1. Sorted
  BY SortedFacts
<1>2. CASE plain_return \/ switch \/ server_recv
  BY <1>2, ScreenStutters DEF plain_return, switch, server_recv, programs
<1>3. CASE VFS_ping \/ VFS_sleep \/ VFS_input \/ uinput_wake
  <2>1. UNCHANGED <<page, shown>> /\ \A p \in {shell, terminal} : pc'[p] = pc[p]
    BY <1>1, <1>3, Cast DEF VFS_ping, VFS_sleep, VFS_input, uinput_wake, goto, Sorted
  <2> QED
    BY <2>1, ScreenStutters
<1>4. CASE recv_return
  <2>1. current \in Procs /\ trap[current] = "recv"
    BY <1>4 DEF recv_return, usertrap_return, Kernel
  <2>2. current \in {VFS, terminal, uinput} /\ pc[current] = "recv"
    BY <2>1, Cast DEF ConsoleInv, Places
  <2>3. PICK r \in Served(current, trapframe[current]) : goto(current, r.pc)
    BY <1>4 DEF recv_return
  <2>4. current = terminal => r.pc = "print"
    BY <2>3, Cast DEF Served
  <2>5. UNCHANGED <<page, shown>> /\ pc'[shell] = pc[shell]
    BY <1>1, <1>4, <2>2, <2>3, Cast DEF recv_return, goto, Sorted
  <2>6. pc[terminal] = "clear" <=> pc'[terminal] = "clear"
    BY <1>1, <2>2, <2>3, <2>4, Cast DEF goto, Sorted
  <2> QED
    BY <2>5, <2>6, ScreenStutters
<1> QED
  BY <1>2, <1>3, <1>4

\* terminal prints the text that was written first; clearing its page after
\* that, or before the first recv(), takes none away.
LEMMA TerminalShows ==
  ASSUME SysInv, ConsoleInv, terminal_step
  PROVE  Screen!Show \/ UNCHANGED <<Written, shown, Reader>>
<1>1. Sorted
  BY SortedFacts
<1>2. /\ current = terminal
      /\ pc'[shell] = pc[shell] /\ page'[shell] = page[shell]
  BY <1>1, Cast
  DEF terminal_step, terminal_start, terminal_print, terminal_clear, user, at, goto, Sorted
<1>3. InShell' = InShell /\ Reader' = Reader
  BY <1>2 DEF InShell, Reader
<1>4. CASE terminal_print
  <2>1. pc[terminal] = "print" /\ pc'[terminal] = "clear" /\ page[terminal] \in Texts
    BY <1>1, <1>4, Cast
    DEF terminal_print, user, at, goto, Sorted, ConsoleInv, PageContents, TerminalPage, TextPending
  <2>2. OnTerminal = <<page[terminal]>> /\ OnTerminal' = <<>>
    BY <2>1 DEF OnTerminal
  <2>3. shown' = page[terminal]
    BY <1>4, <2>1, PageKinds DEF terminal_print
  <2>4. Written # <<>> /\ Head(Written) = page[terminal] /\ Tail(Written) = Written'
    <3>1. InShell = <<>> \/ InShell = <<page[shell]>>
      BY DEF InShell
    <3>2. Written' = OnTerminal' \o InShell'
      BY DEF Written, OnTerminal, InShell
    <3>3. Written' = <<>> \o InShell
      BY <1>3, <2>2, <3>2
    <3>4. Written = <<page[terminal]>> \o InShell
      BY <2>2, TwoTexts
    <3>5. CASE InShell = <<>>
      <4>1. Written = <<page[terminal]>> /\ Written' = <<>>
        BY <3>3, <3>4, <3>5, Short
      <4> QED
        BY <4>1, Short
    <3>6. CASE InShell = <<page[shell]>>
      <4>1. Written = <<page[terminal], page[shell]>> /\ Written' = <<page[shell]>>
        BY <3>3, <3>4, <3>6, Short
      <4> QED
        BY <4>1, Short
    <3> QED
      BY <3>1, <3>5, <3>6
  <2> QED
    BY <1>3, <2>3, <2>4 DEF Screen!Show
<1>5. CASE terminal_start \/ terminal_clear
  <2>1. /\ pc'[terminal] = "recv" /\ page'[terminal] = "zero" /\ shown' = shown
        /\ pc[terminal] = "clear" \/ page[terminal] \notin Texts
    BY <1>1, <1>5, Cast
    DEF terminal_start, terminal_clear, user, at, goto, Sorted, ConsoleInv, PageContents, TerminalPage
  <2>2. OnTerminal' = OnTerminal
    BY <2>1, PageKinds DEF OnTerminal
  <2>3. Written' = OnTerminal' \o InShell'
    BY DEF Written, OnTerminal, InShell
  <2> QED
    BY <1>3, <2>1, <2>2, <2>3, TwoTexts
<1> QED
  BY <1>4, <1>5 DEF terminal_step

\* VFS copies a text to terminal's empty page: the order does not change.
LEMMA CopyStutters ==
  ASSUME SysInv, ConsoleInv, VFS_copy
  PROVE  UNCHANGED <<Written, shown, Reader>>
<1>1. Sorted
  BY SortedFacts
<1>2. /\ current = VFS /\ pc[VFS] = "copy"
      /\ pc'[shell] = pc[shell] /\ pc'[terminal] = pc[terminal]
      /\ arg[VFS] = Name[shell] /\ shown' = shown
  BY <1>1, Cast DEF VFS_copy, at, goto, Sorted, ConsoleInv, Contents
<1>3. page' = [page EXCEPT ![terminal] = page[shell], ![shell] = "zero"]
  BY <1>2, Cast DEF VFS_copy, ipc_buf_cpy
<1>4. page'[terminal] = page[shell] /\ page'[shell] = "zero"
  BY <1>1, <1>3, Cast DEF Sorted
<1>5. /\ pc[shell] # "strcmp" /\ page[shell] \in Texts
      /\ page[terminal] = "zero" /\ pc[terminal] # "clear"
  BY <1>2, Cast
  DEF ConsoleInv, Contents, PageContents, TerminalPage, ShellPage, TextPending, RequestHeld, Turns,
      Sleepers, Places, Holds
<1>6. Reader' = Reader
  BY <1>2, <1>5 DEF Reader
<1>7. /\ OnTerminal = <<>> /\ InShell = <<page[shell]>>
      /\ OnTerminal' = <<page[shell]>> /\ InShell' = <<>>
  BY <1>2, <1>4, <1>5, PageKinds DEF OnTerminal, InShell
<1>8. Written' = OnTerminal' \o InShell'
  BY DEF Written, OnTerminal, InShell
<1>9. Written = <<page[shell]>>
  BY <1>7, TwoTexts, Short
<1>10. Written' = <<page[shell]>>
  BY <1>7, <1>8, Short
<1> QED
  BY <1>2, <1>6, <1>9, <1>10

\* uinput copies the line to a reader that has none yet.
LEMMA LineArrives ==
  ASSUME SysInv, ConsoleInv, uinput_line \/ uinput_copy
  PROVE  (\E l \in Lines : Screen!Type(l)) \/ UNCHANGED <<Written, shown, Reader>>
<1>1. Sorted
  BY SortedFacts
<1>2. pc'[shell] = pc[shell] /\ pc'[terminal] = pc[terminal] /\ shown' = shown
  BY <1>1, Cast DEF uinput_line, uinput_copy, goto, Sorted
<1>3. CASE uinput_line
  <2>1. page'[shell] = page[shell] /\ page'[terminal] = page[terminal]
    BY <1>1, <1>3, Cast DEF uinput_line, Sorted
  <2> QED
    BY <1>2, <2>1 DEF Written, Reader
<1>4. CASE uinput_copy
  <2>1. current = uinput /\ pc[uinput] = "copy" /\ arg[uinput] = Name[shell]
    BY <1>4, Cast DEF uinput_copy, at, ConsoleInv, Contents
  <2>2. page' = [page EXCEPT ![shell] = page[uinput], ![uinput] = "zero"]
    BY <1>4, <2>1, Cast DEF uinput_copy, ipc_buf_cpy
  <2>3. /\ page'[shell] = page[uinput] /\ page'[terminal] = page[terminal]
        /\ page[uinput] \in Lines
    BY <1>1, <2>1, <2>2, Cast DEF Sorted, ConsoleInv, PageContents
  <2>4. pc[shell] = "strcmp" /\ page[shell] = "zero"
    BY <2>1, Cast
    DEF ConsoleInv, PageContents, ShellPage, Sleepers, ReaderKept, InputHeld
  <2>5. Reader = "asking" /\ Reader' = page[uinput]
    BY <1>2, <2>3, <2>4, PageKinds DEF Reader
  <2>6. Written' = Written
    BY <1>2, <2>3, <2>4, PageKinds DEF Written
  <2> QED
    BY <1>2, <2>3, <2>5, <2>6 DEF Screen!Type
<1> QED
  BY <1>3, <1>4

\* puts(), write(), gets() and the return of gets() in the shell.
LEMMA ShellImplements ==
  ASSUME SysInv, ConsoleInv, shell_step
  PROVE  \/ \E t \in Texts : Screen!Put(t)
         \/ Screen!Ask \/ Screen!Return
         \/ UNCHANGED <<Written, shown, Reader>>
<1>1. Sorted
  BY SortedFacts
<1>2. current = shell /\ state[shell] = "RUN"
  BY Cast
  DEF shell_step, shell_puts, shell_write, shell_gets, shell_strcmp, user, at, ConsoleInv, Turns
<1>3. ~ShellQueued /\ ~RequestHeld /\ ~ReaderKept
  BY <1>2, Cast DEF ConsoleInv, Turns, Sleepers
<1>4. /\ pc'[terminal] = pc[terminal] /\ page'[terminal] = page[terminal] /\ shown' = shown
      /\ OnTerminal' = OnTerminal
  BY <1>1, Cast
  DEF shell_step, shell_puts, shell_write, shell_gets, shell_strcmp, goto, Sorted, OnTerminal
<1>5. CASE shell_puts
  <2>1. /\ pc[shell] = "puts" /\ pc'[shell] \in {"puts", "gets", "write"}
        /\ page[shell] \notin Texts
        /\ \/ page'[shell] = page[shell]
           \/ page'[shell] = text /\ text \in Texts
    BY <1>1, <1>3, <1>5, Cast
    DEF shell_puts, user, at, goto, AfterPuts, Sorted, ConsoleInv, PageContents, ShellPage
  <2>2. Reader = "idle" /\ Reader' = "idle"
    BY <2>1 DEF Reader
  <2>3. CASE page'[shell] = page[shell]
    BY <1>4, <2>2, <2>3 DEF Written
  <2>4. CASE page'[shell] = text /\ text \in Texts
    <3>1. InShell = <<>> /\ InShell' = <<text>>
      BY <2>1, <2>4 DEF InShell
    <3>2. OnTerminal = <<>> \/ OnTerminal = <<page[terminal]>>
      BY DEF OnTerminal
    <3>3. Written = OnTerminal \o <<>>
      BY <3>1, TwoTexts
    <3>4. Written' = OnTerminal' \o InShell'
      BY DEF Written, OnTerminal, InShell
    <3>5. Written' = OnTerminal \o <<text>>
      BY <1>4, <3>1, <3>4
    <3>6. CASE OnTerminal = <<>>
      <4>1. Written = <<>> /\ Written' = <<text>>
        BY <3>3, <3>5, <3>6, Short
      <4>2. Len(Written) < 2
        BY <4>1
      <4>3. Written' = Append(Written, text)
        BY <4>1, Short
      <4> QED
        BY <1>4, <2>2, <2>4, <4>2, <4>3 DEF Screen!Put
    <3>7. CASE OnTerminal = <<page[terminal]>>
      <4>1. Written = <<page[terminal]>> /\ Written' = <<page[terminal], text>>
        BY <3>3, <3>5, <3>7, Short
      <4>2. Len(Written) < 2
        BY <4>1
      <4>3. Written' = Append(Written, text)
        BY <4>1, Short
      <4> QED
        BY <1>4, <2>2, <2>4, <4>2, <4>3 DEF Screen!Put
    <3> QED
      BY <2>4, <3>2, <3>6, <3>7
  <2> QED
    BY <2>1, <2>3, <2>4
<1>6. CASE shell_write
  <2>1. /\ pc[shell] = "write" /\ pc'[shell] \in {"puts", "gets"} /\ page' = page
    BY <1>1, <1>2, <1>6, Cast DEF shell_write, at, goto, AfterPuts, Sorted
  <2> QED
    BY <1>4, <2>1 DEF Written, Reader
<1>7. CASE shell_gets
  <2>1. /\ pc[shell] = "gets" /\ pc'[shell] = "strcmp" /\ page' = page /\ page[shell] = "zero"
    BY <1>1, <1>3, <1>7, Cast
    DEF shell_gets, at, goto, Sorted, ConsoleInv, PageContents, ShellPage
  <2>2. Reader = "idle" /\ Reader' = "asking"
    BY <2>1, PageKinds DEF Reader
  <2>3. Written' = Written
    BY <1>4, <2>1 DEF Written
  <2> QED
    BY <1>4, <2>2, <2>3 DEF Screen!Ask
<1>8. CASE shell_strcmp
  <2>1. /\ pc[shell] = "strcmp" /\ pc'[shell] = "puts" /\ page' = page /\ page[shell] \in Lines
    BY <1>1, <1>3, <1>8, Cast
    DEF shell_strcmp, user, at, goto, Sorted, ConsoleInv, PageContents, ShellPage
  <2>2. Reader \in Lines /\ Reader' = "idle"
    BY <2>1 DEF Reader
  <2>3. Written' = Written
    BY <1>4, <2>1 DEF Written
  <2> QED
    BY <1>4, <2>2, <2>3 DEF Screen!Return
<1> QED
  BY <1>5, <1>6, <1>7, <1>8 DEF shell_step

\* Nothing is written at first.
LEMMA ScreenInit == SysInit => Screen!Init
<1> SUFFICES ASSUME SysInit PROVE Screen!Init
  OBVIOUS
<1>1. /\ page[terminal] = "junk" /\ page[shell] = "junk" /\ shown = "zero"
      /\ pc[shell] = "puts"
  BY Cast DEF SysInit
<1>2. OnTerminal = <<>> /\ InShell = <<>>
  BY <1>1, PageKinds DEF OnTerminal, InShell
<1> QED
  BY <1>1, <1>2, TwoTexts, Short DEF Screen!Init, Reader

\* A step of the system is a step of the Console or leaves it alone.
LEMMA ScreenStep ==
  ASSUME SysInv, ConsoleInv, [SysNext]_sysvars
  PROVE  [Screen!Next]_<<Written, shown, Reader>>
<1>1. CASE recv_return \/ plain_return \/ switch \/ server_recv
  BY <1>1, KernelStutters
<1>2. CASE terminal_step
  BY <1>2, TerminalShows DEF Screen!Next
<1>3. CASE VFS_step
  BY <1>3, CopyStutters, KernelStutters DEF VFS_step
<1>4. CASE uinput_step
  BY <1>4, LineArrives, KernelStutters DEF uinput_step, Screen!Next
<1>5. CASE shell_step
  BY <1>5, ShellImplements DEF Screen!Next
<1>6. CASE UNCHANGED sysvars
  BY <1>6 DEF sysvars, programs, Written, Reader
<1> QED
  BY <1>1, <1>2, <1>3, <1>4, <1>5, <1>6 DEF SysNext

\* While the timer stays out of the critical sections, every text the shell
\* writes comes to the screen whole, once and in order, and gets() returns with
\* a line that was typed after it was called (lib.c, write() and read()).
THEOREM ConsoleKept == Quiet => (SysSpec => ImplementsConsole)
<1> SUFFICES ASSUME Quiet PROVE SysSpec => ImplementsConsole
  OBVIOUS
<1> QED
  BY ConsoleInvariant, ScreenInit, ScreenStep, PTL DEF SysSpec, ImplementsConsole, Screen!Spec
==============================================================================
