-------------------------------- MODULE System --------------------------------
(***************************************************************************)
(* RViX as init_servers() starts it: the kernel of Ipc with VFS, terminal, *)
(* uinput and shell in user mode (user/*.c), and the ipc pages that the    *)
(* kernel copies for them (ipc_buf_cpy).                                   *)
(*                                                                         *)
(* The shell puts texts on the screen through VFS and terminal, and gets   *)
(* lines from the keyboard through VFS and uinput.  A text or a line is    *)
(* one value; what a page holds is one of them or nothing.                 *)
(***************************************************************************)
EXTENDS Ipc, Sequences

CONSTANT Preempted  \* the places in the programs where the timer may strike

\* Slots and names in the order of the table in init_servers().
VFS == 0
terminal == 1
uinput == 2
shell == 3

\* send(a0, .., a4, a5): what distinguishes the messages of these programs.
Message(a0, a4, a5) == [a0 |-> a0, a4 |-> a4, a5 |-> a5]
Write == Message(1, 1, 1)
Read == Message(0, 1, 2)
Ping == Message(0, 0, 0)
Input(name) == Message(name, 0, 0)
Messages == {Write, Read, Ping} \cup {Input(n) : n \in Names}

\* What main() of the shell puts, in order: two blank lines, the banner, its
\* own ipc page, and then prompts and answers.
Texts == {"blank1", "blank2", "banner", "prompt", "reply"}
NextText == [blank1 |-> "blank2", blank2 |-> "banner", banner |-> "own",
             own |-> "prompt", reply |-> "prompt"]
Lines == {"enter", "command"}
Pages == Texts \cup Lines \cup {"zero", "junk"}

Labels == {"start", "recv", "print", "clear", "copy", "ping", "sleep", "input",
           "poll", "wake", "puts", "write", "gets", "strcmp"}

ASSUME SystemAssumption ==
  /\ NBORN = 4
  /\ Body = Messages
  /\ Preempted \subseteq Procs \X Labels

VARIABLES
  pc,     \* what a program does next
  page,   \* what its ipc page holds
  arg,    \* namesrc in VFS, name_reader in uinput
  text,   \* what the shell puts next
  shown   \* the last thing terminal wrote to the UART

programs == <<pc, page, arg, text, shown>>
sysvars == <<vars, programs>>

at(p, label) == current = p /\ pc[p] = label
goto(p, label) == pc' = [pc EXCEPT ![p] = label]

\* A step of the program p in user mode.
user(p, label) == UserMode /\ at(p, label) /\ UNCHANGED vars

------------------------------------------------------------------------------
(* The kernel on behalf of these programs.                                 *)

\* The kernel copies a page and clears the page it came from; a name nobody
\* has makes it read through the NULL ipc_data of an empty slot.
ipc_buf_cpy(dst, src) ==
  \/ /\ {dst, src} \subseteq Names
     /\ buffer_call
     /\ LET d == find_name_process(dst)
            s == find_name_process(src)
        IN  page' = [page EXCEPT ![d] = page[s], ![s] = "zero"]
  \/ /\ ~ {dst, src} \subseteq Names
     /\ bad_trap("name dst not found")
     /\ UNCHANGED page

\* sleep() and wakeup() in user/servers.c.
sleep(name) ==
  \/ name \in Names /\ sleep_prc(name)
  \/ name \notin Names /\ bad_trap("name dst not found")

wake(name) ==
  \/ name \in Names /\ wakeup(name)
  \/ name \notin Names /\ bad_trap("name dst not found")

\* What VFS and uinput do with the registers recv() returned.  Registers that
\* hold no message can look like any.
Looks(m) == IF m = NoBody THEN Messages ELSE {m}
Sender(regs) == IF regs.a3 = 0 THEN Names \cup {0} ELSE {regs.a3}

VFS_request(m) ==
  IF m.a5 = 1 /\ m.a0 = 1 THEN "copy"
  ELSE IF m.a5 = 2 /\ m.a4 = 1 THEN "sleep" ELSE "recv"

Served(p, regs) ==
  CASE p = VFS ->
         {r \in [pc : {"copy", "sleep", "recv"}, arg : Sender(regs)] :
            \E m \in Looks(regs.body) : r.pc = VFS_request(m)}
    [] p = uinput -> {[pc |-> "poll", arg |-> m.a0] : m \in Looks(regs.body)}
    [] OTHER -> {[pc |-> "print", arg |-> 0]}

recv_return ==
  /\ usertrap_return
  /\ trap[current] = "recv"
  /\ \E r \in Served(current, trapframe[current]) :
       /\ goto(current, r.pc)
       /\ arg' = [arg EXCEPT ![current] = r.arg]
  /\ UNCHANGED <<page, text, shown>>

plain_return ==
  /\ prepare_uret \/ usertrap_return
  /\ trap[current] # "recv"
  /\ UNCHANGED programs

switch ==
  /\ main_yield \/ (timer_interrupt /\ <<current, pc[current]>> \in Preempted)
  /\ UNCHANGED programs

server_recv ==
  /\ UserMode /\ pc[current] = "recv"
  /\ recv
  /\ UNCHANGED programs

------------------------------------------------------------------------------
(* terminal.c                                                              *)

terminal_start ==
  /\ user(terminal, "start")
  /\ page' = [page EXCEPT ![terminal] = "zero"]
  /\ goto(terminal, "recv")
  /\ UNCHANGED <<arg, text, shown>>

terminal_print ==
  /\ user(terminal, "print")
  /\ shown' = IF page[terminal] = "zero" THEN shown ELSE page[terminal]
  /\ goto(terminal, "clear")
  /\ UNCHANGED <<page, arg, text>>

terminal_clear ==
  /\ user(terminal, "clear")
  /\ page' = [page EXCEPT ![terminal] = "zero"]
  /\ goto(terminal, "recv")
  /\ UNCHANGED <<arg, text, shown>>

------------------------------------------------------------------------------
(* VFS.c                                                                   *)

\* Faulty variants: terminal is not told of the text, the reader is not put
\* to sleep, uinput is not told who reads.
VFS_no_ping ==
  /\ user(VFS, "ping")
  /\ goto(VFS, "recv")
  /\ UNCHANGED <<page, arg, text, shown>>

VFS_no_sleep ==
  /\ user(VFS, "sleep")
  /\ goto(VFS, "input")
  /\ UNCHANGED <<page, arg, text, shown>>

VFS_no_reader ==
  /\ at(VFS, "input")
  /\ send(Name[uinput], Ping)
  /\ goto(VFS, "recv")
  /\ UNCHANGED <<page, arg, text, shown>>

VFS_copy ==
  /\ at(VFS, "copy")
  /\ ipc_buf_cpy(Name[terminal], arg[VFS])
  /\ goto(VFS, "ping")
  /\ UNCHANGED <<arg, text, shown>>

VFS_ping ==
  /\ at(VFS, "ping")
  /\ send(Name[terminal], Ping)
  /\ goto(VFS, "recv")
  /\ UNCHANGED <<page, arg, text, shown>>

VFS_sleep ==
  /\ at(VFS, "sleep")
  /\ sleep(arg[VFS])
  /\ goto(VFS, "input")
  /\ UNCHANGED <<page, arg, text, shown>>

VFS_input ==
  /\ at(VFS, "input")
  /\ send(Name[uinput], Input(arg[VFS]))
  /\ goto(VFS, "recv")
  /\ UNCHANGED <<page, arg, text, shown>>

------------------------------------------------------------------------------
(* uinput.c                                                                *)

\* The user types a line; until then uinput polls the UART.
uinput_line ==
  /\ user(uinput, "poll")
  /\ \E l \in Lines : page' = [page EXCEPT ![uinput] = l]
  /\ goto(uinput, "copy")
  /\ UNCHANGED <<arg, text, shown>>

\* Faulty variant: the reader is not woken.
uinput_no_wake ==
  /\ user(uinput, "wake")
  /\ goto(uinput, "recv")
  /\ UNCHANGED <<page, arg, text, shown>>

uinput_copy ==
  /\ at(uinput, "copy")
  /\ ipc_buf_cpy(arg[uinput], Name[uinput])
  /\ goto(uinput, "wake")
  /\ UNCHANGED <<arg, text, shown>>

uinput_wake ==
  /\ at(uinput, "wake")
  /\ wake(arg[uinput])
  /\ goto(uinput, "recv")
  /\ UNCHANGED <<page, arg, text, shown>>

------------------------------------------------------------------------------
(* shell.c, with puts(), gets(), write() and read() of lib.c               *)

AfterPuts == IF text = "prompt" THEN "gets" ELSE "puts"
AfterText == IF text = "prompt" THEN text ELSE NextText[text]

\* puts() copies the text to the ipc page; an empty one is not written.
shell_puts ==
  /\ user(shell, "puts")
  /\ IF text = "own" /\ page[shell] = "zero"
     THEN /\ goto(shell, AfterPuts)
          /\ text' = AfterText
          /\ UNCHANGED page
     ELSE /\ goto(shell, "write")
          /\ page' = [page EXCEPT ![shell] = IF text = "own" THEN @ ELSE text]
          /\ UNCHANGED text
  /\ UNCHANGED <<arg, shown>>

shell_write ==
  /\ at(shell, "write")
  /\ send(Name[VFS], Write)
  /\ goto(shell, AfterPuts)
  /\ text' = AfterText
  /\ UNCHANGED <<page, arg, shown>>

shell_gets ==
  /\ at(shell, "gets")
  /\ send(Name[VFS], Read)
  /\ goto(shell, "strcmp")
  /\ UNCHANGED <<page, arg, text, shown>>

\* Faulty variant: the answer is the line itself.
shell_echo ==
  /\ user(shell, "strcmp")
  /\ text' = page[shell]
  /\ goto(shell, "puts")
  /\ UNCHANGED <<page, arg, shown>>

shell_strcmp ==
  /\ user(shell, "strcmp")
  /\ text' = IF page[shell] = "enter" THEN "prompt" ELSE "reply"
  /\ goto(shell, "puts")
  /\ UNCHANGED <<page, arg, shown>>

------------------------------------------------------------------------------
SysInit ==
  /\ Init
  /\ pc = [p \in Procs |-> CASE p = terminal -> "start" [] p = shell -> "puts"
                             [] OTHER -> "recv"]
  /\ page = [p \in Procs |-> "junk"]
  /\ arg = [p \in Procs |-> 0]
  /\ text = "blank1"
  /\ shown = "zero"

terminal_step == terminal_start \/ terminal_print \/ terminal_clear
VFS_step == VFS_copy \/ VFS_ping \/ VFS_sleep \/ VFS_input
uinput_step == uinput_line \/ uinput_copy \/ uinput_wake
shell_step == shell_puts \/ shell_write \/ shell_gets \/ shell_strcmp

\* After a PANIC() there is no step.
SysNext ==
  \/ recv_return \/ plain_return \/ switch \/ server_recv
  \/ terminal_step \/ VFS_step \/ uinput_step \/ shell_step

SysSpec == SysInit /\ [][SysNext]_sysvars

\* Between recv() and its next call VFS works on a request whose sender is
\* ready again, and terminal works on a page that VFS writes.  Nothing keeps
\* the timer out of these places but their shortness.
CriticalSections ==
  ({VFS} \X {"copy", "sleep"}) \cup ({terminal} \X {"recv", "print", "clear"})

\* The hart does not stop; the time slice that a return to user mode starts
\* is long enough for a step of the program, so a program that gets the hart
\* again and again makes it; the user types when uinput polls.
program_step(p) ==
  /\ current = p
  /\ server_recv \/ terminal_step \/ VFS_step \/ uinput_step \/ shell_step

FairSysSpec ==
  /\ SysSpec
  /\ WF_sysvars(switch /\ main_yield)
  /\ WF_sysvars(recv_return \/ plain_return)
  /\ \A p \in {VFS, terminal, uinput, shell} : SF_sysvars(program_step(p))

------------------------------------------------------------------------------
(* Properties.                                                             *)

SysTypeOK ==
  /\ TypeOK
  /\ pc \in [Procs -> Labels]
  /\ page \in [Procs -> Pages]
  /\ arg \in [Procs -> Names \cup {0, 1}]
  /\ arg[VFS] \in Names \cup {0}
  /\ text \in Texts \cup {"own"}
  /\ shown \in Pages

\* The texts on their way: the one terminal has not written yet and the one
\* VFS has not copied yet.
Written ==
  (IF pc[terminal] # "clear" /\ page[terminal] \in Texts THEN <<page[terminal]>> ELSE <<>>)
    \o (IF page[shell] \in Texts THEN <<page[shell]>> ELSE <<>>)

Reader ==
  IF pc[shell] # "strcmp" THEN "idle"
  ELSE IF page[shell] \in Lines THEN page[shell] ELSE "asking"

Screen == INSTANCE Console WITH
  Text <- Texts, Line <- Lines, Dark <- "zero",
  written <- Written, shown <- shown, reader <- Reader

\* Through four processes, two copies of every page and all their sleeps and
\* wake-ups, the shell's texts reach the screen whole, once and in order, and
\* gets() returns with a line.
ImplementsConsole == Screen!Spec

\* No call names a process that does not exist, and no queue overflows.
NoFault == panic = "none"

\* A shell that sleeps is on somebody's list: in the queue of VFS with a
\* request, or with its name on the way to uinput or in the hands of uinput,
\* which will wake it.
SleepingShellIsServed ==
  state[shell] = "SLEEP" =>
    \/ \E i \in Slots : que[VFS][i] = Name[shell]
    \/ pc[VFS] = "input" /\ arg[VFS] = Name[shell]
    \/ \E i \in Slots : que[uinput][i] = Name[VFS] /\ trapframe[VFS].body = Input(Name[shell])
    \/ /\ pc[uinput] = "recv" /\ trap[uinput] = "recv" /\ state[uinput] # "SLEEP"
       /\ trapframe[uinput].body = Input(Name[shell])
    \/ pc[uinput] \in {"poll", "copy", "wake"} /\ arg[uinput] = Name[shell]

\* Every text the shell puts into its page comes to the screen.
TextShown == \A t \in Texts : page[shell] = t ~> shown = t

\* gets() returns.
GetsAnswered == pc[shell] = "strcmp" ~> pc[shell] = "puts"

\* read(): uinput "copies the data to the buffer of the caller" and "wakes the
\* caller" (lib.c:109-110), so a program that leaves gets() finds a line.
GetsReturnsLine ==
  UserMode /\ at(shell, "strcmp") => page[shell] \in Lines
==============================================================================
