--------------------------------- MODULE Ipc ---------------------------------
(***************************************************************************)
(* The kernel core of RViX: the process table and its scheduler            *)
(* (process_manager.c), the user trap handler (trap_handle.c) and the      *)
(* message half of the IPC calls (ipc.c).                                  *)
(*                                                                         *)
(* One hart runs everything.  A process in user mode leaves it by an ecall *)
(* or by a timer interrupt; usertrap() runs the handler, possibly yields   *)
(* to another process, and returns to user mode in whatever process is     *)
(* then current.  A step of this module is one such passage: a trap with   *)
(* its whole handler and its yield, or the return to user mode that ends   *)
(* it.  User programs are unknown: any process may make any call.          *)
(***************************************************************************)
EXTENDS Integers

CONSTANTS
  MAX_PROS,  \* slots of proc[], and of the que[] of every process
  NBORN,     \* slots proc_born() filled, from slot 0 upwards
  Name,      \* Name[p]: the name bootstrap gave to the process in slot p
  Body,      \* what a sender can leave in a0, a1, a2, a4 and a5
  NoBody     \* what these registers hold when they hold no message

Slots == 0 .. (MAX_PROS - 1)
Procs == 0 .. (NBORN - 1)
Names == {Name[p] : p \in Procs}

ASSUME IpcAssumption ==
  /\ MAX_PROS \in Nat \ {0}
  /\ NBORN \in 1 .. MAX_PROS
  /\ Name \in [Procs -> Nat \ {0}]
  /\ \A p, q \in Procs : Name[p] = Name[q] => p = q
  /\ NoBody \notin Body

NoProc == MAX_PROS  \* current == NULL, before main() first yields
JUNK == 5           \* kalloc() fills a page with 5s; nobody clears is_wait_msg

Regs == [a3 : Names \cup {0}, body : Body \cup {NoBody}]
Stale == [a3 |-> 0, body |-> NoBody]

States == {"UNUSED", "RUNABBLE", "RUN", "SLEEP"}
Traps == {"born", "user", "timer", "send", "recv", "buf", "sleep_prc", "wakeup", "bad"}

VARIABLES
  state,        \* proc[s].state
  current,      \* the slot `current` points to
  idx,          \* the static idx of sheduller()
  is_wait_msg,  \* proc[p].ipc_data->is_wait_msg
  que,          \* proc[p].ipc_data->que, 0 in a free place
  trapframe,    \* the registers a0..a5 saved for p at its last trap
  trap,         \* the trap p has not yet returned from, "user" when none
  timer,        \* a timer interrupt is armed
  panic         \* the PANIC() the kernel spins in

vars == <<state, current, idx, is_wait_msg, que, trapframe, trap, timer, panic>>

------------------------------------------------------------------------------
(* The scheduler.                                                          *)

\* Faulty variant: the search starts at slot 0 instead of after idx.
sheduller_from_zero(st, n) ==
  \/ /\ n \in Slots /\ st[n] = "RUNABBLE"
     /\ \A s \in Slots : s < n => st[s] # "RUNABBLE"
     /\ idx' = n
  \/ /\ \A s \in Slots : st[s] # "RUNABBLE"
     /\ n = current
     /\ idx' = idx

\* sheduller() run with the states st: n is the first RUNABBLE slot after
\* idx in cyclic order, and idx moves to it; when no slot is RUNABBLE the
\* current process goes on and idx stays.
sheduller(st, n) ==
  \/ \E k \in 1 .. MAX_PROS :
       /\ n = (idx + k) % MAX_PROS
       /\ st[n] = "RUNABBLE"
       /\ \A j \in 1 .. (k - 1) : st[(idx + j) % MAX_PROS] # "RUNABBLE"
       /\ idx' = n
  \/ /\ \A s \in Slots : st[s] # "RUNABBLE"
     /\ n = current
     /\ idx' = idx

\* Faulty variant: the process that loses the hart stays RUN.
yield_leaves_run(st) ==
  \E n \in Slots :
    /\ sheduller(st, n)
    /\ current' = n
    /\ state' = [st EXCEPT ![n] = "RUN"]

\* yield() from a process: the flag is_wait_msg, as the handler left it,
\* decides whether the process that loses the hart sleeps or stays ready.
yield(st) ==
  \E n \in Slots :
    /\ sheduller(st, n)
    /\ current' = n
    /\ state' = [st EXCEPT
         ![current] = IF is_wait_msg'[current] = 1 THEN "SLEEP" ELSE "RUNABBLE",
         ![n] = "RUN"]

\* The first yield(), from main(): there is no process to save.
main_yield ==
  /\ panic = "none"
  /\ current = NoProc
  /\ \E n \in Slots :
       /\ sheduller(state, n)
       /\ current' = n
       /\ state' = [state EXCEPT ![n] = "RUN"]
  /\ UNCHANGED <<is_wait_msg, que, trapframe, trap, timer, panic>>

------------------------------------------------------------------------------
(* Entering and leaving user mode.                                         *)

UserMode == panic = "none" /\ current \in Procs /\ trap[current] = "user"
Kernel == panic = "none" /\ current \in Procs /\ trap[current] # "user"

\* A new process starts in user mode; nothing arms the timer on this way.
prepare_uret ==
  /\ Kernel
  /\ trap[current] = "born"
  /\ trap' = [trap EXCEPT ![current] = "user"]
  /\ UNCHANGED <<state, current, idx, is_wait_msg, que, trapframe, timer, panic>>

\* The end of usertrap(): the timer is armed and userret restores a0..a5
\* from the trapframe.
usertrap_return ==
  /\ Kernel
  /\ trap[current] # "born"
  /\ trap' = [trap EXCEPT ![current] = "user"]
  /\ timer' = TRUE
  /\ UNCHANGED <<state, current, idx, is_wait_msg, que, trapframe, panic>>

\* uservec saves the registers of the current process on a trap of kind t.
uservec(t, regs) ==
  /\ UserMode
  /\ trap' = [trap EXCEPT ![current] = t]
  /\ trapframe' = [trapframe EXCEPT ![current] = regs]

\* The part of usertrap() after the call: a process the handler put to
\* SLEEP yields, any other goes straight back to user mode.
after_call(st) ==
  \/ /\ st[current] = "SLEEP"
     /\ timer' = TRUE
     /\ yield(st)
  \/ /\ st[current] # "SLEEP"
     /\ state' = st
     /\ UNCHANGED <<current, idx, timer>>

\* Faulty variant: the timer is armed again without a yield().
timer_no_yield ==
  /\ timer
  /\ uservec("timer", Stale)
  /\ UNCHANGED <<state, current, idx, is_wait_msg, que, timer, panic>>

\* scause 5: the registers are those of a computation, not of a call.
timer_interrupt ==
  /\ timer
  /\ uservec("timer", Stale)
  /\ UNCHANGED <<is_wait_msg, que, panic>>
  /\ timer' = TRUE
  /\ yield(state)

------------------------------------------------------------------------------
(* ipc.c                                                                   *)

find_name_process(n) == CHOOSE p \in Procs : Name[p] = n

\* Faulty variants: the last used place, and a look past the first place.
LastUsed(q, i) == q[i] # 0 /\ \A j \in Slots : j > i => q[j] = 0
EmptyFromOne(q) == \A i \in Slots : i > 0 => q[i] = 0

\* add_que() takes the first free place, extract_que() the first used one.
FirstFree(q, i) == q[i] = 0 /\ \A j \in 0 .. (i - 1) : q[j] # 0
FirstUsed(q, i) == q[i] # 0 /\ \A j \in 0 .. (i - 1) : q[j] = 0
Full(q) == \A i \in Slots : q[i] # 0
Empty(q) == \A i \in Slots : q[i] = 0

\* send() to a process that is SLEEP: the message goes into its trapframe,
\* it wakes, and the sender gives up the hart.
send_direct(dst, b) ==
  /\ UserMode
  /\ state[dst] = "SLEEP"
  /\ trap' = [trap EXCEPT ![current] = "send"]
  /\ trapframe' = [trapframe EXCEPT
       ![current] = [a3 |-> 0, body |-> b],
       ![dst] = [a3 |-> Name[current], body |-> b]]
  /\ is_wait_msg' = [is_wait_msg EXCEPT ![dst] = 0]
  /\ UNCHANGED <<que, panic>>
  /\ after_call([state EXCEPT ![current] = "SLEEP", ![dst] = "RUNABBLE"])

\* Faulty variants: the queue gets the slot of the sender, not its name; the
\* sender does not set its flag.
send_queue_slot(dst, b) ==
  /\ state[dst] # "SLEEP"
  /\ uservec("send", [a3 |-> 0, body |-> b])
  /\ \E i \in Slots :
       /\ FirstFree(que[dst], i)
       /\ que' = [que EXCEPT ![dst][i] = current]
  /\ is_wait_msg' = [is_wait_msg EXCEPT ![current] = 1]
  /\ UNCHANGED panic
  /\ after_call([state EXCEPT ![current] = "SLEEP"])

send_queue_no_flag(dst, b) ==
  /\ state[dst] # "SLEEP"
  /\ uservec("send", [a3 |-> 0, body |-> b])
  /\ \E i \in Slots :
       /\ FirstFree(que[dst], i)
       /\ que' = [que EXCEPT ![dst][i] = Name[current]]
  /\ UNCHANGED <<is_wait_msg, panic>>
  /\ after_call([state EXCEPT ![current] = "SLEEP"])

\* send() to any other process: the sender enters its queue and sleeps.
send_queue(dst, b) ==
  /\ state[dst] # "SLEEP"
  /\ uservec("send", [a3 |-> 0, body |-> b])
  /\ \E i \in Slots :
       /\ FirstFree(que[dst], i)
       /\ que' = [que EXCEPT ![dst][i] = Name[current]]
  /\ is_wait_msg' = [is_wait_msg EXCEPT ![current] = 1]
  /\ UNCHANGED panic
  /\ after_call([state EXCEPT ![current] = "SLEEP"])

\* add_que() finds no free place.
send_overflow(dst, b) ==
  /\ state[dst] # "SLEEP"
  /\ Full(que[dst])
  /\ uservec("send", [a3 |-> 0, body |-> b])
  /\ panic' = "ipc que is overflow"
  /\ UNCHANGED <<state, current, idx, is_wait_msg, que, timer>>

send(name, b) ==
  LET dst == find_name_process(name)
  IN  send_direct(dst, b) \/ send_queue(dst, b) \/ send_overflow(dst, b)

\* Faulty variants: extract_que() leaves the name in its place; copy_reg() the
\* wrong way round; the flag of the sender stays set.
recv_keeps_place ==
  \E i \in Slots :
    LET src == find_name_process(que[current][i])
    IN  /\ UserMode /\ FirstUsed(que[current], i)
        /\ uservec("recv", [a3 |-> que[current][i], body |-> trapframe[src].body])
        /\ is_wait_msg' = [is_wait_msg EXCEPT ![src] = 0]
        /\ UNCHANGED <<que, panic>>
        /\ after_call([state EXCEPT ![src] = "RUNABBLE"])

recv_copies_back ==
  \E i \in Slots :
    LET src == find_name_process(que[current][i])
    IN  /\ UserMode
        /\ FirstUsed(que[current], i)
        /\ trap' = [trap EXCEPT ![current] = "recv"]
        /\ que' = [que EXCEPT ![current][i] = 0]
        /\ trapframe' = [trapframe EXCEPT ![src] = Stale, ![current] =
             [a3 |-> que[current][i], body |-> NoBody]]
        /\ is_wait_msg' = [is_wait_msg EXCEPT ![src] = 0]
        /\ UNCHANGED panic
        /\ after_call([state EXCEPT ![src] = "RUNABBLE"])

recv_keeps_flag ==
  \E i \in Slots :
    LET src == find_name_process(que[current][i])
    IN  /\ UserMode /\ FirstUsed(que[current], i)
        /\ uservec("recv", [a3 |-> que[current][i], body |-> trapframe[src].body])
        /\ que' = [que EXCEPT ![current][i] = 0]
        /\ UNCHANGED <<is_wait_msg, panic>>
        /\ after_call([state EXCEPT ![src] = "RUNABBLE"])

\* recv() with a sender in the queue: its registers are copied, it becomes
\* RUNABBLE, and the receiver goes straight on.
recv_queued ==
  \E i \in Slots :
    LET name == que[current][i]
        src == find_name_process(name)
    IN  /\ UserMode
        /\ FirstUsed(que[current], i)
        /\ trap' = [trap EXCEPT ![current] = "recv"]
        /\ que' = [que EXCEPT ![current][i] = 0]
        /\ trapframe' = [trapframe EXCEPT ![current] =
             [a3 |-> name,
              body |-> IF src = current THEN NoBody ELSE trapframe[src].body]]
        /\ is_wait_msg' = [is_wait_msg EXCEPT ![src] = 0]
        /\ UNCHANGED panic
        /\ after_call([state EXCEPT ![src] = "RUNABBLE"])

\* recv() with an empty queue: the receiver sleeps with is_wait_msg set.
recv_empty ==
  /\ uservec("recv", Stale)
  /\ Empty(que[current])
  /\ is_wait_msg' = [is_wait_msg EXCEPT ![current] = 1]
  /\ UNCHANGED <<que, panic>>
  /\ after_call([state EXCEPT ![current] = "SLEEP"])

recv == recv_queued \/ recv_empty

\* sleep_prc() and wakeup() change the state of the named process, whatever
\* that process is doing, and nothing else.
sleep_prc(name) ==
  /\ uservec("sleep_prc", Stale)
  /\ UNCHANGED <<is_wait_msg, que, panic>>
  /\ after_call([state EXCEPT ![find_name_process(name)] = "SLEEP"])

wakeup(name) ==
  /\ uservec("wakeup", Stale)
  /\ UNCHANGED <<is_wait_msg, que, panic>>
  /\ after_call([state EXCEPT ![find_name_process(name)] = "RUNABBLE"])

\* ipc_buf_cpy() and buf2ipc_cpy() copy into the ipc page of a process and
\* leave the process table alone.
buffer_call ==
  /\ uservec("buf", Stale)
  /\ UNCHANGED <<is_wait_msg, que, panic>>
  /\ after_call(state)

\* Traps the kernel answers with PANIC(): an illegal instruction or a page
\* fault of the program, an unknown call number, and a name nobody has
\* (find_name_process() then returns NULL or runs into an empty slot).
bad_trap(reason) ==
  /\ uservec("bad", Stale)
  /\ panic' = reason
  /\ UNCHANGED <<state, current, idx, is_wait_msg, que, timer>>

\* PANIC() never returns.
spin == panic # "none" /\ UNCHANGED vars

------------------------------------------------------------------------------
\* What init_servers() and main() leave behind when main() yields.
Init ==
  /\ state = [s \in Slots |-> IF s \in Procs THEN "RUNABBLE" ELSE "UNUSED"]
  /\ current = NoProc
  /\ idx = 0
  /\ is_wait_msg = [p \in Procs |-> JUNK]
  /\ que = [p \in Procs |-> [i \in Slots |-> 0]]
  /\ trapframe = [p \in Procs |-> Stale]
  /\ trap = [p \in Procs |-> "born"]
  /\ timer = FALSE
  /\ panic = "none"

\* The kernel's own steps and the calls that pass messages.
KernelStep == main_yield \/ prepare_uret \/ usertrap_return \/ timer_interrupt
MessageCall == recv \/ \E n \in Names, b \in Body : send(n, b)
StateCall == \E n \in Names : sleep_prc(n) \/ wakeup(n)
Fault == {"ILLEGAL INSTRUCTION IN U MODE", "PAGEFAULT IN U MODE",
          "UNKNOW IPC CALL", "name dst not found"}

\* Any program in every process.
Next ==
  \/ KernelStep
  \/ MessageCall
  \/ StateCall
  \/ buffer_call
  \/ \E f \in Fault : bad_trap(f)
  \/ spin

Spec == Init /\ [][Next]_vars

\* Programs that only pass messages.
MsgNext == KernelStep \/ MessageCall \/ spin
MsgSpec == Init /\ [][MsgNext]_vars

\* The hart does not stop, and an armed timer fires in a program that makes
\* no call.  Nothing arms it for the first process (set_timer() in main() is
\* commented out), so that one has to make a call of its own accord; the
\* first process RViX starts is the terminal, whose first call is recv().
Hart ==
  /\ WF_vars(main_yield)
  /\ WF_vars(prepare_uret \/ usertrap_return)
  /\ WF_vars(timer_interrupt)
  /\ WF_vars(~timer /\ recv)

FairSpec == Spec /\ Hart

------------------------------------------------------------------------------
(* Properties.                                                             *)

TypeOK ==
  /\ state \in [Slots -> States]
  /\ current \in Procs \cup {NoProc}
  /\ idx \in Slots
  /\ is_wait_msg \in [Procs -> {0, 1, JUNK}]
  /\ que \in [Procs -> [Slots -> Names \cup {0}]]
  /\ trapframe \in [Procs -> Regs]
  /\ trap \in [Procs -> Traps]
  /\ timer \in BOOLEAN
  /\ panic \in Fault \cup {"none", "ipc que is overflow"}

\* One process at most is RUN, and it is the one `current` points to; what
\* `current` points to is never SLEEP while its program or its handler runs,
\* even after wakeup() or sleep_prc() named the caller itself; the static idx
\* of sheduller() stays at that process, even when it found no other; and no
\* call makes a process of an empty slot or an empty slot of a process.
OnlyCurrentRuns ==
  /\ \A s \in Slots : state[s] = "RUN" => s = current
  /\ current \in Procs => state[current] \in {"RUN", "RUNABBLE"} /\ idx = current
  /\ \A s \in Slots : state[s] = "UNUSED" <=> s \notin Procs

\* How many slots sheduller() looks at before it reaches s.
Distance(s) == (s + MAX_PROS - idx - 1) % MAX_PROS

\* Whenever the hart goes to another process, every RUNABBLE process that is
\* passed over comes closer to its turn: sheduller() lets at most MAX_PROS - 1
\* processes run before it, whatever calls are made meanwhile.
EverySwitchAdvances ==
  [][current' # current =>
       \A s \in Slots : state[s] = "RUNABBLE" /\ state'[s] = "RUNABBLE"
                          => Distance(s)' < Distance(s)]_vars

\* A process that sleeps in recv() while a sender is in its queue.
Overlooked(p) ==
  state[p] = "SLEEP" /\ trap[p] = "recv" /\ \E i \in Slots : que[p][i] # 0

\* Nobody slips between the look at the queue and the sleep of recv(), from
\* neither side, after any history of calls; only sleep_prc() of a process that
\* was ready to leave recv() can make a receiver sleep past a sender.
NoLostWakeup ==
  [][\A p \in Procs :
       Overlooked(p)' => Overlooked(p) \/ trap'[current] = "sleep_prc"]_vars

\* A process that is ready gets the hart, unless another one puts it to sleep
\* or the kernel panics, once the programs do nothing but pass messages.
\* The condition is needed: every return to user mode arms the timer anew, so
\* a program that keeps making calls that do not block is never preempted.
ReadyRuns ==
  <>[][MsgNext]_vars =>
    \A p \in Procs :
      state[p] = "RUNABBLE" ~> (current = p \/ state[p] = "SLEEP" \/ panic # "none")

------------------------------------------------------------------------------
(* What the comments of the code say and the code does not do.             *)

\* "The flag is_wait_msg = 1, so that the scheduler does not change the
\* status" (ipc.c:51, process_manager.h:36): a process that waits for a
\* message sleeps until one comes.
WaitingSleeps == \A p \in Procs : is_wait_msg[p] = 1 => state[p] = "SLEEP"

\* extract_que() "returns the name of a waiting process" (ipc.c:197): a
\* sender stays asleep as long as its name is in a queue.
QueuedSenderWaits ==
  \A p, q \in Procs, i \in Slots : que[q][i] = Name[p] => state[p] = "SLEEP"
==============================================================================
