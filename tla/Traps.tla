--------------------------------- MODULE Traps ---------------------------------
(***************************************************************************)
(* send() and recv() of the kernel statement by statement, under the       *)
(* discipline of ClientServer.  usertrap() enables interrupts before the   *)
(* call (trap_handle.c:65), so the timer may strike between two            *)
(* statements.  stvec then holds kerneltrap(), a C function, and not       *)
(* kernelvec: it yields, and ends in a ret to what ra holds.  Inside       *)
(* IPC_call() that is at best its return into usertrap(), and the rest of  *)
(* the call is skipped; a build in which IPC_call() has moved the stack    *)
(* pointer does worse.  In usertrap(), after the call, it is the place     *)
(* after the call once more.                                               *)
(*                                                                         *)
(* The timer armed at lines 79 and 103 does not strike before user mode is *)
(* reached: a time slice is longer than that path.                         *)
(***************************************************************************)
EXTENDS ClientServer

CONSTANT Interruptible  \* the places in the handlers where the timer may strike

Handler == {"send", "clear", "sleep", "wake", "flag", "doze",
            "recv", "take", "release", "unflag", "mark"}

ASSUME TrapsAssumption == Interruptible \subseteq Handler \cup {"tail"}

VARIABLES
  at,     \* the statement p's usertrap() is at; "end" from line 83 on
  peer,   \* dst of its send(), src of its recv()
  asked,  \* history: the clients whose message nobody has taken yet
  harmed  \* history: the clients the timer has cost a message

tvars == <<csvars, at, peer, asked, harmed>>

Here(l) == Kernel /\ at[current] = l
goto(l) == at' = [at EXCEPT ![current] = l]

\* An ecall up to the first statement of its handler.
call_send ==
  /\ current \in Clients
  /\ \E s \in Servers, b \in Body :
       /\ uservec("send", [a3 |-> 0, body |-> b])
       /\ peer' = [peer EXCEPT ![current] = s]
  /\ goto("send")
  /\ asked' = asked \cup {current}
  /\ UNCHANGED <<state, current, idx, is_wait_msg, que, timer, panic, ipc_send>>

call_recv ==
  /\ current \in Servers
  /\ uservec("recv", Stale)
  /\ goto("recv")
  /\ UNCHANGED <<state, current, idx, is_wait_msg, que, timer, panic, ipc_send, peer, asked>>

\* sleep(p) or runable(p), and p's is_wait_msg = f.
set_state(l, p, s, next) ==
  /\ Here(l)
  /\ state' = [state EXCEPT ![p] = s]
  /\ goto(next)
  /\ UNCHANGED <<current, idx, is_wait_msg, que, trapframe, trap, timer, panic, ipc_send, peer>>

set_flag(l, p, f, next) ==
  /\ Here(l)
  /\ is_wait_msg' = [is_wait_msg EXCEPT ![p] = f]
  /\ goto(next)
  /\ UNCHANGED <<state, current, idx, que, trapframe, trap, timer, panic, ipc_send, peer>>

\* src's registers and name go to dst.
copy_reg(l, src, dst, next) ==
  /\ Here(l)
  /\ trapframe' = [trapframe EXCEPT ![dst] =
                     [a3 |-> Name[src], body |-> trapframe[src].body]]
  /\ goto(next)
  /\ UNCHANGED <<state, current, idx, is_wait_msg, que, trap, timer, panic, ipc_send, peer>>

\* send() to a process that is SLEEP, ...
send_copies ==
  /\ Here("send")
  /\ state[peer[current]] = "SLEEP"
  /\ copy_reg("send", current, peer[current], "clear")
  /\ UNCHANGED asked

send_wakes ==
  \/ set_flag("clear", peer[current], 0, "sleep") /\ UNCHANGED asked
  \/ set_state("sleep", current, "SLEEP", "wake") /\ UNCHANGED asked
  \/ set_state("wake", peer[current], "RUNABBLE", "tail") /\ asked' = asked \ {current}

\* Faulty variant: the flag is not set.
send_queues_no_flag ==
  /\ Here("send")
  /\ state[peer[current]] # "SLEEP"
  /\ \E i \in Slots :
       /\ FirstFree(que[peer[current]], i)
       /\ que' = [que EXCEPT ![peer[current]][i] = Name[current]]
  /\ goto("doze")
  /\ UNCHANGED <<state, current, idx, is_wait_msg, trapframe, trap, timer, panic, ipc_send,
                 peer, asked>>

\* ... and to any other.  A full queue, which only names of harmed clients can
\* make of it, leaves the sender here, where PANIC() spins.
send_queues ==
  /\ Here("send")
  /\ state[peer[current]] # "SLEEP"
  /\ \E i \in Slots :
       /\ FirstFree(que[peer[current]], i)
       /\ que' = [que EXCEPT ![peer[current]][i] = Name[current]]
  /\ goto("flag")
  /\ UNCHANGED <<state, current, idx, is_wait_msg, trapframe, trap, timer, panic, ipc_send,
                 peer, asked>>

send_dozes ==
  /\ \/ set_flag("flag", current, 1, "doze")
     \/ set_state("doze", current, "SLEEP", "tail")
  /\ UNCHANGED asked

\* recv() with a sender in the queue, ...
recv_extracts ==
  /\ Here("recv")
  /\ \E i \in Slots :
       /\ FirstUsed(que[current], i)
       /\ peer' = [peer EXCEPT ![current] = find_name_process(que[current][i])]
       /\ que' = [que EXCEPT ![current][i] = 0]
  /\ goto("take")
  /\ UNCHANGED <<state, current, idx, is_wait_msg, trapframe, trap, timer, panic, ipc_send, asked>>

\* Faulty variant: copy_reg() with its arguments swapped.
recv_takes_back ==
  /\ copy_reg("take", current, peer[current], "release")
  /\ asked' = asked \ {peer[current]}

recv_takes ==
  /\ copy_reg("take", peer[current], current, "release")
  /\ asked' = asked \ {peer[current]}

recv_releases ==
  /\ \/ set_state("release", peer[current], "RUNABBLE", "unflag")
     \/ set_flag("unflag", peer[current], 0, "tail")
  /\ UNCHANGED asked

\* ... and with an empty queue.
recv_rests ==
  /\ \/ Here("recv") /\ Empty(que[current]) /\ set_state("recv", current, "SLEEP", "mark")
     \/ set_flag("mark", current, 1, "tail")
  /\ UNCHANGED asked

\* The rest of usertrap(): a yield after a call that slept, and the return.
tail_yield ==
  /\ Here("tail")
  /\ state[current] = "SLEEP"
  /\ UNCHANGED <<is_wait_msg, que, trapframe, trap, panic, ipc_send, peer, asked>>
  /\ timer' = TRUE
  /\ yield(state)
  /\ goto("end")

return ==
  /\ Here("end") \/ (Here("tail") /\ state[current] # "SLEEP")
  /\ recv_return \/ plain_return
  /\ goto("user")
  /\ UNCHANGED <<peer, asked>>

\* A timer interrupt in user mode, and main()'s yield().
user_switch ==
  /\ switch
  /\ at' = IF current = NoProc THEN at ELSE [at EXCEPT ![current] = "end"]
  /\ UNCHANGED <<peer, asked>>

\* Whom it harms to cut the call of p short: a client that has not set its flag
\* in a queue nor woken its server, and one whose server has its name, not its
\* message.  A server cut short at release or unflag has the message; that nobody
\* wakes its sender, or that it keeps its flag, is no matter of this set.
Harms(p) ==
  {c \in Clients :
     \/ c = p /\ at[p] \notin {"doze", "tail"}
     \/ c = peer[p] /\ at[p] = "take"}

\* A timer interrupt in a handler.  When kerneltrap() returns its process is
\* RUN, so usertrap() goes on at line 83; interrupts stay off until then.
kerneltrap ==
  /\ timer
  /\ Kernel
  /\ at[current] \in Interruptible
  /\ UNCHANGED <<is_wait_msg, que, trapframe, trap, panic, ipc_send, peer, asked>>
  /\ timer' = TRUE
  /\ yield(state)
  /\ goto("end")
  /\ harmed' = harmed \cup Harms(current)

TrapsInit ==
  /\ CSInit
  /\ at = [p \in Procs |-> "end"]
  /\ peer = [p \in Procs |-> p]
  /\ asked = {}
  /\ harmed = {}

send_step == send_copies \/ send_wakes \/ send_queues \/ send_dozes
recv_step == recv_extracts \/ recv_takes \/ recv_releases \/ recv_rests

undisturbed ==
  /\ call_send \/ call_recv \/ send_step \/ recv_step \/ tail_yield \/ return \/ user_switch
  /\ UNCHANGED harmed

TrapsNext == undisturbed \/ kerneltrap

TrapsSpec == TrapsInit /\ [][TrapsNext]_tvars

------------------------------------------------------------------------------
(* Properties.                                                             *)

\* Wherever the timer strikes, it costs the clients in Harms their message and
\* nobody else's: any other client whose message nobody has yet waits in send(),
\* asleep with its flag set once usertrap() is through, and its name is in its
\* server's queue or in that server's hands.
SenderIsFound ==
  \A c \in asked \ harmed :
    /\ trap[c] = "send"
    /\ at[c] = "end" =>
         /\ state[c] = "SLEEP"
         /\ is_wait_msg[c] = 1
         /\ QueuedAt(c, peer[c]) \/ (at[peer[c]] = "take" /\ peer[peer[c]] = c)

\* The messages on their way to s from the client named n, the one between
\* extract_que() and copy_reg() included.
InTransit(s, n) ==
  IF at[s] = "take" /\ Name[peer[s]] = n
  THEN <<trapframe[peer[s]].body>> ELSE Handed(s, n)

TInbox ==
  [s \in Servers |-> [n \in ClientNames |-> InTransit(s, n) \o Blocked(s, n)]]

\* The step does to the channel from c to s what Channels allows, if anything: a
\* message more, or one less and that is what s gets.
ChannelStep(s, c) ==
  LET n == Name[c] IN
  \/ /\ TInbox'[s][n] = TInbox[s][n]
     /\ Got'[s] = Got[s] \/ Got'[s].from # n
  \/ /\ Len(TInbox[s][n]) < 2
     /\ \E b \in Body : TInbox'[s][n] = Append(TInbox[s][n], b)
     /\ Got'[s] = Got[s]
  \/ /\ TInbox[s][n] # <<>>
     /\ TInbox'[s][n] = Tail(TInbox[s][n])
     /\ Got'[s] = [from |-> n, body |-> Head(TInbox[s][n])]

\* Wherever the timer strikes, the channels of every client it has not harmed
\* lose, double, reorder and tear nothing, whatever the harmed clients' names
\* left in queues and the servers cut short do to the others.
OtherChannelsKept ==
  [][\A s \in Servers, c \in Clients \ harmed' : ChannelStep(s, c)]_tvars

\* send() returns when the destination has the message: it "copies the message
\* into its trapframe" (ipc.c:49), or "puts the sender to SLEEP, with the flag
\* is_wait_msg = 1" (ipc.c:51); an interrupt saves the registers and comes back
\* (trap_handle.c:18).
SendDelivers == \A c \in asked : trap[c] # "user"
==============================================================================
