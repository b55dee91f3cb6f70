----------------------------- MODULE ClientServer -----------------------------
(***************************************************************************)
(* The kernel of Ipc under the discipline its protocol is made for: a      *)
(* server only calls recv(), a client only calls send(), to a server.      *)
(* This is how RViX uses the terminal (user/terminal.c) and a program that *)
(* prints.  VFS is outside the discipline, for it also sends.              *)
(*                                                                         *)
(* The module adds the user half of recv(): the copy of a0..a5 into the    *)
(* server's ipc_send when recv() returns (user/lib.c).                     *)
(***************************************************************************)
EXTENDS Ipc, Sequences

CONSTANT Servers  \* the slots of the servers; all other processes are clients

Clients == Procs \ Servers

ASSUME ClientServerAssumption ==
  /\ Servers \subseteq Procs
  /\ Clients # {}

VARIABLE ipc_send  \* the last message recv() gave to the server's program

csvars == <<vars, ipc_send>>

\* The call number that tells recv() from another return to user mode.
recv_return ==
  /\ usertrap_return
  /\ trap[current] = "recv"
  /\ ipc_send' = [ipc_send EXCEPT ![current] = trapframe[current]]

plain_return ==
  /\ prepare_uret \/ usertrap_return
  /\ trap[current] # "recv"
  /\ UNCHANGED ipc_send

server_recv ==
  /\ current \in Servers
  /\ recv
  /\ UNCHANGED ipc_send

client_send ==
  /\ current \in Clients
  /\ \E s \in Servers, b \in Body : send(Name[s], b)
  /\ UNCHANGED ipc_send

switch ==
  /\ main_yield \/ timer_interrupt
  /\ UNCHANGED ipc_send

CSInit == Init /\ ipc_send = [s \in Servers |-> Stale]

CSNext == recv_return \/ plain_return \/ server_recv \/ client_send \/ switch

CSSpec == CSInit /\ [][CSNext]_csvars

\* Ipc's fairness, and servers that serve: a server that has the hart calls
\* recv() again, even if the timer interrupts it each time it tries to.
Service ==
  /\ WF_csvars(switch /\ main_yield)
  /\ WF_csvars(recv_return \/ plain_return)
  /\ WF_csvars(switch /\ timer_interrupt)
  /\ WF_csvars(~timer /\ (server_recv \/ client_send))
  /\ \A s \in Servers : SF_csvars(current = s /\ server_recv)

FairCSSpec == CSSpec /\ Service

------------------------------------------------------------------------------
(* Properties.                                                             *)

CSTypeOK == TypeOK /\ ipc_send \in [Servers -> Regs]

QueuedAt(c, s) == \E i \in Slots : que[s][i] = Name[c]

\* A client is in a queue exactly while it is blocked in send(): asleep, its
\* flag set, its message still in its trapframe, and in one place only, so
\* that no recv() finds a sender twice or finds one that is not waiting; and
\* nobody but clients is in a queue, nor in a queue that is not a server's.
QueuedSendersBlocked ==
  /\ \A c \in Clients :
       state[c] = "SLEEP" => /\ \E s \in Servers : QueuedAt(c, s)
                             /\ trap[c] = "send"
                             /\ is_wait_msg[c] = 1
                             /\ trapframe[c].body \in Body
  /\ \A p \in Procs, i \in Slots :
       que[p][i] # 0 => /\ p \in Servers
                        /\ \E c \in Clients : que[p][i] = Name[c] /\ state[c] = "SLEEP"
  /\ \A p, q \in Procs, i, j \in Slots :
       que[p][i] # 0 /\ que[p][i] = que[q][j] => p = q /\ i = j

\* A server sleeps in recv() only, with its flag set and with nobody in its
\* queue, so a client that finds it SLEEP may write into its trapframe.
SleepingServersReceive ==
  \A s \in Servers :
    state[s] = "SLEEP" => /\ trap[s] = "recv"
                          /\ is_wait_msg[s] = 1
                          /\ \A i \in Slots : que[s][i] = 0

\* A server that leaves recv() has a message of a client in its registers,
\* never the stale ones of an empty recv().
RecvReturnsMessage ==
  \A s \in Servers :
    trap[s] = "recv" /\ state[s] # "SLEEP" =>
      \E c \in Clients, b \in Body : trapframe[s] = [a3 |-> Name[c], body |-> b]

\* add_que() always finds a free place: a queue never holds more than one
\* name per client, and no PANIC() stops the kernel.
NoPanic == panic = "none"

\* The flag is_wait_msg keeps a process asleep until its message has passed:
\* sheduller() always finds another process to run when one goes to sleep,
\* and nothing wakes a process without clearing its flag.
FlaggedSleep == \A p \in Procs : is_wait_msg[p] = 1 => state[p] = "SLEEP"

\* The messages on their way to s from the client named n: the one that is
\* in the registers of s, and the one the client is blocked with.
Handed(s, n) ==
  IF trap[s] = "recv" /\ state[s] # "SLEEP" /\ trapframe[s].a3 = n
  THEN <<trapframe[s].body>> ELSE <<>>

Blocked(s, n) ==
  IF \E i \in Slots : que[s][i] = n
  THEN <<trapframe[find_name_process(n)].body>> ELSE <<>>

ClientNames == {Name[c] : c \in Clients}
Inbox == [s \in Servers |-> [n \in ClientNames |-> Handed(s, n) \o Blocked(s, n)]]
Got == [s \in Servers |-> [from |-> ipc_send[s].a3, body |-> ipc_send[s].body]]

Chan == INSTANCE Channels WITH
  Server <- Servers, Sender <- ClientNames, Msg <- Body,
  NoSender <- 0, NoMsg <- NoBody, inbox <- Inbox, got <- Got

\* Through queues, trapframes, sleeps and preemptions the messages of every
\* client reach its server whole, once and in order, under the client's name.
ImplementsChannels == Chan!Spec

\* The sender in the first place of a queue is served.  extract_que() takes
\* the lowest used place, so this is the only place with that guarantee.
FirstPlaceServed ==
  \A s \in Servers, c \in Clients :
    que[s][0] = Name[c] ~> que[s][0] # Name[c]

\* Every sender that waits in the queue of a server is served: a queue hands
\* out "the first name" (ipc.c:197).
EveryPlaceServed ==
  \A s \in Servers, c \in Clients : QueuedAt(c, s) ~> ~QueuedAt(c, s)
==============================================================================
