-------------------------- MODULE ClientServerProofs --------------------------
(***************************************************************************)
(* Theorems about ClientServer for every number of clients and servers,    *)
(* every naming, every size of the table and every set of messages.        *)
(*                                                                         *)
(* The invariants of ClientServer are inductive together.  They speak of   *)
(* `state` only through which processes are SLEEP, so the proof needs one  *)
(* fact about yield(): what it does to the set of sleepers.                *)
(***************************************************************************)
EXTENDS ClientServer, IpcProofs, FiniteSetTheorems

CSInv ==
  /\ Inv
  /\ CSTypeOK
  /\ QueuedSendersBlocked
  /\ SleepingServersReceive
  /\ RecvReturnsMessage
  /\ NoPanic
  /\ FlaggedSleep

\* A step of clients and servers is a step of Ipc.
LEMMA CSNextIsNext == CSNext => Next
BY NameFacts, ClientServerAssumption
DEF CSNext, recv_return, plain_return, server_recv, client_send, switch,
    Next, KernelStep, MessageCall

\* If the current process has another one to yield to, or is not flagged,
\* then yield() puts it to sleep exactly when it is flagged, and changes no
\* other process from asleep to awake or back.
LEMMA YieldSleepers ==
  ASSUME NEW st, Inv, current \in Procs, Table(st), yield(st),
         is_wait_msg'[current] = 1 =>
           /\ st[current] # "RUNABBLE"
           /\ \E r \in Slots : st[r] = "RUNABBLE"
  PROVE  \A p \in Procs : state'[p] = "SLEEP" <=>
           IF p = current THEN is_wait_msg'[current] = 1 ELSE st[p] = "SLEEP"
<1>1. PICK n \in Slots :
        /\ sheduller(st, n)
        /\ current' = n
        /\ state' = [st EXCEPT
             ![current] = IF is_wait_msg'[current] = 1 THEN "SLEEP" ELSE "RUNABBLE",
             ![n] = "RUN"]
  BY DEF yield
<1>2. st[n] = "RUNABBLE" \/ n = current
  BY <1>1 DEF sheduller
<1>3. is_wait_msg'[current] = 1 => st[n] = "RUNABBLE"
  BY <1>1 DEF sheduller
<1>4. \A s \in Slots :
        state'[s] = IF s = n THEN "RUN"
                    ELSE IF s = current
                    THEN IF is_wait_msg'[current] = 1 THEN "SLEEP" ELSE "RUNABBLE"
                    ELSE st[s]
  BY <1>1, SlotFacts DEF Table
<1> QED
  BY <1>2, <1>3, <1>4, SlotFacts

LEMMA CSInitInv == CSInit => CSInv
<1> SUFFICES ASSUME CSInit PROVE CSInv
  OBVIOUS
<1>1. Inv
  BY InitInv DEF CSInit
<1>2. CSTypeOK
  BY <1>1, StaleType DEF Inv, CSTypeOK, CSInit
<1>3. QueuedSendersBlocked
  BY ClientServerAssumption, SlotFacts DEF CSInit, Init, QueuedSendersBlocked, Clients
<1>4. SleepingServersReceive /\ RecvReturnsMessage /\ NoPanic /\ FlaggedSleep
  BY ClientServerAssumption, SlotFacts
  DEF CSInit, Init, SleepingServersReceive, RecvReturnsMessage, NoPanic, FlaggedSleep, JUNK
<1> QED
  BY <1>1, <1>2, <1>3, <1>4 DEF CSInv

\* The part of the invariant that is not about Ipc alone.
Rest ==
  /\ QueuedSendersBlocked
  /\ SleepingServersReceive
  /\ RecvReturnsMessage
  /\ NoPanic
  /\ FlaggedSleep

\* A process is a client or a server.
LEMMA Roles ==
  /\ Servers \subseteq Procs /\ Clients \subseteq Procs
  /\ \A p \in Procs : p \in Clients <=> p \notin Servers
  /\ \E c \in Clients : TRUE
BY ClientServerAssumption DEF Clients

\* A process in user mode is awake, so it is in no queue.
LEMMA AwakeCaller ==
  ASSUME CSInv, UserMode
  PROVE  /\ current \in Procs
         /\ state[current] # "SLEEP"
         /\ is_wait_msg[current] # 1
         /\ current \in Clients =>
              \A p \in Procs, i \in Slots : que[p][i] # Name[current]
<1>1. current \in Procs /\ state[current] # "SLEEP"
  BY DEF CSInv, Inv, OnlyCurrentRuns, UserMode
<1>2. is_wait_msg[current] # 1
  BY <1>1 DEF CSInv, FlaggedSleep
<1>3. ASSUME NEW p \in Procs, NEW i \in Slots, que[p][i] = Name[current]
      PROVE  FALSE
  <2>1. que[p][i] # 0
    BY <1>1, <1>3, NameFacts
  <2>2. PICK c \in Clients : que[p][i] = Name[c] /\ state[c] = "SLEEP"
    BY <2>1 DEF CSInv, QueuedSendersBlocked
  <2>3. c = current
    BY <1>1, <1>3, <2>2, Roles, IpcAssumption
  <2> QED
    BY <1>1, <2>2, <2>3
<1> QED
  BY <1>1, <1>2, <1>3

\* What each action changes, process by process.
LEMMA MainYieldEffect ==
  ASSUME CSInv, main_yield
  PROVE  /\ \A p \in Procs : state'[p] = "SLEEP" <=> state[p] = "SLEEP"
         /\ UNCHANGED <<is_wait_msg, que, trapframe, trap, panic>>
<1>1. PICK n \in Slots :
        /\ sheduller(state, n)
        /\ state' = [state EXCEPT ![n] = "RUN"]
  BY DEF main_yield
<1>2. state[n] = "RUNABBLE"
  BY <1>1, SlotFacts DEF main_yield, sheduller
<1> QED
  BY <1>1, <1>2, SlotFacts DEF main_yield, CSInv, Inv, TypeOK

LEMMA TimerEffect ==
  ASSUME CSInv, timer_interrupt
  PROVE  /\ current \in Procs /\ trap[current] = "user" /\ state[current] # "SLEEP"
         /\ \A p \in Procs : state'[p] = "SLEEP" <=> state[p] = "SLEEP"
         /\ \A p \in Procs \ {current} : trap'[p] = trap[p] /\ trapframe'[p] = trapframe[p]
         /\ trap'[current] = "timer"
         /\ UNCHANGED <<is_wait_msg, que, panic>>
<1>1. /\ UserMode /\ yield(state)
      /\ trap' = [trap EXCEPT ![current] = "timer"]
      /\ trapframe' = [trapframe EXCEPT ![current] = Stale]
      /\ UNCHANGED <<is_wait_msg, que, panic>>
  BY DEF timer_interrupt, uservec
<1>2. current \in Procs /\ state[current] # "SLEEP" /\ is_wait_msg[current] # 1
  BY <1>1, AwakeCaller
<1>3. \A p \in Procs : state'[p] = "SLEEP" <=> state[p] = "SLEEP"
  BY <1>1, <1>2, TableChange, YieldSleepers DEF CSInv
<1> QED
  BY <1>1, <1>2, <1>3 DEF UserMode, CSInv, Inv, TypeOK

LEMMA SwitchStep == CSInv /\ switch => Rest'
<1> SUFFICES ASSUME CSInv, switch PROVE Rest'
  OBVIOUS
<1>1. ASSUME main_yield PROVE Rest'
  <2>1. QueuedSendersBlocked'
    BY <1>1, MainYieldEffect, Roles DEF CSInv, QueuedSendersBlocked, QueuedAt
  <2>2. SleepingServersReceive'
    BY <1>1, MainYieldEffect, Roles DEF CSInv, SleepingServersReceive
  <2>3. RecvReturnsMessage'
    BY <1>1, MainYieldEffect, Roles, ZenonT(60) DEF CSInv, RecvReturnsMessage
  <2>4. NoPanic' /\ FlaggedSleep'
    BY <1>1, MainYieldEffect DEF CSInv, NoPanic, FlaggedSleep
  <2> QED
    BY <2>1, <2>2, <2>3, <2>4 DEF Rest
<1>2. ASSUME timer_interrupt PROVE Rest'
  <2>1. QueuedSendersBlocked'
    BY <1>2, TimerEffect, Roles DEF CSInv, QueuedSendersBlocked, QueuedAt
  <2>2. SleepingServersReceive' /\ RecvReturnsMessage'
    BY <1>2, TimerEffect, Roles, SMTT(60) DEF CSInv, SleepingServersReceive, RecvReturnsMessage
  <2>3. NoPanic' /\ FlaggedSleep'
    BY <1>2, TimerEffect DEF CSInv, NoPanic, FlaggedSleep
  <2> QED
    BY <2>1, <2>2, <2>3 DEF Rest
<1> QED
  BY <1>1, <1>2 DEF switch

LEMMA ReturnEffect ==
  ASSUME CSInv, recv_return \/ plain_return
  PROVE  /\ current \in Procs /\ state[current] # "SLEEP"
         /\ \A p \in Procs \ {current} : trap'[p] = trap[p]
         /\ trap'[current] = "user"
         /\ UNCHANGED <<state, is_wait_msg, que, trapframe, panic>>
<1>1. /\ Kernel
      /\ trap' = [trap EXCEPT ![current] = "user"]
      /\ UNCHANGED <<state, is_wait_msg, que, trapframe, panic>>
  BY DEF recv_return, plain_return, prepare_uret, usertrap_return
<1> QED
  BY <1>1 DEF Kernel, CSInv, Inv, TypeOK, OnlyCurrentRuns

LEMMA ReturnStep == CSInv /\ (recv_return \/ plain_return) => Rest'
<1> SUFFICES ASSUME CSInv, recv_return \/ plain_return PROVE Rest'
  OBVIOUS
<1>1. QueuedSendersBlocked'
  BY ReturnEffect, Roles DEF CSInv, QueuedSendersBlocked, QueuedAt
<1>2. SleepingServersReceive' /\ RecvReturnsMessage'
  BY ReturnEffect, Roles DEF CSInv, SleepingServersReceive, RecvReturnsMessage
<1>3. NoPanic' /\ FlaggedSleep'
  BY ReturnEffect DEF CSInv, NoPanic, FlaggedSleep
<1> QED
  BY <1>1, <1>2, <1>3 DEF Rest

\* recv() with a sender in the queue wakes that sender, whose name was in no
\* other place, and hands its message to the server.
RecvQueuedEffects(i, c) ==
  /\ current \in Procs /\ c \in Procs /\ c # current
  /\ state[current] # "SLEEP" /\ trap[current] = "user"
  /\ que[current][i] = Name[c] /\ que[current][i] # 0 /\ state[c] = "SLEEP"
  /\ \A p \in Procs : state'[p] = "SLEEP" <=> p # c /\ state[p] = "SLEEP"
  /\ \A p \in Procs : is_wait_msg'[p] = IF p = c THEN 0 ELSE is_wait_msg[p]
  /\ \A p \in Procs, j \in Slots :
       que'[p][j] = IF p = current /\ j = i THEN 0 ELSE que[p][j]
  /\ \A p \in Procs \ {current} : trap'[p] = trap[p] /\ trapframe'[p] = trapframe[p]
  /\ trap'[current] = "recv"
  /\ trapframe'[current] = [a3 |-> Name[c], body |-> trapframe[c].body]
  /\ UNCHANGED panic

LEMMA RecvQueuedEffect ==
  ASSUME CSInv, current \in Servers, recv_queued
  PROVE  \E i \in Slots, c \in Clients : RecvQueuedEffects(i, c)
<1>1. PICK i \in Slots :
        /\ UserMode
        /\ que[current][i] # 0
        /\ trap' = [trap EXCEPT ![current] = "recv"]
        /\ que' = [que EXCEPT ![current][i] = 0]
        /\ trapframe' = [trapframe EXCEPT ![current] =
             [a3 |-> que[current][i],
              body |-> IF find_name_process(que[current][i]) = current THEN NoBody
                       ELSE trapframe[find_name_process(que[current][i])].body]]
        /\ is_wait_msg' =
             [is_wait_msg EXCEPT ![find_name_process(que[current][i])] = 0]
        /\ UNCHANGED panic
        /\ after_call([state EXCEPT ![find_name_process(que[current][i])] = "RUNABBLE"])
  BY DEF recv_queued, FirstUsed
<1>2. current \in Procs /\ state[current] # "SLEEP"
  BY <1>1, AwakeCaller
<1>3. PICK c \in Clients : que[current][i] = Name[c] /\ state[c] = "SLEEP"
  BY <1>1, <1>2 DEF CSInv, QueuedSendersBlocked
<1>4. c \in Procs /\ c # current /\ find_name_process(que[current][i]) = c
  BY <1>2, <1>3, NameFacts, Roles
<1>6. state' = [state EXCEPT ![c] = "RUNABBLE"]
  <2>1. [state EXCEPT ![c] = "RUNABBLE"][current] # "SLEEP"
    BY <1>2, <1>4, SlotFacts DEF CSInv, Inv, TypeOK
  <2> QED
    BY <1>1, <1>4, <2>1 DEF after_call
<1>7. \A p \in Procs : state'[p] = "SLEEP" <=> p # c /\ state[p] = "SLEEP"
  BY <1>4, <1>6, SlotFacts DEF CSInv, Inv, TypeOK
<1>8. \A p \in Procs : is_wait_msg'[p] = IF p = c THEN 0 ELSE is_wait_msg[p]
  BY <1>1, <1>4 DEF CSInv, Inv, TypeOK
<1>9. \A p \in Procs, j \in Slots :
        que'[p][j] = IF p = current /\ j = i THEN 0 ELSE que[p][j]
  <2>1. que[current] \in [Slots -> Names \cup {0}]
    BY <1>2 DEF CSInv, Inv, TypeOK
  <2> QED
    BY <1>1, <1>2, <2>1 DEF CSInv, Inv, TypeOK
<1>10. /\ \A p \in Procs \ {current} : trap'[p] = trap[p] /\ trapframe'[p] = trapframe[p]
       /\ trap'[current] = "recv"
       /\ trapframe'[current] = [a3 |-> Name[c], body |-> trapframe[c].body]
  BY <1>1, <1>2, <1>3, <1>4 DEF CSInv, Inv, TypeOK
<1> QED
  BY <1>1, <1>2, <1>3, <1>4, <1>7, <1>8, <1>9, <1>10 DEF RecvQueuedEffects, UserMode

LEMMA RecvQueuedStep ==
  ASSUME CSInv, current \in Servers, recv_queued
  PROVE  Rest'
<1>1. PICK i \in Slots, c \in Clients : RecvQueuedEffects(i, c)
  BY RecvQueuedEffect
<1>2. trapframe[c].body \in Body
  BY <1>1 DEF CSInv, QueuedSendersBlocked, RecvQueuedEffects
<1> USE <1>1 DEF RecvQueuedEffects
<1>3. \A p \in Procs, j \in Slots :
         que'[p][j] # 0 => que'[p][j] = que[p][j] /\ que[p][j] # Name[c]
  BY DEF CSInv, QueuedSendersBlocked
<1>4. QueuedSendersBlocked'
  <2>1. ASSUME NEW d \in Clients, state'[d] = "SLEEP"
        PROVE  /\ \E s \in Servers : QueuedAt(d, s)'
               /\ trap'[d] = "send"
               /\ is_wait_msg'[d] = 1
               /\ trapframe'[d].body \in Body
    <3>1. d \in Procs /\ d # c /\ d # current /\ state[d] = "SLEEP"
      BY <2>1, Roles
    <3>2. PICK s \in Servers, j \in Slots : que[s][j] = Name[d]
      BY <3>1 DEF CSInv, QueuedSendersBlocked, QueuedAt
    <3>3. que'[s][j] = Name[d]
      BY <3>1, <3>2, Roles, IpcAssumption
    <3> QED
      BY <3>1, <3>2, <3>3, Roles
      DEF CSInv, QueuedSendersBlocked, QueuedAt
  <2>2. ASSUME NEW p \in Procs, NEW j \in Slots, que'[p][j] # 0
        PROVE  p \in Servers /\ \E d \in Clients : que'[p][j] = Name[d] /\ state'[d] = "SLEEP"
    BY <1>3, <2>2, Roles DEF CSInv, QueuedSendersBlocked
  <2>3. ASSUME NEW p \in Procs, NEW q \in Procs, NEW j \in Slots, NEW k \in Slots,
               que'[p][j] # 0, que'[p][j] = que'[q][k]
        PROVE  p = q /\ j = k
    BY <1>3, <2>3 DEF CSInv, QueuedSendersBlocked
  <2> QED
    BY <2>1, <2>2, <2>3 DEF QueuedSendersBlocked
<1>5. SleepingServersReceive'
  BY Roles DEF CSInv, SleepingServersReceive, Empty
<1>6. RecvReturnsMessage'
  <2>1. \E d \in Clients, b \in Body : trapframe'[current] = [a3 |-> Name[d], body |-> b]
    BY <1>2
  <2>2. \A s \in Servers : s # current => trapframe'[s] = trapframe[s] /\ trap'[s] = trap[s]
    BY Roles
  <2>3. \A s \in Servers : state'[s] = "SLEEP" <=> state[s] = "SLEEP"
    BY Roles
  <2> QED
    BY <2>1, <2>2, <2>3 DEF CSInv, RecvReturnsMessage
<1>7. NoPanic' /\ FlaggedSleep'
  BY DEF CSInv, NoPanic, FlaggedSleep
<1> QED
  BY <1>4, <1>5, <1>6, <1>7 DEF Rest

\* recv() with an empty queue puts the server to sleep, and there is a
\* process to run: a client that is not ready waits for a server that is.
LEMMA RecvEmptyEffect ==
  ASSUME CSInv, current \in Servers, recv_empty
  PROVE  /\ current \in Procs /\ Empty(que[current])
         /\ state[current] # "SLEEP" /\ trap[current] = "user"
         /\ \A p \in Procs : state'[p] = "SLEEP" <=> p = current \/ state[p] = "SLEEP"
         /\ \A p \in Procs \ {current} : /\ trap'[p] = trap[p]
                                         /\ trapframe'[p] = trapframe[p]
                                         /\ is_wait_msg'[p] = is_wait_msg[p]
         /\ trap'[current] = "recv" /\ is_wait_msg'[current] = 1
         /\ UNCHANGED <<que, panic>>
<1>1. /\ UserMode /\ Empty(que[current])
      /\ trap' = [trap EXCEPT ![current] = "recv"]
      /\ trapframe' = [trapframe EXCEPT ![current] = Stale]
      /\ is_wait_msg' = [is_wait_msg EXCEPT ![current] = 1]
      /\ UNCHANGED <<que, panic>>
      /\ after_call([state EXCEPT ![current] = "SLEEP"])
  BY DEF recv_empty, uservec
<1>2. current \in Procs /\ state[current] # "SLEEP"
  BY <1>1, AwakeCaller
<1> DEFINE st == [state EXCEPT ![current] = "SLEEP"]
<1>3. \A p \in Procs : st[p] = IF p = current THEN "SLEEP" ELSE state[p]
  BY <1>2, SlotFacts DEF CSInv, Inv, TypeOK
<1>4. Table(st)
  BY <1>2, TableChange DEF CSInv
<1>5. \E r \in Slots : st[r] = "RUNABBLE"
  <2>1. \A p \in Procs : p # current /\ state[p] # "SLEEP" => state[p] = "RUNABBLE"
    BY SlotFacts DEF CSInv, Inv, TypeOK, OnlyCurrentRuns, States
  <2>2. PICK c \in Clients : c \in Procs /\ c # current
    BY Roles
  <2>3. CASE state[c] = "SLEEP"
    <3>1. PICK s \in Servers, i \in Slots : que[s][i] = Name[c]
      BY <2>3 DEF CSInv, QueuedSendersBlocked, QueuedAt
    <3>2. que[s][i] # 0
      BY <2>2, <3>1, NameFacts
    <3>3. s # current /\ s \in Procs /\ state[s] # "SLEEP"
      BY <1>1, <3>2, Roles DEF CSInv, SleepingServersReceive, Empty
    <3> QED
      BY <1>3, <2>1, <3>3, SlotFacts
  <2> QED
    BY <1>3, <2>1, <2>2, <2>3, SlotFacts
<1>6. \A p \in Procs : state'[p] = "SLEEP" <=> p = current \/ state[p] = "SLEEP"
  <2>1. is_wait_msg'[current] = 1
    BY <1>1, <1>2 DEF CSInv, Inv, TypeOK
  <2>2. yield(st)
    BY <1>1, <1>2, <1>3 DEF after_call
  <2> HIDE DEF st
  <2>3. \A p \in Procs : state'[p] = "SLEEP" <=>
          IF p = current THEN is_wait_msg'[current] = 1 ELSE st[p] = "SLEEP"
    BY <1>2, <1>3, <1>4, <1>5, <2>2, YieldSleepers DEF CSInv
  <2> QED
    BY <1>3, <2>1, <2>3
<1>7. /\ \A p \in Procs \ {current} : /\ trap'[p] = trap[p]
                                      /\ trapframe'[p] = trapframe[p]
                                      /\ is_wait_msg'[p] = is_wait_msg[p]
      /\ trap'[current] = "recv"
      /\ is_wait_msg'[current] = 1
  BY <1>1, <1>2 DEF CSInv, Inv, TypeOK
<1> QED
  BY <1>1, <1>2, <1>6, <1>7 DEF UserMode

LEMMA RecvEmptyStep ==
  ASSUME CSInv, current \in Servers, recv_empty
  PROVE  Rest'
<1> USE RecvEmptyEffect
<1>1. QueuedSendersBlocked'
  BY Roles DEF CSInv, QueuedSendersBlocked, QueuedAt
<1>2. SleepingServersReceive' /\ RecvReturnsMessage'
  BY Roles, SMTT(30) DEF CSInv, SleepingServersReceive, RecvReturnsMessage, Empty
<1>3. NoPanic' /\ FlaggedSleep'
  BY DEF CSInv, NoPanic, FlaggedSleep
<1> QED
  BY <1>1, <1>2, <1>3 DEF Rest

\* send() to a server that sleeps in recv(): the server wakes with the
\* message, the client stays ready.
SendDirectEffects(dst, b) ==
  /\ current \in Procs /\ dst \in Procs /\ dst # current
  /\ state[current] # "SLEEP" /\ state[dst] = "SLEEP" /\ trap[current] = "user"
  /\ \A p \in Procs : state'[p] = "SLEEP" <=>
       p # current /\ p # dst /\ state[p] = "SLEEP"
  /\ \A p \in Procs : is_wait_msg'[p] = IF p = dst THEN 0 ELSE is_wait_msg[p]
  /\ \A p \in Procs \ {current, dst} : /\ trap'[p] = trap[p]
                                       /\ trapframe'[p] = trapframe[p]
  /\ trap'[current] = "send" /\ trap'[dst] = trap[dst]
  /\ trapframe'[dst] = [a3 |-> Name[current], body |-> b]
  /\ UNCHANGED <<que, panic>>

LEMMA SendDirectEffect ==
  ASSUME CSInv, current \in Clients, NEW dst \in Servers, NEW b \in Body,
         send_direct(dst, b)
  PROVE  SendDirectEffects(dst, b)
<1>1. /\ UserMode /\ state[dst] = "SLEEP"
      /\ trap' = [trap EXCEPT ![current] = "send"]
      /\ trapframe' = [trapframe EXCEPT ![current] = [a3 |-> 0, body |-> b],
                                        ![dst] = [a3 |-> Name[current], body |-> b]]
      /\ is_wait_msg' = [is_wait_msg EXCEPT ![dst] = 0]
      /\ UNCHANGED <<que, panic>>
      /\ after_call([state EXCEPT ![current] = "SLEEP", ![dst] = "RUNABBLE"])
  BY DEF send_direct
<1>2. /\ current \in Procs /\ dst \in Procs /\ dst # current
      /\ is_wait_msg[current] # 1
  BY <1>1, AwakeCaller, Roles
<1> DEFINE st == [state EXCEPT ![current] = "SLEEP", ![dst] = "RUNABBLE"]
<1>3. \A p \in Procs : st[p] = IF p = current THEN "SLEEP"
                               ELSE IF p = dst THEN "RUNABBLE" ELSE state[p]
  BY <1>2, SlotFacts DEF CSInv, Inv, TypeOK
<1>4. \A p \in Procs : is_wait_msg'[p] = IF p = dst THEN 0 ELSE is_wait_msg[p]
  BY <1>1, <1>2 DEF CSInv, Inv, TypeOK
<1>5. Table(st)
  BY <1>2, TableChange DEF CSInv
<1>6. \A p \in Procs : state'[p] = "SLEEP" <=> p # current /\ p # dst /\ state[p] = "SLEEP"
  <2>1. is_wait_msg'[current] # 1
    BY <1>2, <1>4
  <2>2. yield(st)
    BY <1>1, <1>2, <1>3 DEF after_call
  <2> HIDE DEF st
  <2>3. \A p \in Procs : state'[p] = "SLEEP" <=>
          IF p = current THEN is_wait_msg'[current] = 1 ELSE st[p] = "SLEEP"
    BY <1>2, <1>5, <2>1, <2>2, YieldSleepers DEF CSInv
  <2> QED
    BY <1>3, <2>1, <2>3
<1>7. /\ \A p \in Procs \ {current, dst} : trap'[p] = trap[p] /\ trapframe'[p] = trapframe[p]
      /\ trap'[current] = "send"
      /\ trap'[dst] = trap[dst]
      /\ trapframe'[dst] = [a3 |-> Name[current], body |-> b]
  BY <1>1, <1>2 DEF CSInv, Inv, TypeOK
<1>8. state[current] # "SLEEP"
  BY <1>1, AwakeCaller
<1> QED
  BY <1>1, <1>2, <1>4, <1>6, <1>7, <1>8 DEF SendDirectEffects, UserMode

LEMMA SendDirectStep ==
  ASSUME CSInv, current \in Clients, NEW dst \in Servers, NEW b \in Body,
         send_direct(dst, b)
  PROVE  Rest'
<1>0. SendDirectEffects(dst, b)
  BY SendDirectEffect
<1> USE <1>0 DEF SendDirectEffects
<1>1. QueuedSendersBlocked'
  <2>1. \A c \in Clients : state'[c] = "SLEEP" <=> state[c] = "SLEEP"
    BY Roles
  <2>2. \A c \in Clients : state[c] = "SLEEP" => c \in Procs \ {current, dst}
    BY Roles
  <2>3. ASSUME NEW c \in Clients, state'[c] = "SLEEP"
        PROVE  /\ \E s \in Servers : QueuedAt(c, s)'
               /\ trap'[c] = "send"
               /\ is_wait_msg'[c] = 1
               /\ trapframe'[c].body \in Body
    <3>1. state[c] = "SLEEP" /\ c \in Procs \ {current, dst}
      BY <2>1, <2>2, <2>3
    <3>2. \E s \in Servers : QueuedAt(c, s)'
      BY <3>1 DEF CSInv, QueuedSendersBlocked, QueuedAt
    <3> QED
      BY <3>1, <3>2 DEF CSInv, QueuedSendersBlocked
  <2>4. \A p \in Procs, i \in Slots :
          que'[p][i] # 0 =>
            /\ p \in Servers
            /\ \E c \in Clients : que'[p][i] = Name[c] /\ state'[c] = "SLEEP"
    BY <2>1 DEF CSInv, QueuedSendersBlocked
  <2>5. \A p, q \in Procs, i, j \in Slots :
          que'[p][i] # 0 /\ que'[p][i] = que'[q][j] => p = q /\ i = j
    BY DEF CSInv, QueuedSendersBlocked
  <2> QED
    BY <2>3, <2>4, <2>5 DEF QueuedSendersBlocked
<1>2. SleepingServersReceive'
  BY Roles DEF CSInv, SleepingServersReceive, Empty
<1>3. RecvReturnsMessage'
  <2>1. \E c \in Clients, m \in Body : trapframe'[dst] = [a3 |-> Name[c], body |-> m]
    OBVIOUS
  <2> QED
    BY <2>1, Roles DEF CSInv, RecvReturnsMessage
<1>4. NoPanic' /\ FlaggedSleep'
  BY DEF CSInv, NoPanic, FlaggedSleep
<1> QED
  BY <1>1, <1>2, <1>3, <1>4 DEF Rest

\* send() to a server that is busy: the client enters its queue and sleeps,
\* and at least that server is ready to run.
SendQueueEffects(dst, b, i) ==
  /\ current \in Procs /\ dst \in Procs /\ dst # current
  /\ state[current] # "SLEEP" /\ state[dst] # "SLEEP" /\ trap[current] = "user"
  /\ \A p \in Procs, j \in Slots : que[p][j] # Name[current]
  /\ que[dst][i] = 0
  /\ \A p \in Procs, j \in Slots :
       que'[p][j] = IF p = dst /\ j = i THEN Name[current] ELSE que[p][j]
  /\ \A p \in Procs \ {current} : /\ trap'[p] = trap[p]
                                  /\ trapframe'[p] = trapframe[p]
                                  /\ is_wait_msg'[p] = is_wait_msg[p]
  /\ trap'[current] = "send" /\ trapframe'[current].body = b
  /\ is_wait_msg'[current] = 1
  /\ \A p \in Procs : state'[p] = "SLEEP" <=> p = current \/ state[p] = "SLEEP"
  /\ UNCHANGED panic

LEMMA SendQueueEffect ==
  ASSUME CSInv, current \in Clients, NEW dst \in Servers, NEW b \in Body,
         UserMode, send_queue(dst, b)
  PROVE  \E i \in Slots : SendQueueEffects(dst, b, i)
<1>1. /\ state[dst] # "SLEEP"
      /\ trap' = [trap EXCEPT ![current] = "send"]
      /\ trapframe' = [trapframe EXCEPT ![current] = [a3 |-> 0, body |-> b]]
      /\ is_wait_msg' = [is_wait_msg EXCEPT ![current] = 1]
      /\ UNCHANGED panic
      /\ after_call([state EXCEPT ![current] = "SLEEP"])
  BY DEF send_queue, uservec
<1>2. PICK i \in Slots :
        /\ que[dst][i] = 0
        /\ que' = [que EXCEPT ![dst][i] = Name[current]]
  BY DEF send_queue, FirstFree
<1>3. /\ current \in Procs /\ dst \in Procs /\ dst # current
      /\ state[current] # "SLEEP"
      /\ \A p \in Procs, j \in Slots : que[p][j] # Name[current]
  BY AwakeCaller, Roles
<1> DEFINE st == [state EXCEPT ![current] = "SLEEP"]
<1>4. \A p \in Procs : st[p] = IF p = current THEN "SLEEP" ELSE state[p]
  BY <1>3, SlotFacts DEF CSInv, Inv, TypeOK
<1>5. Table(st)
  BY <1>3, TableChange DEF CSInv
<1>6. st[dst] = "RUNABBLE"
  BY <1>1, <1>3, <1>4, SlotFacts DEF CSInv, Inv, TypeOK, OnlyCurrentRuns, States
<1>7. /\ \A p \in Procs \ {current} : /\ trap'[p] = trap[p]
                                      /\ trapframe'[p] = trapframe[p]
                                      /\ is_wait_msg'[p] = is_wait_msg[p]
      /\ trap'[current] = "send"
      /\ trapframe'[current].body = b
      /\ is_wait_msg'[current] = 1
  BY <1>1, <1>3 DEF CSInv, Inv, TypeOK
<1>8. \A p \in Procs : state'[p] = "SLEEP" <=> p = current \/ state[p] = "SLEEP"
  <2>1. yield(st)
    BY <1>1, <1>3, <1>4 DEF after_call
  <2>2. st[current] # "RUNABBLE" /\ \E r \in Slots : st[r] = "RUNABBLE"
    BY <1>3, <1>4, <1>6, SlotFacts
  <2> HIDE DEF st
  <2>3. \A p \in Procs : state'[p] = "SLEEP" <=>
          IF p = current THEN is_wait_msg'[current] = 1 ELSE st[p] = "SLEEP"
    BY <1>3, <1>5, <2>1, <2>2, YieldSleepers DEF CSInv
  <2> QED
    BY <1>4, <1>7, <2>3
<1>9. \A p \in Procs, j \in Slots :
        que'[p][j] = IF p = dst /\ j = i THEN Name[current] ELSE que[p][j]
  <2>1. que[dst] \in [Slots -> Names \cup {0}]
    BY <1>3 DEF CSInv, Inv, TypeOK
  <2> QED
    BY <1>2, <1>3, <2>1 DEF CSInv, Inv, TypeOK
<1> QED
  BY <1>1, <1>2, <1>3, <1>7, <1>8, <1>9 DEF SendQueueEffects, UserMode

LEMMA SendQueueStep ==
  ASSUME CSInv, current \in Clients, NEW dst \in Servers, NEW b \in Body,
         UserMode, send_queue(dst, b)
  PROVE  Rest'
<1>1. PICK i \in Slots : SendQueueEffects(dst, b, i)
  BY SendQueueEffect
<1> USE <1>1 DEF SendQueueEffects
<1>2. QueuedSendersBlocked'
  <2>1. ASSUME NEW c \in Clients, state'[c] = "SLEEP"
        PROVE  /\ \E s \in Servers : QueuedAt(c, s)'
               /\ trap'[c] = "send"
               /\ is_wait_msg'[c] = 1
               /\ trapframe'[c].body \in Body
    <3>1. CASE c = current
      <4>1. que'[dst][i] = Name[c]
        BY <3>1
      <4>2. \E s \in Servers : QueuedAt(c, s)'
        BY <4>1 DEF QueuedAt
      <4> QED
        BY <3>1, <4>2
    <3>2. CASE c # current
      <4>1. state[c] = "SLEEP"
        BY <2>1, <3>2, Roles
      <4>2. PICK s \in Servers, j \in Slots : que[s][j] = Name[c]
        BY <4>1 DEF CSInv, QueuedSendersBlocked, QueuedAt
      <4>3. que[s][j] # 0
        BY <4>2, NameFacts, Roles
      <4>4. que'[s][j] = Name[c]
        BY <4>2, <4>3, Roles
      <4>5. \E t \in Servers : QueuedAt(c, t)'
        BY <4>4 DEF QueuedAt
      <4>6. c \in Procs \ {current}
        BY <3>2, Roles
      <4> QED
        BY <4>1, <4>5, <4>6 DEF CSInv, QueuedSendersBlocked
    <3> QED
      BY <3>1, <3>2
  <2>2. ASSUME NEW p \in Procs, NEW j \in Slots, que'[p][j] # 0
        PROVE  p \in Servers /\ \E c \in Clients : que'[p][j] = Name[c] /\ state'[c] = "SLEEP"
    BY <2>2, Roles DEF CSInv, QueuedSendersBlocked
  <2>3. ASSUME NEW p \in Procs, NEW q \in Procs, NEW j \in Slots, NEW k \in Slots,
               que'[p][j] # 0, que'[p][j] = que'[q][k]
        PROVE  p = q /\ j = k
    BY <2>3 DEF CSInv, QueuedSendersBlocked
  <2> QED
    BY <2>1, <2>2, <2>3 DEF QueuedSendersBlocked
<1>3. SleepingServersReceive'
  <2>1. ASSUME NEW s \in Servers, state'[s] = "SLEEP"
        PROVE  s # dst /\ s # current /\ state[s] = "SLEEP" /\ s \in Procs
    BY <2>1, Roles
  <2> QED
    BY <2>1 DEF CSInv, SleepingServersReceive
<1>4. RecvReturnsMessage'
  <2>1. ASSUME NEW s \in Servers, trap'[s] = "recv", state'[s] # "SLEEP"
        PROVE  s \in Procs \ {current} /\ state[s] # "SLEEP"
    BY <2>1, Roles
  <2>2. ASSUME NEW s \in Servers, trap'[s] = "recv", state'[s] # "SLEEP"
        PROVE  trap[s] = "recv" /\ trapframe'[s] = trapframe[s]
    BY <2>1, <2>2
  <2> QED
    BY <2>1, <2>2 DEF CSInv, RecvReturnsMessage
<1>5. NoPanic' /\ FlaggedSleep'
  BY DEF CSInv, NoPanic, FlaggedSleep
<1> QED
  BY <1>2, <1>3, <1>4, <1>5 DEF Rest

\* add_que() has a place: were the queue full, two places would hold the
\* same client, since the caller itself is in none of them.
LEMMA NoOverflow ==
  ASSUME CSInv, current \in Clients, NEW dst \in Servers, UserMode
  PROVE  ~Full(que[dst])
<1> SUFFICES ASSUME Full(que[dst]) PROVE FALSE
  OBVIOUS
<1> DEFINE f == [i \in Slots |-> find_name_process(que[dst][i])]
           T == Procs \ {current}
<1>1. current \in Procs /\ dst \in Procs
      /\ \A p \in Procs, i \in Slots : que[p][i] # Name[current]
  BY AwakeCaller, Roles
<1>2. \A i \in Slots : \E c \in Clients : que[dst][i] = Name[c]
  BY <1>1 DEF Full, CSInv, QueuedSendersBlocked
<1>3. \A i \in Slots : f[i] \in T /\ Name[f[i]] = que[dst][i]
  BY <1>1, <1>2, NameFacts, Roles
<1>4. IsFiniteSet(Slots) /\ IsFiniteSet(T) /\ Cardinality(T) < Cardinality(Slots)
  <2>1. MAX_PROS \in Nat /\ NBORN \in Nat /\ NBORN > 0 /\ NBORN <= MAX_PROS
    BY IpcAssumption
  <2>2. IsFiniteSet(Slots) /\ Cardinality(Slots) = MAX_PROS
    BY <2>1, FS_Interval DEF Slots
  <2>3. IsFiniteSet(Procs) /\ Cardinality(Procs) = NBORN
    BY <2>1, FS_Interval DEF Procs
  <2>4. IsFiniteSet(T) /\ Cardinality(T) = NBORN - 1
    BY <1>1, <2>3, FS_RemoveElement
  <2> QED
    BY <2>1, <2>2, <2>4
<1>5. PICK i, j \in Slots : i # j /\ f[i] = f[j]
  <2>1. f \in [Slots -> T]
    BY <1>3
  <2> HIDE DEF f, T
  <2> QED
    BY <1>4, <2>1, FS_PigeonHole
<1>6. que[dst][i] = que[dst][j] /\ que[dst][i] # 0
  BY <1>3, <1>5 DEF Full
<1> QED
  BY <1>1, <1>5, <1>6 DEF CSInv, QueuedSendersBlocked

LEMMA CSStepInv == CSInv /\ [CSNext]_csvars => CSInv'
<1> SUFFICES ASSUME CSInv, [CSNext]_csvars PROVE CSInv'
  OBVIOUS
<1>1. Inv'
  BY StepInv, CSNextIsNext DEF CSInv, csvars
<1>2. ipc_send' \in [Servers -> Regs]
  <2>1. CASE recv_return
    <3>1. current \in Procs /\ ipc_send' = [ipc_send EXCEPT ![current] = trapframe[current]]
      BY <2>1 DEF recv_return, usertrap_return, Kernel
    <3> QED
      BY <3>1 DEF CSInv, CSTypeOK, Inv, TypeOK
  <2>2. CASE UNCHANGED ipc_send
    BY <2>2 DEF CSInv, CSTypeOK
  <2> QED
    BY <2>1, <2>2 DEF CSNext, plain_return, server_recv, client_send, switch, csvars
<1>3. ASSUME switch PROVE Rest'
  BY <1>3, SwitchStep
<1>4. ASSUME recv_return \/ plain_return PROVE Rest'
  BY <1>4, ReturnStep
<1>5. ASSUME server_recv PROVE Rest'
  BY <1>5, RecvQueuedStep, RecvEmptyStep DEF server_recv, recv
<1>6. ASSUME client_send PROVE Rest'
  <2>1. PICK s \in Servers, b \in Body : send(Name[s], b)
    BY <1>6 DEF client_send
  <2>2. current \in Clients /\ find_name_process(Name[s]) = s
    BY <1>6, NameFacts, Roles DEF client_send
  <2>3. UserMode
    BY <2>1 DEF send, send_direct, send_queue, send_overflow, uservec
  <2>4. send_direct(s, b) \/ send_queue(s, b)
    BY <2>1, <2>2, <2>3, NoOverflow DEF send, send_overflow
  <2> QED
    BY <2>2, <2>3, <2>4, SendDirectStep, SendQueueStep
<1>7. ASSUME UNCHANGED csvars PROVE Rest'
  <2>1. UNCHANGED <<state, is_wait_msg, que, trapframe, trap, panic>>
    BY <1>7 DEF csvars, vars
  <2>2. QueuedSendersBlocked'
    BY <2>1 DEF CSInv, QueuedSendersBlocked, QueuedAt
  <2> QED
    BY <2>1, <2>2 DEF CSInv, Rest, SleepingServersReceive, RecvReturnsMessage,
      NoPanic, FlaggedSleep, Empty
<1>8. Rest'
  BY <1>3, <1>4, <1>5, <1>6, <1>7 DEF CSNext
<1> QED
  BY <1>1, <1>2, <1>8 DEF CSInv, Rest, CSTypeOK, Inv

LEMMA Always == CSSpec => []CSInv
BY CSInitInv, CSStepInv, PTL DEF CSSpec

\* Every variable keeps its type, the program's copy of the last message too.
THEOREM CSTyping == CSSpec => []CSTypeOK
BY Always, PTL DEF CSInv

\* A client is in a queue exactly while it is blocked in send(), and once.
THEOREM SendersBlock == CSSpec => []QueuedSendersBlocked
BY Always, PTL DEF CSInv

\* A server that is SLEEP is one that waits in recv() with an empty queue.
THEOREM ServersSleepInRecv == CSSpec => []SleepingServersReceive
BY Always, PTL DEF CSInv

\* recv() returns messages only.
THEOREM RecvReturns == CSSpec => []RecvReturnsMessage
BY Always, PTL DEF CSInv

\* With one place per process no queue overflows, whatever the clients send.
THEOREM QueuesSuffice == CSSpec => []NoPanic
BY Always, PTL DEF CSInv

\* A process whose flag is set sleeps: sheduller() never has to let the
\* process run that has just gone to sleep.
THEOREM FlagKeepsAsleep == CSSpec => []FlaggedSleep
BY Always, PTL DEF CSInv

------------------------------------------------------------------------------
(* ClientServer implements Channels, for every instance: the kernel's      *)
(* queues, trapframes and sleeps amount to one lossless channel from every *)
(* client to every server.                                                 *)

\* The channel from the client named n to s.
Box(s, n) == Handed(s, n) \o Blocked(s, n)

\* A name in a queue is that of a client asleep, so its message is safe from
\* every write but the client's own.
LEMMA BlockedFacts ==
  ASSUME CSInv, NEW s \in Servers, NEW n \in ClientNames
  PROVE  /\ find_name_process(n) \in Clients /\ find_name_process(n) \in Procs
         /\ Name[find_name_process(n)] = n /\ n # 0
         /\ (\E i \in Slots : que[s][i] = n) => state[find_name_process(n)] = "SLEEP"
<1>1. PICK c \in Clients : n = Name[c]
  BY DEF ClientNames
<1>2. find_name_process(n) = c /\ n # 0 /\ c \in Procs
  BY <1>1, NameFacts, Roles
<1>3. ASSUME NEW i \in Slots, que[s][i] = n
      PROVE  state[c] = "SLEEP"
  <2>1. PICK d \in Clients : que[s][i] = Name[d] /\ state[d] = "SLEEP"
    BY <1>2, <1>3, Roles DEF CSInv, QueuedSendersBlocked
  <2> QED
    BY <1>1, <1>2, <1>3, <2>1, Roles, IpcAssumption
<1> QED
  BY <1>1, <1>2, <1>3

\* A step that moves no message.
LEMMA SameBox ==
  ASSUME \A s \in Servers, n \in ClientNames : Box(s, n)' = Box(s, n)
  PROVE  Inbox' = Inbox
BY DEF Inbox, Box

\* A step that changes one channel.
LEMMA OneBox ==
  ASSUME NEW q \in Servers, NEW m \in ClientNames,
         \A s \in Servers, n \in ClientNames : s # q \/ n # m => Box(s, n)' = Box(s, n)
  PROVE  Inbox' = [Inbox EXCEPT ![q][m] = Box(q, m)']
<1>1. Inbox[q] = [n \in ClientNames |-> Box(q, n)]
  BY DEF Inbox, Box
<1>2. ASSUME NEW s \in Servers
      PROVE  Inbox'[s] = [Inbox EXCEPT ![q][m] = Box(q, m)'][s]
  <2>1. CASE s # q
    BY <2>1 DEF Inbox, Box
  <2>2. CASE s = q
    <3>1. Inbox'[q] = [n \in ClientNames |-> Box(q, n)']
      BY DEF Inbox, Box
    <3>2. [Inbox EXCEPT ![q][m] = Box(q, m)'][q] = [Inbox[q] EXCEPT ![m] = Box(q, m)']
      BY DEF Inbox, Box
    <3>3. [n \in ClientNames |-> Box(q, n)'] = [Inbox[q] EXCEPT ![m] = Box(q, m)']
      BY <1>1
    <3> QED
      BY <2>2, <3>1, <3>2, <3>3
  <2> QED
    BY <2>1, <2>2
<1> QED
  BY <1>2 DEF Inbox, Box

LEMMA MainYieldStutters == ASSUME CSInv, main_yield PROVE Inbox' = Inbox
<1> SUFFICES ASSUME NEW s \in Servers, NEW n \in ClientNames
             PROVE  Box(s, n)' = Box(s, n)
  BY SameBox
<1>1. Handed(s, n)' = Handed(s, n)
  BY MainYieldEffect, Roles DEF Handed
<1>2. Blocked(s, n)' = Blocked(s, n)
  BY MainYieldEffect DEF Blocked
<1> QED
  BY <1>1, <1>2 DEF Box

LEMMA TimerStutters == ASSUME CSInv, timer_interrupt PROVE Inbox' = Inbox
<1> SUFFICES ASSUME NEW s \in Servers, NEW n \in ClientNames
             PROVE  Box(s, n)' = Box(s, n)
  BY SameBox
<1>1. Handed(s, n)' = Handed(s, n)
  <2>1. CASE s = current
    BY <2>1, TimerEffect DEF Handed
  <2>2. CASE s # current
    BY <2>2, TimerEffect, Roles DEF Handed
  <2> QED
    BY <2>1, <2>2
<1>2. Blocked(s, n)' = Blocked(s, n)
  BY TimerEffect, BlockedFacts DEF Blocked
<1> QED
  BY <1>1, <1>2 DEF Box

LEMMA PlainReturnStutters == ASSUME CSInv, plain_return PROVE Inbox' = Inbox
<1> SUFFICES ASSUME NEW s \in Servers, NEW n \in ClientNames
             PROVE  Box(s, n)' = Box(s, n)
  BY SameBox
<1>0. trap[current] # "recv"
  BY DEF plain_return
<1>1. Handed(s, n)' = Handed(s, n)
  <2>1. CASE s = current
    BY <1>0, <2>1, ReturnEffect DEF Handed
  <2>2. CASE s # current
    BY <2>2, ReturnEffect, Roles DEF Handed
  <2> QED
    BY <2>1, <2>2
<1>2. Blocked(s, n)' = Blocked(s, n)
  BY ReturnEffect DEF Blocked
<1> QED
  BY <1>1, <1>2 DEF Box

LEMMA RecvEmptyStutters ==
  ASSUME CSInv, current \in Servers, recv_empty PROVE Inbox' = Inbox
<1> SUFFICES ASSUME NEW s \in Servers, NEW n \in ClientNames
             PROVE  Box(s, n)' = Box(s, n)
  BY SameBox
<1>1. Handed(s, n)' = Handed(s, n)
  <2>1. CASE s = current
    BY <2>1, RecvEmptyEffect DEF Handed
  <2>2. CASE s # current
    BY <2>2, RecvEmptyEffect, Roles DEF Handed
  <2> QED
    BY <2>1, <2>2
<1>2. Blocked(s, n)' = Blocked(s, n)
  BY RecvEmptyEffect, BlockedFacts DEF Blocked
<1> QED
  BY <1>1, <1>2 DEF Box

\* recv() with a sender in the queue moves the message from the sender's
\* trapframe to the server's: from the end of the channel to its front.
LEMMA RecvQueuedStutters ==
  ASSUME CSInv, current \in Servers, recv_queued PROVE Inbox' = Inbox
<1> SUFFICES ASSUME NEW s \in Servers, NEW n \in ClientNames
             PROVE  Box(s, n)' = Box(s, n)
  BY SameBox
<1>1. PICK i \in Slots, c \in Clients : RecvQueuedEffects(i, c)
  BY RecvQueuedEffect
<1> DEFINE w == find_name_process(n)
<1>2. w \in Procs /\ Name[w] = n /\ n # 0
  BY BlockedFacts
<1>3. CASE s # current
  <2>1. Handed(s, n)' = Handed(s, n)
    <3>1. s \in Procs /\ s # c
      BY Roles
    <3> QED
      BY <1>1, <1>3, <3>1 DEF Handed, RecvQueuedEffects
  <2>2. \A j \in Slots : que'[s][j] = que[s][j]
    BY <1>1, <1>3, Roles DEF RecvQueuedEffects
  <2>3. (\E j \in Slots : que[s][j] = n) => trapframe'[w] = trapframe[w]
    <3>1. (\E j \in Slots : que[s][j] = n) => w # current
      BY <1>1, BlockedFacts DEF RecvQueuedEffects
    <3> QED
      BY <1>1, <1>2, <3>1 DEF RecvQueuedEffects
  <2>4. Blocked(s, n)' = Blocked(s, n)
    BY <2>2, <2>3 DEF Blocked
  <2> QED
    BY <2>1, <2>4 DEF Box
<1>4. CASE s = current /\ n = Name[c]
  <2>0. w = c
    BY <1>1, <1>4, NameFacts DEF RecvQueuedEffects
  <2>1. Handed(s, n) = <<>> /\ Blocked(s, n) = <<trapframe[c].body>>
    BY <1>1, <1>4, <2>0 DEF Handed, Blocked, RecvQueuedEffects
  <2>2. Handed(s, n)' = <<trapframe[c].body>>
    BY <1>1, <1>4 DEF Handed, RecvQueuedEffects
  <2>3. Blocked(s, n)' = <<>>
    <3>1. \A j \in Slots : que'[s][j] # n
      BY <1>1, <1>2, <1>4 DEF CSInv, QueuedSendersBlocked, RecvQueuedEffects
    <3> QED
      BY <3>1 DEF Blocked
  <2> QED
    BY <2>1, <2>2, <2>3, Short DEF Box
<1>5. CASE s = current /\ n # Name[c]
  <2>1. Handed(s, n) = <<>> /\ Handed(s, n)' = <<>>
    BY <1>1, <1>5 DEF Handed, RecvQueuedEffects
  <2>2. \A j \in Slots : que'[s][j] = n <=> que[s][j] = n
    BY <1>1, <1>2, <1>5 DEF RecvQueuedEffects
  <2>3. (\E j \in Slots : que[s][j] = n) => trapframe'[w] = trapframe[w]
    <3>1. (\E j \in Slots : que[s][j] = n) => w # current
      BY <1>1, BlockedFacts DEF RecvQueuedEffects
    <3> QED
      BY <1>1, <1>2, <3>1 DEF RecvQueuedEffects
  <2>4. Blocked(s, n)' = Blocked(s, n)
    BY <2>2, <2>3 DEF Blocked
  <2> QED
    BY <2>1, <2>4 DEF Box
<1> QED
  BY <1>3, <1>4, <1>5

\* The return from recv() takes the oldest message of one channel.
LEMMA ReturnReceives ==
  ASSUME CSInv, recv_return, NEW q \in Servers, q = current
  PROVE  Chan!Receive(q)
<1>1. /\ q \in Procs /\ trap[q] = "recv" /\ state[q] # "SLEEP"
      /\ ipc_send' = [ipc_send EXCEPT ![q] = trapframe[q]]
  BY ReturnEffect DEF recv_return
<1>2. PICK c \in Clients, b \in Body : trapframe[q] = [a3 |-> Name[c], body |-> b]
  BY <1>1 DEF CSInv, RecvReturnsMessage
<1> DEFINE m == Name[c]
<1>3. m \in ClientNames
  BY DEF ClientNames
<1>4. Handed(q, m) = <<b>>
  BY <1>1, <1>2 DEF Handed
<1>5. \A s \in Servers, n \in ClientNames : Blocked(s, n)' = Blocked(s, n)
  BY ReturnEffect DEF Blocked
<1>6. ASSUME NEW s \in Servers, NEW n \in ClientNames, s # q \/ n # m
      PROVE  Box(s, n)' = Box(s, n)
  <2>1. Handed(s, n)' = Handed(s, n)
    <3>1. CASE s = q
      BY <1>1, <1>2, <1>6, <3>1, ReturnEffect DEF Handed
    <3>2. CASE s # q
      BY <3>2, ReturnEffect, Roles DEF Handed
    <3> QED
      BY <3>1, <3>2
  <2> QED
    BY <1>5, <2>1 DEF Box
<1>7. Inbox[q][m] # <<>> /\ Head(Inbox[q][m]) = b
      /\ Box(q, m)' = Tail(Inbox[q][m])
  <2>1. Handed(q, m)' = <<>>
    BY ReturnEffect DEF Handed
  <2>2. Inbox[q][m] = <<b>> \o Blocked(q, m)
    BY <1>3, <1>4 DEF Inbox, Box
  <2>3. Box(q, m)' = <<>> \o Blocked(q, m)
    BY <1>3, <1>5, <2>1 DEF Box
  <2>4. CASE Blocked(q, m) = <<>>
    BY <2>2, <2>3, <2>4, Short
  <2>5. CASE \E x : Blocked(q, m) = <<x>>
    <3>1. PICK x : Blocked(q, m) = <<x>>
      BY <2>5
    <3>2. Inbox[q][m] = <<b, x>> /\ Box(q, m)' = <<x>>
      BY <2>2, <2>3, <3>1, Short
    <3> QED
      BY <3>2, Short
  <2>6. Blocked(q, m) = <<>> \/ \E x : Blocked(q, m) = <<x>>
    BY DEF Blocked
  <2> QED
    BY <2>4, <2>5, <2>6
<1>8. Inbox' = [Inbox EXCEPT ![q][m] = Tail(@)]
  BY <1>3, <1>6, <1>7, OneBox
<1>9. Got' = [Got EXCEPT ![q] = [from |-> m, body |-> Head(Inbox[q][m])]]
  <2>1. DOMAIN ipc_send = Servers
    BY DEF CSInv, CSTypeOK
  <2>2. \A s \in Servers : ipc_send'[s] = IF s = q THEN [a3 |-> m, body |-> b] ELSE ipc_send[s]
    BY <1>1, <1>2, <2>1
  <2>3. \A s \in Servers : [from |-> ipc_send'[s].a3, body |-> ipc_send'[s].body] =
          IF s = q THEN [from |-> m, body |-> b]
          ELSE [from |-> ipc_send[s].a3, body |-> ipc_send[s].body]
    BY <2>2
  <2>4. Got' = [Got EXCEPT ![q] = [from |-> m, body |-> b]]
    BY <2>3 DEF Got
  <2> QED
    BY <1>7, <2>4
<1> QED
  BY <1>3, <1>7, <1>8, <1>9
  DEF Chan!Receive, Inbox, Box, Got, ClientNames

\* send() to a sleeping server appends to an empty channel.
LEMMA SendDirectSends ==
  ASSUME CSInv, NEW c \in Clients, c = current, NEW dst \in Servers, NEW b \in Body,
         send_direct(dst, b)
  PROVE  /\ Len(Inbox[dst][Name[c]]) < 2
         /\ Inbox' = [Inbox EXCEPT ![dst][Name[c]] = Append(@, b)]
<1>0. SendDirectEffects(dst, b)
  BY SendDirectEffect
<1> USE <1>0 DEF SendDirectEffects
<1> DEFINE m == Name[c]
<1>1. m \in ClientNames /\ find_name_process(m) = c
  BY NameFacts DEF ClientNames
<1>2. \A s \in Servers : \A i \in Slots : que[s][i] # m
  BY <1>1, BlockedFacts
<1>3. ASSUME NEW s \in Servers, NEW n \in ClientNames
      PROVE  Blocked(s, n)' = Blocked(s, n)
  <2>1. (\E i \in Slots : que[s][i] = n) =>
          trapframe'[find_name_process(n)] = trapframe[find_name_process(n)]
    BY BlockedFacts, Roles
  <2> QED
    BY <2>1 DEF Blocked
<1>4. ASSUME NEW s \in Servers, NEW n \in ClientNames, s # dst \/ n # m
      PROVE  Box(s, n)' = Box(s, n)
  <2>1. Handed(s, n)' = Handed(s, n)
    <3>1. CASE s = dst
      BY <1>4, <3>1 DEF Handed
    <3>2. CASE s # dst
      BY <3>2, Roles DEF Handed
    <3> QED
      BY <3>1, <3>2
  <2> QED
    BY <1>3, <2>1 DEF Box
<1>5. Inbox[dst][m] = <<>>
  <2>1. Handed(dst, m) = <<>> /\ Blocked(dst, m) = <<>>
    BY <1>2 DEF Handed, Blocked
  <2> QED
    BY <1>1, <2>1, Short DEF Inbox, Box
<1>6. Box(dst, m)' = <<b>>
  <2>1. Handed(dst, m)' = <<b>>
    BY DEF Handed, CSInv, SleepingServersReceive
  <2>2. Blocked(dst, m)' = <<>>
    BY <1>2 DEF Blocked
  <2> QED
    BY <2>1, <2>2, Short DEF Box
<1>7. Box(dst, m)' = Append(Inbox[dst][m], b) /\ Len(Inbox[dst][m]) < 2
  BY <1>5, <1>6, Short
<1> QED
  BY <1>1, <1>4, <1>7, OneBox

\* send() to a busy server appends behind the message it may just have got.
LEMMA SendQueueSends ==
  ASSUME CSInv, NEW c \in Clients, c = current, NEW dst \in Servers, NEW b \in Body,
         UserMode, send_queue(dst, b)
  PROVE  /\ Len(Inbox[dst][Name[c]]) < 2
         /\ Inbox' = [Inbox EXCEPT ![dst][Name[c]] = Append(@, b)]
<1>0. PICK i \in Slots : SendQueueEffects(dst, b, i)
  BY SendQueueEffect
<1> USE <1>0 DEF SendQueueEffects
<1> DEFINE m == Name[c]
<1>1. m \in ClientNames /\ find_name_process(m) = c
  BY NameFacts DEF ClientNames
<1>2. ASSUME NEW s \in Servers, NEW n \in ClientNames
      PROVE  Handed(s, n)' = Handed(s, n)
  <2>1. s # current /\ s \in Procs
    BY Roles
  <2> QED
    BY <2>1 DEF Handed
<1>3. ASSUME NEW s \in Servers, NEW n \in ClientNames, s # dst \/ n # m
      PROVE  Box(s, n)' = Box(s, n)
  <2>1. \A j \in Slots : que'[s][j] = n <=> que[s][j] = n
    BY <1>3, BlockedFacts, Roles
  <2>2. (\E j \in Slots : que[s][j] = n) =>
          trapframe'[find_name_process(n)] = trapframe[find_name_process(n)]
    BY BlockedFacts
  <2>3. Blocked(s, n)' = Blocked(s, n)
    BY <2>1, <2>2 DEF Blocked
  <2> QED
    BY <1>2, <2>3 DEF Box
<1>4. Blocked(dst, m) = <<>> /\ Blocked(dst, m)' = <<b>>
  <2>1. \A j \in Slots : que[dst][j] # m
    OBVIOUS
  <2>2. que'[dst][i] = m
    OBVIOUS
  <2> QED
    BY <1>1, <2>1, <2>2 DEF Blocked
<1>5. Box(dst, m)' = Append(Inbox[dst][m], b) /\ Len(Inbox[dst][m]) < 2
  <2>1. Inbox[dst][m] = Handed(dst, m) \o <<>>
    BY <1>1, <1>4 DEF Inbox, Box
  <2>2. Box(dst, m)' = Handed(dst, m) \o <<b>>
    BY <1>1, <1>2, <1>4 DEF Box
  <2>3. CASE Handed(dst, m) = <<>>
    BY <2>1, <2>2, <2>3, Short
  <2>4. CASE \E x : Handed(dst, m) = <<x>>
    BY <2>1, <2>2, <2>4, Short
  <2> QED
    BY <2>3, <2>4 DEF Handed
<1> QED
  BY <1>1, <1>3, <1>5, OneBox

LEMMA InitImplements == CSInit => Chan!Init
<1> SUFFICES ASSUME CSInit PROVE Chan!Init
  OBVIOUS
<1>1. ASSUME NEW s \in Servers, NEW n \in ClientNames
      PROVE  Box(s, n) = <<>>
  <2>1. Handed(s, n) = <<>>
    BY Roles DEF CSInit, Init, Handed
  <2>2. \A i \in Slots : que[s][i] # n
    BY NameFacts, Roles DEF CSInit, Init, ClientNames
  <2>3. Blocked(s, n) = <<>>
    BY <2>2 DEF Blocked
  <2> QED
    BY <2>1, <2>3, Short DEF Box
<1>2. Inbox = [s \in Servers |-> [n \in ClientNames |-> <<>>]]
  BY <1>1 DEF Inbox, Box
<1>3. Got = [s \in Servers |-> [from |-> 0, body |-> NoBody]]
  BY DEF Got, CSInit, Stale
<1> QED
  BY <1>2, <1>3 DEF Chan!Init

LEMMA StepImplements ==
  CSInv /\ [CSNext]_csvars => [Chan!Next]_<<Inbox, Got>>
<1> SUFFICES ASSUME CSInv, [CSNext]_csvars PROVE [Chan!Next]_<<Inbox, Got>>
  OBVIOUS
<1>1. ASSUME switch PROVE UNCHANGED <<Inbox, Got>>
  BY <1>1, MainYieldStutters, TimerStutters DEF switch, Got
<1>2. ASSUME plain_return PROVE UNCHANGED <<Inbox, Got>>
  BY <1>2, PlainReturnStutters DEF plain_return, Got
<1>3. ASSUME server_recv PROVE UNCHANGED <<Inbox, Got>>
  BY <1>3, RecvQueuedStutters, RecvEmptyStutters DEF server_recv, recv, Got
<1>4. ASSUME recv_return PROVE [Chan!Next]_<<Inbox, Got>>
  <2>1. CASE current \in Servers
    <3>1. PICK q \in Servers : q = current
      BY <2>1
    <3>2. Chan!Receive(q)
      BY <1>4, <3>1, ReturnReceives
    <3> QED
      BY <3>2 DEF Chan!Next
  <2>2. CASE current \notin Servers
    <3>1. UNCHANGED ipc_send
      BY <1>4, <2>2 DEF recv_return, CSInv, CSTypeOK
    <3>2. ASSUME NEW s \in Servers, NEW n \in ClientNames
          PROVE  Box(s, n)' = Box(s, n)
      <4>1. Handed(s, n)' = Handed(s, n)
        BY <1>4, <2>2, ReturnEffect, Roles DEF Handed
      <4>2. Blocked(s, n)' = Blocked(s, n)
        BY <1>4, ReturnEffect DEF Blocked
      <4> QED
        BY <4>1, <4>2 DEF Box
    <3> QED
      BY <3>1, <3>2, SameBox DEF Got
  <2> QED
    BY <2>1, <2>2
<1>5. ASSUME client_send PROVE Chan!Next
  <2>1. PICK s \in Servers, b \in Body : send(Name[s], b)
    BY <1>5 DEF client_send
  <2>2. PICK c \in Clients : c = current
    BY <1>5 DEF client_send
  <2>3. find_name_process(Name[s]) = s /\ Name[c] \in ClientNames
    BY NameFacts, Roles DEF ClientNames
  <2>4. UserMode
    BY <2>1 DEF send, send_direct, send_queue, send_overflow, uservec
  <2>5. send_direct(s, b) \/ send_queue(s, b)
    BY <2>1, <2>2, <2>3, <2>4, NoOverflow DEF send, send_overflow
  <2>6. /\ Len(Inbox[s][Name[c]]) < 2
        /\ Inbox' = [Inbox EXCEPT ![s][Name[c]] = Append(@, b)]
    BY <2>2, <2>4, <2>5, SendDirectSends, SendQueueSends
  <2>7. Got' = Got
    BY <1>5 DEF client_send, Got
  <2>8. Chan!Send(Name[c], s, b)
    BY <2>6, <2>7 DEF Chan!Send
  <2> QED
    BY <2>3, <2>8 DEF Chan!Next
<1>6. ASSUME UNCHANGED csvars PROVE UNCHANGED <<Inbox, Got>>
  <2>1. UNCHANGED <<state, trap, trapframe, que, ipc_send>>
    BY <1>6 DEF csvars, vars
  <2>2. ASSUME NEW s \in Servers, NEW n \in ClientNames
        PROVE  Box(s, n)' = Box(s, n)
    BY <2>1 DEF Box, Handed, Blocked
  <2> QED
    BY <2>1, <2>2, SameBox DEF Got
<1> QED
  BY <1>1, <1>2, <1>3, <1>4, <1>5, <1>6 DEF CSNext

\* Whatever the number of clients and servers and the size of the table,
\* every message a client sends reaches its server once, whole, in order and
\* under its sender's name.
THEOREM Refinement == CSSpec => ImplementsChannels
<1>1. CSSpec => []CSInv
  BY Always
<1>2. CSInit => Chan!Init
  BY InitImplements
<1>3. CSInv /\ [CSNext]_csvars => [Chan!Next]_<<Inbox, Got>>
  BY StepImplements
<1> QED
  BY <1>1, <1>2, <1>3, PTL DEF CSSpec, ImplementsChannels, Chan!Spec

===============================================================================
