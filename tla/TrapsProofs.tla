------------------------------ MODULE TrapsProofs ------------------------------
(***************************************************************************)
(* Traps, wherever the timer may strike: what it costs to cut a call short *)
(* is the message of the clients in Harms.  Any other client is found by   *)
(* its server, and its channels are those of Channels.                     *)
(*                                                                         *)
(* The lemma of a step first computes the variables after the step, then   *)
(* goes through the parts of the invariant, and last says what the step    *)
(* does to the channels of the clients that are not harmed.                *)
(***************************************************************************)
EXTENDS Traps, ClientServerProofs

\* The statements of send() and of recv().
Sending == {"send", "clear", "sleep", "wake", "flag", "doze"}
Receiving == {"recv", "take", "release", "unflag", "mark"}

\* The types, without the texts of the panics.
Typed ==
  /\ state \in [Slots -> States]
  /\ current \in Procs \cup {NoProc}
  /\ is_wait_msg \in [Procs -> {0, 1, JUNK}]
  /\ que \in [Procs -> [Slots -> Names \cup {0}]]
  /\ trapframe \in [Procs -> Regs]
  /\ trap \in [Procs -> Traps]
  /\ ipc_send \in [Servers -> Regs]
  /\ at \in [Procs -> Handler \cup {"tail", "end", "user"}]
  /\ peer \in [Procs -> Procs]
  /\ asked \subseteq Clients
  /\ harmed \subseteq Clients

\* The hart and the table.  A handler may have put its own process to SLEEP,
\* which then still has the hart.
Running ==
  /\ panic = "none"
  /\ \A s \in Slots : state[s] = "RUN" => s = current
  /\ \A s \in Slots : state[s] = "UNUSED" <=> s \notin Procs
  /\ current \in Procs =>
       /\ idx = current
       /\ state[current] \in {"RUN", "SLEEP"}
       /\ at[current] \notin {"wake", "mark", "tail"} => state[current] = "RUN"
       /\ at[current] \in {"wake", "mark"} => state[current] = "SLEEP"
  /\ current = NoProc => idx = 0 /\ state[0] = "RUNABBLE"

\* Only the current process is inside a handler, and its trap says which.
InCall ==
  \A p \in Procs :
    /\ p # current => at[p] = "end" /\ trap[p] # "user"
    /\ at[p] = "user" <=> trap[p] = "user"
    /\ at[p] \in Sending => trap[p] = "send"
    /\ at[p] \in Receiving => trap[p] = "recv"
    /\ at[p] = "tail" => trap[p] \in {"send", "recv"}
    /\ trap[p] \in {"born", "user", "timer", "send", "recv"}
    /\ trap[p] = "send" => p \in Clients /\ peer[p] \in Servers /\ trapframe[p].body \in Body
    /\ trap[p] = "recv" => p \in Servers

Base == Typed /\ Running /\ InCall

\* c is past add_que(), and flagged if it sleeps.
Past(c) ==
  \/ at[c] \in {"flag", "doze"}
  \/ at[c] \in {"tail", "end"} /\ state[c] = "SLEEP" /\ is_wait_msg[c] = 1

\* Every name in a queue is that of a client, in a server's queue; and that of one
\* who is not harmed is there once, while it waits in send() to this server.
Waiting ==
  /\ \A p \in Procs, i \in Slots :
       que[p][i] # 0 =>
         LET c == find_name_process(que[p][i])
         IN  /\ p \in Servers /\ c \in Clients /\ Name[c] = que[p][i]
             /\ c \notin harmed => peer[c] = p /\ trap[c] = "send" /\ Past(c)
  /\ \A p \in Procs, i, j \in Slots :
       que[p][i] # 0 /\ que[p][i] = que[p][j] =>
         i = j \/ find_name_process(que[p][i]) \in harmed

\* What is true of a client at each place in send(), and that one that is not
\* harmed is found as long as nobody has its message.
Senders ==
  \A c \in Clients :
    /\ at[c] \in {"flag", "doze"} => QueuedAt(c, peer[c])
    /\ at[c] = "doze" => is_wait_msg[c] = 1
    /\ at[c] \in {"clear", "sleep", "wake"} =>
         /\ state[peer[c]] = "SLEEP"
         /\ trapframe[peer[c]] = [a3 |-> Name[c], body |-> trapframe[c].body]
    /\ at[c] \in {"sleep", "wake"} => is_wait_msg[peer[c]] # 1
    /\ c \in asked /\ c \notin harmed =>
         /\ trap[c] = "send"
         /\ \/ at[c] \in Sending
            \/ /\ at[c] \in {"tail", "end"} /\ state[c] = "SLEEP" /\ is_wait_msg[c] = 1
               /\ QueuedAt(c, peer[c]) \/ (at[peer[c]] = "take" /\ peer[peer[c]] = c)

\* And of a server in recv(): it sleeps with an empty queue and only sleeps with
\* its flag set; the registers of an empty recv() hold nothing; and the sender it
\* has taken out of its queue stays as it was until it is let go, unless harmed.
Receivers ==
  \A s \in Servers :
    /\ state[s] = "SLEEP" => trap[s] = "recv" /\ Empty(que[s])
    /\ is_wait_msg[s] = 1 => state[s] = "SLEEP"
    /\ at[s] \in {"recv", "take", "mark"} => trapframe[s] = Stale
    /\ at[s] = "tail" /\ state[s] = "SLEEP" => trapframe[s] = Stale
    /\ at[s] \in {"take", "release", "unflag"} =>
         /\ peer[s] \in Clients
         /\ peer[s] \notin harmed =>
              /\ peer[peer[s]] = s /\ trap[peer[s]] = "send" /\ ~ QueuedAt(peer[s], s)
              /\ IF at[s] = "unflag" THEN state[peer[s]] = "RUNABBLE"
                 ELSE state[peer[s]] = "SLEEP" /\ is_wait_msg[peer[s]] = 1

Sound == Base /\ Waiting /\ Senders /\ Receivers

\* What calls cut short can lead to in the end: every client sleeps for ever with
\* its name in no queue, so the last server that goes to sleep finds nobody to hand
\* over to, goes on with its flag set, and is the only process that runs.
Stuck ==
  /\ current \in Servers
  /\ trapframe[current] = Stale
  /\ at[current] \in {"recv", "mark", "tail", "end", "user"}
  /\ \A p \in Procs : p # current => state[p] = "SLEEP"
  /\ \A p \in Procs : Empty(que[p])
  /\ asked \subseteq harmed

TrapsInv == Sound \/ (Base /\ Stuck)

\* What OtherChannelsKept says of a step.
Kept == \A s \in Servers, c \in Clients \ harmed' : ChannelStep(s, c)

\* Clients, servers, names and registers.
LEMMA Parties ==
  /\ Servers \subseteq Procs /\ Clients \subseteq Procs
  /\ \A p \in Procs : p \in Clients <=> p \notin Servers
  /\ \E c \in Clients : TRUE
  /\ Procs \subseteq Slots /\ 0 \in Procs /\ NoProc \notin Procs
  /\ \A p \in Procs : Name[p] \in Names /\ Name[p] # 0 /\ find_name_process(Name[p]) = p
  /\ \A p, q \in Procs : Name[p] = Name[q] => p = q
  /\ 0 \notin Names
  /\ \A n \in Names : find_name_process(n) \in Procs /\ Name[find_name_process(n)] = n
  /\ \A c \in Clients : Name[c] \in ClientNames
  /\ 0 \notin ClientNames
  /\ NoBody \notin Body
  /\ Stale \in Regs /\ Stale.a3 = 0
  /\ \A n \in Names, b \in Body : [a3 |-> n, body |-> b] \in Regs
<1>1. Stale \in Regs /\ Stale.a3 = 0
  BY StaleType DEF Stale
<1>2. \A n \in Names, b \in Body : [a3 |-> n, body |-> b] \in Regs
  BY DEF Regs
<1>3. /\ Servers \subseteq Procs /\ Clients \subseteq Procs
      /\ \A p \in Procs : p \in Clients <=> p \notin Servers
      /\ \E c \in Clients : TRUE
  BY Roles
<1>4. \A p, q \in Procs : Name[p] = Name[q] => p = q
  BY IpcAssumption
<1> QED
  BY <1>1, <1>2, <1>3, <1>4, NameFacts, SlotFacts, IpcAssumption DEF ClientNames

\* The channel from c to s.
TBox(s, c) == InTransit(s, Name[c]) \o Blocked(s, Name[c])

LEMMA Boxes ==
  ASSUME NEW s \in Servers, NEW c \in Clients
  PROVE  TInbox[s][Name[c]] = TBox(s, c) /\ TInbox'[s][Name[c]] = TBox(s, c)'
<1>1. Name[c] \in ClientNames
  BY DEF ClientNames
<1> QED
  BY <1>1 DEF TInbox, TBox

\* A channel that a step leaves alone, and whose server receives from nobody, or
\* from another client.
LEMMA SameChannel ==
  ASSUME NEW s \in Servers, NEW c \in Clients,
         TBox(s, c)' = TBox(s, c),
         Got'[s] = Got[s] \/ Got'[s].from # Name[c]
  PROVE  ChannelStep(s, c)
BY Boxes DEF ChannelStep

\* A step that moves no message of a client that is not harmed.
LEMMA TSame ==
  ASSUME Got' = Got,
         \A s \in Servers, c \in Clients \ harmed' :
           /\ InTransit(s, Name[c])' = InTransit(s, Name[c])
           /\ Blocked(s, Name[c])' = Blocked(s, Name[c])
  PROVE  Kept
<1> SUFFICES ASSUME NEW s \in Servers, NEW c \in Clients \ harmed'
             PROVE  ChannelStep(s, c)
  BY DEF Kept
<1>1. TBox(s, c)' = TBox(s, c)
  BY DEF TBox
<1> QED
  BY <1>1, SameChannel

\* While everybody is stuck there is nothing in any channel.
NothingSent == \A t \in Servers, c \in Clients : TBox(t, c) = <<>>

LEMMA StuckChannels == Base /\ Stuck => NothingSent
<1> SUFFICES ASSUME Base, Stuck, NEW t \in Servers, NEW c \in Clients
             PROVE  TBox(t, c) = <<>>
  BY DEF NothingSent
<1>1. at[t] # "take" /\ t \in Procs /\ c \in Procs
  BY Parties DEF Base, InCall, Stuck
<1>2. Handed(t, Name[c]) = <<>>
  BY <1>1, Parties DEF Handed, Stuck
<1>3. InTransit(t, Name[c]) = <<>>
  BY <1>1, <1>2 DEF InTransit
<1>4. Blocked(t, Name[c]) = <<>>
  BY <1>1, Parties DEF Blocked, Stuck, Empty
<1> QED
  BY <1>3, <1>4, Short DEF TBox

LEMMA StuckKeeps ==
  ASSUME Base, Stuck, Base', Stuck',
         \A t \in Servers : Got'[t] = Got[t] \/ Got'[t].from = 0
  PROVE  Kept
<1> SUFFICES ASSUME NEW t \in Servers, NEW c \in Clients \ harmed'
             PROVE  ChannelStep(t, c)
  BY DEF Kept
<1>1. TBox(t, c) = <<>>
  BY StuckChannels DEF NothingSent
<1>2. TBox(t, c)' = <<>>
  <2>1. NothingSent'
    BY StuckChannels, PTL
  <2> QED
    BY <2>1 DEF NothingSent
<1>3. Got'[t] = Got[t] \/ Got'[t].from # Name[c]
  BY Parties
<1> QED
  BY <1>1, <1>2, <1>3, SameChannel

------------------------------------------------------------------------------
(* The steps.                                                              *)

\* A client calls send().
LEMMA CallSend ==
  ASSUME Sound, call_send, UNCHANGED harmed
  PROVE  Sound' /\ Kept
<1>1. Typed /\ UserMode /\ current \in Clients /\ trap[current] = "user" /\ at[current] = "user"
  BY Parties DEF call_send, uservec, UserMode, Sound, Base, InCall
<1>2. PICK s \in Servers, b \in Body :
        /\ trap' = [trap EXCEPT ![current] = "send"]
        /\ trapframe' = [trapframe EXCEPT ![current] = [a3 |-> 0, body |-> b]]
        /\ peer' = [peer EXCEPT ![current] = s]
  BY DEF call_send, uservec
<1>3. /\ at' = [at EXCEPT ![current] = "send"]
      /\ asked' = asked \cup {current}
      /\ UNCHANGED <<state, current, idx, is_wait_msg, que, timer, panic, ipc_send>>
  BY DEF call_send, goto
<1>4. [a3 |-> 0, body |-> b] \in Regs
  BY DEF Regs
<1>5. /\ \A p \in Procs : p # current => /\ trap'[p] = trap[p] /\ trapframe'[p] = trapframe[p]
                                         /\ peer'[p] = peer[p] /\ at'[p] = at[p]
      /\ trap'[current] = "send" /\ trapframe'[current].body = b
      /\ peer'[current] = s /\ at'[current] = "send"
  BY <1>1, <1>2, <1>3, Parties DEF Typed
<1>6. Typed'
  BY <1>1, <1>2, <1>3, <1>4, <1>5, Parties DEF Typed, Sound, Base, States, Traps, Handler
<1>7. Running'
  BY <1>1, <1>2, <1>3, <1>4, <1>5, Parties DEF Running, InCall, Sound, Base
<1>8. InCall'
  BY <1>1, <1>2, <1>3, <1>4, <1>5, Parties DEF InCall, Running, Sending, Receiving, Sound, Base
<1>9. Waiting'
  BY <1>1, <1>2, <1>3, <1>4, <1>5, Parties DEF Waiting, InCall, Past, Sound, Base
<1>10. Senders'
  <2>1. ASSUME NEW c \in Clients, c # current
        PROVE  /\ at'[c] = "end" /\ trap'[c] = trap[c] /\ peer'[c] = peer[c] /\ c \in Procs
               /\ c \in asked' <=> c \in asked
               /\ QueuedAt(c, peer[c])' <=> QueuedAt(c, peer[c])
               /\ at[peer[c]] = "take" /\ peer[peer[c]] = c =>
                    at'[peer[c]] = "take" /\ peer'[peer[c]] = c
    BY <1>1, <1>2, <1>3, <1>4, <1>5, <2>1, Parties DEF Sound, Base, InCall, QueuedAt, Typed
  <2> QED
    BY <1>1, <1>2, <1>3, <1>4, <1>5, <2>1, Parties, SMTT(30)
    DEF Sound, Base, Senders, InCall, Sending
<1>11. Receivers'
  BY <1>1, <1>2, <1>3, <1>4, <1>5, Parties
  DEF Receivers, InCall, Running, Senders, Waiting, Past, QueuedAt, Empty, Sending,
      Receiving, Sound, Base
<1>12. Kept
  <2>1. ASSUME NEW t \in Servers, NEW c \in Clients \ harmed
        PROVE  InTransit(t, Name[c])' = InTransit(t, Name[c])
    BY <1>1, <1>2, <1>3, <1>4, <1>5, <2>1, Parties
    DEF Sound, Base, InCall, Running, Receivers, InTransit, Handed, Sending, Receiving
  <2>2. ASSUME NEW t \in Servers, NEW c \in Clients \ harmed
        PROVE  Blocked(t, Name[c])' = Blocked(t, Name[c])
    BY <1>1, <1>2, <1>3, <1>4, <1>5, <2>2, Parties
    DEF Sound, Base, InCall, Waiting, Past, Blocked, Sending, Receiving
  <2>3. Got' = Got
    BY <1>1, <1>2, <1>3, <1>4, <1>5 DEF Got
  <2> QED
    BY <2>1, <2>2, <2>3, TSame
<1> QED
  BY <1>6, <1>7, <1>8, <1>9, <1>10, <1>11, <1>12 DEF Sound, Base

\* A server calls recv().
LEMMA CallRecv ==
  ASSUME Base, call_recv, UNCHANGED harmed
  PROVE  /\ Base'
         /\ Sound => Sound' /\ Kept
         /\ Stuck => Stuck' /\ Kept
<1>1. Typed /\ UserMode /\ current \in Servers /\ trap[current] = "user" /\ at[current] = "user"
  BY Parties DEF call_recv, uservec, UserMode, Base, InCall
<1>2. /\ trap' = [trap EXCEPT ![current] = "recv"]
      /\ trapframe' = [trapframe EXCEPT ![current] = Stale]
      /\ at' = [at EXCEPT ![current] = "recv"]
      /\ UNCHANGED <<state, current, idx, is_wait_msg, que, timer, panic, ipc_send, peer, asked>>
  BY DEF call_recv, goto, uservec
<1>3. /\ \A p \in Procs : p # current => /\ trap'[p] = trap[p] /\ trapframe'[p] = trapframe[p]
                                         /\ at'[p] = at[p]
      /\ trap'[current] = "recv" /\ trapframe'[current] = Stale /\ at'[current] = "recv"
  BY <1>1, <1>2, Parties DEF Typed
<1>4. Typed'
  BY <1>1, <1>2, <1>3, Parties DEF Typed, Base, States, Traps, Handler
<1>5. Running'
  BY <1>1, <1>2, <1>3, Parties DEF Running, InCall, Base
<1>6. InCall'
  BY <1>1, <1>2, <1>3, Parties DEF InCall, Running, Sending, Receiving, Base
<1>7. ASSUME Sound
      PROVE  Sound' /\ Kept
  <2>1. Waiting'
    BY <1>1, <1>2, <1>3, <1>7, Parties DEF Waiting, InCall, Past, Sound, Base
  <2>2. Senders'
    BY <1>1, <1>2, <1>3, <1>7, Parties
    DEF Senders, InCall, Running, Receivers, Waiting, Past, QueuedAt, Empty, Sending,
        Receiving, Sound, Base
  <2>3. Receivers'
    BY <1>1, <1>2, <1>3, <1>7, Parties
    DEF Senders, InCall, Running, Receivers, Waiting, Past, QueuedAt, Empty, Sending,
        Receiving, Sound, Base
  <2>4. Kept
    <3>1. ASSUME NEW s \in Servers, NEW c \in Clients \ harmed
          PROVE  InTransit(s, Name[c])' = InTransit(s, Name[c])
      BY <1>1, <1>2, <1>3, <1>7, <3>1, Parties
      DEF Sound, Base, InCall, Running, Receivers, InTransit, Handed, Sending, Receiving
    <3>2. ASSUME NEW s \in Servers, NEW c \in Clients \ harmed
          PROVE  Blocked(s, Name[c])' = Blocked(s, Name[c])
      BY <1>1, <1>2, <1>3, <1>7, <3>2, Parties
      DEF Sound, Base, InCall, Waiting, Past, Blocked, Sending, Receiving
    <3>3. Got' = Got
      BY <1>1, <1>2, <1>3, <1>7 DEF Got
    <3> QED
      BY <3>1, <3>2, <3>3, TSame
  <2> QED
    BY <1>4, <1>5, <1>6, <2>1, <2>2, <2>3, <2>4 DEF Sound, Base
<1>8. ASSUME Stuck
      PROVE  Stuck' /\ Kept
  <2>1. Stuck'
    BY <1>1, <1>2, <1>3, <1>8, Parties DEF Stuck, Empty
  <2>2. Got' = Got
    BY <1>1, <1>2, <1>3 DEF Got
  <2> QED
    BY <1>4, <1>5, <1>6, <1>8, <2>1, <2>2, StuckKeeps DEF Base
<1> QED
  BY <1>4, <1>5, <1>6, <1>7, <1>8 DEF Base

\* copy_reg() to a server that sleeps.
LEMMA SendCopies ==
  ASSUME Sound, send_copies, UNCHANGED harmed
  PROVE  Sound' /\ Kept
<1>1. /\ Typed /\ current \in Procs /\ at[current] = "send"
      /\ state[peer[current]] = "SLEEP"
  BY DEF send_copies, Here, Kernel, Sound, Base
<1>2. /\ current \in Clients /\ peer[current] \in Servers /\ trapframe[current].body \in Body
      /\ trap[current] = "send"
  BY <1>1 DEF Sound, Base, InCall, Sending
<1>3. /\ trapframe' = [trapframe EXCEPT ![peer[current]] =
                     [a3 |-> Name[current], body |-> trapframe[current].body]]
      /\ at' = [at EXCEPT ![current] = "clear"]
      /\ UNCHANGED <<state, current, idx, is_wait_msg, que, trap, timer, panic, ipc_send,
                     peer, asked>>
  BY DEF send_copies, copy_reg, goto
<1>4. [a3 |-> Name[current], body |-> trapframe[current].body] \in Regs
  BY <1>1, <1>2, Parties
<1>5. /\ \A p \in Procs : p # current => at'[p] = at[p]
      /\ \A p \in Procs : p # peer[current] => trapframe'[p] = trapframe[p]
      /\ trapframe'[peer[current]] = [a3 |-> Name[current], body |-> trapframe[current].body]
      /\ at'[current] = "clear" /\ peer[current] # current
  BY <1>1, <1>2, <1>3, Parties DEF Typed
<1>6. Typed'
  BY <1>1, <1>2, <1>3, <1>4, <1>5, Parties DEF Typed, Sound, Base, States, Traps, Handler
<1>7. Running'
  BY <1>1, <1>2, <1>3, <1>4, <1>5, Parties DEF Running, InCall, Sound, Base
<1>8. InCall'
  BY <1>1, <1>2, <1>3, <1>4, <1>5, Parties DEF InCall, Running, Sending, Receiving, Sound, Base
<1>9. Waiting'
  BY <1>1, <1>2, <1>3, <1>4, <1>5, Parties DEF Waiting, InCall, Past, Sound, Base
<1>10. Senders'
  BY <1>1, <1>2, <1>3, <1>4, <1>5, Parties
  DEF Senders, InCall, Running, Receivers, Waiting, Past, QueuedAt, Empty, Sending,
      Receiving, Sound, Base
<1>11. Receivers'
  BY <1>1, <1>2, <1>3, <1>4, <1>5, Parties
  DEF Receivers, InCall, Running, Senders, Waiting, Past, QueuedAt, Empty, Sending,
      Receiving, Sound, Base
<1>12. Kept
  <2>1. ASSUME NEW s \in Servers, NEW c \in Clients \ harmed
        PROVE  InTransit(s, Name[c])' = InTransit(s, Name[c])
    BY <1>1, <1>2, <1>3, <1>4, <1>5, <2>1, Parties
    DEF Sound, Base, InCall, Running, Receivers, InTransit, Handed, Sending, Receiving
  <2>2. ASSUME NEW s \in Servers, NEW c \in Clients \ harmed
        PROVE  Blocked(s, Name[c])' = Blocked(s, Name[c])
    BY <1>1, <1>2, <1>3, <1>4, <1>5, <2>2, Parties
    DEF Sound, Base, InCall, Waiting, Past, Blocked, Sending, Receiving
  <2>3. Got' = Got
    BY <1>1, <1>2, <1>3, <1>4, <1>5 DEF Got
  <2> QED
    BY <2>1, <2>2, <2>3, TSame
<1> QED
  BY <1>6, <1>7, <1>8, <1>9, <1>10, <1>11, <1>12 DEF Sound, Base

\* The flag of the server goes down.
LEMMA SendClears ==
  ASSUME Sound, set_flag("clear", peer[current], 0, "sleep"), UNCHANGED asked, UNCHANGED harmed
  PROVE  Sound' /\ Kept
<1>1. Typed /\ current \in Procs /\ at[current] = "clear"
  BY DEF set_flag, Here, Kernel, Sound, Base
<1>2. /\ current \in Clients /\ trap[current] = "send"
      /\ peer[current] \in Servers /\ peer[current] # current
  BY <1>1, Parties DEF Sound, Base, InCall, Sending
<1>3. /\ is_wait_msg' = [is_wait_msg EXCEPT ![peer[current]] = 0]
      /\ at' = [at EXCEPT ![current] = "sleep"]
      /\ UNCHANGED <<state, current, idx, que, trapframe, trap, timer, panic, ipc_send, peer,
                     asked>>
  BY DEF set_flag, goto
<1>4. /\ \A p \in Procs : p # current => at'[p] = at[p]
      /\ \A p \in Procs : p # peer[current] => is_wait_msg'[p] = is_wait_msg[p]
      /\ at'[current] = "sleep" /\ is_wait_msg'[peer[current]] = 0
  BY <1>1, <1>2, <1>3, Parties DEF Typed
<1>5. Typed'
  BY <1>1, <1>2, <1>3, <1>4, Parties DEF Typed, Sound, Base, States, Traps, Handler
<1>6. Running'
  BY <1>1, <1>2, <1>3, <1>4, Parties DEF Running, InCall, Sound, Base
<1>7. InCall'
  BY <1>1, <1>2, <1>3, <1>4, Parties DEF InCall, Running, Sending, Receiving, Sound, Base
<1>8. Waiting'
  BY <1>1, <1>2, <1>3, <1>4, Parties DEF Waiting, InCall, Past, Sound, Base
<1>9. Senders'
  BY <1>1, <1>2, <1>3, <1>4, Parties
  DEF Senders, InCall, Running, Receivers, Waiting, Past, QueuedAt, Empty, Sending,
      Receiving, Sound, Base
<1>10. Receivers'
  BY <1>1, <1>2, <1>3, <1>4, Parties
  DEF Receivers, InCall, Running, Senders, Waiting, Past, QueuedAt, Empty, Sending,
      Receiving, Sound, Base
<1>11. Kept
  <2>1. ASSUME NEW s \in Servers, NEW c \in Clients \ harmed
        PROVE  InTransit(s, Name[c])' = InTransit(s, Name[c])
    BY <1>1, <1>2, <1>3, <1>4, <2>1, Parties
    DEF Sound, Base, InCall, Running, Receivers, InTransit, Handed, Sending, Receiving
  <2>2. ASSUME NEW s \in Servers, NEW c \in Clients \ harmed
        PROVE  Blocked(s, Name[c])' = Blocked(s, Name[c])
    BY <1>1, <1>2, <1>3, <1>4, <2>2, Parties
    DEF Sound, Base, InCall, Waiting, Past, Blocked, Sending, Receiving
  <2>3. Got' = Got
    BY <1>1, <1>2, <1>3, <1>4 DEF Got
  <2> QED
    BY <2>1, <2>2, <2>3, TSame
<1> QED
  BY <1>5, <1>6, <1>7, <1>8, <1>9, <1>10, <1>11 DEF Sound, Base

\* The sender sleeps, but unflagged.
LEMMA SendSleeps ==
  ASSUME Sound, set_state("sleep", current, "SLEEP", "wake"), UNCHANGED asked, UNCHANGED harmed
  PROVE  Sound' /\ Kept
<1>1. Typed /\ current \in Procs /\ at[current] = "sleep"
  BY DEF set_state, Here, Kernel, Sound, Base
<1>2. /\ current \in Clients /\ trap[current] = "send"
      /\ peer[current] \in Servers /\ peer[current] # current
  BY <1>1, Parties DEF Sound, Base, InCall, Sending
<1>3. /\ state' = [state EXCEPT ![current] = "SLEEP"]
      /\ at' = [at EXCEPT ![current] = "wake"]
      /\ UNCHANGED asked
      /\ UNCHANGED <<current, idx, is_wait_msg, que, trapframe, trap, timer, panic, ipc_send,
                     peer>>
  BY DEF set_state, goto
<1>4. /\ \A p \in Procs : p # current => at'[p] = at[p]
      /\ \A s \in Slots : s # current => state'[s] = state[s]
      /\ at'[current] = "wake" /\ state'[current] = "SLEEP"
  BY <1>1, <1>2, <1>3, Parties DEF Typed
<1>5. Typed'
  BY <1>1, <1>2, <1>3, <1>4, Parties DEF Typed, Sound, Base, States, Traps, Handler
<1>6. Running'
  BY <1>1, <1>2, <1>3, <1>4, Parties DEF Running, InCall, Sound, Base
<1>7. InCall'
  BY <1>1, <1>2, <1>3, <1>4, Parties DEF InCall, Running, Sending, Receiving, Sound, Base
<1>8. Waiting'
  BY <1>1, <1>2, <1>3, <1>4, Parties DEF Waiting, InCall, Past, Sound, Base
<1>9. Senders'
  BY <1>1, <1>2, <1>3, <1>4, Parties
  DEF Senders, InCall, Running, Receivers, Waiting, Past, QueuedAt, Empty, Sending,
      Receiving, Sound, Base
<1>10. Receivers'
  BY <1>1, <1>2, <1>3, <1>4, Parties
  DEF Receivers, InCall, Running, Senders, Waiting, Past, QueuedAt, Empty, Sending,
      Receiving, Sound, Base
<1>11. Kept
  <2>1. ASSUME NEW s \in Servers, NEW c \in Clients \ harmed
        PROVE  InTransit(s, Name[c])' = InTransit(s, Name[c])
    BY <1>1, <1>2, <1>3, <1>4, <2>1, Parties
    DEF Sound, Base, InCall, Running, Receivers, InTransit, Handed, Sending, Receiving
  <2>2. ASSUME NEW s \in Servers, NEW c \in Clients \ harmed
        PROVE  Blocked(s, Name[c])' = Blocked(s, Name[c])
    BY <1>1, <1>2, <1>3, <1>4, <2>2, Parties
    DEF Sound, Base, InCall, Waiting, Past, Blocked, Sending, Receiving
  <2>3. Got' = Got
    BY <1>1, <1>2, <1>3, <1>4 DEF Got
  <2> QED
    BY <2>1, <2>2, <2>3, TSame
<1> QED
  BY <1>5, <1>6, <1>7, <1>8, <1>9, <1>10, <1>11 DEF Sound, Base

\* The server is ready, with the message.
LEMMA SendWakes ==
  ASSUME Sound, set_state("wake", peer[current], "RUNABBLE", "tail"),
         asked' = asked \ {current}, UNCHANGED harmed
  PROVE  Sound' /\ Kept
<1>1. Typed /\ current \in Procs /\ at[current] = "wake"
  BY DEF set_state, Here, Kernel, Sound, Base
<1>2. /\ current \in Clients /\ trap[current] = "send"
      /\ peer[current] \in Servers /\ peer[current] # current
  BY <1>1, Parties DEF Sound, Base, InCall, Sending
<1>3. /\ state' = [state EXCEPT ![peer[current]] = "RUNABBLE"]
      /\ at' = [at EXCEPT ![current] = "tail"]
      /\ asked' = asked \ {current}
      /\ UNCHANGED <<current, idx, is_wait_msg, que, trapframe, trap, timer, panic, ipc_send,
                     peer>>
  BY DEF set_state, goto
<1>4. /\ \A p \in Procs : p # current => at'[p] = at[p]
      /\ \A s \in Slots : s # peer[current] => state'[s] = state[s]
      /\ at'[current] = "tail" /\ state'[peer[current]] = "RUNABBLE"
  BY <1>1, <1>2, <1>3, Parties DEF Typed
<1>5. Typed'
  BY <1>1, <1>2, <1>3, <1>4, Parties DEF Typed, Sound, Base, States, Traps, Handler
<1>6. Running'
  BY <1>1, <1>2, <1>3, <1>4, Parties DEF Running, InCall, Sound, Base
<1>7. InCall'
  BY <1>1, <1>2, <1>3, <1>4, Parties DEF InCall, Running, Sending, Receiving, Sound, Base
<1>8. Waiting'
  BY <1>1, <1>2, <1>3, <1>4, Parties DEF Waiting, InCall, Past, Sound, Base
<1>9. Senders'
  BY <1>1, <1>2, <1>3, <1>4, Parties
  DEF Senders, InCall, Running, Receivers, Waiting, Past, QueuedAt, Empty, Sending,
      Receiving, Sound, Base
<1>10. Receivers'
  <2>1. is_wait_msg[peer[current]] # 1 /\ at'[peer[current]] = "end"
    <3>1. is_wait_msg[peer[current]] # 1
      BY <1>1, <1>2 DEF Sound, Senders
    <3>2. at'[peer[current]] = "end"
      BY <1>2, <1>4, Parties DEF Sound, Base, InCall
    <3> QED
      BY <3>1, <3>2
  <2>2. ASSUME NEW s \in Servers, s # peer[current]
        PROVE  state'[s] = state[s] /\ at'[s] = at[s] /\ at[s] = "end"
    BY <1>1, <1>2, <1>3, <1>4, <2>2, Parties DEF Sound, Base, InCall
  <2> QED
    BY <1>1, <1>2, <1>3, <1>4, <2>1, <2>2, Parties DEF Sound, Base, Receivers, Empty
<1>11. Kept
  <2>1. PICK q \in Servers, d \in Clients, b \in Body :
          q = peer[current] /\ d = current /\ b = trapframe[current].body
    BY <1>1, <1>2, <1>3, <1>4 DEF Sound, Base, InCall
  <2>2. /\ trapframe[q].a3 = Name[d] /\ trapframe[q].body = b
        /\ state[q] = "SLEEP" /\ trap[q] = "recv" /\ at[q] = "end" /\ at'[q] = "end"
        /\ state'[q] = "RUNABBLE" /\ q \in Procs /\ q # current
    <3>1. trapframe[q] = [a3 |-> Name[d], body |-> b] /\ state[q] = "SLEEP"
      BY <1>1, <1>2, <1>3, <1>4, <2>1 DEF Sound, Base, Senders
    <3> QED
      BY <1>1, <1>2, <1>3, <1>4, <2>1, <3>1, Parties DEF Sound, Base, InCall, Receivers
  <2>3. ASSUME NEW s \in Servers, NEW c \in Clients, s # q \/ c # d
        PROVE  InTransit(s, Name[c])' = InTransit(s, Name[c])
    <3>1. CASE s = q
      BY <1>1, <1>2, <1>3, <1>4, <2>1, <2>2, <2>3, <3>1, Parties DEF InTransit, Handed
    <3>2. CASE s # q
      <4>1. s # current /\ s \in Procs /\ s \in Slots
        BY <1>1, <1>2, <1>3, <1>4, Parties
      <4> QED
        BY <1>1, <1>2, <1>3, <1>4, <2>1, <3>2, <4>1 DEF InTransit, Handed
    <3> QED
      BY <3>1, <3>2
  <2>4. ASSUME NEW s \in Servers, NEW c \in Clients
        PROVE  Blocked(s, Name[c])' = Blocked(s, Name[c])
    BY <1>1, <1>2, <1>3, <1>4, <2>4 DEF Blocked
  <2>5. \A j \in Slots : que[q][j] # Name[d]
    BY <2>2, Parties DEF Sound, Receivers, Empty
  <2>6. InTransit(q, Name[d]) = <<>> /\ Blocked(q, Name[d]) = <<>>
    BY <2>2, <2>5 DEF InTransit, Handed, Blocked
  <2>7. InTransit(q, Name[d])' = <<b>>
    BY <1>1, <1>2, <1>3, <1>4, <2>2 DEF InTransit, Handed
  <2>8. TBox(q, d) = <<>> /\ TBox(q, d)' = <<b>>
    <3>1. Blocked(q, Name[d])' = <<>>
      BY <2>4, <2>6
    <3>2. TBox(q, d) = <<>> \o <<>>
      BY <2>6 DEF TBox
    <3>3. TBox(q, d)' = <<b>> \o <<>>
      BY <2>7, <3>1 DEF TBox
    <3> QED
      BY <3>2, <3>3, Short
  <2>9. Got' = Got
    BY <1>1, <1>2, <1>3, <1>4 DEF Got
  <2>10. ChannelStep(q, d)
    <3>1. TBox(q, d)' = Append(TBox(q, d), b) /\ Len(TBox(q, d)) < 2
      BY <2>8, Short
    <3> QED
      BY <2>9, <3>1, Boxes DEF ChannelStep
  <2>11. ASSUME NEW s \in Servers, NEW c \in Clients, s # q \/ c # d
         PROVE  ChannelStep(s, c)
    <3>1. TBox(s, c)' = TBox(s, c)
      BY <2>3, <2>4, <2>11 DEF TBox
    <3> QED
      BY <2>9, <3>1, SameChannel
  <2> QED
    BY <2>10, <2>11 DEF Kept
<1> QED
  BY <1>5, <1>6, <1>7, <1>8, <1>9, <1>10, <1>11 DEF Sound, Base

\* A queued sender sets its flag, ...
LEMMA SendFlags ==
  ASSUME Sound, set_flag("flag", current, 1, "doze"), UNCHANGED asked, UNCHANGED harmed
  PROVE  Sound' /\ Kept
<1>1. Typed /\ current \in Procs /\ at[current] = "flag"
  BY DEF set_flag, Here, Kernel, Sound, Base
<1>2. /\ current \in Clients /\ trap[current] = "send"
      /\ peer[current] \in Servers /\ peer[current] # current
  BY <1>1, Parties DEF Sound, Base, InCall, Sending
<1>3. /\ is_wait_msg' = [is_wait_msg EXCEPT ![current] = 1]
      /\ at' = [at EXCEPT ![current] = "doze"]
      /\ UNCHANGED <<state, current, idx, que, trapframe, trap, timer, panic, ipc_send, peer,
                     asked>>
  BY DEF set_flag, goto
<1>4. /\ \A p \in Procs : p # current => at'[p] = at[p]
      /\ \A p \in Procs : p # current => is_wait_msg'[p] = is_wait_msg[p]
      /\ at'[current] = "doze" /\ is_wait_msg'[current] = 1
  BY <1>1, <1>2, <1>3, Parties DEF Typed
<1>5. Typed'
  BY <1>1, <1>2, <1>3, <1>4, Parties DEF Typed, Sound, Base, States, Traps, Handler
<1>6. Running'
  BY <1>1, <1>2, <1>3, <1>4, Parties DEF Running, InCall, Sound, Base
<1>7. InCall'
  BY <1>1, <1>2, <1>3, <1>4, Parties DEF InCall, Running, Sending, Receiving, Sound, Base
<1>8. Waiting'
  BY <1>1, <1>2, <1>3, <1>4, Parties DEF Waiting, InCall, Past, Sound, Base
<1>9. Senders'
  BY <1>1, <1>2, <1>3, <1>4, Parties
  DEF Senders, InCall, Running, Receivers, Waiting, Past, QueuedAt, Empty, Sending,
      Receiving, Sound, Base
<1>10. Receivers'
  BY <1>1, <1>2, <1>3, <1>4, Parties
  DEF Receivers, InCall, Running, Senders, Waiting, Past, QueuedAt, Empty, Sending,
      Receiving, Sound, Base
<1>11. Kept
  <2>1. ASSUME NEW s \in Servers, NEW c \in Clients \ harmed
        PROVE  InTransit(s, Name[c])' = InTransit(s, Name[c])
    BY <1>1, <1>2, <1>3, <1>4, <2>1, Parties
    DEF Sound, Base, InCall, Running, Receivers, InTransit, Handed, Sending, Receiving
  <2>2. ASSUME NEW s \in Servers, NEW c \in Clients \ harmed
        PROVE  Blocked(s, Name[c])' = Blocked(s, Name[c])
    BY <1>1, <1>2, <1>3, <1>4, <2>2, Parties
    DEF Sound, Base, InCall, Waiting, Past, Blocked, Sending, Receiving
  <2>3. Got' = Got
    BY <1>1, <1>2, <1>3, <1>4 DEF Got
  <2> QED
    BY <2>1, <2>2, <2>3, TSame
<1> QED
  BY <1>5, <1>6, <1>7, <1>8, <1>9, <1>10, <1>11 DEF Sound, Base

\* ... and sleeps.
LEMMA SendDozes ==
  ASSUME Sound, set_state("doze", current, "SLEEP", "tail"), UNCHANGED asked, UNCHANGED harmed
  PROVE  Sound' /\ Kept
<1>1. Typed /\ current \in Procs /\ at[current] = "doze"
  BY DEF set_state, Here, Kernel, Sound, Base
<1>2. /\ current \in Clients /\ trap[current] = "send"
      /\ peer[current] \in Servers /\ peer[current] # current
  BY <1>1, Parties DEF Sound, Base, InCall, Sending
<1>3. /\ state' = [state EXCEPT ![current] = "SLEEP"]
      /\ at' = [at EXCEPT ![current] = "tail"]
      /\ UNCHANGED asked
      /\ UNCHANGED <<current, idx, is_wait_msg, que, trapframe, trap, timer, panic, ipc_send,
                     peer>>
  BY DEF set_state, goto
<1>4. /\ \A p \in Procs : p # current => at'[p] = at[p]
      /\ \A s \in Slots : s # current => state'[s] = state[s]
      /\ at'[current] = "tail" /\ state'[current] = "SLEEP"
  BY <1>1, <1>2, <1>3, Parties DEF Typed
<1>5. Typed'
  BY <1>1, <1>2, <1>3, <1>4, Parties DEF Typed, Sound, Base, States, Traps, Handler
<1>6. Running'
  BY <1>1, <1>2, <1>3, <1>4, Parties DEF Running, InCall, Sound, Base
<1>7. InCall'
  BY <1>1, <1>2, <1>3, <1>4, Parties DEF InCall, Running, Sending, Receiving, Sound, Base
<1>8. Waiting'
  <2>1. \A c \in Clients : Past(c) => Past(c)'
    BY <1>1, <1>2, <1>3, <1>4, Parties, ZenonT(60) DEF Past, Sound, Base, Senders
  <2> QED
    BY <1>1, <1>2, <1>3, <1>4, <2>1 DEF Waiting, Sound, Base
<1>9. Senders'
  BY <1>1, <1>2, <1>3, <1>4, Parties
  DEF Senders, InCall, Running, Receivers, Waiting, Past, QueuedAt, Empty, Sending,
      Receiving, Sound, Base
<1>10. Receivers'
  BY <1>1, <1>2, <1>3, <1>4, Parties
  DEF Receivers, InCall, Running, Senders, Waiting, Past, QueuedAt, Empty, Sending,
      Receiving, Sound, Base
<1>11. Kept
  <2>1. ASSUME NEW s \in Servers, NEW c \in Clients \ harmed
        PROVE  InTransit(s, Name[c])' = InTransit(s, Name[c])
    BY <1>1, <1>2, <1>3, <1>4, <2>1, Parties
    DEF Sound, Base, InCall, Running, Receivers, InTransit, Handed, Sending, Receiving
  <2>2. ASSUME NEW s \in Servers, NEW c \in Clients \ harmed
        PROVE  Blocked(s, Name[c])' = Blocked(s, Name[c])
    BY <1>1, <1>2, <1>3, <1>4, <2>2, Parties
    DEF Sound, Base, InCall, Waiting, Past, Blocked, Sending, Receiving
  <2>3. Got' = Got
    BY <1>1, <1>2, <1>3, <1>4 DEF Got
  <2> QED
    BY <2>1, <2>2, <2>3, TSame
<1> QED
  BY <1>5, <1>6, <1>7, <1>8, <1>9, <1>10, <1>11 DEF Sound, Base

\* The sender whose message was taken is ready, ...
LEMMA RecvReleases ==
  ASSUME Sound, set_state("release", peer[current], "RUNABBLE", "unflag"), UNCHANGED asked,
         UNCHANGED harmed
  PROVE  Sound' /\ Kept
<1>1. Typed /\ current \in Procs /\ at[current] = "release"
  BY DEF set_state, Here, Kernel, Sound, Base
<1>2. /\ current \in Servers /\ trap[current] = "recv"
      /\ peer[current] \in Clients /\ peer[current] # current
  BY <1>1, Parties DEF Sound, Base, InCall, Receiving, Receivers
<1>3. /\ state' = [state EXCEPT ![peer[current]] = "RUNABBLE"]
      /\ at' = [at EXCEPT ![current] = "unflag"]
      /\ UNCHANGED asked
      /\ UNCHANGED <<current, idx, is_wait_msg, que, trapframe, trap, timer, panic, ipc_send,
                     peer>>
  BY DEF set_state, goto
<1>4. /\ \A p \in Procs : p # current => at'[p] = at[p]
      /\ \A s \in Slots : s # peer[current] => state'[s] = state[s]
      /\ at'[current] = "unflag" /\ state'[peer[current]] = "RUNABBLE"
  BY <1>1, <1>2, <1>3, Parties DEF Typed
<1>5. Typed'
  BY <1>1, <1>2, <1>3, <1>4, Parties DEF Typed, Sound, Base, States, Traps, Handler
<1>6. Running'
  BY <1>1, <1>2, <1>3, <1>4, Parties DEF Running, InCall, Sound, Base
<1>7. InCall'
  BY <1>1, <1>2, <1>3, <1>4, Parties DEF InCall, Running, Sending, Receiving, Sound, Base
<1>8. Waiting'
  <2>1. \A c \in Clients : c # peer[current] /\ Past(c) => Past(c)'
    BY <1>1, <1>2, <1>3, <1>4, Parties DEF Past, Sound, Base, InCall
  <2>2. \A p \in Procs, i \in Slots :
          que[p][i] # 0 /\ find_name_process(que[p][i]) \notin harmed =>
            find_name_process(que[p][i]) # peer[current]
    BY <1>1, <1>2, <1>3, <1>4, Parties DEF Sound, Base, Waiting, Receivers, QueuedAt
  <2> QED
    BY <1>1, <1>2, <1>3, <1>4, <2>1, <2>2 DEF Waiting, Sound, Base
<1>9. Senders'
  BY <1>1, <1>2, <1>3, <1>4, Parties
  DEF Senders, InCall, Running, Receivers, Waiting, Past, QueuedAt, Empty, Sending,
      Receiving, Sound, Base
<1>10. Receivers'
  BY <1>1, <1>2, <1>3, <1>4, Parties
  DEF Receivers, InCall, Running, Senders, Waiting, Past, QueuedAt, Empty, Sending,
      Receiving, Sound, Base
<1>11. Kept
  <2>1. ASSUME NEW s \in Servers, NEW c \in Clients \ harmed
        PROVE  InTransit(s, Name[c])' = InTransit(s, Name[c])
    BY <1>1, <1>2, <1>3, <1>4, <2>1, Parties
    DEF Sound, Base, InCall, Running, Receivers, InTransit, Handed, Sending, Receiving
  <2>2. ASSUME NEW s \in Servers, NEW c \in Clients \ harmed
        PROVE  Blocked(s, Name[c])' = Blocked(s, Name[c])
    BY <1>1, <1>2, <1>3, <1>4, <2>2, Parties
    DEF Sound, Base, InCall, Waiting, Past, Blocked, Sending, Receiving
  <2>3. Got' = Got
    BY <1>1, <1>2, <1>3, <1>4 DEF Got
  <2> QED
    BY <2>1, <2>2, <2>3, TSame
<1> QED
  BY <1>5, <1>6, <1>7, <1>8, <1>9, <1>10, <1>11 DEF Sound, Base

\* ... and unflagged.
LEMMA RecvUnflags ==
  ASSUME Sound, set_flag("unflag", peer[current], 0, "tail"), UNCHANGED asked, UNCHANGED harmed
  PROVE  Sound' /\ Kept
<1>1. Typed /\ current \in Procs /\ at[current] = "unflag"
  BY DEF set_flag, Here, Kernel, Sound, Base
<1>2. /\ current \in Servers /\ trap[current] = "recv"
      /\ peer[current] \in Clients /\ peer[current] # current
  BY <1>1, Parties DEF Sound, Base, InCall, Receiving, Receivers
<1>3. /\ is_wait_msg' = [is_wait_msg EXCEPT ![peer[current]] = 0]
      /\ at' = [at EXCEPT ![current] = "tail"]
      /\ UNCHANGED <<state, current, idx, que, trapframe, trap, timer, panic, ipc_send, peer,
                     asked>>
  BY DEF set_flag, goto
<1>4. /\ \A p \in Procs : p # current => at'[p] = at[p]
      /\ \A p \in Procs : p # peer[current] => is_wait_msg'[p] = is_wait_msg[p]
      /\ at'[current] = "tail" /\ is_wait_msg'[peer[current]] = 0
  BY <1>1, <1>2, <1>3, Parties DEF Typed
<1>5. Typed'
  BY <1>1, <1>2, <1>3, <1>4, Parties DEF Typed, Sound, Base, States, Traps, Handler
<1>6. Running'
  BY <1>1, <1>2, <1>3, <1>4, Parties DEF Running, InCall, Sound, Base
<1>7. InCall'
  BY <1>1, <1>2, <1>3, <1>4, Parties DEF InCall, Running, Sending, Receiving, Sound, Base
<1>8. Waiting'
  <2>1. \A c \in Clients : c # peer[current] /\ Past(c) => Past(c)'
    BY <1>1, <1>2, <1>3, <1>4, Parties DEF Past, Sound, Base, InCall
  <2>2. \A p \in Procs, i \in Slots :
          que[p][i] # 0 /\ find_name_process(que[p][i]) \notin harmed =>
            find_name_process(que[p][i]) # peer[current]
    BY <1>1, <1>2, <1>3, <1>4, Parties DEF Sound, Base, Waiting, Receivers, QueuedAt
  <2> QED
    BY <1>1, <1>2, <1>3, <1>4, <2>1, <2>2 DEF Waiting, Sound, Base
<1>9. Senders'
  BY <1>1, <1>2, <1>3, <1>4, Parties
  DEF Senders, InCall, Running, Receivers, Waiting, Past, QueuedAt, Empty, Sending,
      Receiving, Sound, Base
<1>10. Receivers'
  BY <1>1, <1>2, <1>3, <1>4, Parties
  DEF Receivers, InCall, Running, Senders, Waiting, Past, QueuedAt, Empty, Sending,
      Receiving, Sound, Base
<1>11. Kept
  <2>1. ASSUME NEW s \in Servers, NEW c \in Clients \ harmed
        PROVE  InTransit(s, Name[c])' = InTransit(s, Name[c])
    BY <1>1, <1>2, <1>3, <1>4, <2>1, Parties
    DEF Sound, Base, InCall, Running, Receivers, InTransit, Handed, Sending, Receiving
  <2>2. ASSUME NEW s \in Servers, NEW c \in Clients \ harmed
        PROVE  Blocked(s, Name[c])' = Blocked(s, Name[c])
    BY <1>1, <1>2, <1>3, <1>4, <2>2, Parties
    DEF Sound, Base, InCall, Waiting, Past, Blocked, Sending, Receiving
  <2>3. Got' = Got
    BY <1>1, <1>2, <1>3, <1>4 DEF Got
  <2> QED
    BY <2>1, <2>2, <2>3, TSame
<1> QED
  BY <1>5, <1>6, <1>7, <1>8, <1>9, <1>10, <1>11 DEF Sound, Base

\* A server with an empty queue sleeps, ...
LEMMA RecvRests ==
  ASSUME Base, Empty(que[current]), set_state("recv", current, "SLEEP", "mark"),
         UNCHANGED asked, UNCHANGED harmed
  PROVE  /\ Base'
         /\ Sound => Sound' /\ Kept
         /\ Stuck => Stuck' /\ Kept
<1>1. Typed /\ current \in Procs /\ at[current] = "recv"
  BY DEF set_state, Here, Kernel, Base
<1>2. current \in Servers /\ trap[current] = "recv" /\ current \in Procs
  BY <1>1, Parties DEF Base, InCall, Receiving
<1>3. /\ state' = [state EXCEPT ![current] = "SLEEP"]
      /\ at' = [at EXCEPT ![current] = "mark"]
      /\ UNCHANGED asked
      /\ UNCHANGED <<current, idx, is_wait_msg, que, trapframe, trap, timer, panic, ipc_send,
                     peer>>
  BY DEF set_state, goto
<1>4. /\ \A p \in Procs : p # current => at'[p] = at[p]
      /\ \A s \in Slots : s # current => state'[s] = state[s]
      /\ at'[current] = "mark" /\ state'[current] = "SLEEP"
  BY <1>1, <1>2, <1>3, Parties DEF Typed
<1>5. Typed'
  BY <1>1, <1>2, <1>3, <1>4, Parties DEF Typed, Base, States, Traps, Handler
<1>6. Running'
  BY <1>1, <1>2, <1>3, <1>4, Parties DEF Running, InCall, Base
<1>7. InCall'
  BY <1>1, <1>2, <1>3, <1>4, Parties DEF InCall, Running, Sending, Receiving, Base
<1>8. ASSUME Sound
      PROVE  Sound' /\ Kept
  <2>1. Waiting'
    BY <1>1, <1>2, <1>3, <1>4, <1>8, Parties DEF Waiting, InCall, Past, Sound, Base
  <2>2. Senders'
    BY <1>1, <1>2, <1>3, <1>4, <1>8, Parties
    DEF Senders, InCall, Running, Receivers, Waiting, Past, QueuedAt, Empty, Sending,
        Receiving, Sound, Base
  <2>3. Receivers'
    BY <1>1, <1>2, <1>3, <1>4, <1>8, Parties
    DEF Senders, InCall, Running, Receivers, Waiting, Past, QueuedAt, Empty, Sending,
        Receiving, Sound, Base
  <2>4. Kept
    <3>1. ASSUME NEW s \in Servers, NEW c \in Clients \ harmed
          PROVE  InTransit(s, Name[c])' = InTransit(s, Name[c])
      BY <1>1, <1>2, <1>3, <1>4, <1>8, <3>1, Parties
      DEF Sound, Base, InCall, Running, Receivers, InTransit, Handed, Sending, Receiving
    <3>2. ASSUME NEW s \in Servers, NEW c \in Clients \ harmed
          PROVE  Blocked(s, Name[c])' = Blocked(s, Name[c])
      BY <1>1, <1>2, <1>3, <1>4, <1>8, <3>2, Parties
      DEF Sound, Base, InCall, Waiting, Past, Blocked, Sending, Receiving
    <3>3. Got' = Got
      BY <1>1, <1>2, <1>3, <1>4, <1>8 DEF Got
    <3> QED
      BY <3>1, <3>2, <3>3, TSame
  <2> QED
    BY <1>5, <1>6, <1>7, <2>1, <2>2, <2>3, <2>4 DEF Sound, Base
<1>9. ASSUME Stuck
      PROVE  Stuck' /\ Kept
  <2>1. Stuck'
    BY <1>1, <1>2, <1>3, <1>4, <1>9, Parties DEF Stuck, Empty
  <2>2. Got' = Got
    BY <1>1, <1>2, <1>3, <1>4 DEF Got
  <2> QED
    BY <1>5, <1>6, <1>7, <1>9, <2>1, <2>2, StuckKeeps DEF Base
<1> QED
  BY <1>5, <1>6, <1>7, <1>8, <1>9 DEF Base

\* ... flagged.
LEMMA RecvMarks ==
  ASSUME Base, set_flag("mark", current, 1, "tail"), UNCHANGED asked, UNCHANGED harmed
  PROVE  /\ Base'
         /\ Sound => Sound' /\ Kept
         /\ Stuck => Stuck' /\ Kept
<1>1. Typed /\ current \in Procs /\ at[current] = "mark"
  BY DEF set_flag, Here, Kernel, Base
<1>2. current \in Servers /\ trap[current] = "recv" /\ current \in Procs
  BY <1>1, Parties DEF Base, InCall, Receiving
<1>3. /\ is_wait_msg' = [is_wait_msg EXCEPT ![current] = 1]
      /\ at' = [at EXCEPT ![current] = "tail"]
      /\ UNCHANGED <<state, current, idx, que, trapframe, trap, timer, panic, ipc_send, peer,
                     asked>>
  BY DEF set_flag, goto
<1>4. /\ \A p \in Procs : p # current => at'[p] = at[p]
      /\ \A p \in Procs : p # current => is_wait_msg'[p] = is_wait_msg[p]
      /\ at'[current] = "tail" /\ is_wait_msg'[current] = 1
  BY <1>1, <1>2, <1>3, Parties DEF Typed
<1>5. Typed'
  BY <1>1, <1>2, <1>3, <1>4, Parties DEF Typed, Base, States, Traps, Handler
<1>6. Running'
  BY <1>1, <1>2, <1>3, <1>4, Parties DEF Running, InCall, Base
<1>7. InCall'
  BY <1>1, <1>2, <1>3, <1>4, Parties DEF InCall, Running, Sending, Receiving, Base
<1>8. ASSUME Sound
      PROVE  Sound' /\ Kept
  <2>1. Waiting'
    BY <1>1, <1>2, <1>3, <1>4, <1>8, Parties DEF Waiting, InCall, Past, Sound, Base
  <2>2. Senders'
    BY <1>1, <1>2, <1>3, <1>4, <1>8, Parties
    DEF Senders, InCall, Running, Receivers, Waiting, Past, QueuedAt, Empty, Sending,
        Receiving, Sound, Base
  <2>3. Receivers'
    BY <1>1, <1>2, <1>3, <1>4, <1>8, Parties
    DEF Senders, InCall, Running, Receivers, Waiting, Past, QueuedAt, Empty, Sending,
        Receiving, Sound, Base
  <2>4. Kept
    <3>1. ASSUME NEW s \in Servers, NEW c \in Clients \ harmed
          PROVE  InTransit(s, Name[c])' = InTransit(s, Name[c])
      BY <1>1, <1>2, <1>3, <1>4, <1>8, <3>1, Parties
      DEF Sound, Base, InCall, Running, Receivers, InTransit, Handed, Sending, Receiving
    <3>2. ASSUME NEW s \in Servers, NEW c \in Clients \ harmed
          PROVE  Blocked(s, Name[c])' = Blocked(s, Name[c])
      BY <1>1, <1>2, <1>3, <1>4, <1>8, <3>2, Parties
      DEF Sound, Base, InCall, Waiting, Past, Blocked, Sending, Receiving
    <3>3. Got' = Got
      BY <1>1, <1>2, <1>3, <1>4, <1>8 DEF Got
    <3> QED
      BY <3>1, <3>2, <3>3, TSame
  <2> QED
    BY <1>5, <1>6, <1>7, <2>1, <2>2, <2>3, <2>4 DEF Sound, Base
<1>9. ASSUME Stuck
      PROVE  Stuck' /\ Kept
  <2>1. Stuck'
    BY <1>1, <1>2, <1>3, <1>4, <1>9, Parties DEF Stuck, Empty
  <2>2. Got' = Got
    BY <1>1, <1>2, <1>3, <1>4 DEF Got
  <2> QED
    BY <1>5, <1>6, <1>7, <1>9, <2>1, <2>2, StuckKeeps DEF Base
<1> QED
  BY <1>5, <1>6, <1>7, <1>8, <1>9 DEF Base

\* The server copies the message of the sender it has taken out.
LEMMA RecvTakes ==
  ASSUME Sound, recv_takes, UNCHANGED harmed
  PROVE  Sound' /\ Kept
<1>1. Typed /\ current \in Procs /\ at[current] = "take"
  BY DEF recv_takes, copy_reg, Here, Kernel, Sound, Base
<1>2. /\ current \in Servers /\ trap[current] = "recv"
      /\ peer[current] \in Clients /\ peer[current] # current
  BY <1>1, Parties DEF Sound, Base, InCall, Receiving, Receivers
<1>3. /\ trapframe' = [trapframe EXCEPT ![current] =
                     [a3 |-> Name[peer[current]], body |-> trapframe[peer[current]].body]]
      /\ at' = [at EXCEPT ![current] = "release"]
      /\ asked' = asked \ {peer[current]}
      /\ UNCHANGED <<state, current, idx, is_wait_msg, que, trap, timer, panic, ipc_send, peer>>
  BY DEF recv_takes, copy_reg, goto
<1>4. [a3 |-> Name[peer[current]], body |-> trapframe[peer[current]].body] \in Regs
  BY <1>1, <1>2, Parties DEF Typed, Regs
<1>5. /\ \A p \in Procs : p # current => at'[p] = at[p] /\ trapframe'[p] = trapframe[p]
      /\ trapframe'[current].a3 = Name[peer[current]]
      /\ trapframe'[current].body = trapframe[peer[current]].body
      /\ at'[current] = "release"
  BY <1>1, <1>2, <1>3, Parties DEF Typed
<1>6. Typed'
  BY <1>1, <1>2, <1>3, <1>4, <1>5, Parties DEF Typed, Sound, Base, States, Traps, Handler
<1>7. Running'
  BY <1>1, <1>2, <1>3, <1>4, <1>5, Parties DEF Running, InCall, Sound, Base
<1>8. InCall'
  BY <1>1, <1>2, <1>3, <1>4, <1>5, Parties DEF InCall, Running, Sending, Receiving, Sound, Base
<1>9. Waiting'
  BY <1>1, <1>2, <1>3, <1>4, <1>5, Parties DEF Waiting, InCall, Past, Sound, Base
<1>10. Senders'
  BY <1>1, <1>2, <1>3, <1>4, <1>5, Parties
  DEF Senders, InCall, Running, Receivers, Waiting, Past, QueuedAt, Empty, Sending,
      Receiving, Sound, Base
<1>11. Receivers'
  BY <1>1, <1>2, <1>3, <1>4, <1>5, Parties
  DEF Receivers, InCall, Running, Senders, Waiting, Past, QueuedAt, Empty, Sending,
      Receiving, Sound, Base
<1>12. Kept
  <2>1. ASSUME NEW s \in Servers, NEW c \in Clients \ harmed
        PROVE  InTransit(s, Name[c])' = InTransit(s, Name[c])
    BY <1>1, <1>2, <1>3, <1>4, <1>5, <2>1, Parties
    DEF Sound, Base, InCall, Running, Receivers, InTransit, Handed, Sending, Receiving
  <2>2. ASSUME NEW s \in Servers, NEW c \in Clients \ harmed
        PROVE  Blocked(s, Name[c])' = Blocked(s, Name[c])
    BY <1>1, <1>2, <1>3, <1>4, <1>5, <2>2, Parties
    DEF Sound, Base, InCall, Waiting, Past, Blocked, Sending, Receiving
  <2>3. Got' = Got
    BY <1>1, <1>2, <1>3, <1>4, <1>5 DEF Got
  <2> QED
    BY <2>1, <2>2, <2>3, TSame
<1> QED
  BY <1>6, <1>7, <1>8, <1>9, <1>10, <1>11, <1>12 DEF Sound, Base

\* add_que() in a server that is busy.
LEMMA SendQueues ==
  ASSUME Sound, send_queues, UNCHANGED harmed
  PROVE  Sound' /\ Kept
<1>1. /\ Typed /\ current \in Procs /\ at[current] = "send"
      /\ state[peer[current]] # "SLEEP"
  BY DEF send_queues, Here, Kernel, Sound, Base
<1>2. /\ current \in Clients /\ peer[current] \in Servers /\ peer[current] # current
      /\ trap[current] = "send"
  BY <1>1, Parties DEF Sound, Base, InCall, Sending
<1>3. PICK i \in Slots :
        /\ que[peer[current]][i] = 0
        /\ que' = [que EXCEPT ![peer[current]][i] = Name[current]]
  BY DEF send_queues, FirstFree
<1>4. /\ at' = [at EXCEPT ![current] = "flag"]
      /\ UNCHANGED <<state, current, idx, is_wait_msg, trapframe, trap, timer, panic,
                     ipc_send, peer, asked>>
  BY DEF send_queues, goto
<1>5. /\ \A p \in Procs : p # current => at'[p] = at[p]
      /\ at'[current] = "flag"
      /\ \A p \in Procs, j \in Slots :
           que'[p][j] = IF p = peer[current] /\ j = i THEN Name[current] ELSE que[p][j]
  BY <1>1, <1>2, <1>3, <1>4, Parties DEF Typed
<1>6. Typed'
  BY <1>1, <1>2, <1>3, <1>4, <1>5, Parties DEF Typed, Sound, Base, States, Traps, Handler
<1>7. Running'
  BY <1>1, <1>2, <1>3, <1>4, <1>5, Parties DEF Running, InCall, Sound, Base
<1>8. InCall'
  BY <1>1, <1>2, <1>3, <1>4, <1>5, Parties DEF InCall, Running, Sending, Receiving, Sound, Base
<1>9. Waiting'
  BY <1>1, <1>2, <1>3, <1>4, <1>5, Parties, SMTT(30) DEF Waiting, InCall, Past, Sound, Base
<1>10. Senders'
  BY <1>1, <1>2, <1>3, <1>4, <1>5, Parties
  DEF Senders, InCall, Running, Receivers, Waiting, Past, QueuedAt, Empty, Sending,
      Receiving, Sound, Base
<1>11. Receivers'
  BY <1>1, <1>2, <1>3, <1>4, <1>5, Parties
  DEF Receivers, InCall, Running, Senders, Waiting, Past, QueuedAt, Empty, Sending,
      Receiving, Sound, Base
<1>12. Kept
  <2>1. PICK q \in Servers, d \in Clients, b \in Body :
          q = peer[current] /\ d = current /\ b = trapframe[current].body
    BY <1>1, <1>2, <1>3, <1>4, <1>5 DEF Sound, Base, InCall
  <2>2. ASSUME NEW s \in Servers, NEW c \in Clients
        PROVE  InTransit(s, Name[c])' = InTransit(s, Name[c])
    BY <1>1, <1>2, <1>3, <1>4, <1>5, <2>2, Parties DEF InTransit, Handed
  <2>3. ASSUME NEW s \in Servers, NEW c \in Clients, s # q \/ c # d
        PROVE  Blocked(s, Name[c])' = Blocked(s, Name[c])
    <3>1. \A j \in Slots : que'[s][j] = Name[c] <=> que[s][j] = Name[c]
      BY <1>1, <1>2, <1>3, <1>4, <1>5, <2>1, <2>3, Parties
    <3> QED
      BY <1>1, <1>2, <1>3, <1>4, <1>5, <3>1 DEF Blocked
  <2>4. Got' = Got
    BY <1>1, <1>2, <1>3, <1>4, <1>5 DEF Got
  <2>5. ASSUME d \notin harmed
        PROVE  Blocked(q, Name[d]) = <<>> /\ Blocked(q, Name[d])' = <<b>>
    <3>1. \A j \in Slots : que[q][j] # Name[d]
      <4>1. ~ Past(d) /\ find_name_process(Name[d]) = d /\ Name[d] # 0 /\ q \in Procs
        BY <1>1, <2>1, Parties DEF Past
      <4>2. Waiting
        BY DEF Sound
      <4> QED
        BY <2>5, <4>1, <4>2 DEF Waiting
    <3>2. que'[q][i] = Name[d] /\ find_name_process(Name[d]) = d
      BY <1>1, <1>2, <1>3, <1>4, <1>5, <2>1, Parties
    <3> QED
      BY <1>1, <1>2, <1>3, <1>4, <1>5, <2>1, <3>1, <3>2 DEF Blocked
  <2>6. ASSUME d \notin harmed
        PROVE  ChannelStep(q, d)
    <3>1. TBox(q, d) = InTransit(q, Name[d]) \o <<>>
      BY <2>5, <2>6 DEF TBox
    <3>2. TBox(q, d)' = InTransit(q, Name[d]) \o <<b>>
      BY <2>2, <2>5, <2>6 DEF TBox
    <3>3. TBox(q, d)' = Append(TBox(q, d), b) /\ Len(TBox(q, d)) < 2
      <4>1. CASE InTransit(q, Name[d]) = <<>>
        BY <3>1, <3>2, <4>1, Short
      <4>2. CASE \E x : InTransit(q, Name[d]) = <<x>>
        BY <3>1, <3>2, <4>2, Short
      <4> QED
        BY <4>1, <4>2 DEF InTransit, Handed
    <3> QED
      BY <2>4, <3>3, Boxes DEF ChannelStep
  <2>7. ASSUME NEW s \in Servers, NEW c \in Clients, s # q \/ c # d
        PROVE  ChannelStep(s, c)
    <3>1. TBox(s, c)' = TBox(s, c)
      BY <2>2, <2>3, <2>7 DEF TBox
    <3> QED
      BY <2>4, <3>1, SameChannel
  <2> QED
    BY <2>6, <2>7 DEF Kept
<1> QED
  BY <1>6, <1>7, <1>8, <1>9, <1>10, <1>11, <1>12 DEF Sound, Base

\* extract_que(): the first sender is out of the queue.
LEMMA RecvExtracts ==
  ASSUME Sound, recv_extracts, UNCHANGED harmed
  PROVE  Sound' /\ Kept
<1>1. Typed /\ current \in Procs /\ at[current] = "recv"
  BY DEF recv_extracts, Here, Kernel, Sound, Base
<1>2. current \in Servers /\ trap[current] = "recv" /\ state[current] = "RUN"
  BY <1>1 DEF Sound, Base, InCall, Running, Receiving
<1>3. PICK i \in Slots :
        /\ que[current][i] # 0
        /\ peer' = [peer EXCEPT ![current] = find_name_process(que[current][i])]
        /\ que' = [que EXCEPT ![current][i] = 0]
  BY DEF recv_extracts, FirstUsed
<1>4. PICK c \in Clients :
        /\ que[current][i] = Name[c] /\ find_name_process(que[current][i]) = c
        /\ c \notin harmed => peer[c] = current /\ trap[c] = "send" /\ Past(c)
  BY <1>1, <1>3 DEF Sound, Base, Waiting
<1>5. c # current /\ (c \notin harmed => state[c] = "SLEEP" /\ is_wait_msg[c] = 1)
  BY <1>2, <1>4, Parties DEF Sound, Base, InCall, Past
<1>6. /\ at' = [at EXCEPT ![current] = "take"]
      /\ UNCHANGED <<state, current, idx, is_wait_msg, trapframe, trap, timer, panic,
                     ipc_send, asked>>
  BY DEF recv_extracts, goto
<1>7. /\ \A p \in Procs : p # current => at'[p] = at[p] /\ peer'[p] = peer[p]
      /\ at'[current] = "take" /\ peer'[current] = c
      /\ \A p \in Procs, j \in Slots :
           que'[p][j] = IF p = current /\ j = i THEN 0 ELSE que[p][j]
  BY <1>1, <1>2, <1>3, <1>4, <1>6, Parties DEF Typed
<1>8. Typed'
  BY <1>1, <1>2, <1>3, <1>4, <1>5, <1>6, <1>7, Parties
  DEF Typed, Sound, Base, States, Traps, Handler
<1>9. Running'
  BY <1>1, <1>2, <1>3, <1>4, <1>5, <1>6, <1>7, Parties DEF Running, InCall, Sound, Base
<1>10. InCall'
  BY <1>1, <1>2, <1>3, <1>4, <1>5, <1>6, <1>7, Parties
  DEF InCall, Running, Sending, Receiving, Sound, Base
<1>11. Waiting'
  BY <1>1, <1>2, <1>3, <1>4, <1>5, <1>6, <1>7, Parties DEF Waiting, InCall, Past, Sound, Base
<1>12. Senders'
  BY <1>1, <1>2, <1>3, <1>4, <1>5, <1>6, <1>7, Parties
  DEF Senders, InCall, Running, Receivers, Waiting, Past, QueuedAt, Empty, Sending,
      Receiving, Sound, Base
<1>13. Receivers'
  BY <1>1, <1>2, <1>3, <1>4, <1>5, <1>6, <1>7, Parties
  DEF Receivers, InCall, Running, Senders, Waiting, Past, QueuedAt, Empty, Sending,
      Receiving, Sound, Base
<1>14. Kept
  <2>1. PICK q \in Servers, d \in Clients : q = current /\ d = c
    BY <1>1, <1>2, <1>3, <1>4, <1>5, <1>6, <1>7
  <2>2. ASSUME NEW s \in Servers, NEW e \in Clients, s # q \/ e # d
        PROVE  TBox(s, e)' = TBox(s, e)
    <3>1. InTransit(s, Name[e])' = InTransit(s, Name[e])
      BY <1>1, <1>2, <1>3, <1>4, <1>5, <1>6, <1>7, <2>1, <2>2, Parties
      DEF InTransit, Handed, Sound, Receivers
    <3>2. \A j \in Slots : que'[s][j] = Name[e] <=> que[s][j] = Name[e]
      BY <1>1, <1>2, <1>3, <1>4, <1>5, <1>6, <1>7, <2>1, <2>2, Parties
    <3>3. Blocked(s, Name[e])' = Blocked(s, Name[e])
      BY <1>1, <1>2, <1>3, <1>4, <1>5, <1>6, <1>7, <3>2 DEF Blocked
    <3> QED
      BY <3>1, <3>3 DEF TBox
  <2>3. ASSUME d \notin harmed
        PROVE  TBox(q, d)' = TBox(q, d)
    <3>1. que[q][i] = Name[d] /\ find_name_process(Name[d]) = d
      BY <1>1, <1>2, <1>3, <1>4, <1>5, <1>6, <1>7, <2>1, Parties
    <3>2. \A j \in Slots : que'[q][j] # Name[d]
      BY <1>1, <1>2, <1>3, <1>4, <1>5, <1>6, <1>7, <2>1, <2>3, <3>1, Parties DEF Sound, Waiting
    <3>3. InTransit(q, Name[d]) = <<>>
      BY <1>1, <1>2, <1>3, <1>4, <1>5, <1>6, <1>7, <2>1, Parties
      DEF InTransit, Handed, Sound, Receivers
    <3>4. /\ Blocked(q, Name[d]) = <<trapframe[d].body>> /\ Blocked(q, Name[d])' = <<>>
          /\ InTransit(q, Name[d])' = <<trapframe[d].body>>
      BY <1>1, <1>2, <1>3, <1>4, <1>5, <1>6, <1>7, <2>1, <3>1, <3>2 DEF InTransit, Blocked
    <3>5. /\ TBox(q, d) = <<>> \o <<trapframe[d].body>>
          /\ TBox(q, d)' = <<trapframe[d].body>> \o <<>>
      BY <3>3, <3>4 DEF TBox
    <3> QED
      BY <3>5, Short
  <2>4. Got' = Got
    BY <1>1, <1>2, <1>3, <1>4, <1>5, <1>6, <1>7 DEF Got
  <2>5. ASSUME NEW s \in Servers, NEW e \in Clients \ harmed'
        PROVE  ChannelStep(s, e)
    <3>1. TBox(s, e)' = TBox(s, e)
      BY <2>2, <2>3
    <3> QED
      BY <2>4, <3>1, SameChannel
  <2> QED
    BY <2>5 DEF Kept
<1> QED
  BY <1>8, <1>9, <1>10, <1>11, <1>12, <1>13, <1>14 DEF Sound, Base

\* What yield() makes of the table: a process that loses the hart sleeps if it is
\* flagged and stays ready if not; it goes on when all others sleep.
LEMMA HandsOver ==
  ASSUME Base, current \in Procs, UNCHANGED is_wait_msg, yield(state)
  PROVE  \E n \in Procs :
           /\ current' = n /\ idx' = n
           /\ \/ n # current /\ state[n] = "RUNABBLE"
              \/ n = current /\ \A p \in Procs : p # current => state[p] = "SLEEP"
           /\ state' \in [Slots -> States]
           /\ \A s \in Slots :
                state'[s] = IF s = n THEN "RUN" ELSE IF s # current THEN state[s]
                            ELSE IF is_wait_msg[current] = 1 THEN "SLEEP" ELSE "RUNABBLE"
<1>1. PICK n \in Slots :
        /\ sheduller(state, n)
        /\ current' = n
        /\ state' = [state EXCEPT
             ![current] = IF is_wait_msg'[current] = 1 THEN "SLEEP" ELSE "RUNABBLE",
             ![n] = "RUN"]
  BY DEF yield
<1>2. /\ idx = current /\ state \in [Slots -> States] /\ state[current] # "RUNABBLE"
      /\ \A p \in Procs : p # current => state[p] \in {"SLEEP", "RUNABBLE"}
  BY Parties DEF Base, Running, Typed, States
<1>3. /\ n \in Procs /\ idx' = n
      /\ \/ n # current /\ state[n] = "RUNABBLE"
         \/ n = current /\ \A p \in Procs : p # current => state[p] = "SLEEP"
  <2>1. CASE state[n] = "RUNABBLE" /\ idx' = n
    BY <1>2, <2>1 DEF Base, Running
  <2>2. CASE n = current /\ idx' = idx /\ \A s \in Slots : state[s] # "RUNABBLE"
    BY <1>2, <2>2, Parties
  <2> QED
    BY <1>1, <2>1, <2>2 DEF sheduller
<1>4. \A s \in Slots :
        state'[s] = IF s = n THEN "RUN" ELSE IF s # current THEN state[s]
                    ELSE IF is_wait_msg[current] = 1 THEN "SLEEP" ELSE "RUNABBLE"
  BY <1>1, <1>2, <1>3, Parties
<1>5. state' \in [Slots -> States]
  BY <1>1, <1>2, Parties DEF States
<1> QED
  BY <1>1, <1>3, <1>4, <1>5

\* A yield after the call, or a timer interrupt at any place of it.
LEMMA KernelSwitch ==
  ASSUME Base, (tail_yield /\ UNCHANGED harmed) \/ kerneltrap
  PROVE  /\ Base'
         /\ Sound => TrapsInv' /\ Kept
         /\ Stuck => Stuck' /\ Kept
<1>1. /\ Typed /\ current \in Procs /\ trap[current] # "user"
      /\ at[current] \in Handler \cup {"tail"}
      /\ UNCHANGED <<is_wait_msg, que, trapframe, trap, panic, ipc_send, peer, asked>>
      /\ yield(state)
      /\ at' = [at EXCEPT ![current] = "end"]
  BY TrapsAssumption DEF tail_yield, kerneltrap, goto, Here, Kernel, Base
<1>2. /\ harmed \subseteq harmed' /\ harmed' \subseteq Clients
      /\ \A c \in Clients : c \notin harmed' =>
           /\ c = current => at[current] \in {"doze", "tail"}
           /\ at[current] = "take" => c # peer[current]
  BY <1>1 DEF tail_yield, kerneltrap, Here, Harms, Typed
<1>3. PICK n \in Procs :
           /\ current' = n /\ idx' = n
           /\ \/ n # current /\ state[n] = "RUNABBLE"
              \/ n = current /\ \A p \in Procs : p # current => state[p] = "SLEEP"
           /\ state' \in [Slots -> States]
           /\ \A s \in Slots :
                state'[s] = IF s = n THEN "RUN" ELSE IF s # current THEN state[s]
                            ELSE IF is_wait_msg[current] = 1 THEN "SLEEP" ELSE "RUNABBLE"
  BY <1>1, HandsOver
<1>4. \A p \in Procs : at'[p] = "end" /\ (p # current => at[p] = "end")
  BY <1>1 DEF Typed, Base, InCall
<1>5. /\ \A p \in Procs : p # current => (state'[p] = "SLEEP" <=> state[p] = "SLEEP")
      /\ state'[current] = "SLEEP" <=> is_wait_msg[current] = 1 /\ n # current
  BY <1>1, <1>3, Parties
<1>6. Typed'
  BY <1>1, <1>2, <1>3, <1>4, Parties DEF Typed, Base, States, Traps, Handler
<1>7. Running'
  BY <1>1, <1>3, <1>4, Parties DEF Running, InCall, Base
<1>8. InCall'
  BY <1>1, <1>3, <1>4, Parties DEF InCall, Running, Sending, Receiving, Base
<1>9. Got' = Got
  BY <1>1 DEF Got
<1>10. ASSUME Sound, current \in Servers, n = current, state[current] = "SLEEP"
       PROVE  Stuck' /\ Kept
  <2>1. at[current] \in {"mark", "tail"} /\ trapframe[current] = Stale
    BY <1>1, <1>10, Parties DEF Sound, Base, Running, InCall, Receivers, Sending
  <2>2. \A p \in Procs : state[p] = "SLEEP" /\ Empty(que[p])
    BY <1>1, <1>3, <1>10, Parties DEF Sound, Receivers, Waiting, Empty
  <2>3. asked \subseteq harmed'
    <3>1. ASSUME NEW c \in asked, c \notin harmed
          PROVE  FALSE
      <4>1. c \in Clients /\ c \in Procs /\ c # current /\ peer[c] \in Procs
        BY <1>1, <1>10, <3>1, Parties DEF Typed
      <4>2. at[c] = "end" /\ at[peer[c]] # "take"
        BY <1>4, <2>1, <4>1
      <4>3. QueuedAt(c, peer[c])
        BY <1>10, <3>1, <4>1, <4>2 DEF Sound, Senders, Sending
      <4> QED
        BY <2>2, <4>1, <4>3, Parties DEF QueuedAt, Empty
    <3> QED
      BY <1>2, <3>1
  <2>4. Stuck'
    BY <1>1, <1>3, <1>4, <1>5, <1>10, <2>1, <2>2, <2>3, Parties DEF Stuck, Empty
  <2>5. ASSUME NEW s \in Servers, NEW c \in Clients
        PROVE  /\ InTransit(s, Name[c])' = InTransit(s, Name[c])
               /\ Blocked(s, Name[c])' = Blocked(s, Name[c])
    <3>1. InTransit(s, Name[c])' = InTransit(s, Name[c])
      BY <1>1, <1>3, <1>4, <1>5, <1>10, <2>1, <2>2, Parties DEF InTransit, Handed
    <3>2. Blocked(s, Name[c])' = Blocked(s, Name[c])
      BY <1>1 DEF Blocked
    <3> QED
      BY <3>1, <3>2
  <2> QED
    BY <1>9, <2>4, <2>5, TSame
<1>11. ASSUME Sound, ~ (current \in Servers /\ n = current /\ state[current] = "SLEEP")
       PROVE  Sound' /\ Kept
  <2>1. ASSUME NEW c \in Clients, c \notin harmed', c = current, QueuedAt(c, peer[c]), trap[c] = "send"
        PROVE  n # current
    <3>1. /\ peer[c] \in Servers /\ peer[c] \in Procs /\ peer[c] # current
          /\ state[peer[c]] # "SLEEP"
      BY <1>1, <1>11, <2>1, Parties DEF Sound, Base, InCall, Receivers, QueuedAt, Empty
    <3> QED
      BY <1>3, <3>1
  <2>2. ASSUME NEW c \in Clients, c \notin harmed', QueuedAt(c, peer[c]), trap[c] = "send", Past(c)
        PROVE  at'[c] = "end" /\ state'[c] = "SLEEP" /\ is_wait_msg'[c] = 1
    <3>1. c \in Procs
      BY Parties
    <3>2. CASE c # current
      BY <1>1, <1>4, <1>5, <2>2, <3>1, <3>2 DEF Past
    <3>3. CASE c = current
      <4>1. at[c] \in {"doze", "tail"}
        BY <1>2, <2>2, <3>3
      <4>2. is_wait_msg[c] = 1
        BY <1>11, <2>2, <4>1 DEF Past, Sound, Senders
      <4> QED
        BY <1>1, <1>4, <1>5, <2>1, <2>2, <3>1, <3>3, <4>2
    <3> QED
      BY <3>2, <3>3
  <2>3. Waiting'
    <3>1. ASSUME NEW p \in Procs, NEW i \in Slots, que[p][i] # 0,
                 find_name_process(que[p][i]) \notin harmed'
          PROVE  /\ peer[find_name_process(que[p][i])] = p
                 /\ trap[find_name_process(que[p][i])] = "send"
                 /\ Past(find_name_process(que[p][i]))'
      <4>1. PICK c \in Clients :
              /\ find_name_process(que[p][i]) = c /\ Name[c] = que[p][i]
              /\ peer[c] = p /\ trap[c] = "send" /\ Past(c)
        BY <1>2, <1>11, <3>1 DEF Sound, Waiting
      <4>2. at'[c] = "end" /\ state'[c] = "SLEEP" /\ is_wait_msg'[c] = 1
        <5>1. QueuedAt(c, peer[c])
          BY <4>1 DEF QueuedAt
        <5> QED
          BY <2>2, <3>1, <4>1, <5>1
      <4> QED
        BY <1>1, <4>1, <4>2 DEF Past
    <3> QED
      BY <1>1, <1>2, <1>11, <3>1 DEF Sound, Waiting
  <2>4. Senders'
    <3>1. ASSUME NEW c \in Clients, c \in asked, c \notin harmed'
          PROVE  /\ trap[c] = "send" /\ at'[c] = "end" /\ state'[c] = "SLEEP"
                 /\ is_wait_msg'[c] = 1 /\ QueuedAt(c, peer[c])
      <4>1. c \in Procs /\ trap[c] = "send" /\ peer[c] \in Procs
        BY <1>2, <1>11, <3>1, Parties DEF Sound, Base, Senders, Typed
      <4>2. at[peer[c]] = "take" => peer[peer[c]] # c
        BY <1>2, <1>4, <3>1, <4>1
      <4>3. QueuedAt(c, peer[c]) /\ Past(c)
        <5>1. at[c] \in {"doze", "tail", "end"}
          BY <1>2, <1>4, <3>1, <4>1
        <5> QED
          BY <1>2, <1>11, <3>1, <4>2, <5>1 DEF Sound, Senders, Past, Sending
      <4> QED
        BY <2>2, <3>1, <4>1, <4>3
    <3>2. \A c \in Clients : at'[c] = "end"
      BY <1>4, Parties
    <3> QED
      BY <1>1, <3>1, <3>2 DEF Senders, QueuedAt
  <2>5. Receivers'
    <3>1. ASSUME NEW s \in Servers
          PROVE  /\ state'[s] = "SLEEP" => state[s] = "SLEEP"
                 /\ is_wait_msg[s] = 1 => state'[s] = "SLEEP"
      <4>1. s \in Procs /\ (is_wait_msg[s] = 1 => state[s] = "SLEEP")
        BY <1>11, Parties DEF Sound, Receivers
      <4> QED
        BY <1>5, <1>11, <3>1, <4>1
    <3>2. \A s \in Servers : at'[s] = "end"
      BY <1>4, Parties
    <3> QED
      BY <1>1, <1>11, <3>1, <3>2 DEF Sound, Receivers, Empty
  <2>6. ASSUME NEW s \in Servers, NEW c \in Clients \ harmed'
        PROVE  /\ InTransit(s, Name[c])' = InTransit(s, Name[c])
               /\ Blocked(s, Name[c])' = Blocked(s, Name[c])
    <3>1. s \in Procs /\ c \in Procs /\ peer[s] \in Procs
      BY <1>1, Parties DEF Typed
    <3>2. ~ (at[s] = "take" /\ Name[peer[s]] = Name[c])
      BY <1>2, <1>4, <3>1, Parties
    <3>3. InTransit(s, Name[c]) = Handed(s, Name[c]) /\ InTransit(s, Name[c])' = Handed(s, Name[c])'
      BY <1>4, <3>1, <3>2 DEF InTransit
    <3>4. ASSUME state'[s] = "SLEEP" <=> state[s] = "SLEEP"
          PROVE  Handed(s, Name[c])' = Handed(s, Name[c])
      BY <1>1, <3>4 DEF Handed
    <3>5. ASSUME ~ (state'[s] = "SLEEP" <=> state[s] = "SLEEP")
          PROVE  Handed(s, Name[c])' = Handed(s, Name[c])
      <4>1. s = current /\ state[s] = "SLEEP"
        BY <1>5, <1>11, <3>1, <3>5 DEF Sound, Receivers
      <4>2. at[s] \in {"mark", "tail"}
        BY <1>1, <3>1, <4>1, Parties DEF Base, Running, InCall, Sending
      <4>3. trapframe[s] = Stale
        BY <1>11, <4>1, <4>2 DEF Sound, Receivers
      <4> QED
        BY <1>1, <3>1, <4>3, Parties DEF Handed
    <3>6. Blocked(s, Name[c])' = Blocked(s, Name[c])
      BY <1>1 DEF Blocked
    <3> QED
      BY <3>3, <3>4, <3>5, <3>6
  <2>7. Kept
    BY <1>9, <2>6, TSame
  <2> QED
    BY <1>6, <1>7, <1>8, <2>3, <2>4, <2>5, <2>7 DEF Sound, Base
<1>12. ASSUME Stuck
       PROVE  Stuck' /\ Kept
  <2>1. n = current
    BY <1>3, <1>12 DEF Stuck
  <2>2. Stuck'
    BY <1>1, <1>2, <1>3, <1>4, <1>5, <1>12, <2>1, Parties DEF Stuck, Empty
  <2> QED
    BY <1>6, <1>7, <1>8, <1>9, <1>12, <2>2, StuckKeeps DEF Base
<1> QED
  BY <1>6, <1>7, <1>8, <1>10, <1>11, <1>12 DEF Base, TrapsInv

\* A timer interrupt in a program.
LEMMA UserInterrupt ==
  ASSUME Base, user_switch, current # NoProc, UNCHANGED harmed
  PROVE  /\ Base'
         /\ Sound => Sound' /\ Kept
         /\ Stuck => Stuck' /\ Kept
<1>1. /\ Typed /\ current \in Procs /\ trap[current] = "user" /\ at[current] = "user"
      /\ UNCHANGED <<is_wait_msg, que, panic, ipc_send, peer, asked>>
      /\ yield(state)
      /\ trap' = [trap EXCEPT ![current] = "timer"]
      /\ trapframe' = [trapframe EXCEPT ![current] = Stale]
      /\ at' = [at EXCEPT ![current] = "end"]
  BY DEF user_switch, switch, main_yield, timer_interrupt, uservec, UserMode, Base, InCall
<1>2. state[current] = "RUN"
  BY <1>1, Parties DEF Base, Running
<1>3. PICK n \in Procs :
           /\ current' = n /\ idx' = n
           /\ \/ n # current /\ state[n] = "RUNABBLE"
              \/ n = current /\ \A p \in Procs : p # current => state[p] = "SLEEP"
           /\ state' \in [Slots -> States]
           /\ \A s \in Slots :
                state'[s] = IF s = n THEN "RUN" ELSE IF s # current THEN state[s]
                            ELSE IF is_wait_msg[current] = 1 THEN "SLEEP" ELSE "RUNABBLE"
  BY <1>1, HandsOver
<1>4. /\ \A p \in Procs : p # current =>
           at[p] = "end" /\ trap'[p] = trap[p] /\ trapframe'[p] = trapframe[p]
      /\ \A p \in Procs : at'[p] = "end"
      /\ trap'[current] = "timer" /\ trapframe'[current] = Stale
  BY <1>1 DEF Typed, Base, InCall
<1>5. /\ \A p \in Procs : p # current => (state'[p] = "SLEEP" <=> state[p] = "SLEEP")
      /\ state'[current] = "SLEEP" => is_wait_msg[current] = 1
  BY <1>1, <1>3, Parties
<1>6. Typed'
  BY <1>1, <1>3, <1>4, Parties DEF Typed, Base, States, Traps, Handler
<1>7. Running'
  BY <1>1, <1>3, <1>4, Parties DEF Running, InCall, Base
<1>8. InCall'
  BY <1>1, <1>3, <1>4, Parties DEF InCall, Running, Sending, Receiving, Base
<1>9. Got' = Got
  BY <1>1 DEF Got
<1>10. ASSUME Sound
       PROVE  Sound' /\ Kept
  <2>1. \A c \in Clients : c # current => (Past(c) => Past(c)')
    BY <1>1, <1>4, <1>5, Parties DEF Past
  <2>2. \A p \in Procs, i \in Slots :
          que[p][i] # 0 /\ find_name_process(que[p][i]) \notin harmed =>
            find_name_process(que[p][i]) # current
    BY <1>1, <1>10 DEF Sound, Waiting
  <2>3. Waiting'
    BY <1>1, <1>4, <1>10, <2>1, <2>2, Parties DEF Sound, Waiting
  <2>4. Senders'
    <3>1. ASSUME NEW c \in Clients, c \in asked, c \notin harmed
          PROVE  /\ trap'[c] = "send" /\ at'[c] = "end" /\ state'[c] = "SLEEP"
                 /\ is_wait_msg'[c] = 1 /\ QueuedAt(c, peer[c])
      <4>1. c # current /\ c \in Procs /\ peer[c] \in Procs
        BY <1>1, <1>10, <3>1, Parties DEF Sound, Senders, Typed
      <4>2. at[c] = "end" /\ at[peer[c]] # "take"
        BY <1>1, <1>4, <4>1
      <4>3. state[c] = "SLEEP" /\ is_wait_msg[c] = 1 /\ QueuedAt(c, peer[c]) /\ trap[c] = "send"
        BY <1>10, <3>1, <4>2 DEF Sound, Senders, Sending
      <4> QED
        BY <1>1, <1>4, <1>5, <4>1, <4>3
    <3>2. \A c \in Clients : at'[c] = "end"
      BY <1>4, Parties
    <3> QED
      BY <1>1, <3>1, <3>2 DEF Senders, QueuedAt
  <2>5. \A s \in Servers : s = current => is_wait_msg[s] # 1
    BY <1>2, <1>10 DEF Sound, Receivers
  <2>6. Receivers'
    <3>1. ASSUME NEW s \in Servers
          PROVE  /\ state'[s] = "SLEEP" => state[s] = "SLEEP" /\ trap'[s] = trap[s]
                 /\ is_wait_msg[s] = 1 => state'[s] = "SLEEP"
      <4>1. s \in Procs /\ (is_wait_msg[s] = 1 => state[s] = "SLEEP")
        BY <1>10, Parties DEF Sound, Receivers
      <4> QED
        BY <1>2, <1>4, <1>5, <2>5, <3>1, <4>1
    <3>2. \A s \in Servers : at'[s] = "end"
      BY <1>4, Parties
    <3> QED
      BY <1>1, <1>10, <3>1, <3>2 DEF Sound, Receivers, Empty
  <2>7. ASSUME NEW s \in Servers, NEW c \in Clients \ harmed'
        PROVE  /\ InTransit(s, Name[c])' = InTransit(s, Name[c])
               /\ Blocked(s, Name[c])' = Blocked(s, Name[c])
    <3>1. s \in Procs /\ c \in Procs
      BY Parties
    <3>2. InTransit(s, Name[c])' = InTransit(s, Name[c])
      <4>1. CASE s # current
        BY <1>1, <1>4, <1>5, <3>1, <4>1 DEF InTransit, Handed
      <4>2. CASE s = current
        BY <1>1, <1>4, <3>1, <4>2 DEF InTransit, Handed
      <4> QED
        BY <4>1, <4>2
    <3>3. Blocked(s, Name[c])' = Blocked(s, Name[c])
      <4>1. find_name_process(Name[c]) = c /\ Name[c] # 0
        BY <3>1, Parties
      <4>2. CASE c # current
        BY <1>1, <1>4, <3>1, <4>1, <4>2 DEF Blocked
      <4>3. CASE \A i \in Slots : que[s][i] # Name[c]
        BY <1>1, <4>3 DEF Blocked
      <4> QED
        BY <2>2, <2>7, <3>1, <4>1, <4>2, <4>3
    <3> QED
      BY <3>2, <3>3
  <2>8. Kept
    BY <1>9, <2>7, TSame
  <2> QED
    BY <1>6, <1>7, <1>8, <2>3, <2>4, <2>6, <2>8 DEF Sound, Base
<1>11. ASSUME Stuck
       PROVE  Stuck' /\ Kept
  <2>1. n = current
    BY <1>3, <1>11 DEF Stuck
  <2>2. Stuck'
    BY <1>1, <1>3, <1>4, <1>5, <1>11, <2>1, Parties DEF Stuck, Empty
  <2> QED
    BY <1>6, <1>7, <1>8, <1>9, <1>11, <2>2, StuckKeeps DEF Base
<1> QED
  BY <1>6, <1>7, <1>8, <1>10, <1>11 DEF Base

\* The first yield(), of main().
LEMMA FirstSwitch ==
  ASSUME Sound, user_switch, current = NoProc, UNCHANGED harmed
  PROVE  Sound' /\ Kept
<1>1. /\ Typed
      /\ UNCHANGED <<is_wait_msg, que, trapframe, trap, panic, ipc_send, at, peer, asked>>
  BY Parties DEF user_switch, switch, main_yield, timer_interrupt, uservec, UserMode, Sound, Base
<1>2. PICK n \in Slots : /\ sheduller(state, n)
                         /\ current' = n
                         /\ state' = [state EXCEPT ![n] = "RUN"]
  BY Parties DEF user_switch, switch, main_yield, timer_interrupt, uservec, UserMode
<1>3. state[n] = "RUNABBLE" /\ n \in Procs /\ idx' = n
  BY <1>2, Parties DEF sheduller, Sound, Base, Running
<1>4. /\ state' \in [Slots -> States]
      /\ \A s \in Slots : state'[s] = IF s = n THEN "RUN" ELSE state[s]
  BY <1>1, <1>2 DEF Typed, States
<1>5. \A p \in Procs : at[p] = "end" /\ trap[p] # "user"
  BY Parties DEF Sound, Base, InCall
<1>6. \A p \in Procs : state'[p] = "SLEEP" <=> state[p] = "SLEEP"
  BY <1>3, <1>4, Parties
<1>7. Typed'
  BY <1>1, <1>2, <1>3, <1>4, <1>5, <1>6, Parties DEF Typed, Sound, Base, States, Traps, Handler
<1>8. Running'
  BY <1>1, <1>2, <1>3, <1>4, <1>5, <1>6, Parties DEF Running, InCall, Sound, Base
<1>9. InCall'
  BY <1>1, <1>2, <1>3, <1>4, <1>5, <1>6, Parties
  DEF InCall, Running, Sending, Receiving, Sound, Base
<1>10. Waiting'
  BY <1>1, <1>2, <1>3, <1>4, <1>5, <1>6, Parties DEF Waiting, InCall, Past, Sound, Base
<1>11. Senders'
  BY <1>1, <1>2, <1>3, <1>4, <1>5, <1>6, Parties
  DEF Senders, InCall, Running, Receivers, Waiting, Past, QueuedAt, Empty, Sending,
      Receiving, Sound, Base
<1>12. Receivers'
  BY <1>1, <1>2, <1>3, <1>4, <1>5, <1>6, Parties
  DEF Receivers, InCall, Running, Senders, Waiting, Past, QueuedAt, Empty, Sending,
      Receiving, Sound, Base
<1>13. Kept
  <2>1. ASSUME NEW s \in Servers, NEW c \in Clients \ harmed
        PROVE  InTransit(s, Name[c])' = InTransit(s, Name[c])
    BY <1>1, <1>2, <1>3, <1>4, <1>5, <1>6, <2>1, Parties
    DEF Sound, Base, InCall, Running, Receivers, InTransit, Handed, Sending, Receiving
  <2>2. ASSUME NEW s \in Servers, NEW c \in Clients \ harmed
        PROVE  Blocked(s, Name[c])' = Blocked(s, Name[c])
    BY <1>1, <1>2, <1>3, <1>4, <1>5, <1>6, <2>2, Parties
    DEF Sound, Base, InCall, Waiting, Past, Blocked, Sending, Receiving
  <2>3. Got' = Got
    BY <1>1, <1>2, <1>3, <1>4, <1>5, <1>6 DEF Got
  <2> QED
    BY <2>1, <2>2, <2>3, TSame
<1> QED
  BY <1>7, <1>8, <1>9, <1>10, <1>11, <1>12, <1>13 DEF Sound, Base

\* The return to the program.
LEMMA Returns ==
  ASSUME Base, return, UNCHANGED harmed
  PROVE  /\ Base'
         /\ Sound => Sound' /\ Kept
         /\ Stuck => Stuck' /\ Kept
<1>1. /\ Typed /\ current \in Procs /\ at[current] \in {"end", "tail"} /\ trap[current] # "user"
      /\ at[current] = "tail" => state[current] # "SLEEP"
      /\ UNCHANGED <<state, current, idx, is_wait_msg, que, trapframe, panic, peer, asked>>
      /\ trap' = [trap EXCEPT ![current] = "user"]
      /\ at' = [at EXCEPT ![current] = "user"]
  BY
  DEF return, recv_return, plain_return, prepare_uret, usertrap_return, Kernel, Here, goto, Base
<1>2. /\ trap[current] = "recv" => ipc_send' = [ipc_send EXCEPT ![current] = trapframe[current]]
      /\ trap[current] # "recv" => UNCHANGED ipc_send
  BY DEF return, recv_return, plain_return
<1>3. state[current] = "RUN"
  BY <1>1 DEF Base, Running
<1>4. /\ \A p \in Procs : p # current => at'[p] = at[p] /\ trap'[p] = trap[p] /\ at[p] = "end"
      /\ at'[current] = "user" /\ trap'[current] = "user"
  BY <1>1 DEF Typed, Base, InCall
<1>5. Typed'
  <2>1. ipc_send' \in [Servers -> Regs]
    BY <1>1, <1>2 DEF Typed
  <2> QED
    BY <1>1, <1>3, <1>4, <2>1, Parties DEF Typed, Base, States, Traps, Handler
<1>6. Running'
  BY <1>1, <1>3, <1>4, Parties DEF Running, InCall, Base
<1>7. InCall'
  BY <1>1, <1>3, <1>4, Parties DEF InCall, Running, Sending, Receiving, Base
<1>8. \A s \in Servers : \/ Got'[s] = Got[s]
                         \/ /\ s = current /\ trap[s] = "recv"
                            /\ Got'[s].from = trapframe[s].a3
  <2>1. ASSUME NEW s \in Servers
        PROVE  \/ ipc_send'[s] = ipc_send[s]
               \/ s = current /\ trap[s] = "recv" /\ ipc_send'[s] = trapframe[s]
    BY <1>1, <1>2 DEF Typed
  <2> QED
    BY <2>1 DEF Got
<1>9. ASSUME Sound
      PROVE  Sound' /\ Kept
  <2>1. Waiting'
    <3>1. \A c \in Clients : trap[c] = "send" /\ Past(c) => c # current
      BY <1>1, <1>3 DEF Past
    <3>2. \A c \in Clients : c # current /\ Past(c) => Past(c)'
      BY <1>1, <1>4, Parties DEF Past
    <3> QED
      BY <1>1, <1>4, <1>9, <3>1, <3>2, Parties DEF Sound, Waiting
  <2>2. Senders'
    <3>1. ASSUME NEW c \in Clients, c \in asked, c \notin harmed
          PROVE  /\ trap'[c] = "send" /\ at'[c] = "end" /\ state'[c] = "SLEEP"
                 /\ is_wait_msg'[c] = 1 /\ QueuedAt(c, peer[c])
      <4>1. at[c] \notin Sending
        BY <1>1, <1>4, Parties DEF Sending
      <4>2. /\ trap[c] = "send" /\ at[c] \in {"tail", "end"} /\ state[c] = "SLEEP"
            /\ is_wait_msg[c] = 1
            /\ QueuedAt(c, peer[c]) \/ (at[peer[c]] = "take" /\ peer[peer[c]] = c)
        BY <1>9, <3>1, <4>1 DEF Sound, Senders
      <4>3. c # current /\ c \in Procs /\ peer[c] \in Procs
        BY <1>1, <1>3, <4>2, Parties DEF Typed
      <4>4. at[peer[c]] # "take"
        BY <1>1, <1>4, <4>3
      <4> QED
        BY <1>1, <1>4, <4>2, <4>3, <4>4
    <3>2. \A c \in Clients : at'[c] \in {"end", "user"}
      BY <1>4, Parties
    <3> QED
      BY <1>1, <3>1, <3>2 DEF Senders, QueuedAt
  <2>3. Receivers'
    <3>1. \A s \in Servers : at'[s] \in {"end", "user"} /\ (state[s] = "SLEEP" => trap'[s] = trap[s])
      BY <1>3, <1>4, Parties
    <3> QED
      BY <1>1, <1>9, <3>1 DEF Sound, Receivers, Empty
  <2>4. ASSUME NEW s \in Servers, NEW c \in Clients
        PROVE  ChannelStep(s, c)
    <3>1. Blocked(s, Name[c])' = Blocked(s, Name[c])
      BY <1>1 DEF Blocked
    <3>2. s \in Procs
      BY Parties
    <3>3. CASE s = current /\ trap[s] = "recv" /\ trapframe[s].a3 = Name[c]
      <4>1. InTransit(s, Name[c]) = <<trapframe[s].body>> /\ InTransit(s, Name[c])' = <<>>
        BY <1>1, <1>3, <1>4, <3>3 DEF InTransit, Handed
      <4>2. /\ TBox(s, c) = <<trapframe[s].body>> \o Blocked(s, Name[c])
            /\ TBox(s, c)' = <<>> \o Blocked(s, Name[c])
        BY <3>1, <4>1 DEF TBox
      <4>3. TBox(s, c) # <<>> /\ Head(TBox(s, c)) = trapframe[s].body /\ TBox(s, c)' = Tail(TBox(s, c))
        <5>1. CASE Blocked(s, Name[c]) = <<>>
          <6>1. TBox(s, c) = <<trapframe[s].body>> /\ TBox(s, c)' = <<>>
            BY <4>2, <5>1, Short
          <6> QED
            BY <6>1, Short
        <5>2. ASSUME NEW x, Blocked(s, Name[c]) = <<x>>
              PROVE  /\ TBox(s, c) # <<>> /\ Head(TBox(s, c)) = trapframe[s].body
                     /\ TBox(s, c)' = Tail(TBox(s, c))
          <6>1. TBox(s, c) = <<trapframe[s].body, x>> /\ TBox(s, c)' = <<x>>
            BY <4>2, <5>2, Short
          <6> QED
            BY <6>1, Short
        <5>3. Blocked(s, Name[c]) = <<>> \/ \E x : Blocked(s, Name[c]) = <<x>>
          BY DEF Blocked
        <5> QED
          BY <5>1, <5>2, <5>3
      <4>4. Got'[s] = [from |-> Name[c], body |-> trapframe[s].body]
        <5>1. ipc_send'[s] = trapframe[s]
          BY <1>1, <1>2, <3>3 DEF Typed
        <5> QED
          BY <3>3, <5>1 DEF Got
      <4> QED
        BY <4>3, <4>4, Boxes DEF ChannelStep
    <3>4. CASE ~ (s = current /\ trap[s] = "recv" /\ trapframe[s].a3 = Name[c])
      <4>1. InTransit(s, Name[c])' = InTransit(s, Name[c])
        BY <1>1, <1>4, <3>2, <3>4 DEF InTransit, Handed
      <4>2. Got'[s] = Got[s] \/ Got'[s].from # Name[c]
        BY <1>8, <3>4
      <4> QED
        BY <3>1, <4>1, <4>2, SameChannel DEF TBox
    <3> QED
      BY <3>3, <3>4
  <2> QED
    BY <1>5, <1>6, <1>7, <2>1, <2>2, <2>3, <2>4 DEF Sound, Base, Kept
<1>10. ASSUME Stuck
       PROVE  Stuck' /\ Kept
  <2>1. Stuck'
    BY <1>1, <1>4, <1>10, Parties DEF Stuck, Empty
  <2>2. \A s \in Servers : Got'[s] = Got[s] \/ Got'[s].from = 0
    <3>1. trapframe[current].a3 = 0
      BY <1>10, Parties DEF Stuck
    <3> QED
      BY <1>8, <3>1
  <2> QED
    BY <1>5, <1>6, <1>7, <1>10, <2>1, <2>2, StuckKeeps DEF Base
<1> QED
  BY <1>5, <1>6, <1>7, <1>9, <1>10 DEF Base

\* main() leaves the system with nothing under way.
LEMMA TrapsInitial == TrapsInit => Sound
<1> SUFFICES ASSUME TrapsInit PROVE Sound
  OBVIOUS
<1>1. /\ \A s \in Slots : state[s] = IF s \in Procs THEN "RUNABBLE" ELSE "UNUSED"
      /\ current = NoProc /\ idx = 0 /\ panic = "none" /\ asked = {} /\ harmed = {}
      /\ \A p \in Procs : /\ is_wait_msg[p] = JUNK /\ trapframe[p] = Stale /\ trap[p] = "born"
                          /\ at[p] = "end" /\ peer[p] = p
                          /\ \A i \in Slots : que[p][i] = 0
      /\ ipc_send = [s \in Servers |-> Stale]
  BY DEF TrapsInit, CSInit, Init
<1>2. Typed
  <2>1. /\ state \in [Slots -> States] /\ que \in [Procs -> [Slots -> Names \cup {0}]]
        /\ trap \in [Procs -> Traps] /\ is_wait_msg \in [Procs -> {0, 1, JUNK}]
    BY DEF TrapsInit, CSInit, Init, States, Traps
  <2>2. trapframe \in [Procs -> Regs] /\ ipc_send \in [Servers -> Regs]
    BY Parties DEF TrapsInit, CSInit, Init
  <2>3. at \in [Procs -> Handler \cup {"tail", "end", "user"}] /\ peer \in [Procs -> Procs]
    BY DEF TrapsInit
  <2> QED
    BY <1>1, <2>1, <2>2, <2>3 DEF Typed
<1>3. Running /\ InCall
  BY <1>1, Parties DEF Running, InCall, Sending, Receiving
<1>4. Waiting /\ Senders /\ Receivers
  BY <1>1, Parties DEF Waiting, Senders, Receivers, JUNK
<1> QED
  BY <1>2, <1>3, <1>4 DEF Sound, Base

\* A step that changes nothing.
LEMMA Stutters ==
  ASSUME TrapsInv, UNCHANGED tvars
  PROVE  TrapsInv' /\ Kept
<1>1. /\ UNCHANGED <<state, current, idx, is_wait_msg, que, trapframe, trap, panic>>
      /\ UNCHANGED <<ipc_send, at, peer, asked, harmed>>
  BY DEF tvars, csvars, vars
<1>2. Base'
  BY <1>1 DEF TrapsInv, Sound, Base, Typed, Running, InCall
<1>3. Sound => Sound'
  BY <1>1, <1>2 DEF Sound, Waiting, Senders, Receivers, Past, QueuedAt, Empty
<1>4. Stuck => Stuck'
  BY <1>1 DEF Stuck, Empty
<1>5. Got' = Got
  BY <1>1 DEF Got
<1>6. \A s \in Servers, c \in Clients : /\ InTransit(s, Name[c])' = InTransit(s, Name[c])
                                        /\ Blocked(s, Name[c])' = Blocked(s, Name[c])
  BY <1>1 DEF InTransit, Handed, Blocked
<1> QED
  BY <1>2, <1>3, <1>4, <1>5, <1>6, TSame DEF TrapsInv

\* Every step keeps the invariant and does to a channel what Channels allows.
LEMMA TrapsStep ==
  ASSUME TrapsInv, [TrapsNext]_tvars
  PROVE  TrapsInv' /\ Kept
<1>1. Base
  BY DEF TrapsInv, Sound
<1>2. CASE UNCHANGED tvars
  BY <1>2, Stutters
<1>3. CASE kerneltrap \/ (tail_yield /\ UNCHANGED harmed)
  BY <1>1, <1>3, KernelSwitch DEF TrapsInv
<1>4. ASSUME UNCHANGED harmed, call_recv \/ return \/ user_switch \/ recv_rests
      PROVE  TrapsInv' /\ Kept
  <2>1. CASE call_recv
    BY <1>1, <1>4, <2>1, CallRecv DEF TrapsInv
  <2>2. CASE return
    BY <1>1, <1>4, <2>2, Returns DEF TrapsInv
  <2>3. CASE recv_rests
    BY <1>1, <1>4, <2>3, RecvRests, RecvMarks DEF TrapsInv, recv_rests
  <2>4. CASE user_switch /\ current # NoProc
    BY <1>1, <1>4, <2>4, UserInterrupt DEF TrapsInv
  <2>5. CASE user_switch /\ current = NoProc
    <3>1. Sound
      BY <2>5, Parties DEF TrapsInv, Stuck
    <3> QED
      BY <1>4, <2>5, <3>1, FirstSwitch DEF TrapsInv
  <2> QED
    BY <1>4, <2>1, <2>2, <2>3, <2>4, <2>5
<1>5. ASSUME UNCHANGED harmed,
             call_send \/ send_step \/ recv_extracts \/ recv_takes \/ recv_releases
      PROVE  TrapsInv' /\ Kept
  <2>1. Sound
    <3>1. CASE call_send
      BY <3>1, Parties DEF call_send, TrapsInv, Stuck
    <3>2. CASE recv_extracts
      <4>1. ~ Empty(que[current]) /\ current \in Procs
        BY <3>2 DEF recv_extracts, FirstUsed, Empty, Here, Kernel
      <4> QED
        BY <4>1 DEF TrapsInv, Stuck
    <3>3. CASE send_step \/ recv_takes \/ recv_releases
      <4>1. at[current] \in Sending \cup {"take", "release", "unflag"}
        BY <3>3
        DEF send_step, send_copies, send_wakes, send_queues, send_dozes, recv_takes,
            recv_releases, copy_reg, set_state, set_flag, Here, Sending
      <4> QED
        BY <4>1 DEF TrapsInv, Stuck, Sending
    <3> QED
      BY <1>5, <3>1, <3>2, <3>3
  <2>2. CASE call_send \/ recv_extracts \/ recv_takes
    BY <1>5, <2>1, <2>2, CallSend, RecvExtracts, RecvTakes DEF TrapsInv
  <2>3. CASE send_step
    <3>1. CASE send_copies \/ send_queues
      BY <1>5, <2>1, <3>1, SendCopies, SendQueues DEF TrapsInv
    <3>2. CASE send_wakes
      BY <1>5, <2>1, <3>2, SendClears, SendSleeps, SendWakes DEF send_wakes, TrapsInv
    <3>3. CASE send_dozes
      BY <1>5, <2>1, <3>3, SendFlags, SendDozes DEF send_dozes, TrapsInv
    <3> QED
      BY <2>3, <3>1, <3>2, <3>3 DEF send_step
  <2>4. CASE recv_releases
    BY <1>5, <2>1, <2>4, RecvReleases, RecvUnflags DEF recv_releases, TrapsInv
  <2> QED
    BY <1>5, <2>2, <2>3, <2>4
<1> QED
  BY <1>2, <1>3, <1>4, <1>5 DEF TrapsNext, undisturbed, recv_step

\* So the invariant always holds.
LEMMA TrapsInvariant == TrapsSpec => []TrapsInv
<1>1. TrapsInit => TrapsInv
  BY TrapsInitial DEF TrapsInv
<1> QED
  BY <1>1, TrapsStep, PTL DEF TrapsSpec

------------------------------------------------------------------------------
(* What follows.                                                           *)

\* A client whose message nobody has taken can be found by its server, whatever
\* places the timer strikes at in its own later calls and in the calls of others,
\* unless it is one of those that a call cut short has harmed.
THEOREM SendersAreFound == TrapsSpec => []SenderIsFound
<1>1. TrapsInv => SenderIsFound
  <2>1. CASE Sound
    BY <2>1 DEF Sound, Base, Typed, Senders, SenderIsFound, Sending
  <2>2. CASE Stuck
    BY <2>2 DEF Stuck, SenderIsFound
  <2> QED
    BY <2>1, <2>2 DEF TrapsInv
<1> QED
  BY <1>1, TrapsInvariant, PTL

\* And its messages reach the servers whole, once and in order.
THEOREM OthersKeepChannels == TrapsSpec => OtherChannelsKept
<1>1. ASSUME TrapsInv, [TrapsNext]_tvars
      PROVE  [\A s \in Servers, c \in Clients \ harmed' : ChannelStep(s, c)]_tvars
  BY <1>1, TrapsStep DEF Kept
<1> QED
  BY <1>1, TrapsInvariant, PTL DEF TrapsSpec, OtherChannelsKept

==============================================================================
