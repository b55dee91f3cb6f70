------------------------------- MODULE Channels -------------------------------
(***************************************************************************)
(* What RViX's send() and recv() promise to servers and clients (the head  *)
(* comment of ipc.c): one channel from every sender to every server that   *)
(* loses nothing, duplicates nothing and keeps the order of its sender,    *)
(* and that holds a sender up when its previous message is still there.    *)
(***************************************************************************)
EXTENDS Naturals, Sequences

CONSTANTS Server, Sender, Msg, NoSender, NoMsg

VARIABLES
  inbox,  \* inbox[s][c]: what c has sent to s and s has not received
  got     \* got[s]: what s received last

Send(c, s, b) ==
  /\ Len(inbox[s][c]) < 2
  /\ inbox' = [inbox EXCEPT ![s][c] = Append(@, b)]
  /\ UNCHANGED got

Receive(s) ==
  \E c \in Sender :
    /\ inbox[s][c] # <<>>
    /\ got' = [got EXCEPT ![s] = [from |-> c, body |-> Head(inbox[s][c])]]
    /\ inbox' = [inbox EXCEPT ![s][c] = Tail(@)]

Init ==
  /\ inbox = [s \in Server |-> [c \in Sender |-> <<>>]]
  /\ got = [s \in Server |-> [from |-> NoSender, body |-> NoMsg]]

Next ==
  \/ \E c \in Sender, s \in Server, b \in Msg : Send(c, s, b)
  \/ \E s \in Server : Receive(s)

Spec == Init /\ [][Next]_<<inbox, got>>
===============================================================================
