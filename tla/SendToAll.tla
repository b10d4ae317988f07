----------------------------- MODULE SendToAll -----------------------------
(***************************************************************************)
(* What FullReaderWriterServer and NetReaderWriterServer have in common:   *)
(* the list of clients, the critical section that protects it, and the     *)
(* function sendToAll, which goes through the list inside the section.     *)
(***************************************************************************)
EXTENDS Integers, Sequences, SequencesExt

CONSTANTS Clients,
          Senders,         \* the threads of the server that use the list
          Nobody,
          Garbage,         \* what lies behind the end of a text in memory
          Room             \* how many texts the buffers of a socket hold

VARIABLES section,         \* the owner of the critical section
          clients,         \* the list, its front first
          text, cursor,    \* what a sender sends, and to whom it has yet to
          whole,           \* whether its pBuffer is still where the text begins
          got,             \* all that was ever put into the socket of a client
          read,            \* how much of that the client has received
          online           \* the client processes that run

list == <<section, clients>>
sending == <<text, cursor, whole>>
sockets == <<got, read, online>>

Uninitialized == "uninitialized"
Corrupt == "corrupt"

EnterSection(t) == section = Nobody /\ section' = t

(* A section left by a thread that does not own it is free or corrupt.     *)
LeaveSection(t) ==
  section' \in CASE section = t -> {Nobody}
                 [] section \in {Uninitialized, Corrupt} -> {section}
                 [] OTHER -> {Nobody, Corrupt}

PushFront(c) == clients' = <<c>> \o clients

BeginList(t) ==
  /\ cursor' = [cursor EXCEPT ![t] = clients]
  /\ whole' = [whole EXCEPT ![t] = TRUE]

(* The buffer has been moved past the end of the text for an earlier client*)
(* of the list: this one is sent what lies there.                          *)
SendTo(c, t) ==
  /\ c \in online /\ Len(got[c]) - read[c] < Room
  /\ got' = [got EXCEPT ![c] = Append(@, IF whole[t] THEN text[t] ELSE Garbage)]
  /\ UNCHANGED whole

(* The socket of a client that has gone takes a text or fails.  A failure  *)
(* is -1 # nLength, which is 1: pBuffer moves on by one character after the*)
(* other, until it is behind the text, and is never moved back.            *)
SendToGone(c, t) ==
  /\ c \notin online
  /\ \E failed \in BOOLEAN : whole' = [whole EXCEPT ![t] = @ /\ ~failed]
  /\ UNCHANGED got

(* What sendToAll kept on its stack is gone when it returns.               *)
EndList(t) ==
  /\ cursor[t] = <<>>
  /\ text' = [text EXCEPT ![t] = Garbage] /\ whole' = [whole EXCEPT ![t] = TRUE]
  /\ UNCHANGED cursor

SendToNext(t) ==
  /\ cursor[t] # <<>>
  /\ SendTo(Head(cursor[t]), t) \/ SendToGone(Head(cursor[t]), t)
  /\ cursor' = [cursor EXCEPT ![t] = Tail(@)]
  /\ UNCHANGED <<list, text, read, online>>

(* A recv of the client returns one text or several; it shows the first.   *)
Receive(c) ==
  /\ c \in online
  /\ \E n \in 1 .. Len(got[c]) - read[c] : read' = [read EXCEPT ![c] = @ + n]
  /\ UNCHANGED <<list, sending, got, online>>

ListInit ==
  /\ clients = <<>>
  /\ text = [t \in Senders |-> Garbage]
  /\ cursor = [t \in Senders |-> <<>>] /\ whole = [t \in Senders |-> TRUE]
  /\ got = [c \in Clients |-> <<>>] /\ read = [c \in Clients |-> 0]
  /\ online = {}
-----------------------------------------------------------------------------
ListTypeOK(Texts) ==
  /\ section \in Senders \cup {Nobody, Uninitialized, Corrupt}
  /\ \A c \in ToSet(clients) : c \in Clients
  /\ \A t \in Senders : text[t] \in Texts /\ ToSet(cursor[t]) \subseteq Clients
  /\ whole \in [Senders -> BOOLEAN]
  /\ \A c \in Clients : /\ ToSet(got[c]) \subseteq Texts
                        /\ read[c] \in 0 .. Len(got[c])
                        /\ Len(got[c]) - read[c] <= Room
  /\ online \subseteq Clients

Before(s, x, y) == \E i, j \in 1 .. Len(s) : i < j /\ s[i] = x /\ s[j] = y

(* No two clients are sent two texts in different orders.                  *)
OneOrder ==
  \A c, d \in Clients : \A x, y \in ToSet(got[c]) \ {Garbage} :
    x # y /\ Before(got[c], x, y) => ~Before(got[d], y, x)
=============================================================================
