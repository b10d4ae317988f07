----------------------------- MODULE ChatServer -----------------------------
(***************************************************************************)
(* FullReaderWriterServer and FullReaderWriterClient, a chat.  For each    *)
(* client the server has a thread, named like the client here; it sends to *)
(* all clients what it receives from its own one.                          *)
(***************************************************************************)
EXTENDS SendToAll

CONSTANT MaxTyped          \* bound on the messages the users type together

VARIABLES user,            \* what the user of each client process is doing
          typed,           \* how many messages the users have typed
          up,              \* what was sent to the server and not received
          pc               \* of the threads of the server

process == <<user, typed, up>>
vars == <<list, sending, sockets, process, pc>>

(* The texts, on their way to the server and from it.                      *)
Name(c) == <<"name", c, 0>>
Quit(c) == <<"QUIT", c, 0>>
Message(c, n) == <<"message", c, n>>
Joined(c) == <<"joined", c, 0>>
Left(c) == <<"left", c, 0>>

Goes(c, from, to) == pc[c] = from /\ pc' = [pc EXCEPT ![c] = to]
-----------------------------------------------------------------------------
(* The client connects, main accepts and creates the thread.               *)
Accept(c) ==
  /\ user[c] = "start" /\ user' = [user EXCEPT ![c] = "naming"]
  /\ online' = online \cup {c}
  /\ Goes(c, "none", "add")
  /\ UNCHANGED <<list, sending, got, read, typed, up>>

SendUp(c, what) == up' = [up EXCEPT ![c] = Append(@, what)]

(* The user has typed a name; now the reading thread is started.           *)
SendName(c) ==
  /\ user[c] = "naming" /\ user' = [user EXCEPT ![c] = "chatting"]
  /\ SendUp(c, Name(c))
  /\ UNCHANGED <<list, sending, sockets, typed, pc>>

TypeMessage(c) ==
  /\ user[c] = "chatting"
  /\ typed < MaxTyped /\ typed' = typed + 1
  /\ SendUp(c, Message(c, typed + 1))
  /\ UNCHANGED <<list, sending, sockets, user, pc>>

(* The reading thread is terminated and the socket closed.                 *)
TypeQuit(c) ==
  /\ user[c] = "chatting" /\ user' = [user EXCEPT ![c] = "gone"]
  /\ SendUp(c, Quit(c))
  /\ online' = online \ {c}
  /\ UNCHANGED <<list, sending, got, read, typed, pc>>

(* The process is killed, or the connection is lost.                       *)
Killed(c) ==
  /\ c \in online /\ online' = online \ {c}
  /\ user' = [user EXCEPT ![c] = "gone"]
  /\ UNCHANGED <<list, sending, got, read, typed, up, pc>>

aReader(c) == user[c] = "chatting" /\ Receive(c) /\ UNCHANGED <<process, pc>>
-----------------------------------------------------------------------------
Add(c) ==
  /\ section = Nobody /\ Goes(c, "add", "name")
  /\ PushFront(c)
  /\ UNCHANGED <<section, sending, sockets, process>>

(* recv returns one text or several, of which the thread sees the first.   *)
Recv(c, what) ==
  /\ up[c] # <<>> /\ what = Head(up[c])
  /\ \E n \in 1 .. Len(up[c]) : up' = [up EXCEPT ![c] = SubSeq(@, n + 1, Len(@))]

RecvName(c) ==
  /\ Goes(c, "name", "enter")
  /\ \E name \in ToSet(up[c]) : Recv(c, name)
  /\ text' = [text EXCEPT ![c] = Joined(c)]
  /\ UNCHANGED <<list, cursor, whole, sockets, user, typed>>

(* The thread returns without taking its client out of the list.           *)
RecvNameFails(c) ==
  /\ up[c] = <<>> /\ c \notin online
  /\ Goes(c, "name", "failed")
  /\ UNCHANGED <<list, sending, sockets, process>>

(* After the end of the client recv fails over and over: no step.          *)
RecvMessage(c) ==
  /\ Goes(c, "recv", "enter")
  /\ \E what \in ToSet(up[c]) :
       /\ Recv(c, what)
       /\ text' = [text EXCEPT ![c] = IF what = Quit(c) THEN Left(c) ELSE what]
  /\ UNCHANGED <<list, cursor, whole, sockets, user, typed>>

(* Mutant: sendToAll goes through the list outside the section.            *)
EnterSendToAllNot(c) ==
  /\ Goes(c, "enter", "send")
  /\ BeginList(c)
  /\ UNCHANGED <<list, text, sockets, process>>

EnterSendToAll(c) ==
  /\ EnterSection(c) /\ Goes(c, "enter", "send")
  /\ BeginList(c)
  /\ UNCHANGED <<clients, text, sockets, process>>

SendNext(c) == pc[c] = "send" /\ SendToNext(c) /\ UNCHANGED <<process, pc>>

(* Mutant: the section is not left after the text of one who leaves.       *)
LeaveSendToAllNot(c) ==
  /\ EndList(c) /\ Goes(c, "send", IF text[c] = Left(c) THEN "remove" ELSE "recv")
  /\ section' = IF text[c] = Left(c) THEN section ELSE Nobody
  /\ UNCHANGED <<clients, sockets, process>>

LeaveSendToAll(c) ==
  /\ EndList(c) /\ LeaveSection(c)
  /\ Goes(c, "send", IF text[c] = Left(c) THEN "remove" ELSE "recv")
  /\ UNCHANGED <<clients, sockets, process>>

(* Mutant: the client is closed and deleted but stays in the list.         *)
RemoveNot(c) ==
  /\ section = Nobody /\ Goes(c, "remove", "closed")
  /\ UNCHANGED <<list, sending, sockets, process>>

(* The client is taken out of the list, its socket closed and it is freed. *)
(* list::remove takes out all elements that are equal to it, of which there*)
(* is one (ListedWhileServed).                                             *)
RemoveClient(c) ==
  /\ section = Nobody /\ Goes(c, "remove", "closed")
  /\ clients' = RemoveFirst(clients, c)
  /\ UNCHANGED <<section, sending, sockets, process>>

ClientThread(c) ==
  \/ Add(c) \/ RecvName(c) \/ RecvNameFails(c) \/ RecvMessage(c)
  \/ EnterSendToAll(c) \/ SendNext(c) \/ LeaveSendToAll(c) \/ RemoveClient(c)

Process(c) == \/ SendName(c) \/ TypeMessage(c) \/ TypeQuit(c) \/ Killed(c)
              \/ aReader(c)
-----------------------------------------------------------------------------
Init ==
  /\ section = Nobody /\ ListInit
  /\ user = [c \in Clients |-> "start"] /\ typed = 0
  /\ up = [c \in Clients |-> <<>>]
  /\ pc = [c \in Clients |-> "none"]

Next == \E c \in Clients : Accept(c) \/ ClientThread(c) \/ Process(c)

Spec == Init /\ [][Next]_vars

(* The threads of the server and the readers of the clients run; nothing is*)
(* assumed of the users.                                                   *)
Fairness == \A c \in Clients : WF_vars(ClientThread(c)) /\ WF_vars(aReader(c))

FairSpec == Spec /\ Fairness
-----------------------------------------------------------------------------
Texts == {Garbage} \cup {Joined(c) : c \in Clients} \cup {Left(c) : c \in Clients}
         \cup {Message(c, n) : c \in Clients, n \in 1 .. MaxTyped}

TypeOK ==
  /\ ListTypeOK(Texts)
  /\ user \in [Clients -> {"start", "naming", "chatting", "gone"}]
  /\ typed \in 0 .. MaxTyped
  /\ pc \in [Clients -> {"none", "add", "name", "recv", "enter", "send", "remove",
                         "closed", "failed"}]

(* The list holds each client once, from the moment its thread has added it*)
(* to the moment the thread frees it, and whoever goes through it meets    *)
(* only clients that are still in it (nothing freed is sent to).           *)
ListedWhileServed ==
  /\ IsInjective(clients)
  /\ \A c \in Clients : c \in ToSet(clients) <=> pc[c] \notin {"none", "add", "closed"}
  /\ \A c \in Clients : pc[c] = "send" => ToSet(cursor[c]) \subseteq ToSet(clients)

(* A text that only a user who does not yet read holds up: the server sends*)
(* to a client from the start, the client reads once its user has a name.  *)
Stuck(c) == c \in online /\ user[c] = "naming" /\ Len(got[c]) - read[c] = Room

(* Whoever has said QUIT and was heard is taken out of the list, and each  *)
(* text that was received is sent to the end of the list, unless a client  *)
(* without a name keeps the section busy.                                  *)
TextsGoOut ==
  \A c \in Clients : /\ pc[c] = "remove" ~> (pc[c] = "closed" \/ \E d \in Clients : Stuck(d))
                     /\ pc[c] = "enter" ~> (pc[c] \in {"recv", "closed"}
                                              \/ \E d \in Clients : Stuck(d))

(* "Each client ... must receive each message" (lab3.tex:672): when a text *)
(* has been sent to all, each client that is listed and running got it.    *)
EachClientReceives ==
  [][\A c, d \in Clients : LeaveSendToAll(c) /\ d \in ToSet(clients) \cap online =>
       text[c] \in ToSet(got[d])]_vars
=============================================================================
