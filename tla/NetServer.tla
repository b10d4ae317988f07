----------------------------- MODULE NetServer -----------------------------
(***************************************************************************)
(* NetReaderWriterServer and NetReaderWriterClient: the threads of the     *)
(* server send numbers to all clients; main adds the clients that connect  *)
(* to the list, which nobody ever leaves.                                  *)
(***************************************************************************)
EXTENDS SendToAll

CONSTANTS Main,
          MaxSent          \* bound on the numbers a thread sends

Writers == Senders \ {Main}

VARIABLES sent,            \* how many numbers each thread has made
          hasty,           \* whether a thread came before the initialization
          visitor,         \* the client that main has accepted
          pc

thread == <<sent, hasty, visitor, pc>>
vars == <<list, sending, sockets, thread>>

Goes(t, from, to) == pc[t] = from /\ pc' = [pc EXCEPT ![t] = to]
-----------------------------------------------------------------------------
(* main has started the threads before this.                               *)
InitializeSection ==
  /\ Goes(Main, "initialize", "accept")
  /\ section' = Nobody
  /\ UNCHANGED <<clients, sending, sockets, sent, hasty, visitor>>

Accept(c) ==
  /\ Goes(Main, "accept", "enter")
  /\ c \notin online \cup ToSet(clients)
  /\ online' = online \cup {c} /\ visitor' = c
  /\ UNCHANGED <<list, sending, got, read, sent, hasty>>

(* A section not initialized yet, or corrupt, lets the thread in or lets it*)
(* wait for ever.                                                          *)
Enter(t, inside) ==
  /\ pc[t] = "enter"
  /\ \/ EnterSection(t) /\ Goes(t, "enter", inside) /\ UNCHANGED hasty
     \/ /\ section \in {Uninitialized, Corrupt}
        /\ \E next \in {inside, "hung"} : Goes(t, "enter", next)
        /\ hasty' = TRUE /\ UNCHANGED section

EnterToAdd == Enter(Main, "add") /\ UNCHANGED <<clients, sending, sockets, sent, visitor>>

Add ==
  /\ Goes(Main, "add", "leave")
  /\ PushFront(visitor) /\ visitor' = Nobody
  /\ UNCHANGED <<section, sending, sockets, sent, hasty>>

LeaveAfterAdd ==
  /\ Goes(Main, "leave", "accept") /\ LeaveSection(Main)
  /\ UNCHANGED <<clients, sending, sockets, sent, hasty, visitor>>

MainThread == \/ InitializeSection \/ EnterToAdd \/ Add \/ LeaveAfterAdd
-----------------------------------------------------------------------------
MakeNumber(t) ==
  /\ Goes(t, "loop", "enter")
  /\ sent[t] < MaxSent /\ sent' = [sent EXCEPT ![t] = @ + 1]
  /\ text' = [text EXCEPT ![t] = <<"number", t, sent[t] + 1>>]
  /\ UNCHANGED <<list, cursor, whole, sockets, hasty, visitor>>

EnterSendToAll(t) ==
  /\ Enter(t, "send") /\ BeginList(t)
  /\ UNCHANGED <<clients, text, sockets, sent, visitor>>

SendNext(t) == pc[t] = "send" /\ SendToNext(t) /\ UNCHANGED thread

LeaveSendToAll(t) ==
  /\ Goes(t, "send", "loop") /\ EndList(t) /\ LeaveSection(t)
  /\ UNCHANGED <<clients, sockets, sent, hasty, visitor>>

ClientThread(t) == \/ MakeNumber(t) \/ EnterSendToAll(t) \/ SendNext(t)
                   \/ LeaveSendToAll(t)

(* The client only receives, until its window is closed.                   *)
ClientReads(c) == Receive(c) /\ UNCHANGED thread

ClientKilled(c) ==
  /\ c \in online /\ online' = online \ {c}
  /\ UNCHANGED <<list, sending, got, read, thread>>
-----------------------------------------------------------------------------
Init ==
  /\ section = Uninitialized /\ ListInit
  /\ sent = [t \in Writers |-> 0] /\ hasty = FALSE /\ visitor = Nobody
  /\ pc = [t \in Senders |-> IF t = Main THEN "initialize" ELSE "loop"]

Next == \/ MainThread
        \/ \E t \in Writers : ClientThread(t)
        \/ \E c \in Clients : Accept(c) \/ ClientReads(c) \/ ClientKilled(c)

Spec == Init /\ [][Next]_vars

Fairness == /\ WF_vars(MainThread)
            /\ \A t \in Writers : WF_vars(ClientThread(t))
            /\ \A c \in Clients : WF_vars(ClientReads(c))
-----------------------------------------------------------------------------
Texts == {Garbage} \cup {<<"number", t, n>> : t \in Writers, n \in 1 .. MaxSent}

TypeOK ==
  /\ ListTypeOK(Texts)
  /\ sent \in [Writers -> 0 .. MaxSent] /\ hasty \in BOOLEAN
  /\ visitor \in Clients \cup {Nobody}
  /\ pc \in [Senders -> {"initialize", "accept", "loop", "enter", "add", "send",
                         "leave", "hung"}]

(* All clients get the numbers in one order, and the list does not change  *)
(* while somebody goes through it, unless a thread was quicker than the    *)
(* initialization of the section (NetReaderWriterServer/main.cpp:104).     *)
OneAtATime ==
  hasty \/ /\ OneOrder
           /\ \A t \in Writers, s \in Senders : pc[t] = "send" /\ s # t => pc[s] \notin {"add", "send"}
=============================================================================
