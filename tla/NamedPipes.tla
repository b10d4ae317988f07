----------------------------- MODULE NamedPipes -----------------------------
(***************************************************************************)
(* NamedPipeServer and NamedPipeClient, and their network versions: the    *)
(* server returns each message to the client it came from.  `network' says *)
(* which version runs: it allows Limit instances of the pipe, the other one*)
(* any number.  An instance, and its thread, bear the name of their client.*)
(***************************************************************************)
EXTENDS Integers, FiniteSets

CONSTANTS Clients, Nobody, Messages, ExitText, Limit

Nothing == "nothing"       \* what is not a message

VARIABLES network,
          main,            \* what the main thread of the server is doing
          free,            \* an instance that no client has opened
          visitor,         \* the client that has opened it, until it is served
          thread,          \* the instance thread of each client
          client,
          asked, answer    \* the messages in the two directions of each pipe

pipe == <<asked, answer>>
vars == <<network, main, free, visitor, thread, client, pipe>>

Open == {"read", "write", "getch", "flush"}
Instances == {c \in Clients : thread[c] \in Open \/ visitor = c}

ThreadGoes(c, from, to) == thread[c] = from /\ thread' = [thread EXCEPT ![c] = to]
ClientGoes(c, from, to) == client[c] = from /\ client' = [client EXCEPT ![c] = to]
-----------------------------------------------------------------------------
CreateNamedPipe ==
  /\ main = "create"
  /\ network => Cardinality(Instances) < Limit
  /\ free' = TRUE /\ main' = "connect"
  /\ UNCHANGED <<network, visitor, thread, client, pipe>>

(* CreateNamedPipe fails: the server exits with all its threads.           *)
NoMoreInstances ==
  /\ main = "create" /\ network /\ Cardinality(Instances) >= Limit
  /\ main' = "exited"
  /\ thread' = [c \in Clients |-> IF thread[c] \in Open THEN "closed" ELSE thread[c]]
  /\ answer' = [c \in Clients |-> Nothing]
  /\ UNCHANGED <<network, free, visitor, client, asked>>

(* ConnectNamedPipe finds a client, that may have been the faster one.     *)
ConnectNamedPipe(c) ==
  /\ main = "connect" /\ visitor = c /\ client[c] # "ended"
  /\ main' = "create" /\ visitor' = Nobody
  /\ ThreadGoes(c, "none", "read")
  /\ UNCHANGED <<network, free, client, pipe>>

(* It has gone already: the pipe is closed.                                *)
TurnAway(c) ==
  /\ main = "connect" /\ visitor = c /\ client[c] = "ended"
  /\ main' = "create" /\ visitor' = Nobody
  /\ UNCHANGED <<network, free, thread, client, pipe>>

MainThread == \/ CreateNamedPipe \/ NoMoreInstances
              \/ \E c \in Clients : ConnectNamedPipe(c) \/ TurnAway(c)
-----------------------------------------------------------------------------
ReadFile(c) ==
  /\ asked[c] # Nothing
  /\ ThreadGoes(c, "read", "write")
  /\ UNCHANGED <<network, main, free, visitor, client, pipe>>

(* The client has gone; the thread waits for a key.                        *)
ReadFileFails(c) ==
  /\ asked[c] = Nothing /\ client[c] = "ended"
  /\ ThreadGoes(c, "read", "getch")
  /\ UNCHANGED <<network, main, free, visitor, client, pipe>>

KeyPressed(c) ==
  /\ ThreadGoes(c, "getch", "flush")
  /\ UNCHANGED <<network, main, free, visitor, client, pipe>>

WriteFile(c) ==
  /\ ThreadGoes(c, "write", IF asked[c] = ExitText \/ client[c] = "ended"
                            THEN "flush" ELSE "read")
  /\ asked' = [asked EXCEPT ![c] = Nothing]
  /\ answer' = [answer EXCEPT ![c] = IF client[c] = "ended" THEN @ ELSE asked[c]]
  /\ UNCHANGED <<network, main, free, visitor, client>>

(* FlushFileBuffers waits until the client has read the answer.            *)
Disconnect(c) ==
  /\ answer[c] = Nothing \/ client[c] = "ended"
  /\ ThreadGoes(c, "flush", "closed")
  /\ UNCHANGED <<network, main, free, visitor, client, pipe>>

InstanceThread(c) == ReadFile(c) \/ ReadFileFails(c) \/ WriteFile(c) \/ Disconnect(c)
-----------------------------------------------------------------------------
CreateFile(c) ==
  /\ free /\ free' = FALSE /\ visitor' = c
  /\ ClientGoes(c, "start", "prompt")
  /\ UNCHANGED <<network, main, thread, pipe>>

(* There is no pipe at all, or for twenty seconds none that is free.       *)
GiveUp(c) ==
  /\ ~free /\ ClientGoes(c, "start", "ended")
  /\ UNCHANGED <<network, main, free, visitor, thread, pipe>>

Broken(c) == thread[c] = "closed" \/ (main = "exited" /\ thread[c] = "none")

Ask(c) ==
  /\ ~Broken(c) /\ ClientGoes(c, "prompt", "waiting")
  /\ \E text \in Messages \cup {ExitText} : asked' = [asked EXCEPT ![c] = text]
  /\ UNCHANGED <<network, main, free, visitor, thread, answer>>

GetAnswer(c) ==
  /\ answer[c] # Nothing
  /\ ClientGoes(c, "waiting", IF answer[c] = ExitText THEN "ended" ELSE "prompt")
  /\ answer' = [answer EXCEPT ![c] = Nothing]
  /\ UNCHANGED <<network, main, free, visitor, thread, asked>>

(* WriteFile or ReadFile fails.                                            *)
ConnectionLost(c) ==
  /\ Broken(c) /\ answer[c] = Nothing
  /\ \E state \in {"prompt", "waiting"} : ClientGoes(c, state, "ended")
  /\ UNCHANGED <<network, main, free, visitor, thread, pipe>>

(* The window of the client is closed.                                     *)
Killed(c) ==
  /\ \E state \in {"prompt", "waiting"} : ClientGoes(c, state, "ended")
  /\ UNCHANGED <<network, main, free, visitor, thread, pipe>>

Client(c) == GetAnswer(c) \/ ConnectionLost(c)
-----------------------------------------------------------------------------
Init == /\ network \in BOOLEAN
        /\ main = "create" /\ free = FALSE /\ visitor = Nobody
        /\ thread = [c \in Clients |-> "none"]
        /\ client = [c \in Clients |-> "start"]
        /\ asked = [c \in Clients |-> Nothing]
        /\ answer = [c \in Clients |-> Nothing]

Next == \/ MainThread
        \/ \E c \in Clients : \/ InstanceThread(c) \/ KeyPressed(c) \/ Client(c)
                              \/ CreateFile(c) \/ GiveUp(c) \/ Ask(c) \/ Killed(c)

Spec == Init /\ [][Next]_vars

(* Threads and programs run; nothing is assumed of users and operator.     *)
Fairness == /\ WF_vars(MainThread)
            /\ \A c \in Clients : WF_vars(InstanceThread(c)) /\ WF_vars(Client(c))
-----------------------------------------------------------------------------
TypeOK ==
  /\ network \in BOOLEAN /\ free \in BOOLEAN
  /\ main \in {"create", "connect", "exited"}
  /\ visitor \in Clients \cup {Nobody}
  /\ thread \in [Clients -> Open \cup {"none", "closed"}]
  /\ client \in [Clients -> {"start", "prompt", "waiting", "ended"}]
  /\ asked \in [Clients -> Messages \cup {ExitText, Nothing}]
  /\ answer \in [Clients -> Messages \cup {ExitText, Nothing}]

(* A pipe carries one message at a time, and only while its client waits or*)
(* has gone: an answer is always that to the last question.                *)
OneQuestion ==
  \A c \in Clients : /\ asked[c] = Nothing \/ answer[c] = Nothing
                     /\ client[c] = "prompt" => asked[c] = Nothing /\ answer[c] = Nothing

(* Who asks gets an answer, or is told that the connection is lost.        *)
Unanswered(c) == client[c] = "waiting"
AskersAnswered == \A c \in Clients : []<>~Unanswered(c)
=============================================================================
