---------------------------- MODULE EchoSockets ----------------------------
(***************************************************************************)
(* WinSockServer, CompletionPortServer and WinSockClient.  Both servers    *)
(* return to each client what it sends: WinSockServer has a thread for each*)
(* client, CompletionPortServer a pool of workers that take the completions*)
(* of asynchronous operations from a queue.  `port' says which one runs.   *)
(***************************************************************************)
EXTENDS Integers, Sequences, SequencesExt

CONSTANTS Clients,
          NumWorkers,      \* two for each processor
          MaxTexts,        \* bound on the texts that all clients send before QUIT
          Room             \* how many texts a socket holds in one direction

ASSUME SocketsAssumption == NumWorkers \in Nat /\ MaxTexts \in Nat

Quit == 0                  \* texts are numbered from 1 on
Welcome == -1
Blank == -2                \* a buffer nothing was received into

VARIABLES port,
          running,         \* whether the server has not ended
          client, typed,   \* the client processes, and how many texts each sent
          up,              \* texts on the way to the server
          echo, seen,      \* all it was sent, and how much of it it received
          buffer,          \* the texts last received from each client
          conn,            \* the server's end of each connection
          op,              \* WinSockServer: where the thread of a client is;
                           \* otherwise the operation started on its socket
          received,        \* whether BytesRecv is not 0
          queue,           \* completed operations: client and result
          idle,            \* how many workers wait for a completion
          busy,            \* the completions that workers have taken
          telling          \* for each worker that has started a recv and has
                           \* still to print it: the client

network == <<client, typed, up, seen>>
pool == <<queue, idle, busy, telling>>
server == <<port, running, buffer, echo, conn, op, received, pool>>
vars == <<network, server>>

Set(f, c, value) == f' = [f EXCEPT ![c] = value]
-----------------------------------------------------------------------------
Gone(c) == client[c] \in {"closed", "killed"}

(* A connection is reset when its client is killed, and when a client that *)
(* has closed has left unread what it was sent, or is sent more.           *)
Reset(c) == \/ client[c] = "killed"
            \/ client[c] = "closed" /\ seen[c] < Len(echo[c])

(* The process of the server ends, and with it all that it had started.    *)
Ends ==
  /\ running' = FALSE
  /\ op' = [c \in Clients |-> "none"] /\ queue' = <<>>
  /\ idle' = 0 /\ busy' = {} /\ telling' = <<>>

Connect(c) ==
  /\ running /\ client[c] = "start" /\ Set(client, c, "prompt")
  /\ UNCHANGED <<typed, up, seen, server>>

(* main accepts, and the port sends a welcome.                             *)
Accept(c) ==
  /\ running /\ client[c] # "start" /\ conn[c] = "none"
  /\ Set(conn, c, "open")
  /\ Set(op, c, IF port THEN "welcome" ELSE "recv")
  /\ UNCHANGED <<network, port, running, buffer, echo, received, pool>>

(* A connection that was reset before: accept fails, and main goes on, or  *)
(* the send of the welcome fails, and main ends the server: exit(10).      *)
AcceptFails(c) ==
  /\ running /\ client[c] = "killed" /\ conn[c] = "none"
  /\ Set(conn, c, "closed")
  /\ \/ UNCHANGED <<running, op, pool>>
     \/ port /\ Ends
  /\ UNCHANGED <<network, port, buffer, echo, received>>

(* When the server has ended send and recv fail, and the client asks for   *)
(* the next text until it is told QUIT: none of its steps matters.         *)
SendText(c) ==
  /\ running /\ client[c] = "prompt" /\ Set(client, c, "waiting")
  /\ FoldFunction(+, 0, typed) < MaxTexts /\ Set(typed, c, typed[c] + 1)
  /\ Set(up, c, Append(up[c], typed[c] + 1))
  /\ UNCHANGED <<seen, server>>

SendQuit(c) ==
  /\ running /\ client[c] = "prompt" /\ Set(client, c, "closed")
  /\ Set(up, c, Append(up[c], Quit))
  /\ UNCHANGED <<typed, seen, server>>

(* One recv returns what has come, one text or several; the client takes it*)
(* for the answer.  When the server has ended it fails.                    *)
Answered(c) ==
  /\ client[c] = "waiting" /\ Set(client, c, "prompt")
  /\ \/ \E n \in 1 .. Len(echo[c]) - seen[c] : Set(seen, c, seen[c] + n)
     \/ ~running /\ UNCHANGED seen
  /\ UNCHANGED <<typed, up, server>>

Killed(c) ==
  /\ running /\ client[c] \in {"prompt", "waiting"} /\ Set(client, c, "killed")
  /\ Set(up, c, <<>>)
  /\ UNCHANGED <<typed, seen, server>>

(* A reset discards what has come and was not received; an operation under *)
(* way on the port fails (OperationFails).                                 *)
Discarded(c) ==
  /\ ~port /\ Reset(c) /\ up[c] # <<>> /\ Set(up, c, <<>>)
  /\ UNCHANGED <<client, typed, seen, server>>
-----------------------------------------------------------------------------
(* The bytes of a recv hold one text or several.                           *)
Receive(c) ==
  \E n \in 1 .. Len(up[c]) : /\ Set(buffer, c, SubSeq(up[c], 1, n))
                             /\ Set(up, c, SubSeq(up[c], n + 1, Len(up[c])))

(* Only the first text is compared with QUIT.                              *)
SaysQuit(c) == Head(buffer[c]) = Quit

(* What is sent to a client that has closed is never read, and what is sent*)
(* to one that was killed never comes.                                     *)
SendBack(c, texts) ==
  /\ Len(echo[c]) - seen[c] + Len(texts) <= Room \/ Gone(c)
  /\ Set(echo, c, IF client[c] = "killed" THEN echo[c] ELSE echo[c] \o texts)

(* Mutant: only the first of several texts is sent back.                   *)
FirstOf(texts) == SubSeq(texts, 1, 1)

(* All bytes that were received.                                           *)
AllOf(texts) == texts

(* After the end of the client recv fails over and over: no step.          *)
ThreadReceives(c) ==
  /\ ~port /\ op[c] = "recv"
  /\ Receive(c) /\ Set(op, c, "send")
  /\ UNCHANGED <<client, typed, seen, port, running, echo, conn, received, pool>>

ThreadSends(c) ==
  /\ ~port /\ op[c] = "send"
  /\ IF SaysQuit(c) THEN Set(conn, c, "closed") /\ Set(op, c, "none") /\ UNCHANGED echo
     ELSE SendBack(c, AllOf(buffer[c])) /\ Set(op, c, "recv") /\ UNCHANGED conn
  /\ UNCHANGED <<network, port, running, buffer, received, pool>>
-----------------------------------------------------------------------------
(* The system carries the operation out and queues its completion.  Sends  *)
(* complete as a whole.                                                    *)
Complete(c, result) ==
  Set(op, c, "none") /\ queue' = Append(queue, <<c, result>>)

SendCompletes(c) ==
  /\ port /\ op[c] \in {"send", "welcome"} /\ client[c] # "killed"
  /\ SendBack(c, IF op[c] = "send" THEN AllOf(buffer[c]) ELSE <<Welcome>>)
  /\ Complete(c, "bytes")
  /\ UNCHANGED <<network, port, running, buffer, conn, received, idle, busy, telling>>

RecvCompletes(c) ==
  /\ port /\ op[c] = "recv"
  /\ Receive(c) /\ Complete(c, "bytes")
  /\ UNCHANGED <<client, typed, seen, port, running, echo, conn, received, idle, busy,
                 telling>>

RecvFindsClosed(c) ==
  /\ port /\ op[c] = "recv" /\ up[c] = <<>> /\ client[c] = "closed"
  /\ Complete(c, "nothing")
  /\ UNCHANGED <<network, port, running, buffer, echo, conn, received, idle, busy,
                 telling>>

OperationFails(c) ==
  /\ port /\ op[c] # "none" /\ Reset(c)
  /\ Complete(c, "failed")
  /\ UNCHANGED <<network, port, running, buffer, echo, conn, received, idle, busy,
                 telling>>

System(c) == \/ SendCompletes(c) \/ RecvCompletes(c) \/ RecvFindsClosed(c)
             \/ OperationFails(c)
-----------------------------------------------------------------------------
(* GetQueuedCompletionStatus; after a failed operation the worker returns. *)
Dequeue ==
  /\ idle > 0 /\ queue # <<>>
  /\ idle' = idle - 1 /\ queue' = Tail(queue)
  /\ busy' = IF Head(queue)[2] = "failed" THEN busy ELSE busy \cup {Head(queue)}
  /\ UNCHANGED <<network, port, running, buffer, echo, conn, op, received, telling>>

Takes(c, result) == <<c, result>> \in busy /\ busy' = busy \ {<<c, result>>}
Continues == idle' = idle + 1
Returns == UNCHANGED idle

(* The socket is closed and the data of the connection are freed.          *)
CloseSocket(c) ==
  /\ Takes(c, "nothing") /\ Continues
  /\ Set(conn, c, "freed")
  /\ UNCHANGED <<network, port, running, buffer, echo, op, received, queue, telling>>

(* The client has said QUIT: the worker, not only the connection, ends.    *)
QuitReceived(c) ==
  /\ Takes(c, "bytes") /\ ~received[c] /\ SaysQuit(c)
  /\ Returns /\ Set(conn, c, "closed") /\ Set(received, c, TRUE)
  /\ UNCHANGED <<network, port, running, buffer, echo, op, queue, telling>>

(* A new operation fails at once on a connection that was reset.           *)
StartFails(c) == Reset(c) /\ Returns /\ UNCHANGED <<op, telling>>

(* Mutant: a send that has succeeded at once is handled at once, although  *)
(* its completion is queued as well.                                       *)
StartSendInline(c) ==
  /\ <<c, "bytes">> \in busy /\ ~received[c] /\ ~SaysQuit(c)
  /\ Set(op, c, "send") /\ Set(received, c, TRUE)
  /\ UNCHANGED <<network, port, running, buffer, echo, conn, pool>>

(* Mutant: a send that is pending is taken for one that has failed.        *)
StartSendPending(c) ==
  /\ Takes(c, "bytes") /\ ~received[c] /\ ~SaysQuit(c)
  /\ Set(op, c, "send") /\ (Continues \/ Returns) /\ Set(received, c, TRUE)
  /\ UNCHANGED <<network, port, running, buffer, echo, conn, queue, telling>>

(* BytesRecv is 0: what has completed is taken for a recv, be it one or the*)
(* welcome, and the buffer is sent.                                        *)
StartSend(c) ==
  /\ Takes(c, "bytes") /\ ~received[c] /\ ~SaysQuit(c)
  /\ \/ Set(op, c, "send") /\ Continues /\ UNCHANGED telling
     \/ StartFails(c)
  /\ Set(received, c, TRUE)
  /\ UNCHANGED <<network, port, running, buffer, echo, conn, queue>>

(* The worker has still to print the socket and the buffer of the operation*)
(* it has started, which others may complete, handle and free by then.     *)
StartRecv(c) ==
  /\ Takes(c, "bytes") /\ received[c]
  /\ \/ Set(op, c, "recv") /\ telling' = Append(telling, c) /\ UNCHANGED idle
     \/ StartFails(c)
  /\ Set(received, c, FALSE)
  /\ UNCHANGED <<network, port, running, buffer, echo, conn, queue>>

(* What it prints of data that are freed is undefined, and the access may  *)
(* end the process.                                                        *)
Tells(c) ==
  /\ \/ /\ \E i \in DOMAIN telling : telling[i] = c /\ telling' = RemoveAt(telling, i)
        /\ Continues /\ UNCHANGED <<running, op, queue, busy>>
     \/ c \in Range(telling) /\ conn[c] = "freed" /\ Ends
  /\ UNCHANGED <<network, port, buffer, echo, conn, received>>

Worker(c) == \/ CloseSocket(c) \/ QuitReceived(c) \/ StartSend(c) \/ StartRecv(c)
             \/ Tells(c)
-----------------------------------------------------------------------------
Init ==
  /\ port \in BOOLEAN /\ running = TRUE
  /\ client = [c \in Clients |-> "start"] /\ typed = [c \in Clients |-> 0]
  /\ up = [c \in Clients |-> <<>>]
  /\ echo = [c \in Clients |-> <<>>] /\ seen = [c \in Clients |-> 0]
  /\ buffer = [c \in Clients |-> <<Blank>>]
  /\ conn = [c \in Clients |-> "none"] /\ op = [c \in Clients |-> "none"]
  /\ received = [c \in Clients |-> FALSE]
  /\ queue = <<>> /\ idle = NumWorkers /\ busy = {} /\ telling = <<>>

ServerThread(c) == ThreadReceives(c) \/ ThreadSends(c)

Next == \/ \E c \in Clients : \/ Connect(c) \/ Accept(c) \/ AcceptFails(c)
                              \/ SendText(c) \/ SendQuit(c) \/ Answered(c)
                              \/ Killed(c) \/ Discarded(c)
                              \/ ServerThread(c) \/ System(c) \/ Worker(c)
        \/ Dequeue

Spec == Init /\ [][Next]_vars

(* Threads, main, the system and the clients' recv go on; users do as they *)
(* like.                                                                   *)
Fairness ==
  /\ \A c \in Clients : /\ WF_vars(ServerThread(c)) /\ WF_vars(System(c))
                        /\ WF_vars(Answered(c)) /\ WF_vars(Worker(c))
                        /\ WF_vars(Accept(c))
  /\ WF_vars(Dequeue)

FairSpec == Spec /\ Fairness
-----------------------------------------------------------------------------
Texts == Nat \cup {Welcome, Blank}

TypeOK ==
  /\ {port, running} \subseteq BOOLEAN
  /\ client \in [Clients -> {"start", "prompt", "waiting", "closed", "killed"}]
  /\ \A c \in Clients :
       /\ typed[c] \in Nat
       /\ \A s \in {up[c], echo[c], buffer[c]} : \A i \in DOMAIN s : s[i] \in Texts
       /\ seen[c] \in 0 .. Len(echo[c])
  /\ conn \in [Clients -> {"none", "open", "closed", "freed"}]
  /\ op \in [Clients -> {"none", "recv", "send", "welcome"}]
  /\ received \in [Clients -> BOOLEAN]
  /\ idle \in 0 .. NumWorkers /\ busy \subseteq Clients \X {"bytes", "nothing"}
  /\ telling \in Seq(Clients)

(* What a client is sent is, after what the completion port sends first,   *)
(* what it has sent, in its order, nothing twice and nothing left out: when*)
(* the next text is awaited, what was sent back and what is on its way to  *)
(* the server are all.                                                     *)
Prelude == IF port THEN <<Welcome, Blank>> ELSE <<>>
Sent(c) == Prelude \o [n \in 1 .. typed[c] |-> n]
                   \o IF client[c] = "closed" THEN <<Quit>> ELSE <<>>
EchoIsStream ==
  \A c \in Clients : /\ IsPrefix(echo[c], Sent(c))
                     /\ op[c] = "recv" /\ ~Gone(c) => echo[c] \o up[c] = Sent(c)

(* One hand at a time moves a connection: an operation has been started, or*)
(* its completion is in the queue, or one worker handles it; and none does *)
(* after the socket has been closed.  A worker that only prints what it    *)
(* finds (Tells) is no hand: the next one may be at work beside it.        *)
Hands(c) == Cardinality({b \in busy : b[1] = c})
            + Cardinality({i \in 1 .. Len(queue) : queue[i][1] = c})
            + (IF op[c] = "none" THEN 0 ELSE 1)
OneHand ==
  \A c \in Clients : Hands(c) <= IF conn[c] = "open" THEN 1 ELSE 0

(* A client that goes, with QUIT or without, costs the pool one worker at  *)
(* most, and one that stays none.                                          *)
Left == {c \in Clients : Gone(c)}
OneWorkerEach ==
  running => idle + Cardinality(busy) + Len(telling) + Cardinality(Left) >= NumWorkers

(* As long as a worker is left, whoever waits for an answer gets one.      *)
WorkersLeft == idle > 0 \/ busy # {} \/ telling # <<>>
Unanswered(c) == client[c] = "waiting" /\ (running => WorkersLeft)
AnsweredWhileWorkers == \A c \in Clients : []<>~Unanswered(c)
=============================================================================
