--------------------------- MODULE AnonymousPipes ---------------------------
(***************************************************************************)
(* AnonymousPipeServer starts AnonymousPipeClient with its standard input  *)
(* and output redirected to two pipes, and returns what the client sends,  *)
(* MsgNums times.  Either process may be killed.                           *)
(***************************************************************************)
EXTENDS Integers

CONSTANT MsgNums

Nothing == 0               \* the messages are numbered from 1 on

VARIABLES server, client,  \* what each process is doing
          inServer,        \* the round of the server, and what it has read
          inClient,        \* the round of the client
          toServer, toClient,
          matched          \* whether each answer was that to its question

vars == <<server, client, inServer, inClient, toServer, toClient, matched>>
-----------------------------------------------------------------------------
(* The server is the only one that writes to toClient, but not the only one*)
(* that could: the client inherits all four handles.                       *)
ServerReads ==
  /\ server = "read" /\ toServer # Nothing
  /\ server' = "write" /\ inServer' = [inServer EXCEPT !.has = toServer]
  /\ toServer' = Nothing
  /\ UNCHANGED <<client, inClient, toClient, matched>>

(* Mutant: the server has kept its end for writing to toServer open, too,  *)
(* and never sees that pipe end.                                           *)
ServerReadFailsNot == FALSE

(* The client, the last one to write to toServer, has gone: exit(4).       *)
ServerReadFails ==
  /\ server = "read" /\ toServer = Nothing /\ client \in {"ended", "killed"}
  /\ server' = "ended"
  /\ UNCHANGED <<client, inServer, inClient, toServer, toClient, matched>>

ServerWrites ==
  /\ server = "write" /\ client \notin {"ended", "killed"}
  /\ toClient' = inServer.has
  /\ inServer' = [round |-> inServer.round + 1, has |-> Nothing]
  /\ server' = IF inServer.round = MsgNums THEN "ended" ELSE "read"
  /\ UNCHANGED <<client, inClient, toServer, matched>>

(* Nobody is left to read toClient: exit(5).                               *)
ServerWriteFails ==
  /\ server = "write" /\ client \in {"ended", "killed"}
  /\ server' = "ended"
  /\ UNCHANGED <<client, inServer, inClient, toServer, toClient, matched>>

Server == ServerReads \/ ServerReadFails \/ ServerWrites \/ ServerWriteFails
-----------------------------------------------------------------------------
(* It succeeds even if the server has gone: the client itself holds the end*)
(* for reading of toServer.                                                *)
ClientWrites ==
  /\ client = "write" /\ client' = "read"
  /\ toServer' = inClient
  /\ UNCHANGED <<server, inServer, inClient, toClient, matched>>

(* It never fails: the client holds the end for writing of toClient.       *)
ClientReads ==
  /\ client = "read" /\ toClient # Nothing
  /\ matched' = (matched /\ toClient = inClient)
  /\ toClient' = Nothing /\ inClient' = inClient + 1
  /\ client' = IF inClient = MsgNums THEN "ended" ELSE "write"
  /\ UNCHANGED <<server, inServer, toServer>>

Client == ClientWrites \/ ClientReads

Killed ==
  \/ /\ server # "ended" /\ server' = "killed"
     /\ UNCHANGED <<client, inServer, inClient, toServer, toClient, matched>>
  \/ /\ client # "ended" /\ client' = "killed"
     /\ UNCHANGED <<server, inServer, inClient, toServer, toClient, matched>>
-----------------------------------------------------------------------------
Init == /\ server = "read" /\ client = "write"
        /\ inServer = [round |-> 1, has |-> Nothing] /\ inClient = 1
        /\ toServer = Nothing /\ toClient = Nothing /\ matched = TRUE

Next == Server \/ Client \/ Killed

Spec == Init /\ [][Next]_vars
Fairness == WF_vars(Server) /\ WF_vars(Client)
-----------------------------------------------------------------------------
TypeOK ==
  /\ server \in {"read", "write", "ended", "killed"}
  /\ client \in {"read", "write", "ended", "killed"}
  /\ inServer \in [round : 1 .. MsgNums + 1, has : 0 .. MsgNums]
  /\ inClient \in 1 .. MsgNums + 1
  /\ toServer \in 0 .. MsgNums /\ toClient \in 0 .. MsgNums
  /\ matched \in BOOLEAN

(* Each answer is that to the question just asked.                         *)
AnswersMatch == matched

(* The processes end (lab2.tex:285) whatever happens to the other one, with*)
(* one exception: the client waits for ever for a server that was killed.  *)
BothEnded == /\ server \in {"ended", "killed"}
             /\ client \in {"ended", "killed"} \/ server = "killed"
BothEnd == []<>BothEnded
=============================================================================
