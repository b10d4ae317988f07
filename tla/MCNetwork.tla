----------------------------- MODULE MCNetwork -----------------------------
(***************************************************************************)
(* The two servers that use sendToAll, for TLC: ChatServer and NetServer.  *)
(* `program' says which one runs, the list and the sockets are its own; the*)
(* other variables of the other one stay as they were.                     *)
(***************************************************************************)
EXTENDS ChatServer

CONSTANTS Threads, Main, MaxSent

(* The threads of the chat server have the names of their clients; nobody  *)
(* has the name of a state of a critical section that has no owner.        *)
ASSUME NamesAssumption ==
  /\ Senders = Clients /\ Main \notin Threads
  /\ Nobody \notin Clients \cup Threads \cup {Main}
  /\ {"uninitialized", "corrupt"} \cap (Clients \cup Threads \cup {Main, Nobody}) = {}
ASSUME BoundAssumption == Room \in Nat /\ MaxTyped \in Nat /\ MaxSent \in Nat

VARIABLES program, sent, hasty, visitor, spc

Net == INSTANCE NetServer WITH Senders <- Threads \cup {Main}, pc <- spc

netVars == <<sent, hasty, visitor, spc>>
chatVars == <<process, pc>>
mcvars == <<program, vars, netVars>>

NetIdle == /\ sent = [t \in Threads |-> 0] /\ hasty = FALSE /\ visitor = Nobody
           /\ spc = [t \in Threads \cup {Main} |-> "loop"]

ChatIdle == /\ user = [c \in Clients |-> "start"] /\ typed = 0
            /\ up = [c \in Clients |-> <<>>] /\ pc = [c \in Clients |-> "none"]

MCInit == \/ program = "chat" /\ Init /\ NetIdle
          \/ program = "net" /\ Net!Init /\ ChatIdle

InChat(step) == program = "chat" /\ step /\ UNCHANGED <<program, netVars>>
InNet(step) == program = "net" /\ step /\ UNCHANGED <<program, chatVars>>

MCNext ==
  \/ \E c \in Clients : \/ InChat(Accept(c)) \/ InChat(ClientThread(c))
                        \/ InChat(Process(c))
                        \/ InNet(Net!Accept(c)) \/ InNet(Net!ClientReads(c))
                        \/ InNet(Net!ClientKilled(c))
  \/ InNet(Net!MainThread)
  \/ \E t \in Threads : InNet(Net!ClientThread(t))

(* That of the two modules.                                                *)
MCFairness ==
  /\ \A c \in Clients : /\ WF_mcvars(InChat(ClientThread(c)))
                        /\ WF_mcvars(InChat(aReader(c)))
                        /\ WF_mcvars(InNet(Net!ClientReads(c)))
  /\ WF_mcvars(InNet(Net!MainThread))
  /\ \A t \in Threads : WF_mcvars(InNet(Net!ClientThread(t)))

MCSpec == MCInit /\ [][MCNext]_mcvars /\ MCFairness
-----------------------------------------------------------------------------
(* A client is in the list from its joining to its leaving, while it is    *)
(* served; nobody sends to a client that has been freed, or to none.       *)
ListServed == IF program = "chat" THEN TypeOK /\ ListedWhileServed ELSE Net!TypeOK

(* In both servers the texts reach all clients in one order, and in the    *)
(* second one the list stays as it is while a thread goes through it,      *)
(* unless the section was entered before it was initialized.               *)
OneAtATime == IF program = "chat" THEN OneOrder ELSE Net!OneAtATime

(* In the chat, the one who leaves is taken out of the list and each text  *)
(* is sent to the end of the list, unless a client without a name holds    *)
(* the sender up.                                                          *)
ChatGoesOn == program = "chat" => TextsGoOut
=============================================================================
