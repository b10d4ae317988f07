----------------------------- MODULE MCPrograms -----------------------------
(***************************************************************************)
(* The programs that talk to each other through a means of the system, for *)
(* TLC: sockets, named pipes, anonymous pipes, shared memory, a mailslot, and *)
(* the timer that the programs of SynchronizationPrimitives come to share.  *)
(* `program' says which ones run; nothing happens to the variables of the  *)
(* others.                                                                 *)
(***************************************************************************)
EXTENDS EchoSockets

CONSTANTS Messages, ExitText, Nobody, Limit,         \* NamedPipes
          MsgNums,                                   \* AnonymousPipes, Mailslot
          Readings, Producer, Consumer,                \* SharedMemory
          Ttls, Second, Half                           \* SharedTimer

ASSUME ProgramsAssumption ==
  /\ MsgNums \in Nat \ {0} /\ Readings \in Nat \ {0}
  /\ Producer # Consumer /\ Nobody \notin {Producer, Consumer}

ASSUME TimerAssumption ==
  /\ Ttls \subseteq Nat \ {0} /\ Second \in Nat \ {0} /\ Half \in Nat \ {0}

VARIABLES program,
          overNetwork, main, free, visitor, thread, asking, asked, answer,
          parent, child, inServer, inClient, toServer, toClient, matched,
          made, mutex, handle, memory, torn, halves, readings, pc,
          slot, writer, written, reader, cAllMessages, cMessage, shown, number, late,
          phase, ttl, holders, remaining, signaled, alone, waited

Pipes == INSTANCE NamedPipes WITH network <- overNetwork, client <- asking
Redirected == INSTANCE AnonymousPipes WITH server <- parent, client <- child
Memory == INSTANCE SharedMemory WITH Texts <- 2, seen <- halves,
                               Server <- Producer, Client <- Consumer
Slot == INSTANCE Mailslot
Timer == INSTANCE SharedTimer WITH Running <- Clients

pipeVars == <<overNetwork, main, free, visitor, thread, asking, asked, answer>>
redirectedVars == <<parent, child, inServer, inClient, toServer, toClient, matched>>
memoryVars == <<made, mutex, handle, memory, torn, halves, readings, pc>>
slotVars == <<slot, writer, written, reader, cAllMessages, cMessage, shown, number, late>>
timerVars == <<phase, ttl, holders, remaining, signaled, alone, waited>>
mcvars == <<program, vars, pipeVars, redirectedVars, memoryVars, slotVars, timerVars>>

MCInit ==
  /\ program \in {"sockets", "named", "anonymous", "memory", "mailslot", "timer"}
  /\ Init /\ Pipes!Init /\ Redirected!Init /\ Memory!Init /\ Slot!Init
  /\ Timer!Init
  /\ program # "sockets" => ~port
  /\ program # "named" => ~overNetwork

InSockets(step) ==
  /\ program = "sockets" /\ step
  /\ UNCHANGED <<program, pipeVars, redirectedVars, memoryVars, slotVars, timerVars>>
InNamed(step) ==
  /\ program = "named" /\ step
  /\ UNCHANGED <<program, vars, redirectedVars, memoryVars, slotVars, timerVars>>
InAnonymous(step) ==
  /\ program = "anonymous" /\ step
  /\ UNCHANGED <<program, vars, pipeVars, memoryVars, slotVars, timerVars>>
InMemory(step) ==
  /\ program = "memory" /\ step
  /\ UNCHANGED <<program, vars, pipeVars, redirectedVars, slotVars, timerVars>>
InSlot(step) ==
  /\ program = "mailslot" /\ step
  /\ UNCHANGED <<program, vars, pipeVars, redirectedVars, memoryVars, timerVars>>
InTimer(step) ==
  /\ program = "timer" /\ step
  /\ UNCHANGED <<program, vars, pipeVars, redirectedVars, memoryVars, slotVars>>

MCNext == InSockets(Next) \/ InNamed(Pipes!Next) \/ InAnonymous(Redirected!Next)
          \/ InMemory(Memory!Next) \/ InSlot(Slot!Next)
          \/ InTimer(Timer!Next)

(* That of the modules.  `program' and `port' stay what they are, so that  *)
(* fairness of a disjunction over programs is fairness of each disjunct;   *)
(* and nothing is done for a connection before it is accepted, once.       *)
MCFairness ==
  /\ \A c \in Clients :
       /\ WF_mcvars(\/ InSockets(Accept(c) \/ ServerThread(c) \/ System(c))
                    \/ InNamed(Pipes!InstanceThread(c)) \/ InTimer(Timer!Goes(c)))
       /\ WF_mcvars(InSockets(Answered(c)) \/ InNamed(Pipes!Client(c)))
       /\ WF_mcvars(InSockets(Worker(c)))
  /\ WF_mcvars(\/ InSockets(Dequeue) \/ InNamed(Pipes!MainThread)
               \/ InAnonymous(Redirected!Server) \/ InTimer(Timer!Expires))
  /\ WF_mcvars(InAnonymous(Redirected!Client) \/ InTimer(Timer!Tick))

MCSpec == MCInit /\ [][MCNext]_mcvars /\ MCFairness
-----------------------------------------------------------------------------
(* What a client gets back through sockets and pipes is what it has sent,  *)
(* and nothing else is ever found there.                                   *)
EchoesMatch == /\ TypeOK /\ EchoIsStream
               /\ Pipes!TypeOK /\ Pipes!OneQuestion
               /\ Redirected!TypeOK /\ Redirected!AnswersMatch

(* What is written to the shared memory and to the mailslot is read whole. *)
ReadWhole == /\ Memory!TypeOK /\ Memory!WholeTexts
             /\ Slot!TypeOK /\ Slot!AllShown

(* Whoever waits for an answer gets it or learns that nobody will give it, *)
(* as long as a worker is left, or the server that was inherited from; who *)
(* waits for the end of its time goes on when it is over, not before.      *)
WaitersGoOn ==
  /\ [](program = "timer" => Timer!TypeOK /\ Timer!NeverEarly)
  /\ \A c \in Clients :
       []<>~(\/ program = "sockets" /\ Unanswered(c)
             \/ program = "named" /\ Pipes!Unanswered(c)
             \/ program = "anonymous" /\ ~Redirected!BothEnded
             \/ program = "timer" /\ Timer!Pending(c))
=============================================================================
