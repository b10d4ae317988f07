----------------------------- MODULE MCSlimLock -----------------------------
(***************************************************************************)
(* The two programs that use the slim lock, for TLC: OptimalReaderWriter   *)
(* and ReaderWriterServer.  `program' says which one runs; the variables of*)
(* the other one stay as they were.                                        *)
(***************************************************************************)
EXTENDS OptimalReaderWriter

CONSTANTS Clients, Writers, Main, ExitText, PipeSize

(* The names of the threads of the server differ, and from the names of the*)
(* states of a critical section that has no owner.                         *)
ASSUME ServerAssumption ==
  /\ Clients \cap Writers = {} /\ Main # Manager
  /\ {Main, Manager} \cap (Clients \cup Writers) = {}
  /\ Nobody \notin Clients \cup Writers
  /\ {"uninitialized", "corrupt"} \cap (Writers \cup {Nobody}) = {}
ASSUME PipeAssumption == PipeSize \in Nat

VARIABLES program, rw, held, sleeping, crs, hasty, message, serving, spc,
          wakeups, visitor, free, client, channel, closed

Server == INSTANCE ReaderWriterServer
            WITH exclusive <- rw, shared <- held, condread <- sleeping,
                 isDone <- serving, pc <- spc, spurious <- wakeups, MsgNums <- 1

serverVars == <<rw, held, sleeping, crs, hasty, message, serving, spc,
                wakeups, visitor, free, client, channel, closed>>
mcvars == <<program, vars, serverVars>>

MCInit == program \in {"threads", "server"} /\ Init /\ Server!Init

InThreads(step) == program = "threads" /\ step /\ UNCHANGED <<program, serverVars>>
InServer(step) == program = "server" /\ step /\ UNCHANGED <<program, vars>>

MCReader(r) == InThreads(Reader(r))
MCWriter == InThreads(WriterThread)
MCJoin == InThreads(Join)
InstanceThread(c) == InServer(Server!InstanceThread(c))
ThreadWriter(w) == InServer(Server!ThreadWriter(w))
MainThread == InServer(Server!MainThread)
ClientReads(c) == InServer(Server!ClientReads(c))

MCNext ==
  \/ \E r \in Readers : MCReader(r) \/ InThreads(SpuriousWake(r))
  \/ MCWriter \/ MCJoin \/ InThreads(TimeManager)
  \/ \E c \in Clients : \/ InstanceThread(c) \/ ClientReads(c)
                        \/ InServer(Server!ClientOpens(c))
                        \/ InServer(Server!ClientGivesUp(c))
                        \/ InServer(Server!ClientKilled(c))
                        \/ InServer(Server!SpuriousWake(c))
  \/ \E w \in Writers : ThreadWriter(w)
  \/ MainThread \/ InServer(Server!TimeManager) \/ InServer(Server!Exit)

(* That of the two modules.                                                *)
MCFairness == /\ \A r \in Readers : WF_mcvars(MCReader(r))
              /\ WF_mcvars(MCWriter) /\ WF_mcvars(MCJoin)
              /\ \A c \in Clients : WF_mcvars(InstanceThread(c))
              /\ \A c \in Clients : WF_mcvars(ClientReads(c))
              /\ \A w \in Writers : WF_mcvars(ThreadWriter(w))
              /\ WF_mcvars(MainThread)

MCSpec == MCInit /\ [][MCNext]_mcvars /\ MCFairness
-----------------------------------------------------------------------------
(* Types of the server, writers of the server kept apart, and a lock kept  *)
(* for ever only by an instance thread whose client has gone               *)
(* (ReaderWriterServer/main.cpp:157).                                      *)
ServerExclusion == Server!TypeOK /\ Server!Exclusion

(* Until the shutdown no sleeper is forgotten: the writers get the lock    *)
(* however the readers come and go, and wake whoever sleeps.  In the server*)
(* two things can prevent it: a writer that entered the critical section   *)
(* before it was initialized, and a lock kept after a failed WriteFile.    *)
EverySleeperWoken == SleepersWoken /\ Server!SleepersWoken

(* After isDone every thread ends, but for the readers asleep, whom nobody *)
(* wakes, and in the server for main, which waits for another client, and  *)
(* for writers behind a section or a lock that is lost.                    *)
OnlyHeldRemain == OnlySleepersRemain /\ Server!OnlyHeldRemain
=============================================================================
