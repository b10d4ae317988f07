-------------------------- MODULE NoMemReaderWriter --------------------------
(***************************************************************************)
(* NoMemProcessWriter and NoMemProcessReader: one writer and N reader      *)
(* processes whose counter belongs to the writer alone.  A reader reports  *)
(* with the event changeCount, when canChangeCount lets it, first that it  *)
(* is ready, then that it has read; the writer counts the reports and      *)
(* changes the phase with the N-th one.                                    *)
(***************************************************************************)
EXTENDS Integers, FiniteSets

CONSTANTS Readers, Writer, Manager,
          MsgNums          \* msgnum is an integer modulo MsgNums

Threads == Readers \cup {Writer, Manager}
numOfReaders == Cardinality(Readers)

VARIABLES readerCanRead, readerGetReady, exit,  \* manual reset events
          canChangeCount, changeCount,          \* auto-reset events
          reportCounter,                        \* kept by the writer
          readyState,      \* of each reader and of the writer
          memory, msgnum, isDone, pc, mainpc, times, got

phases == <<readerCanRead, readerGetReady>>
handshake == <<canChangeCount, changeCount>>
counting == <<reportCounter, readyState>>
message == <<memory, msgnum, times, got>>
control == <<exit, isDone, mainpc>>
vars == <<phases, handshake, counting, message, control, pc>>

At(t, label) == pc[t] = label
GoTo(t, label) == pc' = [pc EXCEPT ![t] = label]
Step(t, from, to) == At(t, from) /\ GoTo(t, to)
-----------------------------------------------------------------------------
(* The reader listens to exit and to the event of the phase it waits for.  *)
AwaitPhase(r) ==
  /\ At(r, "loop")
  /\ exit \/ IF readyState[r] THEN readerCanRead ELSE readerGetReady
  /\ GoTo(r, IF exit THEN "finished"
             ELSE IF readyState[r] THEN "read" ELSE "wait canChange")
  /\ UNCHANGED <<phases, handshake, counting, message, control>>

Read(r) ==
  /\ got' = [got EXCEPT ![r] = memory]
  /\ times' = [times EXCEPT ![r] = (@ + 1) % MsgNums]
  /\ Step(r, "read", "wait canChange")
  /\ UNCHANGED <<phases, handshake, counting, memory, msgnum, control>>

(* This wait does not listen to exit.                                      *)
WaitCanChange(r) ==
  /\ canChangeCount /\ canChangeCount' = FALSE
  /\ Step(r, "wait canChange", "report")
  /\ UNCHANGED <<phases, changeCount, counting, message, control>>

Report(r) ==
  /\ changeCount' = TRUE
  /\ readyState' = [readyState EXCEPT ![r] = ~@]
  /\ Step(r, "report", "loop")
  /\ UNCHANGED <<phases, canChangeCount, reportCounter, message, control>>

Reader(r) == AwaitPhase(r) \/ Read(r) \/ WaitCanChange(r) \/ Report(r)
-----------------------------------------------------------------------------
LoopTest ==
  /\ At(Writer, "loop")
  /\ GoTo(Writer, IF isDone THEN "finished" ELSE "wait report")
  /\ UNCHANGED <<phases, handshake, counting, message, control>>

WaitReport ==
  /\ At(Writer, "wait report")
  /\ exit \/ changeCount
  /\ changeCount' = (exit /\ changeCount)
  /\ GoTo(Writer, IF exit THEN "finished" ELSE "count")
  /\ UNCHANGED <<phases, canChangeCount, counting, message, control>>

(* Mutant: the phase changes with the first report.                        *)
CountReportFirst ==
  /\ reportCounter' = 0
  /\ readyState' = [readyState EXCEPT ![Writer] = ~@]
  /\ Step(Writer, "count", IF readyState[Writer] THEN "reset canRead" ELSE "write")
  /\ UNCHANGED <<phases, handshake, message, control>>

(* The last report of a phase starts the other one.                        *)
CountReport ==
  /\ LET last == reportCounter + 1 = numOfReaders
     IN  /\ reportCounter' = IF last THEN 0 ELSE reportCounter + 1
         /\ readyState' = [readyState EXCEPT ![Writer] = IF last THEN ~@ ELSE @]
         /\ Step(Writer, "count", IF ~last THEN "set canChange"
                                  ELSE IF readyState[Writer] THEN "reset canRead"
                                  ELSE "write")
  /\ UNCHANGED <<phases, handshake, message, control>>

ResetCanRead ==
  /\ readerCanRead' = FALSE
  /\ Step(Writer, "reset canRead", "set getReady")
  /\ UNCHANGED <<readerGetReady, handshake, counting, message, control>>

SetGetReady ==
  /\ readerGetReady' = TRUE
  /\ Step(Writer, "set getReady", "set canChange")
  /\ UNCHANGED <<readerCanRead, handshake, counting, message, control>>

WriteMessage ==
  /\ msgnum' = (msgnum + 1) % MsgNums
  /\ memory' = msgnum'
  /\ Step(Writer, "write", "reset getReady")
  /\ UNCHANGED <<phases, handshake, counting, times, got, control>>

ResetGetReady ==
  /\ readerGetReady' = FALSE
  /\ Step(Writer, "reset getReady", "set canRead")
  /\ UNCHANGED <<readerCanRead, handshake, counting, message, control>>

SetCanRead ==
  /\ readerCanRead' = TRUE
  /\ Step(Writer, "set canRead", "set canChange")
  /\ UNCHANGED <<readerGetReady, handshake, counting, message, control>>

SetCanChange ==
  /\ canChangeCount' = TRUE
  /\ Step(Writer, "set canChange", "loop")
  /\ UNCHANGED <<phases, changeCount, counting, message, control>>

WriterThread ==
  \/ LoopTest \/ WaitReport \/ CountReport \/ ResetCanRead \/ SetGetReady
  \/ WriteMessage \/ ResetGetReady \/ SetCanRead \/ SetCanChange

RaiseDone ==
  /\ isDone' = TRUE
  /\ Step(Manager, "loop", "set exit")
  /\ UNCHANGED <<phases, handshake, counting, message, exit, mainpc>>

SetExit ==
  /\ exit' = TRUE
  /\ Step(Manager, "set exit", "finished")
  /\ UNCHANGED <<phases, handshake, counting, message, isDone, mainpc>>

TimeManager == RaiseDone \/ SetExit

(* main waits for the threads and for the reader processes.                *)
Join ==
  /\ mainpc = "join"
  /\ \A t \in Threads : At(t, "finished")
  /\ mainpc' = "done"
  /\ UNCHANGED <<phases, handshake, counting, message, exit, isDone, pc>>
-----------------------------------------------------------------------------
Init ==
  /\ readerCanRead = FALSE /\ readerGetReady = TRUE /\ exit = FALSE
  /\ canChangeCount = TRUE /\ changeCount = FALSE
  /\ reportCounter = 0
  /\ readyState = [t \in Readers \cup {Writer} |-> FALSE]
  /\ memory = 0 /\ msgnum = 0
  /\ isDone = FALSE
  /\ pc = [t \in Threads |-> "loop"]
  /\ mainpc = "join"
  /\ times = [r \in Readers |-> 0] /\ got = [r \in Readers |-> 0]

Next == (\E r \in Readers : Reader(r)) \/ WriterThread \/ TimeManager \/ Join

Spec == Init /\ [][Next]_vars

Fairness == /\ \A r \in Readers : WF_vars(Reader(r))
            /\ WF_vars(WriterThread)
            /\ WF_vars(SetExit)
            /\ WF_vars(Join)
-----------------------------------------------------------------------------
ReaderLabels == {"loop", "read", "wait canChange", "report", "finished"}
PhaseLabels == {"count", "reset canRead", "set getReady", "write",
                "reset getReady", "set canRead", "set canChange"}
WriterLabels == {"loop", "wait report", "finished"} \cup PhaseLabels

TypeOK ==
  /\ {readerCanRead, readerGetReady, canChangeCount, changeCount} \subseteq BOOLEAN
  /\ exit \in BOOLEAN /\ isDone \in BOOLEAN
  /\ reportCounter \in 0 .. numOfReaders - 1
  /\ readyState \in [Readers \cup {Writer} -> BOOLEAN]
  /\ memory \in 0 .. MsgNums - 1 /\ msgnum \in 0 .. MsgNums - 1
  /\ pc \in [Threads -> ReaderLabels \cup WriterLabels \cup {"set exit"}]
  /\ mainpc \in {"join", "done"}
  /\ times \in [Readers -> 0 .. MsgNums - 1]
  /\ got \in [Readers -> 0 .. MsgNums - 1]

(* canChangeCount and changeCount hand one token round: while a report is  *)
(* under way, from the reader's wait to the writer's answer, there is no   *)
(* other one, so that no two SetEvent(changeCount) melt into one.          *)
Reporting == {r \in Readers : At(r, "report")}

OneReport ==
  /\ \A r, s \in Reporting : r = s
  /\ canChangeCount => Reporting = {}
  /\ changeCount => ~canChangeCount /\ Reporting = {}
  /\ pc[Writer] \in PhaseLabels => ~canChangeCount /\ ~changeCount /\ Reporting = {}

(* reportCounter, with the report under way, is the number of readers that *)
(* have reported in this phase: those not in the writer's state.           *)
ReportsCounted ==
  LET reported == {r \in Readers : readyState[r] # readyState[Writer]}
      pending == IF changeCount \/ At(Writer, "count") THEN 1 ELSE 0
  IN  Cardinality(reported) = reportCounter + pending

(* Nobody reads while the writer writes.                                   *)
NoReadDuringWrite == At(Writer, "write") => \A r \in Readers : ~At(r, "read")

Held(t) == t \in Readers /\ At(t, "wait canChange")
=============================================================================
