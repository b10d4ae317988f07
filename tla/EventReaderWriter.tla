------------------------- MODULE EventReaderWriter -------------------------
(***************************************************************************)
(* One writer and N readers that synchronise with five events and two      *)
(* counters only: ThreadsReaderWriter, where all are threads of a process, *)
(* and ProcessWriter with ProcessReader, where the readers are processes   *)
(* and the counters lie in the shared memory; `program' says which one is  *)
(* running.  A round: the readers pass the boundary allRead and are        *)
(* counted in countready; the last one closes the boundary and lets the    *)
(* writer write; the writer adds the readers to countread and opens        *)
(* canRead; the readers read and count countread down; the last one closes *)
(* canRead and opens the boundary again.  The lines given in PROJECT.json  *)
(* are those of ThreadsReaderWriter unless a step is the processes' own.   *)
(***************************************************************************)
EXTENDS Integers, FiniteSets

CONSTANTS Readers, Writer, Manager,
          MsgNums          \* msgnum is an integer modulo MsgNums

Threads == Readers \cup {Writer, Manager}
numOfReaders == Cardinality(Readers)

ASSUME ConfigAssumption ==
  /\ IsFiniteSet(Readers) /\ Readers # {}
  /\ Writer \notin Readers /\ Manager \notin Readers /\ Writer # Manager
ASSUME WidthAssumption == MsgNums \in Nat /\ MsgNums > 2

VARIABLES program,
          canRead, allRead, exit,      \* manual reset events
          canWrite, changeCount,       \* auto-reset events
          countread, countready,       \* the two shared counters
          memory,                      \* the number of the message in memory
          msgnum,                      \* local to the writer
          isDone, pc,
          mainpc,
          times, got                   \* what each reader has read

Programs == {"threads", "processes"}

events == <<canRead, allRead, exit, canWrite, changeCount>>
counters == <<countread, countready>>
main == <<program, mainpc>>
history == <<times, got>>
vars == <<main, events, counters, memory, msgnum, isDone, pc, history>>

At(t, label) == pc[t] = label
GoTo(t, label) == pc' = [pc EXCEPT ![t] = label]
Step(t, from, to) == At(t, from) /\ GoTo(t, to)

(* WaitForSingleObject and SetEvent on changeCount, which is auto-reset.   *)
TakeCount == changeCount /\ changeCount' = FALSE
GiveCount == changeCount' = TRUE
-----------------------------------------------------------------------------
(* while (isDone != true)                                                  *)
LoopTest(t, next) ==
  /\ At(t, "loop")
  /\ GoTo(t, IF isDone THEN "finished" ELSE next)
  /\ UNCHANGED <<events, counters, memory, msgnum, isDone, main, history>>

(* The readers that are processes loop for ever: while (1).                *)
LoopAgain(r) ==
  /\ Step(r, "loop", "wait allRead")
  /\ UNCHANGED <<events, counters, memory, msgnum, isDone, main, history>>

(* Mutant: the wait does not listen to exit.                               *)
WaitOnly(t, e, next) == e /\ GoTo(t, next)

(* WaitForMultipleObjects on {exit, e}: when both are signalled it returns *)
(* the lower index, exit; an auto-reset event is consumed only when it is  *)
(* the one returned.                                                       *)
WaitExitOr(t, e, next) ==
  /\ exit \/ e
  /\ GoTo(t, IF exit THEN "finished" ELSE next)

WaitAllRead(r) ==
  /\ allRead
  /\ Step(r, "wait allRead", "wait ready")
  /\ UNCHANGED <<events, counters, memory, msgnum, isDone, main, history>>

WaitReady(r) ==
  /\ TakeCount
  /\ Step(r, "wait ready", "ready")
  /\ UNCHANGED <<canRead, allRead, exit, canWrite, counters, memory, msgnum,
                 isDone, main, history>>

(* The threads count up from 0 and start again, the processes down from    *)
(* the number the writer adds for each message.                            *)
CountReady(r) ==
  /\ \/ /\ program = "threads"
        /\ countready' = (countready + 1) % numOfReaders
     \/ /\ program = "processes"
        /\ countready' = countready - 1
  /\ Step(r, "ready",
          IF countready' = 0 THEN "reset allRead" ELSE "release ready")
  /\ UNCHANGED <<events, countread, memory, msgnum, isDone, main, history>>

(* Mutant: the boundary is not closed.                                     *)
ResetAllReadNot(r) ==
  /\ Step(r, "reset allRead", "set canWrite")
  /\ UNCHANGED <<events, counters, memory, msgnum, isDone, main, history>>

ResetAllRead(r) ==
  /\ allRead' = FALSE
  /\ Step(r, "reset allRead", "set canWrite")
  /\ UNCHANGED <<canRead, exit, canWrite, changeCount, counters, memory,
                 msgnum, isDone, main, history>>

SetCanWrite(r) ==
  /\ canWrite' = TRUE
  /\ Step(r, "set canWrite", "release ready")
  /\ UNCHANGED <<canRead, allRead, exit, changeCount, counters, memory,
                 msgnum, isDone, main, history>>

ReleaseReady(r) ==
  /\ GiveCount
  /\ Step(r, "release ready", "wait canRead")
  /\ UNCHANGED <<canRead, allRead, exit, canWrite, counters, memory, msgnum,
                 isDone, main, history>>

WaitCanRead(r) ==
  /\ At(r, "wait canRead")
  /\ WaitExitOr(r, canRead, "read")
  /\ UNCHANGED <<events, counters, memory, msgnum, isDone, main, history>>

Read(r) ==
  /\ got' = [got EXCEPT ![r] = memory]
  /\ times' = [times EXCEPT ![r] = (@ + 1) % MsgNums]
  /\ Step(r, "read", "wait count")
  /\ UNCHANGED <<events, counters, memory, msgnum, isDone, main>>

(* Mutant: changeCount is not taken before countread is changed.           *)
WaitCountNot(r) ==
  /\ Step(r, "wait count", "count")
  /\ UNCHANGED <<events, counters, memory, msgnum, isDone, main, history>>

WaitCount(r) ==
  /\ TakeCount
  /\ Step(r, "wait count", "count")
  /\ UNCHANGED <<canRead, allRead, exit, canWrite, counters, memory, msgnum,
                 isDone, main, history>>

CountRead(r) ==
  /\ countread' = countread - 1
  /\ Step(r, "count", IF countread = 1 THEN "reset canRead" ELSE "release count")
  /\ UNCHANGED <<events, countready, memory, msgnum, isDone, main, history>>

(* Mutant: canRead stays set when all have read.                           *)
ResetCanReadNot(r) ==
  /\ Step(r, "reset canRead", "set allRead")
  /\ UNCHANGED <<events, counters, memory, msgnum, isDone, main, history>>

ResetCanRead(r) ==
  /\ canRead' = FALSE
  /\ Step(r, "reset canRead", "set allRead")
  /\ UNCHANGED <<allRead, exit, canWrite, changeCount, counters, memory,
                 msgnum, isDone, main, history>>

(* Mutant: the boundary is not opened again.                               *)
SetAllReadNot(r) ==
  /\ Step(r, "set allRead", "release count")
  /\ UNCHANGED <<events, counters, memory, msgnum, isDone, main, history>>

SetAllRead(r) ==
  /\ allRead' = TRUE
  /\ Step(r, "set allRead", "release count")
  /\ UNCHANGED <<canRead, exit, canWrite, changeCount, counters, memory,
                 msgnum, isDone, main, history>>

ReleaseCount(r) ==
  /\ GiveCount
  /\ Step(r, "release count", "loop")
  /\ UNCHANGED <<canRead, allRead, exit, canWrite, counters, memory, msgnum,
                 isDone, main, history>>

Round(r) ==
  \/ WaitAllRead(r) \/ WaitReady(r) \/ CountReady(r) \/ ResetAllRead(r)
  \/ SetCanWrite(r) \/ ReleaseReady(r)
  \/ WaitCanRead(r) \/ Read(r) \/ WaitCount(r) \/ CountRead(r)
  \/ ResetCanRead(r) \/ SetAllRead(r) \/ ReleaseCount(r)

ThreadReader(r) == LoopTest(r, "wait allRead") \/ Round(r)
ProcessReader(r) == LoopAgain(r) \/ Round(r)
Reader(r) == \/ program = "threads" /\ ThreadReader(r)
             \/ program = "processes" /\ ProcessReader(r)
-----------------------------------------------------------------------------
WaitCanWrite ==
  /\ At(Writer, "wait canWrite")
  /\ WaitExitOr(Writer, canWrite, "number")
  /\ canWrite' = (exit /\ canWrite)
  /\ UNCHANGED <<canRead, allRead, exit, changeCount, counters, memory, msgnum,
                 isDone, main, history>>

(* The writer numbers the message and sets countread without changeCount.  *)
SetCountRead ==
  /\ msgnum' = (msgnum + 1) % MsgNums
  /\ countread' = numOfReaders
  /\ Step(Writer, "number", "write")
  /\ UNCHANGED <<events, countready, memory, isDone, main, history>>

WriteMessage ==
  /\ memory' = msgnum
  /\ Step(Writer, "write", "set canRead")
  /\ UNCHANGED <<events, counters, msgnum, isDone, main, history>>

SetCanRead ==
  /\ canRead' = TRUE
  /\ Step(Writer, "set canRead", "loop")
  /\ UNCHANGED <<allRead, exit, canWrite, changeCount, counters, memory,
                 msgnum, isDone, main, history>>

ThreadWriter == SetCountRead \/ WriteMessage

(* The writer of the processes writes first ...                            *)
NumberAndWrite ==
  /\ msgnum' = (msgnum + 1) % MsgNums
  /\ memory' = msgnum'
  /\ Step(Writer, "number", "wait change")
  /\ UNCHANGED <<events, counters, isDone, main, history>>

WriterTakes ==
  /\ TakeCount
  /\ Step(Writer, "wait change", "add")
  /\ UNCHANGED <<canRead, allRead, exit, canWrite, counters, memory, msgnum,
                 isDone, main, history>>

(* ... and adds the readers to both counters while it holds changeCount.   *)
AddReaders ==
  /\ countread' = countread + numOfReaders
  /\ countready' = countready + numOfReaders
  /\ Step(Writer, "add", "give")
  /\ UNCHANGED <<events, memory, msgnum, isDone, main, history>>

WriterGives ==
  /\ GiveCount
  /\ Step(Writer, "give", "set canRead")
  /\ UNCHANGED <<canRead, allRead, exit, canWrite, counters, memory, msgnum,
                 isDone, main, history>>

ProcessWriter == NumberAndWrite \/ WriterTakes \/ AddReaders \/ WriterGives

WriterThread ==
  \/ LoopTest(Writer, "wait canWrite") \/ WaitCanWrite
  \/ program = "threads" /\ ThreadWriter
  \/ program = "processes" /\ ProcessWriter
  \/ SetCanRead

(* The timer fires or the operator types 's'; the flag first, then the     *)
(* event.                                                                  *)
RaiseDone ==
  /\ isDone' = TRUE
  /\ Step(Manager, "loop", "set exit")
  /\ UNCHANGED <<events, counters, memory, msgnum, main, history>>

SetExit ==
  /\ exit' = TRUE
  /\ Step(Manager, "set exit", "finished")
  /\ UNCHANGED <<canRead, allRead, canWrite, changeCount, counters, memory,
                 msgnum, isDone, main, history>>

TimeManager == RaiseDone \/ SetExit

Join ==
  /\ mainpc = "join"
  /\ \A t \in Threads : At(t, "finished")
  /\ mainpc' = "done"
  /\ UNCHANGED <<program, events, counters, memory, msgnum, isDone, pc, history>>
-----------------------------------------------------------------------------
Init ==
  /\ program \in Programs
  /\ canRead = FALSE /\ allRead = TRUE /\ exit = FALSE
  /\ canWrite = FALSE /\ changeCount = TRUE
  /\ countread = 0
  /\ countready = IF program = "threads" THEN 0 ELSE numOfReaders
  /\ memory = 0 /\ msgnum = 0
  /\ isDone = FALSE
  /\ pc = [t \in Threads |-> "loop"]
  /\ mainpc = "join"
  /\ times = [r \in Readers |-> 0] /\ got = [r \in Readers |-> 0]

Next == (\E r \in Readers : Reader(r)) \/ WriterThread \/ TimeManager \/ Join

Spec == Init /\ [][Next]_vars

(* Every thread that can take a step eventually does.  The timer is not    *)
(* assumed to fire: with ttl < 0 the operator may never type 's'.          *)
Fairness == /\ \A r \in Readers : WF_vars(Reader(r))
            /\ WF_vars(WriterThread)
            /\ WF_vars(SetExit)
            /\ WF_vars(Join)

FairSpec == Spec /\ Fairness
-----------------------------------------------------------------------------
ReadyLabels == {"ready", "reset allRead", "set canWrite", "release ready"}
CountLabels == {"count", "reset canRead", "set allRead", "release count"}
ReaderLabels == {"loop", "wait allRead", "wait ready", "wait canRead", "read",
                 "wait count", "finished"} \cup ReadyLabels \cup CountLabels
WriterLabels == {"loop", "wait canWrite", "number", "write", "wait change",
                 "add", "give", "set canRead", "finished"}

(* Types; the counters stay between 0 and the number of readers.           *)
TypeOK ==
  /\ program \in Programs
  /\ {canRead, allRead, exit, canWrite, changeCount, isDone} \subseteq BOOLEAN
  /\ countread \in 0 .. numOfReaders /\ countready \in 0 .. numOfReaders
  /\ memory \in 0 .. MsgNums - 1 /\ msgnum \in 0 .. MsgNums - 1
  /\ pc \in [Threads -> ReaderLabels \cup WriterLabels \cup {"set exit"}]
  /\ mainpc \in {"join", "done"}
  /\ times \in [Readers -> 0 .. MsgNums - 1]
  /\ got \in [Readers -> 0 .. MsgNums - 1]

(* changeCount works as a lock: the counters are changed by one process at *)
(* a time, and when the writer of the threads, which does not take it, sets*)
(* countread no reader is counting countread down.                         *)
Counting == {t \in Threads : pc[t] \in ReadyLabels \cup CountLabels \cup {"add", "give"}}

CountersGuarded ==
  /\ \A s, t \in Counting : s = t
  /\ At(Writer, "number") => \A r \in Readers : pc[r] \notin {"wait count", "count"}

(* The message does not change under a reader: nobody is reading while the *)
(* writer is between the reset of canWrite and the set of canRead.         *)
NoReadDuringWrite ==
  pc[Writer] \in {"number", "write", "wait change", "add", "give", "set canRead"} =>
    \A r \in Readers : ~At(r, "read")

(* countread is the number of readers that have still to read the message  *)
(* in memory or to count their reading.                                    *)
CountreadIsExact ==
  canRead =>
    countread = Cardinality({r \in Readers : \/ times[r] # memory
                                             \/ pc[r] \in {"wait count", "count"}})

(* Each reader reads each message exactly once, the writer overwrites it   *)
(* only when all have read it (lab3.tex:468 and 484).                      *)
Cell == INSTANCE Broadcast WITH msg <- memory
ImplementsBroadcast == Cell!Spec

(* Unless the shutdown begins the next message always comes: no reader is  *)
(* left behind a boundary and the writer is not left waiting.              *)
MessagesFlow ==
  \A m \in 0 .. MsgNums - 1 : (memory = m /\ ~isDone) ~> (memory # m \/ isDone)

(* Once exit is set every thread ends, but for readers that wait behind a  *)
(* boundary which a reader that ended on exit left closed.                 *)
Held(t) == t \in Readers /\ At(t, "wait allRead")

(* "The programs must be able to finish by timer or on the operator's      *)
(* command" (lab3.tex:239): ThreadsReaderWriter, where main waits for all  *)
(* its threads.                                                            *)
ShutdownCompletes == (isDone /\ program = "threads") ~> mainpc = "done"
=============================================================================
