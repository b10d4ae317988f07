--------------------------- MODULE MCReaderWriters ---------------------------
(***************************************************************************)
(* The three programs of one writer and N readers that synchronise with    *)
(* events, for TLC: EventReaderWriter is two of them, NoMemReaderWriter    *)
(* the third.  They promise the same, so the properties are stated once,   *)
(* over the variables they share; the events of the third program take the *)
(* places of those of the others.                                          *)
(***************************************************************************)
EXTENDS EventReaderWriter

VARIABLE readyState        \* of NoMemReaderWriter only

NoMem == INSTANCE NoMemReaderWriter
           WITH readerCanRead <- canRead, readerGetReady <- allRead,
                canChangeCount <- changeCount, changeCount <- canWrite,
                reportCounter <- countread

mcvars == <<vars, readyState>>
WithoutMemory == program = "no memory"

MCInit ==
  \/ Init /\ readyState = [t \in Readers \cup {Writer} |-> FALSE]
  \/ NoMem!Init /\ WithoutMemory /\ countready = 0

Either(step, noMemStep) ==
  \/ ~WithoutMemory /\ step /\ UNCHANGED readyState
  \/ WithoutMemory /\ noMemStep /\ UNCHANGED <<program, countready>>

MCReader(r) == Either(Reader(r), NoMem!Reader(r))
MCWriter == Either(WriterThread, NoMem!WriterThread)
MCSetExit == Either(SetExit, NoMem!SetExit)
MCJoin == Either(Join, NoMem!Join)

MCNext == \/ \E r \in Readers : MCReader(r)
          \/ MCWriter \/ MCSetExit \/ MCJoin
          \/ Either(RaiseDone, NoMem!RaiseDone)

(* That of the modules: all but the timer is weakly fair.                  *)
MCFairness == /\ \A r \in Readers : WF_mcvars(MCReader(r))
              /\ WF_mcvars(MCWriter)
              /\ WF_mcvars(MCSetExit)
              /\ WF_mcvars(MCJoin)

MCSpec == MCInit /\ [][MCNext]_mcvars /\ MCFairness
-----------------------------------------------------------------------------
(* Whatever plays the lock of the counters, the event changeCount or the   *)
(* token that canChangeCount and changeCount hand round, lets one process  *)
(* at a time count or report.                                              *)
OneAtATime == IF WithoutMemory THEN NoMem!OneReport ELSE CountersGuarded

(* The counter of the phase is the number of readers it is meant to count, *)
(* never one that was counted twice or not at all, and never one that is   *)
(* below 0 or above the number of readers.                                 *)
CounterIsExact == IF WithoutMemory THEN NoMem!TypeOK /\ NoMem!ReportsCounted
                  ELSE TypeOK /\ CountreadIsExact

(* After exit every thread and process ends, but for readers in the one    *)
(* wait that does not listen to exit: for the boundary allRead, or for     *)
(* canChangeCount, which a writer that has ended sets no more.             *)
OnlyHeldRemain ==
  isDone ~> [](\A t \in Threads :
                 At(t, "finished") \/ IF WithoutMemory THEN NoMem!Held(t) ELSE Held(t))
=============================================================================
