---------------------------- MODULE BoundedQueue ----------------------------
(***************************************************************************)
(* The Mutex, Event, Semaphore and CriticalSection programs of             *)
(* src/src/SynchronizationPrimitives: reader and writer threads share a    *)
(* circular FIFOQueue, a manager thread raises isDone, main resumes the    *)
(* threads, waits for all of them and frees the queue.  The four programs  *)
(* differ in the primitive that guards the queue; `program' says which of  *)
(* them is running.  The statements are given with the lines of Mutex, the *)
(* threads as a whole with those of each program.                          *)
(***************************************************************************)
EXTENDS CircularQueue, FiniteSets

CONSTANTS Manager,            \* the TimeManager thread
          MaxWaitObjects,     \* MAXIMUM_WAIT_OBJECTS of WaitForMultipleObjects
          Nobody,             \* an owned primitive without an owner
          Closed              \* a primitive whose handle main has closed

Workers == Readers \cup Writers
Threads == Workers \cup {Manager}

ASSUME ThreadsAssumption ==         \* SetConfig: exit(500)
  /\ IsFiniteSet(Readers) /\ Readers # {}
  /\ IsFiniteSet(Writers) /\ Writers # {}
  /\ Readers \cap Writers = {} /\ Manager \notin Workers
ASSUME SyncAssumption ==
  /\ MaxWaitObjects \in Nat
  /\ Nobody \notin Threads /\ Closed \notin Threads \cup {Nobody, 0, 1}

VARIABLES program,     \* which of the four programs is running
          sync,        \* the primitive: its owner, or its free units
          isDone,      \* the flag the manager raises
          pc,          \* the next statement of each thread
          mainpc,      \* the next statement of main
          heap         \* the strings _wcsdup allocated and nobody freed

vars == <<program, queue, io, sync, isDone, pc, mainpc, heap>>

Owned == {"mutex", "critical section"}     \* primitives with an owner
Counted == {"event", "semaphore"}          \* primitives with free units
Programs == Owned \cup Counted

InSection == {"check", "take", "store", "advance", "release"}
-----------------------------------------------------------------------------
(* The primitives.  An owned one is free when nobody owns it; the event is *)
(* created auto-reset and signalled, the semaphore with one unit of one.   *)

MutexWait(t)      == sync = Nobody /\ sync' = t
MutexRelease(t)   == sync' = IF sync = t THEN Nobody ELSE sync
EventWait         == sync = 1 /\ sync' = 0
EventSet          == sync' = 1
SemaphoreWaitFree == sync > 0 /\ UNCHANGED sync   \* mutant: no unit taken
SemaphoreWait     == sync > 0 /\ sync' = sync - 1
SemaphoreRelease  == sync' = IF sync < 1 THEN sync + 1 ELSE sync
EnterSection(t)   == sync = Nobody /\ sync' = t
LeaveSection(t)   == sync' = IF sync = t THEN Nobody ELSE sync

(* A wait on a closed handle fails at once and its result is not looked at;*)
(* a deleted critical section is taken to behave in the same way.          *)
Acquire(t) ==
  \/ sync = Closed /\ UNCHANGED sync
  \/ /\ sync # Closed
     /\ \/ program = "mutex" /\ MutexWait(t)
        \/ program = "event" /\ EventWait
        \/ program = "semaphore" /\ SemaphoreWait
        \/ program = "critical section" /\ EnterSection(t)

Release(t) ==
  \/ sync = Closed /\ UNCHANGED sync
  \/ /\ sync # Closed
     /\ \/ program = "mutex" /\ MutexRelease(t)
        \/ program = "event" /\ EventSet
        \/ program = "semaphore" /\ SemaphoreRelease
        \/ program = "critical section" /\ LeaveSection(t)
-----------------------------------------------------------------------------
At(t, label) == pc[t] = label
GoTo(t, label) == pc' = [pc EXCEPT ![t] = label]

(* A thread's next statement; after main's delete[] none is modelled.      *)
Runs(t, label) == At(t, label) /\ mainpc # "deleted"

(* while (isDone != true): read without the primitive                      *)
LoopTest(t) ==
  /\ Runs(t, "loop")
  /\ GoTo(t, IF isDone THEN "finished" ELSE "wait")
  /\ UNCHANGED <<program, queue, io, sync, isDone, mainpc, heap>>

Wait(t) ==
  /\ Runs(t, "wait")
  /\ Acquire(t)
  /\ GoTo(t, "check")
  /\ UNCHANGED <<program, queue, io, isDone, mainpc, heap>>

(* Mutant: a thread that sees isDone ends without releasing.               *)
ReleaseUnlessDone(t) ==
  /\ Runs(t, "release")
  /\ IF isDone THEN GoTo(t, "finished") /\ UNCHANGED sync
               ELSE GoTo(t, "loop") /\ Release(t)
  /\ UNCHANGED <<program, queue, io, isDone, mainpc, heap>>

ReleaseAndSleep(t) ==
  /\ Runs(t, "release")
  /\ Release(t)
  /\ GoTo(t, "loop")
  /\ UNCHANGED <<program, queue, io, isDone, mainpc, heap>>

(* The reader clears full as soon as it sees data ...                      *)
ReaderCheck(r) ==
  /\ Runs(r, "check")
  /\ IF HasData THEN ClearFull /\ GoTo(r, "take")
                ELSE UNCHANGED <<queue, io>> /\ GoTo(r, "release")
  /\ UNCHANGED <<program, sync, isDone, mainpc, heap>>

(* ... prints the string, frees it and clears the slot ...                 *)
ReaderTake(r) ==
  /\ Runs(r, "take")
  /\ TakeString(r)
  /\ heap' = heap \ {data[readindex]}
  /\ GoTo(r, "advance")
  /\ UNCHANGED <<program, sync, isDone, mainpc>>

(* ... and only then advances readindex.                                   *)
ReaderAdvance(r) ==
  /\ Runs(r, "advance")
  /\ AdvanceRead
  /\ GoTo(r, "release")
  /\ UNCHANGED <<program, sync, isDone, mainpc, heap>>

WriterCheck(w) ==
  /\ Runs(w, "check")
  /\ GoTo(w, IF HasRoom THEN "store" ELSE "release")
  /\ UNCHANGED <<program, queue, io, sync, isDone, mainpc, heap>>

WriterStore(w) ==
  /\ Runs(w, "store")
  /\ StoreString(w)
  /\ heap' = heap \cup {<<w, msgnum[w]>>}
  /\ GoTo(w, "advance")
  /\ UNCHANGED <<program, sync, isDone, mainpc>>

WriterAdvance(w) ==
  /\ Runs(w, "advance")
  /\ AdvanceWrite
  /\ GoTo(w, "release")
  /\ UNCHANGED <<program, sync, isDone, mainpc, heap>>

Common(t) == LoopTest(t) \/ Wait(t) \/ ReleaseAndSleep(t)
Reader(r) == Common(r) \/ ReaderCheck(r) \/ ReaderTake(r) \/ ReaderAdvance(r)
Writer(w) == Common(w) \/ WriterCheck(w) \/ WriterStore(w) \/ WriterAdvance(w)

(* The timer fires, or the operator types a line that begins with 's'.     *)
TimeManager ==
  /\ Runs(Manager, "loop")
  /\ isDone' = TRUE
  /\ GoTo(Manager, "finished")
  /\ UNCHANGED <<program, queue, io, sync, mainpc, heap>>
-----------------------------------------------------------------------------
(* main.  The threads are created suspended, in the order readers,         *)
(* writers, manager, and resumed in that order.                            *)
Suspended(S) == {t \in S : At(t, "suspended")}

ResumeNext == IF Suspended(Readers) # {} THEN Suspended(Readers)
              ELSE IF Suspended(Writers) # {} THEN Suspended(Writers)
              ELSE Suspended({Manager})

Resume ==
  /\ mainpc = "resume"
  /\ \E t \in ResumeNext : GoTo(t, "loop")
  /\ mainpc' = IF Cardinality(Suspended(Threads)) = 1 THEN "join" ELSE "resume"
  /\ UNCHANGED <<program, queue, io, sync, isDone, heap>>

(* WaitForMultipleObjects fails at once when it is given more handles than *)
(* MAXIMUM_WAIT_OBJECTS; main does not look at its result.                 *)
Join ==
  /\ mainpc = "join"
  /\ Cardinality(Threads) <= MaxWaitObjects =>
       \A t \in Threads : At(t, "finished")
  /\ mainpc' = "close"
  /\ UNCHANGED <<program, queue, io, sync, isDone, pc, heap>>

CloseSync ==
  /\ mainpc = "close"
  /\ sync' = Closed
  /\ mainpc' = "free"
  /\ UNCHANGED <<program, queue, io, isDone, pc, heap>>

(* Mutant: the clean-up loop leaves out the last slot.                     *)
FreeSlotsButLast ==
  /\ mainpc = "free"
  /\ heap' = heap \ {data[i] : i \in 0 .. Size - 2}
  /\ mainpc' = "delete"
  /\ UNCHANGED <<program, queue, io, sync, isDone, pc>>

(* Every slot that is not null is freed; the slots keep their values.      *)
FreeSlots ==
  /\ mainpc = "free"
  /\ heap' = heap \ {data[i] : i \in Slots}
  /\ mainpc' = "delete"
  /\ UNCHANGED <<program, queue, io, sync, isDone, pc>>

DeleteQueue ==
  /\ mainpc = "delete"
  /\ mainpc' = "deleted"
  /\ UNCHANGED <<program, queue, io, sync, isDone, pc, heap>>

Main == Resume \/ Join \/ CloseSync \/ FreeSlots \/ DeleteQueue

Finished == mainpc = "deleted" /\ UNCHANGED vars
-----------------------------------------------------------------------------
Init ==
  /\ program \in Programs
  /\ QueueInit
  /\ sync = IF program \in Owned THEN Nobody ELSE 1
  /\ isDone = FALSE
  /\ pc = [t \in Threads |-> "suspended"]
  /\ mainpc = "resume"
  /\ heap = {}

(* The four programs: the same threads around one primitive each.          *)
MutexReader(r) == program = "mutex" /\ Reader(r)
MutexWriter(w) == program = "mutex" /\ Writer(w)
MutexManager   == program = "mutex" /\ TimeManager
MutexMain      == program = "mutex" /\ Main

EventReader(r) == program = "event" /\ Reader(r)
EventWriter(w) == program = "event" /\ Writer(w)
EventManager   == program = "event" /\ TimeManager
EventMain      == program = "event" /\ Main

SemaphoreReader(r) == program = "semaphore" /\ Reader(r)
SemaphoreWriter(w) == program = "semaphore" /\ Writer(w)
SemaphoreManager   == program = "semaphore" /\ TimeManager
SemaphoreMain      == program = "semaphore" /\ Main

SectionReader(r) == program = "critical section" /\ Reader(r)
SectionWriter(w) == program = "critical section" /\ Writer(w)
SectionManager   == program = "critical section" /\ TimeManager
SectionMain      == program = "critical section" /\ Main

Next ==
  \/ \E r \in Readers : MutexReader(r) \/ EventReader(r) \/ SemaphoreReader(r)
                        \/ SectionReader(r)
  \/ \E w \in Writers : MutexWriter(w) \/ EventWriter(w) \/ SemaphoreWriter(w)
                        \/ SectionWriter(w)
  \/ MutexManager \/ EventManager \/ SemaphoreManager \/ SectionManager
  \/ MutexMain \/ EventMain \/ SemaphoreMain \/ SectionMain
  \/ Finished

Spec == Init /\ [][Next]_vars

(* A thread that can run eventually does; nothing is assumed about who of  *)
(* several waiting threads is given the primitive.                         *)
Fairness == /\ \A r \in Readers : WF_vars(Reader(r))
            /\ \A w \in Writers : WF_vars(Writer(w))
            /\ WF_vars(TimeManager)
            /\ WF_vars(Main)

FairSpec == Spec /\ Fairness
-----------------------------------------------------------------------------
(* Types of all variables.                                                 *)
TypeOK ==
  /\ program \in Programs
  /\ QueueTypeOK
  /\ sync \in Threads \cup {Nobody, Closed, 0, 1}
  /\ isDone \in BOOLEAN
  /\ pc \in [Threads -> InSection \cup
                         {"suspended", "loop", "wait", "finished"}]
  /\ mainpc \in {"resume", "join", "close", "free", "delete", "deleted"}
  /\ heap \in SUBSET Messages

(* The primitive keeps the threads out of each other's way until main      *)
(* closes it: at most one worker is between its wait and its release,      *)
(* whichever primitive the program uses.                                   *)
MutualExclusion ==
  mainpc \in {"resume", "join", "close"} =>
    \A s, t \in Workers : pc[s] \in InSection /\ pc[t] \in InSection => s = t

Holds(label, S) == \E t \in S : At(t, label)

(* What a reader has taken is out of the queue before readindex moves, what*)
(* a writer has stored is in it before writeindex moves.                   *)
Contents == QueueAsSeq(Holds("take", Readers) \/ Holds("advance", Readers),
                       Holds("advance", Readers), Holds("advance", Writers))

(* The circular buffer with its two indices and its full flag is a bounded *)
(* FIFO queue: nothing is lost, duplicated, reordered or overwritten, and  *)
(* no reader prints a slot that holds no message.                          *)
Queue == INSTANCE Fifo WITH buf <- Contents
ImplementsFifo == Queue!Spec

(* The allocated strings are exactly those in the queue: no reader frees   *)
(* a string twice and no writer overwrites one it has not freed; and when  *)
(* main is done none is left, the messages nobody read included.           *)
HeapIsQueue ==
  heap = IF mainpc \in {"delete", "deleted"} THEN {}
         ELSE {Contents[i] : i \in DOMAIN Contents}

(* What main passes to free came from _wcsdup and was not freed before, as *)
(* the comment at Mutex/main.cpp:59 says of the slots that are not null;   *)
(* except for what new[] left in slots that no writer has reached.         *)
FreesOnlyStrings ==
  mainpc = "free" =>
    \A i \in Slots : data[i] \notin {NULL, Garbage} => data[i] \in heap

(* Once the manager raises isDone every thread finishes and main gets      *)
(* through its clean-up: nobody waits for the primitive for ever.          *)
ShutdownCompletes == isDone ~> mainpc = "deleted"
=============================================================================
