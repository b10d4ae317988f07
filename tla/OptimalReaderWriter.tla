------------------------ MODULE OptimalReaderWriter ------------------------
(***************************************************************************)
(* src/src/SynchronizationPrimitives/OptimalReaderWriter: one writer and   *)
(* the readers share a block of memory under a slim reader/writer lock.  A *)
(* reader sleeps on condread before each reading, the writer wakes all     *)
(* sleepers after each message.                                            *)
(***************************************************************************)
EXTENDS Integers, SlimLock

CONSTANTS Readers, Writer, Manager,
          MsgNums,         \* msgnum is an integer modulo MsgNums
          MaxSpurious      \* bound on the spurious wake-ups of a behaviour

Threads == Readers \cup {Writer, Manager}

ASSUME ConfigAssumption == /\ Readers # {} /\ Writer # Manager
                           /\ Writer \notin Readers /\ Manager \notin Readers
                           /\ Nobody \notin Threads
ASSUME BoundAssumption == MsgNums \in Nat \ {0} /\ MaxSpurious \in Nat

VARIABLES memory,          \* the number of the message in memory
          unread,          \* the readers that have not read it
          isDone, pc, mainpc,
          spurious,        \* spurious wake-ups so far
          early            \* readers woken by nobody since their last reading

vars == <<lock, condread, memory, unread, isDone, pc, mainpc, spurious, early>>

At(t, label) == pc[t] = label
GoTo(t, label) == pc' = [pc EXCEPT ![t] = label]
Step(t, from, to) == At(t, from) /\ GoTo(t, to)
-----------------------------------------------------------------------------
(* while (isDone != true)                                                  *)
LoopTest(t) ==
  /\ At(t, "loop")
  /\ GoTo(t, IF isDone THEN "finished" ELSE "acquire")
  /\ UNCHANGED <<lock, condread, memory, unread, isDone, mainpc, spurious, early>>

(* Mutant: the reader takes the lock exclusively.                          *)
ReaderAcquireExclusive(r) ==
  /\ AcquireSRWLockExclusive(r)
  /\ Step(r, "acquire", "sleep")
  /\ UNCHANGED <<memory, unread, isDone, mainpc, spurious, early>>

ReaderAcquire(r) ==
  /\ AcquireSRWLockShared(r)
  /\ Step(r, "acquire", "sleep")
  /\ UNCHANGED <<memory, unread, isDone, mainpc, spurious, early>>

(* Mutant: the reader reads without sleeping first.                        *)
ReaderSleepNot(r) ==
  /\ Step(r, "sleep", "read")
  /\ UNCHANGED <<lock, condread, memory, unread, isDone, mainpc, spurious, early>>

(* The reader falls asleep whether or not there is a message to read.      *)
ReaderSleep(r) ==
  /\ Sleep(r)
  /\ Step(r, "sleep", "asleep")
  /\ UNCHANGED <<memory, unread, isDone, mainpc, spurious, early>>

(* Mutant: a woken reader goes on without the lock.                        *)
ReaderWakeUnlocked(r) ==
  /\ r \notin condread
  /\ Step(r, "asleep", "read")
  /\ UNCHANGED <<lock, condread, memory, unread, isDone, mainpc, spurious, early>>

(* The end of the sleep: the lock is taken again.                          *)
ReaderWake(r) ==
  /\ r \notin condread
  /\ AcquireSRWLockShared(r)
  /\ Step(r, "asleep", "read")
  /\ UNCHANGED <<memory, unread, isDone, mainpc, spurious, early>>

Read(r) ==
  /\ Step(r, "read", "release")
  /\ unread' = unread \ {r} /\ early' = early \ {r}
  /\ UNCHANGED <<lock, condread, memory, isDone, mainpc, spurious>>

(* Mutant: the reader goes on without letting the lock go.                 *)
ReaderReleaseNot(r) ==
  /\ Step(r, "release", "loop")
  /\ UNCHANGED <<lock, condread, memory, unread, isDone, mainpc, spurious, early>>

ReaderRelease(r) ==
  /\ ReleaseSRWLockShared(r)
  /\ Step(r, "release", "loop")
  /\ UNCHANGED <<memory, unread, isDone, mainpc, spurious, early>>

Reader(r) == \/ LoopTest(r) \/ ReaderAcquire(r) \/ ReaderSleep(r)
             \/ ReaderWake(r) \/ Read(r) \/ ReaderRelease(r)

(* A condition variable may wake a sleeper that nobody has signalled.      *)
SpuriousWake(r) ==
  /\ r \in condread
  /\ spurious < MaxSpurious /\ spurious' = spurious + 1
  /\ condread' = condread \ {r} /\ early' = early \cup {r}
  /\ UNCHANGED <<lock, memory, unread, isDone, pc, mainpc>>
-----------------------------------------------------------------------------
WriterAcquire ==
  /\ AcquireSRWLockExclusive(Writer)
  /\ Step(Writer, "acquire", "write")
  /\ UNCHANGED <<memory, unread, isDone, mainpc, spurious, early>>

WriteMessage ==
  /\ Step(Writer, "write", "wake")
  /\ memory' = (memory + 1) % MsgNums
  /\ unread' = Readers
  /\ UNCHANGED <<lock, condread, isDone, mainpc, spurious, early>>

(* Mutant: WakeConditionVariable, which wakes one sleeper only.            *)
WriterWakesOne ==
  /\ IF condread = {} THEN UNCHANGED condread
                      ELSE \E r \in condread : condread' = condread \ {r}
  /\ Step(Writer, "wake", "release")
  /\ UNCHANGED <<lock, memory, unread, isDone, mainpc, spurious, early>>

WriterWakesAll ==
  /\ WakeAllConditionVariable
  /\ Step(Writer, "wake", "release")
  /\ UNCHANGED <<memory, unread, isDone, mainpc, spurious, early>>

WriterRelease ==
  /\ ReleaseSRWLockExclusive
  /\ Step(Writer, "release", "loop")
  /\ UNCHANGED <<memory, unread, isDone, mainpc, spurious, early>>

WriterThread == \/ LoopTest(Writer) \/ WriterAcquire \/ WriteMessage
                \/ WriterWakesAll \/ WriterRelease

(* The timer fires, or the operator types 's'.  The event that is set, too,*)
(* is one nobody waits for.                                                *)
TimeManager ==
  /\ Step(Manager, "loop", "finished")
  /\ isDone' = TRUE
  /\ UNCHANGED <<lock, condread, memory, unread, mainpc, spurious, early>>

(* main waits for all threads, without a time limit.                       *)
Join ==
  /\ mainpc = "join" /\ \A t \in Threads : At(t, "finished")
  /\ mainpc' = "done"
  /\ UNCHANGED <<lock, condread, memory, unread, isDone, pc, spurious, early>>
-----------------------------------------------------------------------------
Init ==
  /\ exclusive = Nobody /\ shared = {} /\ condread = {}
  /\ memory = 0 /\ unread = {}
  /\ isDone = FALSE
  /\ pc = [t \in Threads |-> "loop"]
  /\ mainpc = "join"
  /\ spurious = 0 /\ early = {}

Next == \/ \E r \in Readers : Reader(r) \/ SpuriousWake(r)
        \/ WriterThread \/ TimeManager \/ Join

Spec == Init /\ [][Next]_vars

(* Threads that can run do.  Nothing is assumed about the order in which   *)
(* waiting threads get the lock: every reader sleeps before each reading,  *)
(* so that the lock is free at last.                                       *)
Fairness == /\ \A r \in Readers : WF_vars(Reader(r))
            /\ WF_vars(WriterThread)
            /\ WF_vars(Join)

FairSpec == Spec /\ Fairness
-----------------------------------------------------------------------------
(* Types of all variables.                                                 *)
TypeOK ==
  /\ exclusive \in {Writer, Nobody}
  /\ shared \subseteq Readers /\ condread \subseteq Readers
  /\ memory \in 0 .. MsgNums - 1
  /\ unread \subseteq Readers /\ early \subseteq Readers
  /\ isDone \in BOOLEAN
  /\ pc \in [Threads -> {"loop", "acquire", "sleep", "asleep", "read", "write",
                         "wake", "release", "finished"}]
  /\ mainpc \in {"join", "done"}
  /\ spurious \in 0 .. MaxSpurious

(* No reader reads while the writer writes the message or before it has    *)
(* woken the sleepers: a sleeping reader comes back only with the lock.    *)
NoReadDuringWrite ==
  pc[Writer] \in {"write", "wake", "release"} =>
    \A r \in Readers : ~At(r, "read")

(* A reader reads no message twice: it looks at the memory only after the  *)
(* writer has woken it for a new one, unless the wake-up was spurious      *)
(* ("exactly one reading each", lab3.tex:573; the code tests nothing after *)
(* the sleep).                                                             *)
NoMessageTwice ==
  [][\A r \in Readers : Read(r) => r \in unread \cup early]_vars

(* Until the shutdown no sleeper is forgotten: the writer gets the lock    *)
(* however the readers come and go, and wakes whoever sleeps.              *)
SleepersWoken ==
  \A r \in Readers : (r \in condread /\ ~isDone) ~> (r \notin condread \/ isDone)

(* After isDone every thread ends, but for the readers that are asleep:    *)
(* nobody wakes them, and main waits for them for ever.                    *)
OnlySleepersRemain ==
  isDone ~> [](\A t \in Threads : At(t, "finished") \/ t \in condread)

(* "The requirement that each message is read by each reader is met"       *)
(* (lab3.tex:585): a message is not overwritten before all have read it.   *)
EachMessageRead ==
  [][memory' # memory => unread = {}]_vars

(* "The programs must be able to finish by timer or on the operator's      *)
(* command" (lab3.tex:239).                                                *)
ShutdownCompletes == isDone ~> mainpc = "done"
=============================================================================
