---------------------------- MODULE CondVarQueue ----------------------------
(***************************************************************************)
(* src/src/SynchronizationPrimitives/ConditionVariable: the producers and  *)
(* consumers of BoundedQueue, but a thread that finds the queue empty      *)
(* (full) sleeps on condread (condwrite) until a writer (reader) wakes it. *)
(* main waits five seconds at most for the threads to finish.              *)
(***************************************************************************)
EXTENDS CircularQueue, FiniteSets

CONSTANTS Manager,
          Nobody,            \* owner of the critical section when it is free
          MaxSpurious        \* bound on the spurious wake-ups of a behaviour

Workers == Readers \cup Writers
Threads == Workers \cup {Manager}

ASSUME ThreadsAssumption ==         \* SetConfig; the threads have handles
  /\ IsFiniteSet(Readers) /\ IsFiniteSet(Writers) /\ Readers \cap Writers = {}
  /\ Manager \notin Workers /\ Nobody \notin Threads
ASSUME SpuriousAssumption == MaxSpurious \in Nat

VARIABLES crs,                     \* the owner of the critical section
          condread, condwrite,     \* the threads asleep on each variable
          isDone, pc, mainpc,
          spurious                 \* spurious wake-ups so far

conds == <<condread, condwrite>>
vars == <<queue, io, crs, conds, isDone, pc, mainpc, spurious>>

At(t, label) == pc[t] = label
GoTo(t, label) == pc' = [pc EXCEPT ![t] = label]
Holds(label, S) == \E t \in S : At(t, label)

(* A thread's next statement; after main's delete[] none is modelled.      *)
Running == mainpc # "deleted"
Runs(t, label) == At(t, label) /\ Running
-----------------------------------------------------------------------------
LoopTest(t) ==
  /\ Runs(t, "loop")
  /\ GoTo(t, IF isDone THEN "finished" ELSE "enter")
  /\ UNCHANGED <<queue, io, crs, conds, isDone, mainpc, spurious>>

(* Mutant: `if' instead of `while': a woken reader does not test again.    *)
EnterNoRetest(t) ==
  /\ Runs(t, "enter") \/ Runs(t, "woken")
  /\ crs = Nobody /\ crs' = t
  /\ GoTo(t, IF At(t, "woken") /\ t \in Readers THEN "take" ELSE "check")
  /\ UNCHANGED <<queue, io, conds, isDone, mainpc, spurious>>

(* EnterCriticalSection, and the same at the end of a sleep: both go on to *)
(* the test of the while loop.                                             *)
Enter(t) ==
  /\ Runs(t, "enter") \/ Runs(t, "woken")
  /\ crs = Nobody /\ crs' = t
  /\ GoTo(t, "check")
  /\ UNCHANGED <<queue, io, conds, isDone, mainpc, spurious>>

Leave(t) ==
  /\ Runs(t, "leave")
  /\ crs' = Nobody
  /\ GoTo(t, "loop")
  /\ UNCHANGED <<queue, io, conds, isDone, mainpc, spurious>>

(* SleepConditionVariableCS leaves the section and falls asleep at once.   *)
ReaderSleep(r) ==
  /\ Runs(r, "check") /\ ~HasData
  /\ condread' = condread \cup {r} /\ crs' = Nobody
  /\ GoTo(r, "asleep")
  /\ UNCHANGED <<queue, io, condwrite, isDone, mainpc, spurious>>

ReaderClear(r) ==
  /\ Runs(r, "check") /\ HasData
  /\ ClearFull
  /\ GoTo(r, "take")
  /\ UNCHANGED <<crs, conds, isDone, mainpc, spurious>>

ReaderTake(r) ==
  /\ Runs(r, "take")
  /\ TakeString(r)
  /\ GoTo(r, "advance")
  /\ UNCHANGED <<crs, conds, isDone, mainpc, spurious>>

ReaderAdvance(r) ==
  /\ Runs(r, "advance")
  /\ AdvanceRead
  /\ GoTo(r, "wake")
  /\ UNCHANGED <<crs, conds, isDone, mainpc, spurious>>

(* WakeConditionVariable wakes one sleeper, and does nothing without one.  *)
WakeOne(t, cond) ==
  /\ Runs(t, "wake")
  /\ IF cond = {} THEN cond' = cond /\ GoTo(t, "leave")
     ELSE \E s \in cond :
            /\ cond' = cond \ {s}
            /\ pc' = [pc EXCEPT ![t] = "leave", ![s] = "woken"]

(* Mutant: the reader wakes the wrong condition variable.                  *)
ReaderWakesReaders(r) ==
  /\ WakeOne(r, condread)
  /\ UNCHANGED <<queue, io, crs, condwrite, isDone, mainpc, spurious>>

ReaderWakes(r) ==
  /\ WakeOne(r, condwrite)
  /\ UNCHANGED <<queue, io, crs, condread, isDone, mainpc, spurious>>

WriterSleep(w) ==
  /\ Runs(w, "check") /\ ~HasRoom
  /\ condwrite' = condwrite \cup {w} /\ crs' = Nobody
  /\ GoTo(w, "asleep")
  /\ UNCHANGED <<queue, io, condread, isDone, mainpc, spurious>>

WriterStore(w) ==
  /\ Runs(w, "check") /\ HasRoom
  /\ StoreString(w)
  /\ GoTo(w, "advance")
  /\ UNCHANGED <<crs, conds, isDone, mainpc, spurious>>

WriterAdvance(w) ==
  /\ Runs(w, "advance")
  /\ AdvanceWrite
  /\ GoTo(w, "wake")
  /\ UNCHANGED <<crs, conds, isDone, mainpc, spurious>>

(* Mutant: the writer wakes the wrong condition variable.                  *)
WriterWakesWriters(w) ==
  /\ WakeOne(w, condwrite)
  /\ UNCHANGED <<queue, io, crs, condread, isDone, mainpc, spurious>>

WriterWakes(w) ==
  /\ WakeOne(w, condread)
  /\ UNCHANGED <<queue, io, crs, condwrite, isDone, mainpc, spurious>>

Reader(r) == \/ LoopTest(r) \/ Enter(r) \/ Leave(r)
             \/ ReaderSleep(r) \/ ReaderClear(r) \/ ReaderTake(r)
             \/ ReaderAdvance(r) \/ ReaderWakes(r)

Writer(w) == \/ LoopTest(w) \/ Enter(w) \/ Leave(w)
             \/ WriterSleep(w) \/ WriterStore(w) \/ WriterAdvance(w)
             \/ WriterWakes(w)

(* A condition variable may wake a sleeper that nobody has signalled.      *)
SpuriousWake(t) ==
  /\ t \in condread \cup condwrite /\ Running
  /\ spurious < MaxSpurious /\ spurious' = spurious + 1
  /\ condread' = condread \ {t} /\ condwrite' = condwrite \ {t}
  /\ GoTo(t, "woken")
  /\ UNCHANGED <<queue, io, crs, isDone, mainpc>>

(* isDone is raised; the sleeping threads are not woken.                   *)
TimeManager ==
  /\ Runs(Manager, "loop")
  /\ isDone' = TRUE
  /\ GoTo(Manager, "finished")
  /\ UNCHANGED <<queue, io, crs, conds, mainpc, spurious>>
-----------------------------------------------------------------------------
(* WaitForMultipleObjects returns when all threads have finished or after  *)
(* five seconds; main does not look at which.                              *)
Joined == \A t \in Threads : At(t, "finished")

Join ==
  /\ mainpc = "join" /\ Joined
  /\ mainpc' = "cleanup"
  /\ UNCHANGED <<queue, io, crs, conds, isDone, pc, spurious>>

JoinTimeout ==
  /\ mainpc = "join" /\ ~Joined
  /\ mainpc' = "cleanup"
  /\ UNCHANGED <<queue, io, crs, conds, isDone, pc, spurious>>

(* The critical section and the queue are deleted.                         *)
CleanUp ==
  /\ mainpc = "cleanup"
  /\ mainpc' = "deleted"
  /\ UNCHANGED <<queue, io, crs, conds, isDone, pc, spurious>>

Finished == ~Running /\ UNCHANGED vars

Init ==
  /\ QueueInit
  /\ crs = Nobody /\ condread = {} /\ condwrite = {}
  /\ isDone = FALSE
  /\ pc = [t \in Threads |-> "loop"]
  /\ mainpc = "join"
  /\ spurious = 0

Main == Join \/ JoinTimeout \/ CleanUp
Next == \/ \E r \in Readers : Reader(r)
        \/ \E w \in Writers : Writer(w)
        \/ \E t \in Workers : SpuriousWake(t)
        \/ TimeManager
        \/ Main
        \/ Finished

Spec == Init /\ [][Next]_vars

(* Threads that can run do.  Spurious wake-ups, the operator's command and *)
(* the end of main's five seconds need not come: what the threads do for   *)
(* each other must not wait for the clean-up.                              *)
Fairness == /\ \A r \in Readers : WF_vars(Reader(r))
            /\ \A w \in Writers : WF_vars(Writer(w))
            /\ WF_vars(Join) /\ WF_vars(CleanUp)

FairSpec == Spec /\ Fairness
-----------------------------------------------------------------------------
InSection == {"check", "take", "advance", "wake", "leave"}

(* Types of all variables.                                                 *)
TypeOK ==
  /\ QueueTypeOK
  /\ crs \in Workers \cup {Nobody}
  /\ condread \subseteq Readers /\ condwrite \subseteq Writers
  /\ isDone \in BOOLEAN
  /\ pc \in [Threads -> InSection \cup
                         {"loop", "enter", "asleep", "woken", "finished"}]
  /\ mainpc \in {"join", "cleanup", "deleted"}
  /\ spurious \in 0 .. MaxSpurious

Contents == QueueAsSeq(Holds("take", Readers) \/ Holds("advance", Readers),
                       Holds("advance", Readers), Holds("advance", Writers))

(* With condition variables the queue is still a bounded FIFO queue: the   *)
(* test is repeated after every wake-up, so a woken reader that finds the  *)
(* string gone, or a spurious wake-up, reads nothing.                      *)
Queue == INSTANCE Fifo WITH buf <- Contents
ImplementsFifo == Queue!Spec

Awake(S, cond) == Cardinality({t \in S : t \notin cond /\ ~At(t, "finished")})

(* A thread that has changed the queue and not called Wake... yet.         *)
Unannounced(S) == IF Holds("advance", S) \/ Holds("wake", S) THEN 1 ELSE 0

(* No wake-up is lost: while a reader sleeps there are at least as many    *)
(* readers awake as messages in the queue that a writer has announced, and *)
(* while a writer sleeps as many writers awake as announced free slots.    *)
NoLostWakeup ==
  ~isDone =>
    /\ condread # {} => Len(Contents) - Unannounced(Writers)
                          <= Awake(Readers, condread)
    /\ condwrite # {} => Size - Len(Contents) - Unannounced(Readers)
                           <= Awake(Writers, condwrite)

(* A full queue is read again and an empty one written again, unless the   *)
(* program is being shut down or main has given up waiting: the two kinds  *)
(* of thread never sleep together.                                         *)
QueueMoves ==
  /\ (Len(Contents) = Size /\ ~isDone) ~> (Len(Contents) < Size \/ isDone \/ ~Running)
  /\ (Len(Contents) = 0 /\ ~isDone) ~> (Len(Contents) > 0 \/ isDone \/ ~Running)

(* main deletes the section and the queue only when all threads have       *)
(* finished ("wait for the end of all threads", main.cpp:52).              *)
CleanupAfterJoin == mainpc # "join" => Joined
=============================================================================
