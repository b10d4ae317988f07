------------------------- MODULE BoundedQueueProofs -------------------------
(***************************************************************************)
(* Proofs about BoundedQueue, for any number of readers, writers and slots *)
(* and for each of the four programs.                                      *)
(***************************************************************************)
EXTENDS BoundedQueue, QueueLemmas, FiniteSetTheorems

(* What the primitive holds depends on the program: an owner or a number of *)
(* free units.  TypeOK alone would let a semaphore be "owned".             *)
SyncType == sync # Closed => IF program \in Owned
                             THEN sync \in Threads \cup {Nobody}
                             ELSE sync \in {0, 1}

(* A step of any of the programs is a step of a thread or of main.         *)
Thread == \/ \E r \in Readers : Reader(r)
          \/ \E w \in Writers : Writer(w)
          \/ TimeManager

LEMMA NextCases == Next => Thread \/ Main \/ Finished
BY DEF Next, Thread, MutexReader, MutexWriter, MutexManager, MutexMain,
       EventReader, EventWriter, EventManager, EventMain,
       SemaphoreReader, SemaphoreWriter, SemaphoreManager, SemaphoreMain,
       SectionReader, SectionWriter, SectionManager, SectionMain

(* Until main closes it, the owner is the thread inside, and a free unit   *)
(* means that nobody is inside.                                            *)
OpenPhases == {"resume", "join", "close"}

OwnerInside == program \in Owned =>
                 \A t \in Workers : pc[t] \in InSection => sync = t
FreeIsEmpty == program \in Counted /\ sync = 1 =>
                 \A t \in Workers : pc[t] \notin InSection
AtMostOne == \A s, t \in Workers :
               pc[s] \in InSection /\ pc[t] \in InSection => s = t

Guarded == mainpc \in OpenPhases =>
             sync # Closed /\ OwnerInside /\ FreeIsEmpty /\ AtMostOne

Inv == TypeOK /\ SyncType /\ Guarded

(* A wait leaves the caller as the owner, or no unit; only a free primitive*)
(* can be waited for.                                                      *)
LEMMA AcquireSync ==
  ASSUME TypeOK, SyncType, NEW t \in Workers, Acquire(t), sync # Closed
  PROVE  /\ program \in Owned => sync = Nobody /\ sync' = t
         /\ program \in Counted => sync = 1 /\ sync' = 0
<1>1. CASE program \in Owned
  BY <1>1 DEF Acquire, MutexWait, EnterSection, SyncType, Owned, Counted
<1>2. CASE program \in Counted
  <2>1. sync \in {0, 1}
    BY <1>2 DEF SyncType, Owned, Counted
  <2>2. program \notin Owned
    BY <1>2 DEF Owned, Counted
  <2>3. EventWait \/ SemaphoreWait
    BY <1>2 DEF Acquire, Owned, Counted
  <2>4. CASE EventWait
    BY <2>1, <2>2, <2>4 DEF EventWait
  <2>5. CASE SemaphoreWait
    BY <2>1, <2>2, <2>5 DEF SemaphoreWait
  <2> QED BY <2>3, <2>4, <2>5
<1> QED BY <1>1, <1>2 DEF TypeOK, Programs

(* A release by the owner leaves no owner; any release leaves one unit.    *)
LEMMA ReleaseSync ==
  ASSUME TypeOK, SyncType, NEW t \in Workers, Release(t), sync # Closed
  PROVE  /\ program \in Owned => sync' \in {sync, Nobody}
         /\ program \in Owned /\ sync = t => sync' = Nobody
         /\ program \in Counted => sync' = 1
<1>1. CASE program \in Owned
  BY <1>1 DEF Release, MutexRelease, LeaveSection, SyncType, Owned, Counted
<1>2. CASE program \in Counted
  <2>1. sync \in {0, 1}
    BY <1>2 DEF SyncType, Owned, Counted
  <2>2. program \notin Owned
    BY <1>2 DEF Owned, Counted
  <2>3. EventSet \/ SemaphoreRelease
    BY <1>2 DEF Release, Owned, Counted
  <2>4. CASE EventSet
    BY <2>1, <2>2, <2>4 DEF EventSet
  <2>5. CASE SemaphoreRelease
    BY <2>1, <2>2, <2>5 DEF SemaphoreRelease
  <2> QED BY <2>3, <2>4, <2>5
<1> QED BY <1>1, <1>2 DEF TypeOK, Programs

LEMMA AcquireType ==
  ASSUME TypeOK, SyncType, NEW t \in Workers, Acquire(t), UNCHANGED program
  PROVE  sync' \in Threads \cup {Nobody, Closed, 0, 1} /\ SyncType'
<1>1. CASE sync = Closed
  BY <1>1, SyncAssumption DEF Acquire, SyncType
<1>2. CASE sync # Closed /\ program \in Owned
  BY <1>2, AcquireSync DEF SyncType, Threads
<1>3. CASE sync # Closed /\ program \in Counted
  BY <1>3, AcquireSync DEF SyncType, Owned, Counted
<1>4. program \in Owned \cup Counted
  BY DEF TypeOK, Programs
<1> QED BY <1>1, <1>2, <1>3, <1>4

LEMMA ReleaseType ==
  ASSUME TypeOK, SyncType, NEW t \in Workers, Release(t), UNCHANGED program
  PROVE  sync' \in Threads \cup {Nobody, Closed, 0, 1} /\ SyncType'
<1>1. CASE sync = Closed
  BY <1>1, SyncAssumption DEF Release, SyncType
<1>2. CASE sync # Closed /\ program \in Owned
  BY <1>2, ReleaseSync DEF SyncType, Threads
<1>3. CASE sync # Closed /\ program \in Counted
  BY <1>3, ReleaseSync DEF SyncType, Owned, Counted
<1>4. program \in Owned \cup Counted
  BY DEF TypeOK, Programs
<1> QED BY <1>1, <1>2, <1>3, <1>4
-----------------------------------------------------------------------------
LEMMA InitInv == Init => Inv
<1> SUFFICES ASSUME Init PROVE Inv
  OBVIOUS
<1>1. QueueTypeOK
  BY SizeAssumption, MessageAssumption
     DEF Init, QueueInit, QueueTypeOK, Slots, Contained
<1>2. TypeOK
  BY <1>1 DEF Init, TypeOK
<1>3. sync # Closed /\ SyncType
  BY SyncAssumption DEF Init, SyncType
<1>4. \A t \in Workers : pc[t] \notin InSection
  BY DEF Init, InSection, Threads
<1> QED BY <1>2, <1>3, <1>4 DEF Inv, Guarded, OwnerInside, FreeIsEmpty, AtMostOne

(* A move of one thread to a known label.                                  *)
LEMMA GoToType ==
  ASSUME TypeOK, NEW t \in Threads, NEW l, GoTo(t, l),
         l \in InSection \cup {"loop", "wait", "finished"}
  PROVE  pc' \in [Threads -> InSection \cup
                             {"suspended", "loop", "wait", "finished"}]
BY DEF TypeOK, GoTo

LEMMA CommonType ==
  ASSUME Inv, NEW t \in Workers, Common(t) PROVE TypeOK' /\ SyncType'
<1>t. TypeOK /\ SyncType /\ t \in Threads
  BY DEF Inv, Threads
<1>1. CASE LoopTest(t)
  <2>1. SyncType'
    BY <1>1, <1>t DEF LoopTest, SyncType
  <2>2. QueueTypeOK'
    BY <1>1, <1>t, QueueUnchanged DEF LoopTest, TypeOK
  <2> QED BY <1>1, <1>t, <2>1, <2>2, GoToType DEF LoopTest, TypeOK
<1>2. CASE Wait(t)
  <2>1. SyncType' /\ sync' \in Threads \cup {Nobody, Closed, 0, 1}
    BY <1>2, <1>t, AcquireType DEF Wait
  <2>2. QueueTypeOK'
    BY <1>2, <1>t, QueueUnchanged DEF Wait, TypeOK
  <2>3. pc' \in [Threads -> InSection \cup
                            {"suspended", "loop", "wait", "finished"}]
    BY <1>2, <1>t, GoToType DEF Wait, InSection
  <2> QED BY <1>2, <1>t, <2>1, <2>2, <2>3 DEF Wait, TypeOK
<1>3. CASE ReleaseAndSleep(t)
  <2>1. SyncType' /\ sync' \in Threads \cup {Nobody, Closed, 0, 1}
    BY <1>3, <1>t, ReleaseType DEF ReleaseAndSleep
  <2>2. QueueTypeOK'
    BY <1>3, <1>t, QueueUnchanged DEF ReleaseAndSleep, TypeOK
  <2>3. pc' \in [Threads -> InSection \cup
                            {"suspended", "loop", "wait", "finished"}]
    BY <1>3, <1>t, GoToType DEF ReleaseAndSleep
  <2> QED BY <1>3, <1>t, <2>1, <2>2, <2>3 DEF ReleaseAndSleep, TypeOK
<1> QED BY <1>1, <1>2, <1>3 DEF Common

LEMMA ReaderType ==
  ASSUME Inv, NEW r \in Readers, Reader(r) PROVE TypeOK' /\ SyncType'
<1>t. TypeOK /\ SyncType /\ r \in Threads /\ r \in Workers
  BY DEF Inv, Threads, Workers
<1>1. CASE Common(r)
  BY <1>1, <1>t, CommonType
<1>2. CASE ReaderCheck(r)
  <2>1. QueueTypeOK'
    BY <1>2, <1>t, QueueUnchanged, ClearFullType DEF ReaderCheck, TypeOK
  <2>2. pc' \in [Threads -> InSection \cup
                            {"suspended", "loop", "wait", "finished"}]
    BY <1>2, <1>t, GoToType DEF ReaderCheck, InSection
  <2> QED BY <1>2, <1>t, <2>1, <2>2 DEF ReaderCheck, TypeOK, SyncType
<1>3. CASE ReaderTake(r)
  <2>1. QueueTypeOK'
    BY <1>3, <1>t, TakeStringType DEF ReaderTake, TypeOK
  <2>2. pc' \in [Threads -> InSection \cup
                            {"suspended", "loop", "wait", "finished"}]
    BY <1>3, <1>t, GoToType DEF ReaderTake, InSection
  <2> QED BY <1>3, <1>t, <2>1, <2>2 DEF ReaderTake, TypeOK, SyncType
<1>4. CASE ReaderAdvance(r)
  <2>1. QueueTypeOK'
    BY <1>4, <1>t, AdvanceReadType DEF ReaderAdvance, TypeOK
  <2>2. pc' \in [Threads -> InSection \cup
                            {"suspended", "loop", "wait", "finished"}]
    BY <1>4, <1>t, GoToType DEF ReaderAdvance, InSection
  <2> QED BY <1>4, <1>t, <2>1, <2>2 DEF ReaderAdvance, TypeOK, SyncType
<1> QED BY <1>1, <1>2, <1>3, <1>4 DEF Reader

LEMMA WriterType ==
  ASSUME Inv, NEW w \in Writers, Writer(w) PROVE TypeOK' /\ SyncType'
<1>t. TypeOK /\ SyncType /\ w \in Threads /\ w \in Workers
  BY DEF Inv, Threads, Workers
<1>1. CASE Common(w)
  BY <1>1, <1>t, CommonType
<1>2. CASE WriterCheck(w)
  <2>1. QueueTypeOK'
    BY <1>2, <1>t, QueueUnchanged DEF WriterCheck, TypeOK
  <2>2. pc' \in [Threads -> InSection \cup
                            {"suspended", "loop", "wait", "finished"}]
    BY <1>2, <1>t, GoToType DEF WriterCheck, InSection
  <2> QED BY <1>2, <1>t, <2>1, <2>2 DEF WriterCheck, TypeOK, SyncType
<1>3. CASE WriterStore(w)
  <2>1. QueueTypeOK' /\ <<w, msgnum[w]>> \in Messages
    BY <1>3, <1>t, StoreStringType DEF WriterStore, TypeOK
  <2>2. pc' \in [Threads -> InSection \cup
                            {"suspended", "loop", "wait", "finished"}]
    BY <1>3, <1>t, GoToType DEF WriterStore, InSection
  <2> QED BY <1>3, <1>t, <2>1, <2>2 DEF WriterStore, TypeOK, SyncType
<1>4. CASE WriterAdvance(w)
  <2>1. QueueTypeOK'
    BY <1>4, <1>t, AdvanceWriteType DEF WriterAdvance, TypeOK
  <2>2. pc' \in [Threads -> InSection \cup
                            {"suspended", "loop", "wait", "finished"}]
    BY <1>4, <1>t, GoToType DEF WriterAdvance, InSection
  <2> QED BY <1>4, <1>t, <2>1, <2>2 DEF WriterAdvance, TypeOK, SyncType
<1> QED BY <1>1, <1>2, <1>3, <1>4 DEF Writer

(* The manager and main.                                                   *)
LEMMA MainType ==
  ASSUME Inv, TimeManager \/ Main PROVE TypeOK' /\ SyncType'
<1>t. TypeOK /\ SyncType /\ Manager \in Threads
  BY DEF Inv, Threads
<1>1. CASE TimeManager
  <2>1. QueueTypeOK'
    BY <1>1, <1>t, QueueUnchanged DEF TimeManager, TypeOK
  <2> QED BY <1>1, <1>t, <2>1, GoToType DEF TimeManager, TypeOK, SyncType
<1>2. CASE Resume
  <2>1. QueueTypeOK'
    BY <1>2, <1>t, QueueUnchanged DEF Resume, TypeOK
  <2>2. ResumeNext \subseteq Threads
    BY DEF ResumeNext, Suspended, Threads, Workers
  <2> QED BY <1>2, <1>t, <2>1, <2>2, GoToType DEF Resume, TypeOK, SyncType
<1>3. CASE Join \/ DeleteQueue
  <2>1. QueueTypeOK'
    BY <1>3, <1>t, QueueUnchanged DEF Join, DeleteQueue, TypeOK
  <2> QED BY <1>3, <1>t, <2>1 DEF Join, DeleteQueue, TypeOK, SyncType
<1>4. CASE CloseSync
  <2>1. QueueTypeOK'
    BY <1>4, <1>t, QueueUnchanged DEF CloseSync, TypeOK
  <2> QED BY <1>4, <1>t, <2>1 DEF CloseSync, TypeOK, SyncType
<1>5. CASE FreeSlots
  <2>1. QueueTypeOK'
    BY <1>5, <1>t, QueueUnchanged DEF FreeSlots, TypeOK
  <2> QED BY <1>5, <1>t, <2>1 DEF FreeSlots, TypeOK, SyncType
<1> QED BY <1>1, <1>2, <1>3, <1>4, <1>5 DEF Main
-----------------------------------------------------------------------------
(* A step in which no thread enters and the primitive is left alone.       *)
LEMMA NobodyEnters ==
  ASSUME Guarded, UNCHANGED <<program, sync>>,
         mainpc' \in OpenPhases => mainpc \in OpenPhases,
         \A s \in Workers : pc'[s] \in InSection => pc[s] \in InSection
  PROVE  Guarded'
BY DEF Guarded, OwnerInside, FreeIsEmpty, AtMostOne

(* A step of t that does not wait or release, seen from the primitive.     *)
LEMMA InsideStep ==
  ASSUME TypeOK, Guarded, NEW t \in Threads, NEW l, GoTo(t, l),
         UNCHANGED <<program, sync, mainpc>>,
         l \in InSection => pc[t] \in InSection
  PROVE  Guarded'
<1>1. \A s \in Workers : pc'[s] \in InSection => pc[s] \in InSection
  BY DEF GoTo, TypeOK, Threads
<1> QED BY <1>1, NobodyEnters

LEMMA WaitGuarded ==
  ASSUME Inv, NEW t \in Workers, Wait(t) PROVE Guarded'
<1>t. TypeOK /\ SyncType /\ t \in Threads
  BY DEF Inv, Threads
<1> SUFFICES ASSUME mainpc \in OpenPhases
             PROVE  sync' # Closed /\ OwnerInside' /\ FreeIsEmpty' /\ AtMostOne'
  BY DEF Guarded, Wait
<1>1. sync # Closed /\ OwnerInside /\ FreeIsEmpty
  BY DEF Inv, Guarded
<1>2. /\ program \in Owned => sync = Nobody /\ sync' = t
      /\ program \in Counted => sync = 1 /\ sync' = 0
  BY <1>1, <1>t, AcquireSync DEF Wait
<1>3. program \in Owned \cup Counted /\ program' = program
  BY <1>t DEF TypeOK, Programs, Wait
<1>4. \A s \in Workers : pc[s] \notin InSection
  BY <1>1, <1>2, <1>3, SyncAssumption DEF OwnerInside, FreeIsEmpty, Threads
<1>5. \A s \in Workers : pc'[s] \in InSection => s = t
  BY <1>4, <1>t DEF Wait, GoTo, TypeOK, Threads
<1>6. sync' # Closed
  BY <1>2, <1>3, <1>t, SyncAssumption
<1>7. OwnerInside'
  BY <1>2, <1>3, <1>5 DEF OwnerInside
<1>8. FreeIsEmpty'
  BY <1>2, <1>3 DEF FreeIsEmpty
<1> QED BY <1>5, <1>6, <1>7, <1>8 DEF AtMostOne

LEMMA ReleaseGuarded ==
  ASSUME Inv, NEW t \in Workers, ReleaseAndSleep(t) PROVE Guarded'
<1>t. TypeOK /\ SyncType /\ t \in Threads
  BY DEF Inv, Threads
<1> SUFFICES ASSUME mainpc \in OpenPhases
             PROVE  sync' # Closed /\ OwnerInside' /\ FreeIsEmpty' /\ AtMostOne'
  BY DEF Guarded, ReleaseAndSleep
<1>1. sync # Closed /\ OwnerInside /\ AtMostOne
  BY DEF Inv, Guarded
<1>2. pc[t] \in InSection
  BY DEF ReleaseAndSleep, Runs, At, InSection
<1>3. \A s \in Workers : pc'[s] \notin InSection
  <2>1. \A s \in Workers : s # t => pc'[s] = pc[s]
    BY <1>t DEF ReleaseAndSleep, GoTo, TypeOK, Threads
  <2>2. pc'[t] \notin InSection
    BY <1>t DEF ReleaseAndSleep, GoTo, TypeOK, InSection
  <2> QED BY <1>1, <1>2, <2>1, <2>2 DEF AtMostOne
<1>4. sync' # Closed
  <2>1. program \in Owned \cup Counted
    BY <1>t DEF TypeOK, Programs
  <2>2. /\ program \in Owned => sync' \in {sync, Nobody}
        /\ program \in Counted => sync' = 1
    BY <1>1, <1>t, ReleaseSync DEF ReleaseAndSleep
  <2> QED BY <2>1, <2>2, <1>1, SyncAssumption
<1> QED BY <1>3, <1>4 DEF OwnerInside, FreeIsEmpty, AtMostOne

LEMMA GuardedStep == ASSUME Inv, Thread \/ Main PROVE Guarded'
<1>t. TypeOK /\ Guarded
  BY DEF Inv
<1>1. CASE \E t \in Workers : LoopTest(t)
  BY <1>1, <1>t, InsideStep DEF LoopTest, InSection, Threads
<1>2. CASE \E t \in Workers : Wait(t)
  BY <1>2, WaitGuarded
<1>3. CASE \E t \in Workers : ReleaseAndSleep(t)
  BY <1>3, ReleaseGuarded
<1>4. CASE \E r \in Readers : ReaderCheck(r) \/ ReaderTake(r) \/ ReaderAdvance(r)
  <2> PICK r \in Readers : ReaderCheck(r) \/ ReaderTake(r) \/ ReaderAdvance(r)
    BY <1>4
  <2>1. UNCHANGED <<program, sync, mainpc>> /\ pc[r] \in InSection
    BY DEF ReaderCheck, ReaderTake, ReaderAdvance, Runs, At, InSection
  <2>2. PICK l : GoTo(r, l)
    BY DEF ReaderCheck, ReaderTake, ReaderAdvance
  <2> QED BY <1>t, <2>1, <2>2, InsideStep DEF Threads, Workers
<1>5. CASE \E w \in Writers : WriterCheck(w) \/ WriterStore(w) \/ WriterAdvance(w)
  <2> PICK w \in Writers : WriterCheck(w) \/ WriterStore(w) \/ WriterAdvance(w)
    BY <1>5
  <2>1. UNCHANGED <<program, sync, mainpc>> /\ pc[w] \in InSection
    BY DEF WriterCheck, WriterStore, WriterAdvance, Runs, At, InSection
  <2>2. PICK l : GoTo(w, l)
    BY DEF WriterCheck, WriterStore, WriterAdvance
  <2> QED BY <1>t, <2>1, <2>2, InsideStep DEF Threads, Workers
<1>6. CASE TimeManager
  BY <1>6, <1>t, InsideStep DEF TimeManager, InSection, Threads
<1>7. CASE Resume
  <2>1. PICK t \in ResumeNext : GoTo(t, "loop")
    BY <1>7 DEF Resume
  <2>2. t \in Threads
    BY DEF ResumeNext, Suspended, Threads, Workers
  <2>3. \A s \in Workers : pc'[s] \in InSection => pc[s] \in InSection
    BY <2>1, <2>2, <1>t DEF GoTo, TypeOK, InSection, Threads
  <2> QED BY <1>7, <1>t, <2>3, NobodyEnters DEF Resume, OpenPhases
<1>8. CASE Join \/ FreeSlots \/ DeleteQueue
  BY <1>8, <1>t, NobodyEnters DEF Join, FreeSlots, DeleteQueue, OpenPhases
<1>9. CASE CloseSync
  BY <1>9 DEF CloseSync, Guarded, OpenPhases
<1> QED BY <1>1, <1>2, <1>3, <1>4, <1>5, <1>6, <1>7, <1>8, <1>9
        DEF Thread, Main, Reader, Writer, Common, Workers
-----------------------------------------------------------------------------
LEMMA StepInv == Inv /\ [Next]_vars => Inv'
<1> SUFFICES ASSUME Inv, [Next]_vars PROVE Inv'
  OBVIOUS
<1>1. CASE UNCHANGED vars
  BY <1>1 DEF vars, queue, io, Inv, TypeOK, QueueTypeOK, SyncType, Guarded,
              OwnerInside, FreeIsEmpty, AtMostOne
<1>2. CASE Thread \/ Main
  BY <1>2, ReaderType, WriterType, MainType, GuardedStep DEF Thread, Inv
<1> QED BY <1>1, <1>2, NextCases DEF Finished

(* The four programs keep their types, whichever primitive they use.       *)
THEOREM TypeCorrect == Spec => []TypeOK
<1>1. Inv => TypeOK
  BY DEF Inv
<1> QED BY InitInv, StepInv, <1>1, PTL DEF Spec

(* Mutex, event, semaphore and critical section all keep two workers from  *)
(* being on the queue together, for any number of threads and any size.    *)
THEOREM Exclusion == Spec => []MutualExclusion
<1>1. Inv => MutualExclusion
  BY DEF Inv, Guarded, OpenPhases, AtMostOne, MutualExclusion
<1> QED BY InitInv, StepInv, <1>1, PTL DEF Spec
-----------------------------------------------------------------------------
(* A finished thread stays finished.                                       *)
LEMMA FinishedStays ==
  ASSUME TypeOK, Thread \/ Main, NEW t \in Threads, At(t, "finished")
  PROVE  pc'[t] = "finished"
<1>1. CASE Main
  <2>1. CASE Resume
    <3>1. PICK u \in ResumeNext : GoTo(u, "loop")
      BY <2>1 DEF Resume
    <3>2. u # t
      BY <3>1 DEF ResumeNext, Suspended, At
    <3> QED BY <3>1, <3>2 DEF GoTo, TypeOK, Runs, At
  <2> QED BY <1>1, <2>1 DEF Main, Join, CloseSync, FreeSlots, DeleteQueue, At
<1>2. CASE TimeManager
  BY <1>2 DEF TimeManager, GoTo, TypeOK, Runs, At
<1>3. CASE \E r \in Readers : Reader(r)
  BY <1>3 DEF Reader, Common, LoopTest, Wait, ReleaseAndSleep, ReaderCheck,
              ReaderTake, ReaderAdvance, GoTo, TypeOK, Runs, At
<1>4. CASE \E w \in Writers : Writer(w)
  BY <1>4 DEF Writer, Common, LoopTest, Wait, ReleaseAndSleep, WriterCheck,
              WriterStore, WriterAdvance, GoTo, TypeOK, Runs, At
<1> QED BY <1>1, <1>2, <1>3, <1>4 DEF Thread

(* With at most as many threads as one wait can take, main cleans up only  *)
(* when every thread has finished.  With more it does not, and none of what*)
(* follows holds.                                                          *)
CleanupLast ==
  mainpc \in {"close", "free", "delete", "deleted"} =>
    \A t \in Threads : At(t, "finished")

LEMMA JoinedFirst ==
  ASSUME Cardinality(Threads) <= MaxWaitObjects
  PROVE  Spec => []CleanupLast
<1>1. IsFiniteSet(Threads)
  BY ThreadsAssumption, FS_Union, FS_AddElement DEF Threads, Workers
<1>2. ~(Cardinality(Threads) > MaxWaitObjects)
  BY <1>1, FS_CardinalityType, SyncAssumption
<1>3. Init => CleanupLast
  BY DEF Init, CleanupLast
<1>4. Inv /\ CleanupLast /\ [Next]_vars => CleanupLast'
  <2> SUFFICES ASSUME Inv, CleanupLast, [Next]_vars
               PROVE  CleanupLast'
    OBVIOUS
  <2>t. TypeOK
    BY DEF Inv
  <2>1. CASE UNCHANGED vars
    BY <2>1 DEF vars, CleanupLast, At
  <2>2. CASE Thread \/ Main
    <3>1. CASE mainpc \in {"close", "free", "delete", "deleted"}
      BY <2>2, <2>t, <3>1, FinishedStays DEF CleanupLast, At
    <3>2. CASE Join
      BY <3>2, <1>2 DEF Join, CleanupLast, At
    <3>3. CASE mainpc \in {"resume", "join"} /\ ~Join
      <4>1. mainpc' \in {"resume", "join"}
        BY <2>2, <3>3 DEF Thread, Reader, Writer, Common, LoopTest, Wait,
           ReleaseAndSleep, ReaderCheck, ReaderTake, ReaderAdvance,
           WriterCheck, WriterStore, WriterAdvance, TimeManager, Main, Resume,
           CloseSync, FreeSlots, DeleteQueue
      <4> QED BY <4>1 DEF CleanupLast
    <3> QED BY <3>1, <3>2, <3>3, <2>t DEF TypeOK
  <2> QED BY <2>1, <2>2, NextCases DEF Finished
<1> QED BY InitInv, StepInv, <1>3, <1>4, PTL DEF Spec
-----------------------------------------------------------------------------
(* No worker but t is between its wait and its release.                    *)
OnlyInside(t) == \A s \in Workers : s # t => pc[s] \notin InSection

(* A worker that has the queue has it alone, and main has not cleaned up.  *)
LEMMA InsideAlone ==
  ASSUME Inv, CleanupLast, NEW t \in Workers, pc[t] \in InSection
  PROVE  OnlyInside(t) /\ mainpc \in {"resume", "join"}
<1>1. mainpc \in {"resume", "join"}
  BY DEF Inv, TypeOK, CleanupLast, At, InSection, Threads
<1> QED BY <1>1 DEF Inv, Guarded, OpenPhases, AtMostOne, OnlyInside

(* Its own step does not let another one in.                               *)
LEMMA OnlyStays ==
  ASSUME TypeOK, NEW t \in Workers, OnlyInside(t), NEW l, GoTo(t, l)
  PROVE  OnlyInside(t)' /\ pc'[t] = l
BY DEF TypeOK, OnlyInside, GoTo, Threads

(* What is in the queue, by the statement its one user is at.              *)
ReaderView ==
  \A r \in Readers : OnlyInside(r) =>
    /\ pc[r] = "take" => Contents = QueueAsSeq(TRUE, FALSE, FALSE)
    /\ pc[r] = "advance" => Contents = QueueAsSeq(TRUE, TRUE, FALSE)
    /\ pc[r] \notin {"take", "advance"} => Contents = QueueAsSeq(FALSE, FALSE, FALSE)

(* That follows from who is inside.                                        *)
LEMMA ReaderContents == ReaderView
<1> SUFFICES ASSUME NEW r \in Readers, OnlyInside(r)
             PROVE /\ pc[r] = "take" => Contents = QueueAsSeq(TRUE, FALSE, FALSE)
                   /\ pc[r] = "advance" => Contents = QueueAsSeq(TRUE, TRUE, FALSE)
                   /\ pc[r] \notin {"take", "advance"}
                        => Contents = QueueAsSeq(FALSE, FALSE, FALSE)
  BY DEF ReaderView
<1>1. /\ Holds("take", Readers) <=> pc[r] = "take"
      /\ Holds("advance", Readers) <=> pc[r] = "advance"
      /\ ~Holds("advance", Writers)
  BY ThreadsAssumption DEF OnlyInside, Holds, At, Workers, InSection
<1> QED BY <1>1 DEF Contents, QueueAsSeq, Count

(* The same for a writer.                                                  *)
WriterView ==
  \A w \in Writers : OnlyInside(w) =>
    /\ pc[w] = "advance" => Contents = QueueAsSeq(FALSE, FALSE, TRUE)
    /\ pc[w] # "advance" => Contents = QueueAsSeq(FALSE, FALSE, FALSE)

(* ... and so does that.                                                   *)
LEMMA WriterContents == WriterView
<1> SUFFICES ASSUME NEW w \in Writers, OnlyInside(w)
             PROVE /\ pc[w] = "advance" => Contents = QueueAsSeq(FALSE, FALSE, TRUE)
                   /\ pc[w] # "advance" => Contents = QueueAsSeq(FALSE, FALSE, FALSE)
  BY DEF WriterView
<1>1. /\ ~Holds("take", Readers)
      /\ ~Holds("advance", Readers)
      /\ Holds("advance", Writers) <=> pc[w] = "advance"
  BY ThreadsAssumption DEF OnlyInside, Holds, At, Workers, InSection
<1> QED BY <1>1 DEF Contents, QueueAsSeq, Count

Cleared == Holds("take", Readers) \/ Holds("advance", Readers)
Storing == Holds("store", Writers) \/ Holds("advance", Writers)

Flags == (Cleared => full = 0) /\ (Storing => HasRoom)

(* A slot holds a message only while the message is in the queue, and no   *)
(* message is in two slots.                                                *)
SlotsQueued == \A i \in Slots : data[i] \notin {NULL, Garbage} =>
                                  data[i] \in InQueue(Contents)
SlotsDiffer == \A i, j \in Slots :
                 data[i] = data[j] /\ data[i] \notin {NULL, Garbage} => i = j
HeapQueued == mainpc \notin {"delete", "deleted"} => heap = InQueue(Contents)

RingInv == /\ Flags /\ SlotsQueued /\ SlotsDiffer /\ HeapQueued
           /\ Numbered(Contents, msgnum) /\ Distinct(Contents)

(* The sequence of messages is one of the queue's own strings.             *)
LEMMA ContentsIsSeq ==
  ASSUME Inv, CleanupLast, Flags
  PROVE  /\ Contents \in Seq(Contained) /\ Len(Contents) \in 0 .. Size
         /\ \A k \in 1 .. Len(Contents) : \E i \in Slots : Contents[k] = data[i]
<1> DEFINE c == Holds("take", Readers) \/ Holds("advance", Readers)
           t == Holds("advance", Readers)
           s == Holds("advance", Writers)
<1>1. QueueTypeOK /\ c \in BOOLEAN /\ t \in BOOLEAN /\ s \in BOOLEAN
  BY DEF Inv, TypeOK, Holds
<1>2. (t => c) /\ (c => full = 0) /\ (s => HasRoom)
  BY DEF Flags, Cleared, Storing
<1>3. ~(s /\ c)
  BY InsideAlone, ThreadsAssumption DEF Holds, At, OnlyInside, Workers, InSection
<1>4. Contents = QueueAsSeq(c, t, s)
  BY DEF Contents
<1> HIDE DEF c, t, s
<1> QED BY <1>1, <1>2, <1>3, <1>4, QueueIsSeq

(* One action of the abstract queue, or none.                              *)
FifoStep == Queue!Next \/ UNCHANGED Queue!vars

(* A step that leaves the queue, the heap and the flags' threads alone.    *)
LEMMA SameContents ==
  ASSUME UNCHANGED queue,
         \A s \in Workers : \A l \in {"take", "advance"} : pc'[s] = l <=> pc[s] = l
  PROVE  Contents' = Contents
<1>1. /\ Holds("take", Readers)' <=> Holds("take", Readers)
      /\ Holds("advance", Readers)' <=> Holds("advance", Readers)
      /\ Holds("advance", Writers)' <=> Holds("advance", Writers)
  BY DEF Holds, At, Workers
<1> QED BY <1>1 DEF Contents, QueueAsSeq, Count, queue

(* A step that moves an index or a flag and no message.                    *)
LEMMA Stutter ==
  ASSUME RingInv, Flags', Contents' = Contents, UNCHANGED <<data, io, heap>>,
         mainpc' \notin {"delete", "deleted"} => mainpc \notin {"delete", "deleted"}
  PROVE  RingInv' /\ FifoStep
BY DEF RingInv, SlotsQueued, SlotsDiffer, HeapQueued, FifoStep, Queue!vars, io

(* A thread outside its turn on the queue.                                 *)
LEMMA OutsideStep ==
  ASSUME RingInv, UNCHANGED <<queue, io, heap>>,
         mainpc' \notin {"delete", "deleted"} => mainpc \notin {"delete", "deleted"},
         \A s \in Workers : \/ pc'[s] = pc[s]
                            \/ {pc[s], pc'[s]} \cap {"take", "store", "advance"} = {}
  PROVE  RingInv' /\ FifoStep
<1>1. Contents' = Contents
  BY SameContents
<1>2. Flags'
  BY DEF RingInv, Flags, Cleared, Storing, Holds, At, Workers, queue, HasRoom
<1> QED BY <1>1, <1>2, Stutter DEF queue

(* The loop test, the wait and the release of any thread.                  *)
LEMMA CommonStep ==
  ASSUME Inv, RingInv, NEW t \in Workers, Common(t)
  PROVE  RingInv' /\ FifoStep
<1>1. TypeOK /\ t \in Threads
  BY DEF Inv, Threads
<1>2. UNCHANGED <<queue, io, heap, mainpc>>
  BY DEF Common, LoopTest, Wait, ReleaseAndSleep
<1>3. \A s \in Workers : \/ pc'[s] = pc[s]
                         \/ {pc[s], pc'[s]} \cap {"take", "store", "advance"} = {}
  BY <1>1 DEF Common, LoopTest, Wait, ReleaseAndSleep, GoTo, TypeOK, Runs, At, Threads
<1> QED BY <1>2, <1>3, OutsideStep

(* The manager, and main while it resumes the threads.                     *)
LEMMA ManagerStep ==
  ASSUME Inv, RingInv, TimeManager \/ Resume
  PROVE  RingInv' /\ FifoStep
<1>1. TypeOK
  BY DEF Inv
<1>2. /\ UNCHANGED <<queue, io, heap>>
      /\ mainpc' \notin {"delete", "deleted"} => mainpc \notin {"delete", "deleted"}
  BY DEF TimeManager, Resume
<1>3. \A s \in Workers : \/ pc'[s] = pc[s]
                         \/ {pc[s], pc'[s]} \cap {"take", "store", "advance"} = {}
  <2>1. CASE TimeManager
    BY <1>1, <2>1, ThreadsAssumption DEF TimeManager, GoTo, TypeOK, Runs, At, Threads
  <2>2. CASE Resume
    <3>1. PICK u \in ResumeNext : GoTo(u, "loop")
      BY <2>2 DEF Resume
    <3>2. u \in Threads /\ pc[u] = "suspended"
      BY <3>1 DEF ResumeNext, Suspended, At, Threads, Workers
    <3> QED BY <1>1, <3>1, <3>2 DEF GoTo, TypeOK, Threads
  <2> QED BY <2>1, <2>2
<1> QED BY <1>2, <1>3, OutsideStep

(* The reader looks for data and clears full.                              *)
LEMMA ReaderCheckStep ==
  ASSUME Inv, CleanupLast, RingInv, NEW r \in Readers, ReaderCheck(r)
  PROVE  RingInv' /\ FifoStep
<1>1. TypeOK /\ r \in Threads /\ r \in Workers /\ QueueTypeOK
  BY DEF Inv, Threads, Workers, TypeOK
<1>2. CASE ~HasData
  <2>1. UNCHANGED <<queue, io, heap, mainpc>>
    BY <1>2 DEF ReaderCheck
  <2>2. \A s \in Workers : \/ pc'[s] = pc[s]
                           \/ {pc[s], pc'[s]} \cap {"take", "store", "advance"} = {}
    BY <1>1, <1>2 DEF ReaderCheck, GoTo, TypeOK, Runs, At, Threads
  <2> QED BY <2>1, <2>2, OutsideStep
<1>3. CASE HasData
  <2>1. ClearFull /\ GoTo(r, "take") /\ pc[r] = "check"
    BY <1>3 DEF ReaderCheck, Runs, At
  <2>2. OnlyInside(r)
    BY <1>1, <2>1, InsideAlone DEF InSection
  <2>3. OnlyInside(r)' /\ pc'[r] = "take"
    BY <1>1, <2>1, <2>2, OnlyStays
  <2>4. Contents = QueueAsSeq(FALSE, FALSE, FALSE)
    BY <2>1, <2>2, ReaderContents DEF ReaderView
  <2>5. Contents' = QueueAsSeq(TRUE, FALSE, FALSE)'
    <3>1. ReaderView'
      BY ReaderContents, PTL
    <3> QED BY <2>3, <3>1 DEF ReaderView
  <2>6. Contents' = Contents
    BY <2>1, <2>4, <2>5, <1>1, <1>3, ClearKeeps
  <2>7. Flags'
    <3>1. ~Storing'
      BY <2>3, ThreadsAssumption
         DEF Storing, Holds, At, OnlyInside, Workers, InSection
    <3>2. full' = 0
      BY <2>1 DEF ClearFull
    <3> QED BY <3>1, <3>2 DEF Flags
  <2>8. UNCHANGED <<data, io, heap, mainpc>>
    BY <2>1 DEF ReaderCheck, ClearFull
  <2> QED BY <2>6, <2>7, <2>8, Stutter
<1> QED BY <1>2, <1>3

(* The turn of one worker, before and after its step.                      *)
LEMMA ReaderTurn ==
  ASSUME Inv, CleanupLast, NEW r \in Readers, pc[r] \in InSection,
         NEW l, GoTo(r, l)
  PROVE  /\ OnlyInside(r) /\ OnlyInside(r)' /\ pc'[r] = l
         /\ ReaderView /\ ReaderView' /\ ~Storing /\ ~Storing'
<1>1. TypeOK /\ r \in Workers
  BY DEF Inv, Workers
<1>2. OnlyInside(r)
  BY <1>1, InsideAlone
<1>3. OnlyInside(r)' /\ pc'[r] = l
  BY <1>1, <1>2, OnlyStays
<1>4. ReaderView /\ ReaderView'
  BY ReaderContents, PTL
<1>5. ~Storing /\ ~Storing'
  BY <1>2, <1>3, ThreadsAssumption
     DEF Storing, Holds, At, OnlyInside, Workers, InSection
<1> QED BY <1>2, <1>3, <1>4, <1>5

(* The same for a writer.                                                  *)
LEMMA WriterTurn ==
  ASSUME Inv, CleanupLast, NEW w \in Writers, pc[w] \in InSection,
         NEW l, GoTo(w, l)
  PROVE  /\ OnlyInside(w) /\ OnlyInside(w)' /\ pc'[w] = l
         /\ WriterView /\ WriterView' /\ ~Cleared /\ ~Cleared'
<1>1. TypeOK /\ w \in Workers
  BY DEF Inv, Workers
<1>2. OnlyInside(w)
  BY <1>1, InsideAlone
<1>3. OnlyInside(w)' /\ pc'[w] = l
  BY <1>1, <1>2, OnlyStays
<1>4. WriterView /\ WriterView'
  BY WriterContents, PTL
<1>5. ~Cleared /\ ~Cleared'
  BY <1>2, <1>3, ThreadsAssumption
     DEF Cleared, Holds, At, OnlyInside, Workers, InSection
<1> QED BY <1>2, <1>3, <1>4, <1>5

(* The take is the Get of the abstract queue.                              *)
LEMMA ReaderTakeStep ==
  ASSUME Inv, CleanupLast, RingInv, NEW r \in Readers, ReaderTake(r)
  PROVE  RingInv' /\ FifoStep
<1>1. /\ TakeString(r) /\ GoTo(r, "advance") /\ pc[r] = "take"
      /\ heap' = heap \ {data[readindex]} /\ mainpc' = mainpc
  BY DEF ReaderTake, Runs, At
<1>2. /\ QueueTypeOK /\ pc[r] \in InSection
  BY <1>1 DEF Inv, TypeOK, InSection
<1>3. /\ OnlyInside(r) /\ OnlyInside(r)' /\ pc'[r] = "advance"
      /\ ReaderView /\ ReaderView' /\ ~Storing /\ ~Storing'
  BY <1>1, <1>2, ReaderTurn
<1>4. full = 0
  BY <1>1 DEF RingInv, Flags, Cleared, Holds, At
<1>5. /\ Contents # <<>> /\ Head(Contents) = data[readindex]
      /\ Contents' = Tail(Contents)
  <2>1. Contents = QueueAsSeq(TRUE, FALSE, FALSE)
    BY <1>1, <1>3 DEF ReaderView
  <2>2. Contents' = QueueAsSeq(TRUE, TRUE, FALSE)'
    BY <1>3 DEF ReaderView
  <2> QED BY <2>1, <2>2, <1>1, <1>2, <1>4, TakeIsGet
<1>6. Contents \in Seq(Contained)
  BY ContentsIsSeq DEF RingInv
<1>7. Numbered(Contents', msgnum')
  <2>1. msgnum' = msgnum
    BY <1>1 DEF TakeString
  <2> QED BY <2>1, <1>5, <1>6, NumberedGet DEF RingInv
<1>8. InQueue(Contents') = InQueue(Contents) \ {data[readindex]} /\ Distinct(Contents')
  BY <1>5, <1>6, TailIn DEF RingInv
<1>9. /\ readindex \in Slots /\ data \in [Slots -> Contained]
      /\ data' = [data EXCEPT ![readindex] = NULL]
  BY <1>1, <1>2 DEF QueueTypeOK, TakeString
<1>10. SlotsQueued'
  BY <1>8, <1>9 DEF RingInv, SlotsQueued, SlotsDiffer
<1>11. SlotsDiffer'
  BY <1>9 DEF RingInv, SlotsDiffer
<1>12. HeapQueued'
  BY <1>1, <1>8 DEF RingInv, HeapQueued
<1>13. Flags'
  <2>1. full' = 0
    BY <1>1, <1>4 DEF TakeString
  <2> QED BY <2>1, <1>3 DEF Flags
<1>14. Queue!Get(r)
  BY <1>1, <1>5 DEF Queue!Get, TakeString
<1> QED BY <1>7, <1>8, <1>10, <1>11, <1>12, <1>13, <1>14
        DEF RingInv, FifoStep, Queue!Next

(* Moving readindex is invisible.                                          *)
LEMMA ReaderAdvanceStep ==
  ASSUME Inv, CleanupLast, RingInv, NEW r \in Readers, ReaderAdvance(r)
  PROVE  RingInv' /\ FifoStep
<1>1. AdvanceRead /\ GoTo(r, "release") /\ pc[r] = "advance"
  BY DEF ReaderAdvance, Runs, At
<1>2. QueueTypeOK /\ pc[r] \in InSection
  BY <1>1 DEF Inv, TypeOK, InSection
<1>3. /\ OnlyInside(r) /\ OnlyInside(r)' /\ pc'[r] = "release"
      /\ ReaderView /\ ReaderView' /\ ~Storing /\ ~Storing'
  BY <1>1, <1>2, ReaderTurn
<1>4. full = 0
  BY <1>1 DEF RingInv, Flags, Cleared, Holds, At
<1>5. Contents' = Contents
  <2>1. Contents = QueueAsSeq(TRUE, TRUE, FALSE)
    BY <1>1, <1>3 DEF ReaderView
  <2>2. Contents' = QueueAsSeq(FALSE, FALSE, FALSE)'
    BY <1>3 DEF ReaderView
  <2> QED BY <2>1, <2>2, <1>1, <1>2, <1>4, AdvanceReadKeeps
<1>6. Flags'
  <2>1. full' = 0
    BY <1>1, <1>4 DEF AdvanceRead
  <2> QED BY <2>1, <1>3 DEF Flags
<1>7. UNCHANGED <<data, io, heap, mainpc>>
  BY <1>1 DEF AdvanceRead, ReaderAdvance
<1> QED BY <1>5, <1>6, <1>7, Stutter

(* The writer looks for room.                                              *)
LEMMA WriterCheckStep ==
  ASSUME Inv, CleanupLast, RingInv, NEW w \in Writers, WriterCheck(w)
  PROVE  RingInv' /\ FifoStep
<1>1. /\ GoTo(w, IF HasRoom THEN "store" ELSE "release") /\ pc[w] = "check"
      /\ UNCHANGED <<queue, io, heap, mainpc>>
  BY DEF WriterCheck, Runs, At
<1>2. TypeOK /\ w \in Threads /\ pc[w] \in InSection
  BY <1>1 DEF Inv, InSection, Threads, Workers
<1>3. \A s \in Workers : \A l \in {"take", "advance"} : pc'[s] = l <=> pc[s] = l
  BY <1>1, <1>2 DEF GoTo, TypeOK, Threads
<1>4. Contents' = Contents
  BY <1>1, <1>3, SameContents
<1>5. Flags'
  <2>1. pc'[w] = (IF HasRoom THEN "store" ELSE "release") /\ ~Cleared' /\ OnlyInside(w)'
    BY <1>1, <1>2, WriterTurn
  <2>2. Storing' => HasRoom
    BY <2>1, ThreadsAssumption DEF Storing, Holds, At, OnlyInside, Workers, InSection
  <2>3. HasRoom' <=> HasRoom
    BY <1>1 DEF HasRoom, queue
  <2> QED BY <2>1, <2>2, <2>3 DEF Flags
<1> QED BY <1>1, <1>4, <1>5, Stutter DEF queue

(* The store is the Put of the abstract queue.                             *)
LEMMA WriterStoreStep ==
  ASSUME Inv, CleanupLast, RingInv, NEW w \in Writers, WriterStore(w)
  PROVE  RingInv' /\ FifoStep
<1> DEFINE v == <<w, msgnum[w]>>
<1>1. /\ StoreString(w) /\ GoTo(w, "advance") /\ pc[w] = "store"
      /\ heap' = heap \cup {v} /\ mainpc' = mainpc
  BY DEF WriterStore, Runs, At
<1>2. QueueTypeOK /\ pc[w] \in InSection
  BY <1>1 DEF Inv, TypeOK, InSection
<1>3. /\ OnlyInside(w) /\ OnlyInside(w)' /\ pc'[w] = "advance"
      /\ WriterView /\ WriterView' /\ ~Cleared /\ ~Cleared'
  BY <1>1, <1>2, WriterTurn
<1>4. HasRoom
  BY <1>1 DEF RingInv, Flags, Storing, Holds, At
<1>5. Len(Contents) < Size /\ Contents' = Append(Contents, v)
  <2>1. Contents = QueueAsSeq(FALSE, FALSE, FALSE)
    BY <1>1, <1>3 DEF WriterView
  <2>2. Contents' = QueueAsSeq(FALSE, FALSE, TRUE)'
    BY <1>3 DEF WriterView
  <2> QED BY <2>1, <2>2, <1>1, <1>2, <1>4, StoreIsPut
<1>6. Contents \in Seq(Contained)
  BY ContentsIsSeq DEF RingInv
<1>7. v \in Contained
  BY <1>2 DEF QueueTypeOK, Contained, Messages
<1>8. v \notin InQueue(Contents) /\ Numbered(Contents', msgnum')
  <2>1. msgnum \in [Writers -> 0 .. MsgNums - 1]
    BY <1>2 DEF QueueTypeOK
  <2>2. msgnum' = [msgnum EXCEPT ![w] = (@ + 1) % MsgNums]
    BY <1>1 DEF StoreString
  <2> QED BY <2>1, <2>2, <1>5, <1>6, NumberedPut DEF RingInv
<1>9. InQueue(Contents') = InQueue(Contents) \cup {v} /\ Distinct(Contents')
  BY <1>5, <1>6, <1>7, <1>8, AppendIn DEF RingInv
<1>10. /\ writeindex \in Slots /\ data \in [Slots -> Contained]
       /\ data' = [data EXCEPT ![writeindex] = v]
  BY <1>1, <1>2 DEF QueueTypeOK, StoreString
<1>14. Queue!Put(w)
  BY <1>1, <1>5 DEF Queue!Put, StoreString
<1> HIDE DEF v
<1>11. SlotsQueued' /\ SlotsDiffer'
  BY <1>8, <1>9, <1>10 DEF RingInv, SlotsQueued, SlotsDiffer
<1>12. HeapQueued'
  BY <1>1, <1>9 DEF RingInv, HeapQueued
<1>13. Flags'
  <2>1. HasRoom'
    BY <1>1, <1>4 DEF StoreString, HasRoom
  <2> QED BY <2>1, <1>3 DEF Flags
<1> QED BY <1>8, <1>9, <1>11, <1>12, <1>13, <1>14
        DEF RingInv, FifoStep, Queue!Next

(* Moving writeindex is invisible.                                         *)
LEMMA WriterAdvanceStep ==
  ASSUME Inv, CleanupLast, RingInv, NEW w \in Writers, WriterAdvance(w)
  PROVE  RingInv' /\ FifoStep
<1>1. AdvanceWrite /\ GoTo(w, "release") /\ pc[w] = "advance"
  BY DEF WriterAdvance, Runs, At
<1>2. QueueTypeOK /\ pc[w] \in InSection
  BY <1>1 DEF Inv, TypeOK, InSection
<1>3. /\ OnlyInside(w) /\ OnlyInside(w)' /\ pc'[w] = "release"
      /\ WriterView /\ WriterView' /\ ~Cleared /\ ~Cleared'
  BY <1>1, <1>2, WriterTurn
<1>4. HasRoom
  BY <1>1 DEF RingInv, Flags, Storing, Holds, At
<1>5. Contents' = Contents
  <2>1. Contents = QueueAsSeq(FALSE, FALSE, TRUE)
    BY <1>1, <1>3 DEF WriterView
  <2>2. Contents' = QueueAsSeq(FALSE, FALSE, FALSE)'
    BY <1>3 DEF WriterView
  <2> QED BY <2>1, <2>2, <1>1, <1>2, <1>4, AdvanceWriteKeeps
<1>6. Flags'
  <2>1. ~Storing'
    BY <1>3, ThreadsAssumption DEF Storing, Holds, At, OnlyInside, Workers, InSection
  <2> QED BY <2>1, <1>3 DEF Flags
<1>7. UNCHANGED <<data, io, heap, mainpc>>
  BY <1>1 DEF AdvanceWrite, WriterAdvance
<1> QED BY <1>5, <1>6, <1>7, Stutter

(* main joins, closes, frees and deletes.                                  *)
LEMMA CleanUpStep ==
  ASSUME Inv, CleanupLast, RingInv, Join \/ CloseSync \/ FreeSlots \/ DeleteQueue
  PROVE  RingInv' /\ FifoStep
<1>1. UNCHANGED <<queue, io, pc>>
  BY DEF Join, CloseSync, FreeSlots, DeleteQueue
<1>2. CASE Join \/ CloseSync \/ DeleteQueue
  <2>1. /\ heap' = heap
        /\ mainpc' \notin {"delete", "deleted"} => mainpc \notin {"delete", "deleted"}
    BY <1>2 DEF Join, CloseSync, DeleteQueue
  <2> QED BY <1>1, <2>1, OutsideStep
<1>3. CASE FreeSlots
  <2>1. Contents' = Contents
    BY <1>1, SameContents
  <2>2. Flags'
    BY <1>1 DEF RingInv, Flags, Cleared, Storing, Holds, At, queue, HasRoom
  <2>3. mainpc' = "delete"
    BY <1>3 DEF FreeSlots
  <2> QED BY <1>1, <2>1, <2>2, <2>3
          DEF RingInv, SlotsQueued, SlotsDiffer, HeapQueued, FifoStep, Queue!vars,
              io, queue
<1> QED BY <1>2, <1>3

(* Every step keeps the invariant and is a step of the abstract queue.     *)
LEMMA RingStep == Inv /\ CleanupLast /\ RingInv /\ [Next]_vars => RingInv' /\ FifoStep
<1> SUFFICES ASSUME Inv, CleanupLast, RingInv, [Next]_vars
             PROVE  RingInv' /\ FifoStep
  OBVIOUS
<1>1. CASE UNCHANGED vars
  BY <1>1, OutsideStep DEF vars
<1>2. CASE Main
  BY <1>2, ManagerStep, CleanUpStep DEF Main
<1>3. CASE TimeManager
  BY <1>3, ManagerStep
<1>4. ASSUME NEW r \in Readers, Reader(r) PROVE RingInv' /\ FifoStep
  BY <1>4, CommonStep, ReaderCheckStep, ReaderTakeStep, ReaderAdvanceStep
     DEF Reader, Workers
<1>5. ASSUME NEW w \in Writers, Writer(w) PROVE RingInv' /\ FifoStep
  BY <1>5, CommonStep, WriterCheckStep, WriterStoreStep, WriterAdvanceStep
     DEF Writer, Workers
<1> QED BY <1>1, <1>2, <1>3, <1>4, <1>5, NextCases DEF Thread, Finished

(* The queue begins empty, whatever new[] left in its slots.               *)
LEMMA InitRing == Init => RingInv /\ Queue!Init
<1> SUFFICES ASSUME Init PROVE RingInv /\ Queue!Init
  OBVIOUS
<1>1. ~Cleared /\ ~Storing /\ Contents = QueueAsSeq(FALSE, FALSE, FALSE)
  <2>1. \A t \in Workers : pc[t] = "suspended"
    BY DEF Init, Threads
  <2>2. ~Holds("take", Readers) /\ ~Holds("advance", Readers)
        /\ ~Holds("store", Writers) /\ ~Holds("advance", Writers)
    BY <2>1 DEF Holds, At, Workers
  <2> QED BY <2>2 DEF Cleared, Storing, Contents, QueueAsSeq, Count
<1>2. Contents = <<>>
  BY <1>1, InitInv, EmptyAtFirst DEF Inv, TypeOK, Init
<1>3. InQueue(Contents) = {} /\ Distinct(Contents) /\ Numbered(Contents, msgnum)
  BY <1>2 DEF InQueue, Distinct, Numbered
<1>4. SlotsQueued /\ SlotsDiffer /\ HeapQueued
  BY <1>3 DEF Init, QueueInit, SlotsQueued, SlotsDiffer, HeapQueued
<1>5. Flags
  BY <1>1 DEF Flags
<1> QED BY <1>2, <1>3, <1>4, <1>5 DEF RingInv, Queue!Init, Init, QueueInit

(* After main's clean-up nothing is allocated.                             *)
HeapEmptied == mainpc \in {"delete", "deleted"} => heap = {}

(* main's clean-up frees all that is allocated, and nothing comes after    *)
(* it.                                                                     *)
LEMMA EmptiedStep ==
  Inv /\ CleanupLast /\ RingInv /\ HeapEmptied /\ [Next]_vars => HeapEmptied'
<1> SUFFICES ASSUME Inv, CleanupLast, RingInv, HeapEmptied, [Next]_vars,
                    mainpc' \in {"delete", "deleted"}
             PROVE  heap' = {}
  BY DEF HeapEmptied
<1>1. CASE UNCHANGED vars
  BY <1>1 DEF vars, HeapEmptied
<1>2. CASE Main
  <2>1. CASE FreeSlots
    <3>1. heap = InQueue(Contents)
      BY <2>1 DEF FreeSlots, RingInv, HeapQueued
    <3>2. /\ Contents \in Seq(Contained)
          /\ \A k \in 1 .. Len(Contents) : \E i \in Slots : Contents[k] = data[i]
      BY ContentsIsSeq DEF RingInv
    <3>3. DOMAIN Contents = 1 .. Len(Contents)
      BY <3>2, LenProperties
    <3>4. InQueue(Contents) \subseteq {data[i] : i \in Slots}
      BY <3>2, <3>3 DEF InQueue
    <3> QED BY <2>1, <3>1, <3>4 DEF FreeSlots
  <2> QED BY <1>2, <2>1 DEF Main, Resume, Join, CloseSync, DeleteQueue, HeapEmptied
<1>3. CASE Thread
  <2>1. mainpc' = mainpc
    BY <1>3 DEF Thread, Reader, Writer, Common, LoopTest, Wait,
       ReleaseAndSleep, ReaderCheck, ReaderTake, ReaderAdvance,
       WriterCheck, WriterStore, WriterAdvance, TimeManager
  <2>2. \A t \in Threads : pc[t] = "finished"
    BY <2>1 DEF CleanupLast, At
  <2> QED BY <1>3, <2>2 DEF Thread, Reader, Writer, Common, LoopTest, Wait,
       ReleaseAndSleep, ReaderCheck, ReaderTake, ReaderAdvance,
       WriterCheck, WriterStore, WriterAdvance, TimeManager, Runs, At,
       Threads, Workers
<1> QED BY <1>1, <1>2, <1>3, NextCases DEF Finished

(* The invariant of the queue, when main waits for all threads.            *)
LEMMA RingAlways ==
  ASSUME Cardinality(Threads) <= MaxWaitObjects
  PROVE  Spec => [](Inv /\ CleanupLast /\ RingInv /\ HeapEmptied)
<1>1. Spec => []CleanupLast
  BY JoinedFirst
<1>2. Spec => []Inv
  BY InitInv, StepInv, PTL DEF Spec
<1>3. Init => RingInv /\ HeapEmptied
  BY InitRing DEF Init, HeapEmptied
<1> QED BY <1>1, <1>2, <1>3, RingStep, EmptiedStep, PTL DEF Spec

(* With at most as many threads as one wait can take, the circular buffer  *)
(* of each of the four programs is a bounded queue: every step of a thread *)
(* is one Put, one Get, or invisible.                                      *)
THEOREM RefinesFifo ==
  ASSUME Cardinality(Threads) <= MaxWaitObjects
  PROVE  Spec => ImplementsFifo
<1>1. Spec => [](Inv /\ CleanupLast /\ RingInv /\ HeapEmptied)
  BY RingAlways
<1>2. Inv /\ CleanupLast /\ RingInv /\ [Next]_vars => [Queue!Next]_(Queue!vars)
  BY RingStep DEF FifoStep
<1> QED BY <1>1, <1>2, InitRing, PTL DEF Spec, ImplementsFifo, Queue!Spec

(* What is allocated is what is in the queue, and after the clean-up       *)
(* nothing is: no string is lost and none is freed twice.                  *)
THEOREM NoLeak ==
  ASSUME Cardinality(Threads) <= MaxWaitObjects
  PROVE  Spec => []HeapIsQueue
<1>1. Spec => [](Inv /\ CleanupLast /\ RingInv /\ HeapEmptied)
  BY RingAlways
<1>2. RingInv /\ HeapEmptied => HeapIsQueue
  BY DEF RingInv, HeapQueued, HeapEmptied, HeapIsQueue, InQueue
<1> QED BY <1>1, <1>2, PTL

(* What main frees is a string that is still allocated, or what new[] left.*)
THEOREM FreesStrings ==
  ASSUME Cardinality(Threads) <= MaxWaitObjects
  PROVE  Spec => []FreesOnlyStrings
<1>1. Spec => [](Inv /\ CleanupLast /\ RingInv /\ HeapEmptied)
  BY RingAlways
<1>2. RingInv => FreesOnlyStrings
  BY DEF RingInv, HeapQueued, SlotsQueued, FreesOnlyStrings
<1> QED BY <1>1, <1>2, PTL
=============================================================================
