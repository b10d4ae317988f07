--------------------------- MODULE CondVarProofs ---------------------------
(***************************************************************************)
(* Proofs about CondVarQueue, for any number of readers, writers, slots and*)
(* spurious wake-ups.                                                      *)
(***************************************************************************)
EXTENDS CondVarQueue, QueueLemmas, FiniteSetTheorems

Labels == InSection \cup {"loop", "enter", "asleep", "woken", "finished"}

(* The section is owned by the thread that is in it.                       *)
Lock == \A t \in Workers : pc[t] \in InSection <=> crs = t

(* Whoever is asleep on a variable has not been woken, and only isDone     *)
(* ends a thread.                                                          *)
Asleep == \A t \in condread \cup condwrite : pc[t] = "asleep"
Ended == \A t \in Workers : pc[t] = "finished" => isDone

Cleared == Holds("take", Readers) \/ Holds("advance", Readers)
Flags == /\ Cleared => full = 0
         /\ Holds("advance", Writers) => HasRoom

Inv == TypeOK /\ Lock /\ Asleep /\ Ended /\ Flags
-----------------------------------------------------------------------------
(* A move of one thread to a known label.                                  *)
LEMMA GoToType ==
  ASSUME TypeOK, NEW t \in Threads, NEW l \in Labels, GoTo(t, l)
  PROVE  /\ pc' \in [Threads -> Labels] /\ pc'[t] = l
         /\ \A s \in Threads : s # t => pc'[s] = pc[s]
BY DEF TypeOK, GoTo, Labels

(* The types.  What a step of a thread does to the queue ...               *)
LEMMA QueueType ==
  ASSUME QueueTypeOK, (\E r \in Readers : Reader(r)) \/ (\E w \in Writers : Writer(w))
  PROVE  QueueTypeOK'
<1>1. ASSUME NEW r \in Readers, Reader(r) PROVE QueueTypeOK'
  BY <1>1, QueueUnchanged, ClearFullType, TakeStringType, AdvanceReadType
     DEF Reader, LoopTest, Enter, Leave, ReaderSleep, ReaderClear, ReaderTake,
         ReaderAdvance, ReaderWakes
<1>2. ASSUME NEW w \in Writers, Writer(w) PROVE QueueTypeOK'
  BY <1>2, QueueUnchanged, StoreStringType, AdvanceWriteType
     DEF Writer, LoopTest, Enter, Leave, WriterSleep, WriterStore,
         WriterAdvance, WriterWakes
<1> QED BY <1>1, <1>2

(* ... and to the section and the variables.                               *)
SyncInv == /\ crs \in Workers \cup {Nobody}
           /\ condread \subseteq Readers /\ condwrite \subseteq Writers
           /\ isDone \in BOOLEAN /\ pc \in [Threads -> Labels]
           /\ Lock /\ Asleep /\ Ended

(* A wake-up takes one sleeper to the end of its sleep, outside the        *)
(* section.                                                                *)
LEMMA WakeSync ==
  ASSUME TypeOK, SyncInv, NEW t \in Workers, Runs(t, "wake"),
         NEW s \in condread \cup condwrite,
         condread' \subseteq condread, condwrite' \subseteq condwrite,
         s \notin condread' \cup condwrite', UNCHANGED <<crs, isDone>>,
         pc' = [pc EXCEPT ![t] = "leave", ![s] = "woken"]
  PROVE  SyncInv'
<1>1. /\ t \in Threads /\ s \in Threads /\ s \in Workers /\ s # t
      /\ pc[s] = "asleep" /\ pc[t] = "wake"
  BY DEF SyncInv, Asleep, Workers, Threads, Runs, At
<1>2. /\ pc' \in [Threads -> Labels] /\ pc'[t] = "leave" /\ pc'[s] = "woken"
      /\ \A u \in Threads \ {s, t} : pc'[u] = pc[u]
  BY <1>1 DEF SyncInv, Labels, InSection
<1>3. Lock'
  BY <1>1, <1>2 DEF SyncInv, Lock, InSection, Threads
<1>4. Asleep'
  BY <1>1, <1>2 DEF SyncInv, Asleep, Threads, Workers
<1>5. Ended'
  BY <1>1, <1>2 DEF SyncInv, Ended, Threads
<1> QED BY <1>2, <1>3, <1>4, <1>5 DEF SyncInv

(* The loop test, the entry and the exit.                                  *)
LEMMA CommonSync ==
  ASSUME TypeOK, SyncInv, NEW t \in Workers, LoopTest(t) \/ Enter(t) \/ Leave(t)
  PROVE  SyncInv'
<1>1. t \in Threads
  BY DEF Threads
<1>2. CASE LoopTest(t)
  BY <1>1, <1>2 DEF LoopTest, SyncInv, Lock, Asleep, Ended, GoTo, Runs, At, conds,
     Labels, InSection, Threads, Workers
<1>3. CASE Enter(t)
  BY <1>1, <1>3, ThreadsAssumption DEF Enter, SyncInv, Lock, Asleep, Ended, GoTo,
     Runs, At, conds, Labels, InSection, Threads, Workers
<1>4. CASE Leave(t)
  BY <1>1, <1>4, ThreadsAssumption DEF Leave, SyncInv, Lock, Asleep, Ended, GoTo,
     Runs, At, conds, Labels, InSection, Threads, Workers
<1> QED BY <1>2, <1>3, <1>4

(* The reader's own statements ...                                         *)
LEMMA ReaderSync ==
  ASSUME TypeOK, SyncInv, NEW r \in Readers, Reader(r) PROVE SyncInv'
<1>1. r \in Threads /\ r \in Workers
  BY DEF Threads, Workers
<1>2. CASE LoopTest(r) \/ Enter(r) \/ Leave(r)
  BY <1>1, <1>2, CommonSync
<1>3. CASE ReaderSleep(r)
  BY <1>1, <1>3, ThreadsAssumption DEF ReaderSleep, SyncInv, Lock, Asleep, Ended,
     GoTo, Runs, At, Labels, InSection, Threads, Workers
<1>4. CASE ReaderClear(r) \/ ReaderTake(r) \/ ReaderAdvance(r)
  BY <1>1, <1>4 DEF ReaderClear, ReaderTake, ReaderAdvance, SyncInv, Lock, Asleep,
     Ended, GoTo, Runs, At, conds, Labels, InSection, Threads, Workers
<1>5. CASE ReaderWakes(r)
  <2>1. CASE condwrite = {}
    BY <1>1, <1>5, <2>1 DEF ReaderWakes, WakeOne, SyncInv, Lock, Asleep, Ended,
       GoTo, Runs, At, Labels, InSection, Threads, Workers
  <2>2. CASE condwrite # {}
    BY <1>1, <1>5, <2>2, WakeSync, ThreadsAssumption DEF ReaderWakes, WakeOne, SyncInv
  <2> QED BY <2>1, <2>2
<1> QED BY <1>2, <1>3, <1>4, <1>5 DEF Reader

(* ... and the writer's.                                                   *)
LEMMA WriterSync ==
  ASSUME TypeOK, SyncInv, NEW w \in Writers, Writer(w) PROVE SyncInv'
<1>1. w \in Threads /\ w \in Workers
  BY DEF Threads, Workers
<1>2. CASE LoopTest(w) \/ Enter(w) \/ Leave(w)
  BY <1>1, <1>2, CommonSync
<1>3. CASE WriterSleep(w)
  BY <1>1, <1>3, ThreadsAssumption DEF WriterSleep, SyncInv, Lock, Asleep, Ended,
     GoTo, Runs, At, Labels, InSection, Threads, Workers
<1>4. CASE WriterStore(w) \/ WriterAdvance(w)
  BY <1>1, <1>4 DEF WriterStore, WriterAdvance, SyncInv, Lock, Asleep,
     Ended, GoTo, Runs, At, conds, Labels, InSection, Threads, Workers
<1>5. CASE WriterWakes(w)
  <2>1. CASE condread = {}
    BY <1>1, <1>5, <2>1 DEF WriterWakes, WakeOne, SyncInv, Lock, Asleep, Ended,
       GoTo, Runs, At, Labels, InSection, Threads, Workers
  <2>2. CASE condread # {}
    BY <1>1, <1>5, <2>2, WakeSync, ThreadsAssumption DEF WriterWakes, WakeOne, SyncInv
  <2> QED BY <2>1, <2>2
<1> QED BY <1>2, <1>3, <1>4, <1>5 DEF Writer

(* The steps that are not those of a worker.                               *)
Others == \/ \E t \in Workers : SpuriousWake(t)
          \/ TimeManager \/ Main

(* A spurious wake-up, the manager and main.                               *)
LEMMA OthersSync == ASSUME TypeOK, SyncInv, Others PROVE SyncInv'
<1>1. ASSUME NEW t \in Workers, SpuriousWake(t) PROVE SyncInv'
  <2>1. t \in Threads /\ pc[t] = "asleep"
    BY <1>1 DEF SpuriousWake, SyncInv, Asleep, Threads
  <2> QED BY <1>1, <2>1 DEF SpuriousWake, SyncInv, Lock, Asleep, Ended, GoTo,
          Labels, InSection, Threads, Workers
<1>2. CASE TimeManager
  BY <1>2, ThreadsAssumption DEF TimeManager, SyncInv, Lock, Asleep, Ended, GoTo,
     Runs, At, conds, Labels, InSection, Threads, Workers
<1>3. CASE Main
  BY <1>3 DEF Main, Join, JoinTimeout, CleanUp, SyncInv, Lock, Asleep, Ended, conds
<1> QED BY <1>1, <1>2, <1>3 DEF Others
-----------------------------------------------------------------------------
(* What is in the queue, by the statement the owner of the section is at.  *)
ReaderView ==
  \A r \in Readers : crs = r =>
    /\ pc[r] = "take" => Contents = QueueAsSeq(TRUE, FALSE, FALSE)
    /\ pc[r] = "advance" => Contents = QueueAsSeq(TRUE, TRUE, FALSE)
    /\ pc[r] \notin {"take", "advance"}
         => Contents = QueueAsSeq(FALSE, FALSE, FALSE)
    /\ ~Holds("advance", Writers)
WriterView ==
  \A w \in Writers : crs = w =>
    /\ pc[w] = "advance" => Contents = QueueAsSeq(FALSE, FALSE, TRUE)
    /\ pc[w] # "advance" => Contents = QueueAsSeq(FALSE, FALSE, FALSE)
    /\ ~Cleared

(* Nobody else is in it.                                                   *)
LEMMA Views == TypeOK /\ Lock => ReaderView /\ WriterView
<1> SUFFICES ASSUME TypeOK, Lock PROVE ReaderView /\ WriterView
  OBVIOUS
<1>1. ASSUME NEW r \in Readers, crs = r
      PROVE /\ pc[r] = "take" => Contents = QueueAsSeq(TRUE, FALSE, FALSE)
            /\ pc[r] = "advance" => Contents = QueueAsSeq(TRUE, TRUE, FALSE)
            /\ pc[r] \notin {"take", "advance"}
                 => Contents = QueueAsSeq(FALSE, FALSE, FALSE)
            /\ ~Holds("advance", Writers)
  <2>1. /\ Holds("take", Readers) <=> pc[r] = "take"
        /\ Holds("advance", Readers) <=> pc[r] = "advance"
        /\ ~Holds("advance", Writers)
    BY <1>1, ThreadsAssumption DEF Lock, Holds, At, Workers, InSection
  <2> QED BY <2>1 DEF Contents, QueueAsSeq, Count
<1>2. ASSUME NEW w \in Writers, crs = w
      PROVE /\ pc[w] = "advance" => Contents = QueueAsSeq(FALSE, FALSE, TRUE)
            /\ pc[w] # "advance" => Contents = QueueAsSeq(FALSE, FALSE, FALSE)
            /\ ~Cleared
  <2>1. /\ ~Holds("take", Readers)
        /\ ~Holds("advance", Readers)
        /\ Holds("advance", Writers) <=> pc[w] = "advance"
    BY <1>2, ThreadsAssumption DEF Lock, Holds, At, Workers, InSection
  <2> QED BY <2>1 DEF Contents, QueueAsSeq, Count, Cleared
<1> QED BY <1>1, <1>2 DEF ReaderView, WriterView

(* One action of the abstract queue, or none.                              *)
FifoStep == Queue!Next \/ UNCHANGED Queue!vars

(* The owner of the section stays the owner during a step on the queue.    *)
LEMMA ReaderTurn ==
  ASSUME TypeOK, Lock, (TypeOK /\ Lock)', NEW r \in Readers, pc[r] \in InSection, pc'[r] \in InSection
  PROVE  crs = r /\ crs' = r /\ ReaderView /\ ReaderView'
<1>1. ReaderView /\ ReaderView'
  BY Views, PTL
<1> QED BY <1>1 DEF Lock, Workers

(* The same for a writer.                                                  *)
LEMMA WriterTurn ==
  ASSUME TypeOK, Lock, (TypeOK /\ Lock)', NEW w \in Writers, pc[w] \in InSection, pc'[w] \in InSection
  PROVE  crs = w /\ crs' = w /\ WriterView /\ WriterView'
<1>1. WriterView /\ WriterView'
  BY Views, PTL
<1> QED BY <1>1 DEF Lock, Workers

(* A step of threads that are not at the queue's statements.               *)
OffQueue == /\ UNCHANGED queue /\ UNCHANGED io
            /\ \A s \in Workers : \/ pc'[s] = pc[s]
                                  \/ {pc[s], pc'[s]} \cap {"take", "advance"} = {}

(* They leave the messages as they are.                                    *)
LEMMA OffQueueStep ==
  ASSUME OffQueue PROVE Contents' = Contents /\ (Flags => Flags') /\ FifoStep
<1>1. /\ Holds("take", Readers)' <=> Holds("take", Readers)
      /\ Holds("advance", Readers)' <=> Holds("advance", Readers)
      /\ Holds("advance", Writers)' <=> Holds("advance", Writers)
  BY DEF OffQueue, Holds, At, Workers
<1>2. Contents' = Contents
  BY <1>1 DEF OffQueue, Contents, QueueAsSeq, Count, queue
<1>3. Flags => Flags'
  BY <1>1 DEF OffQueue, Flags, Cleared, HasRoom, queue
<1> QED BY <1>2, <1>3 DEF OffQueue, FifoStep, Queue!vars, io

(* These are all the steps but those that touch the queue.                 *)
OnQueue == \/ \E r \in Readers : ReaderClear(r) \/ ReaderTake(r) \/ ReaderAdvance(r)
           \/ \E w \in Writers : WriterStore(w) \/ WriterAdvance(w)

(* Every step is of one of the two kinds.                                  *)
LEMMA OffOrOn ==
  ASSUME TypeOK, Asleep, [Next]_vars PROVE OffQueue \/ OnQueue
<1>1. ASSUME NEW t \in Workers,
             LoopTest(t) \/ Enter(t) \/ Leave(t) \/ SpuriousWake(t)
      PROVE  OffQueue
  <2>1. t \in Threads
    BY DEF Threads
  <2>2. SpuriousWake(t) => pc[t] = "asleep"
    BY DEF SpuriousWake, Asleep
  <2> QED BY <1>1, <2>1, <2>2 DEF LoopTest, Enter, Leave, SpuriousWake, OffQueue,
          GoTo, TypeOK, Runs, At, Threads
<1>2. ASSUME NEW r \in Readers, ReaderSleep(r) \/ ReaderWakes(r) PROVE OffQueue
  BY <1>2 DEF ReaderSleep, ReaderWakes, WakeOne, OffQueue, GoTo, TypeOK, Runs, At,
     Asleep, Threads, Workers
<1>3. ASSUME NEW w \in Writers, WriterSleep(w) \/ WriterWakes(w) PROVE OffQueue
  BY <1>3 DEF WriterSleep, WriterWakes, WakeOne, OffQueue, GoTo, TypeOK, Runs, At,
     Asleep, Threads, Workers
<1>4. CASE TimeManager \/ Main \/ UNCHANGED vars
  BY <1>4, ThreadsAssumption DEF TimeManager, Main, Join, JoinTimeout, CleanUp, vars,
     OffQueue, GoTo, TypeOK, Runs, At, Threads
<1> QED BY <1>1, <1>2, <1>3, <1>4
        DEF Next, Finished, Reader, Writer, OnQueue, Workers

(* A step on the queue: the take is the Get of the abstract queue ...      *)
LEMMA ReaderStep ==
  ASSUME Inv, (TypeOK /\ Lock)', NEW r \in Readers,
         ReaderClear(r) \/ ReaderTake(r) \/ ReaderAdvance(r)
  PROVE  /\ Flags' /\ FifoStep
         /\ ReaderTake(r) => Queue!Get(r)
         /\ ~ReaderTake(r) => Contents' = Contents
<1>1. QueueTypeOK /\ TypeOK /\ Lock /\ r \in Threads
  BY DEF Inv, TypeOK, Threads, Workers
<1>2. /\ ReaderClear(r) => pc[r] = "check" /\ pc'[r] = "take"
      /\ ReaderTake(r) => pc[r] = "take" /\ pc'[r] = "advance"
      /\ ReaderAdvance(r) => pc[r] = "advance" /\ pc'[r] = "wake"
  BY <1>1 DEF ReaderClear, ReaderTake, ReaderAdvance, GoTo, Runs, At, TypeOK
<1>3. crs = r /\ crs' = r /\ ReaderView /\ ReaderView'
  BY <1>1, <1>2, ReaderTurn DEF InSection
<1>4. ~Holds("advance", Writers)'
  BY <1>3 DEF ReaderView
<1>5. CASE ReaderClear(r)
  <2>1. QueueAsSeq(TRUE, FALSE, FALSE)' = QueueAsSeq(FALSE, FALSE, FALSE)
    BY <1>1, <1>5, ClearKeeps DEF ReaderClear
  <2>2. Contents' = Contents
    BY <1>2, <1>3, <1>5, <2>1 DEF ReaderView
  <2>3. full' = 0 /\ UNCHANGED io
    BY <1>5 DEF ReaderClear, ClearFull
  <2> QED BY <1>2, <1>4, <1>5, <2>2, <2>3 DEF Flags, FifoStep, Queue!vars, io
<1>6. CASE ReaderTake(r)
  <2>1. full = 0
    BY <1>2, <1>6 DEF Inv, Flags, Cleared, Holds, At
  <2>2. /\ QueueAsSeq(TRUE, FALSE, FALSE) # <<>>
        /\ Head(QueueAsSeq(TRUE, FALSE, FALSE)) = data[readindex]
        /\ QueueAsSeq(TRUE, TRUE, FALSE)' = Tail(QueueAsSeq(TRUE, FALSE, FALSE))
    BY <1>1, <1>6, <2>1, TakeIsGet DEF ReaderTake
  <2>3. Contents = QueueAsSeq(TRUE, FALSE, FALSE)
    BY <1>2, <1>3, <1>6 DEF ReaderView
  <2>4. Contents' = QueueAsSeq(TRUE, TRUE, FALSE)'
    BY <1>2, <1>3, <1>6 DEF ReaderView
  <2>5. Queue!Get(r)
    BY <1>6, <2>2, <2>3, <2>4 DEF Queue!Get, ReaderTake, TakeString
  <2>6. Flags'
    BY <1>4, <1>6, <2>1 DEF Flags, ReaderTake, TakeString
  <2> QED BY <1>6, <2>5, <2>6 DEF FifoStep, Queue!Next
<1>7. CASE ReaderAdvance(r)
  <2>1. full = 0
    BY <1>2, <1>7 DEF Inv, Flags, Cleared, Holds, At
  <2>2. QueueAsSeq(FALSE, FALSE, FALSE)' = QueueAsSeq(TRUE, TRUE, FALSE)
    BY <1>1, <1>7, <2>1, AdvanceReadKeeps DEF ReaderAdvance
  <2>3. Contents' = Contents
    BY <1>2, <1>3, <1>7, <2>2 DEF ReaderView
  <2>4. full' = 0 /\ UNCHANGED io
    BY <1>7, <2>1 DEF ReaderAdvance, AdvanceRead
  <2> QED BY <1>2, <1>4, <1>7, <2>3, <2>4 DEF Flags, FifoStep, Queue!vars, io
<1> QED BY <1>5, <1>6, <1>7

(* ... and the store is the Put.                                           *)
LEMMA WriterStep ==
  ASSUME Inv, (TypeOK /\ Lock)', NEW w \in Writers, WriterStore(w) \/ WriterAdvance(w)
  PROVE  /\ Flags' /\ FifoStep
         /\ WriterStore(w) => Queue!Put(w)
         /\ ~WriterStore(w) => Contents' = Contents
<1>1. QueueTypeOK /\ TypeOK /\ Lock /\ w \in Threads
  BY DEF Inv, TypeOK, Threads, Workers
<1>2. /\ WriterStore(w) => pc[w] = "check" /\ pc'[w] = "advance"
      /\ WriterAdvance(w) => pc[w] = "advance" /\ pc'[w] = "wake"
  BY <1>1 DEF WriterStore, WriterAdvance, GoTo, Runs, At, TypeOK
<1>3. crs = w /\ crs' = w /\ WriterView /\ WriterView'
  BY <1>1, <1>2, WriterTurn DEF InSection
<1>4. ~Cleared'
  BY <1>3 DEF WriterView
<1>5. CASE WriterStore(w)
  <2>1. /\ Len(QueueAsSeq(FALSE, FALSE, FALSE)) < Size
        /\ QueueAsSeq(FALSE, FALSE, TRUE)'
             = Append(QueueAsSeq(FALSE, FALSE, FALSE), <<w, msgnum[w]>>)
    BY <1>1, <1>5, StoreIsPut DEF WriterStore
  <2>2. Contents = QueueAsSeq(FALSE, FALSE, FALSE)
    BY <1>2, <1>3, <1>5 DEF WriterView
  <2>3. Contents' = QueueAsSeq(FALSE, FALSE, TRUE)'
    BY <1>2, <1>3, <1>5 DEF WriterView
  <2>4. Queue!Put(w)
    BY <1>5, <2>1, <2>2, <2>3 DEF Queue!Put, WriterStore, StoreString
  <2>5. HasRoom'
    BY <1>5 DEF WriterStore, StoreString, HasRoom
  <2> QED BY <1>4, <1>5, <2>4, <2>5 DEF Flags, FifoStep, Queue!Next
<1>6. CASE WriterAdvance(w)
  <2>1. HasRoom
    BY <1>2, <1>6 DEF Inv, Flags, Holds, At
  <2>2. QueueAsSeq(FALSE, FALSE, FALSE)' = QueueAsSeq(FALSE, FALSE, TRUE)
    BY <1>1, <1>6, <2>1, AdvanceWriteKeeps DEF WriterAdvance
  <2>3. Contents' = Contents
    BY <1>2, <1>3, <1>6, <2>2 DEF WriterView
  <2>4. ~Holds("advance", Writers)'
    BY <1>2, <1>3, <1>6, ThreadsAssumption, <1>1
       DEF Lock, Holds, At, Workers, InSection, WriterAdvance, GoTo, TypeOK, Threads
  <2>5. UNCHANGED io
    BY <1>6 DEF WriterAdvance, AdvanceWrite
  <2> QED BY <1>2, <1>4, <1>6, <2>3, <2>4, <2>5 DEF Flags, FifoStep, Queue!vars, io
<1> QED BY <1>5, <1>6
-----------------------------------------------------------------------------
(* The invariant holds at the start ...                                    *)
LEMMA InitInv == Init => Inv /\ Queue!Init
<1> SUFFICES ASSUME Init PROVE Inv /\ Queue!Init
  OBVIOUS
<1>1. QueueTypeOK
  BY SizeAssumption, MessageAssumption
     DEF Init, QueueInit, QueueTypeOK, Slots, Contained
<1>2. TypeOK
  <2>1. 0 \in 0 .. MaxSpurious
    BY SpuriousAssumption
  <2> QED BY <1>1, <2>1 DEF Init, TypeOK
<1>3. \A t \in Workers : pc[t] = "loop"
  BY DEF Init, Threads
<1>4. Lock /\ Asleep /\ Ended
  BY <1>3, ThreadsAssumption DEF Init, Lock, Asleep, Ended, InSection, Threads
<1>5. ~Cleared /\ ~Holds("advance", Writers)
  BY <1>3 DEF Cleared, Holds, At, Workers
<1>6. Flags
  BY <1>5 DEF Flags
<1>7. Contents = QueueAsSeq(FALSE, FALSE, FALSE)
  BY <1>5 DEF Cleared, Contents, QueueAsSeq, Count
<1>8. Contents = <<>>
  BY <1>1, <1>7, EmptyAtFirst DEF Init
<1> QED BY <1>2, <1>4, <1>6, <1>8 DEF Inv, Queue!Init, Init, QueueInit

(* ... and every step keeps it, and is a step of the abstract queue.       *)
LEMMA StepInv == Inv /\ [Next]_vars => Inv' /\ FifoStep
<1> SUFFICES ASSUME Inv, [Next]_vars PROVE Inv' /\ FifoStep
  OBVIOUS
<1>1. TypeOK /\ SyncInv
  BY DEF Inv, TypeOK, SyncInv, Labels
<1>2. QueueTypeOK'
  <2>1. UNCHANGED <<queue, io>> => QueueTypeOK'
    BY <1>1, QueueUnchanged DEF TypeOK
  <2> QED BY <1>1, <2>1, QueueType DEF TypeOK, Next, SpuriousWake, TimeManager, Main,
             Join, JoinTimeout, CleanUp, Finished, vars
<1>3. SyncInv'
  <2>1. CASE UNCHANGED vars
    BY <1>1, <2>1 DEF vars, conds, SyncInv, Lock, Asleep, Ended
  <2> QED BY <1>1, <2>1, ReaderSync, WriterSync, OthersSync DEF Next, Others, Finished
<1>4. mainpc' \in {"join", "cleanup", "deleted"} /\ spurious' \in 0 .. MaxSpurious
  BY <1>1, SpuriousAssumption DEF TypeOK, Next, Reader, Writer, LoopTest, Enter, Leave,
     ReaderSleep, ReaderClear, ReaderTake, ReaderAdvance, ReaderWakes,
     WriterSleep, WriterStore, WriterAdvance, WriterWakes,
     SpuriousWake, TimeManager, Main, Join, JoinTimeout, CleanUp, Finished, vars
<1>5. TypeOK' /\ Lock' /\ Asleep' /\ Ended'
  BY <1>2, <1>3, <1>4 DEF TypeOK, SyncInv, Labels
<1>6. Flags' /\ FifoStep
  BY <1>5, OffOrOn, OffQueueStep, ReaderStep, WriterStep DEF Inv, OnQueue
<1> QED BY <1>5, <1>6 DEF Inv

(* Types, whatever main's time-out leaves running.                         *)
THEOREM TypeCorrect == Spec => []TypeOK
<1>1. Inv => TypeOK
  BY DEF Inv
<1> QED BY InitInv, StepInv, <1>1, PTL DEF Spec

(* With condition variables, too, the circular buffer is a bounded queue,  *)
(* for any number of threads and any number of spurious wake-ups.          *)
THEOREM RefinesFifo == Spec => ImplementsFifo
<1>1. Inv /\ [Next]_vars => [Queue!Next]_(Queue!vars)
  BY StepInv DEF FifoStep
<1> QED BY <1>1, InitInv, StepInv, PTL DEF Spec, ImplementsFifo, Queue!Spec
-----------------------------------------------------------------------------
(* Only the owner of the section can have a change to announce.            *)
Announcing(S) == \E t \in S : crs = t /\ pc[t] \in {"advance", "wake"}

UnannouncedView ==
  /\ Unannounced(Readers) = IF Announcing(Readers) THEN 1 ELSE 0
  /\ Unannounced(Writers) = IF Announcing(Writers) THEN 1 ELSE 0

(* So the definition of Unannounced says.                                  *)
LEMMA UnannouncedIs == Lock => UnannouncedView
BY DEF Lock, UnannouncedView, Announcing, Unannounced, Holds, At, Workers, InSection

(* Until isDone those who do not sleep are awake: nobody has finished.     *)
AwakeView ==
  ~isDone => /\ Awake(Readers, condread) = Cardinality(Readers \ condread)
             /\ Awake(Writers, condwrite) = Cardinality(Writers \ condwrite)

(* So the definition of Awake says.                                        *)
LEMMA AwakeIs == Ended => AwakeView
<1> SUFFICES ASSUME Ended, ~isDone
             PROVE  /\ Awake(Readers, condread) = Cardinality(Readers \ condread)
                    /\ Awake(Writers, condwrite) = Cardinality(Writers \ condwrite)
  BY DEF AwakeView
<1>1. \A t \in Workers : ~At(t, "finished")
  BY DEF Ended, At
<1>2. {t \in Readers : t \notin condread /\ ~At(t, "finished")} = Readers \ condread
  BY <1>1 DEF Workers
<1>3. {t \in Writers : t \notin condwrite /\ ~At(t, "finished")} = Writers \ condwrite
  BY <1>1 DEF Workers
<1> QED BY <1>2, <1>3 DEF Awake

(* The two halves of NoLostWakeup, in these terms.                         *)
ReadersAwake == condread # {} =>
  Len(Contents) - (IF Announcing(Writers) THEN 1 ELSE 0) <= Cardinality(Readers \ condread)
WritersAwake == condwrite # {} =>
  Size - Len(Contents) - (IF Announcing(Readers) THEN 1 ELSE 0)
    <= Cardinality(Writers \ condwrite)
Awoken == ~isDone => ReadersAwake /\ WritersAwake

(* Together they are NoLostWakeup.                                         *)
LEMMA AwokenIs == Inv => (Awoken <=> NoLostWakeup)
<1> SUFFICES ASSUME Inv PROVE Awoken <=> NoLostWakeup
  OBVIOUS
<1>1. UnannouncedView /\ AwakeView
  BY UnannouncedIs, AwakeIs DEF Inv
<1> QED BY <1>1 DEF Awoken, ReadersAwake, WritersAwake, NoLostWakeup,
        UnannouncedView, AwakeView

(* A set without more sleepers has more that are awake.                    *)
LEMMA FewerAsleep ==
  ASSUME NEW S, IsFiniteSet(S), NEW A, NEW B, B \subseteq A
  PROVE  /\ Cardinality(S \ A) \in Nat /\ Cardinality(S \ B) \in Nat
         /\ Cardinality(S \ A) <= Cardinality(S \ B)
         /\ \A t \in S : t \in A /\ t \notin B => Cardinality(S \ A) + 1 <= Cardinality(S \ B)
<1>1. IsFiniteSet(S \ A) /\ IsFiniteSet(S \ B) /\ S \ A \subseteq S \ B
  BY FS_Difference
<1>2. Cardinality(S \ A) \in Nat /\ Cardinality(S \ B) \in Nat
  BY <1>1, FS_CardinalityType
<1>3. Cardinality(S \ A) <= Cardinality(S \ B)
  BY <1>1, FS_Subset
<1>4. ASSUME NEW t \in S, t \in A, t \notin B
      PROVE  Cardinality(S \ A) + 1 <= Cardinality(S \ B)
  <2>1. S \ A # S \ B
    BY <1>4
  <2>2. Cardinality(S \ A) # Cardinality(S \ B)
    BY <1>1, <2>1, FS_Subset
  <2> QED BY <1>2, <1>3, <2>2
<1> QED BY <1>2, <1>3, <1>4

(* The queue is a sequence of at most Size strings.                        *)
LEMMA ContentsIsSeq ==
  ASSUME Inv PROVE Contents \in Seq(Contained) /\ Len(Contents) \in 0 .. Size
<1> DEFINE c == Holds("take", Readers) \/ Holds("advance", Readers)
           t == Holds("advance", Readers)
           s == Holds("advance", Writers)
<1>1. QueueTypeOK /\ c \in BOOLEAN /\ t \in BOOLEAN /\ s \in BOOLEAN
  BY DEF Inv, TypeOK, Holds
<1>2. (t => c) /\ (c => full = 0) /\ (s => HasRoom)
  BY DEF Inv, Flags, Cleared
<1>3. ~(s /\ c)
  BY ThreadsAssumption DEF Inv, Lock, Holds, At, Workers, InSection
<1>4. Contents = QueueAsSeq(c, t, s)
  BY DEF Contents
<1> HIDE DEF c, t, s
<1> QED BY <1>1, <1>2, <1>3, <1>4, QueueIsSeq

(* Nobody falls asleep, the queue stays as it is, and no announcement is   *)
(* made.                                                                   *)
LEMMA QuietStep ==
  ASSUME Inv, Awoken, Contents' = Contents, ~isDone' => ~isDone,
         condread' \subseteq condread, condwrite' \subseteq condwrite,
         Announcing(Readers) => Announcing(Readers)' \/ condwrite' = {},
         Announcing(Writers) => Announcing(Writers)' \/ condread' = {}
  PROVE  Awoken'
<1> DEFINE n == Len(Contents)
           a == Cardinality(Readers \ condread)
           aa == Cardinality(Readers \ condread')
           b == Cardinality(Writers \ condwrite)
           bb == Cardinality(Writers \ condwrite')
<1>1. /\ a \in Nat /\ aa \in Nat /\ a <= aa
      /\ b \in Nat /\ bb \in Nat /\ b <= bb
  BY FewerAsleep, ThreadsAssumption
<1>2. n \in 0 .. Size /\ Size \in Nat
  BY ContentsIsSeq, SizeAssumption
<1> SUFFICES ASSUME ~isDone' PROVE ReadersAwake' /\ WritersAwake'
  BY DEF Awoken
<1>3. ReadersAwake'
  <2> SUFFICES ASSUME condread' # {}
               PROVE  n - (IF Announcing(Writers)' THEN 1 ELSE 0) <= aa
    BY DEF ReadersAwake
  <2>1. n - (IF Announcing(Writers) THEN 1 ELSE 0) <= a
    BY DEF Awoken, ReadersAwake
  <2>2. Announcing(Writers) => Announcing(Writers)'
    OBVIOUS
  <2> HIDE DEF n, a, aa
  <2> QED BY <1>1, <1>2, <2>1, <2>2
<1>4. WritersAwake'
  <2> SUFFICES ASSUME condwrite' # {}
               PROVE  Size - n - (IF Announcing(Readers)' THEN 1 ELSE 0) <= bb
    BY DEF WritersAwake
  <2>1. Size - n - (IF Announcing(Readers) THEN 1 ELSE 0) <= b
    BY DEF Awoken, WritersAwake
  <2>2. Announcing(Readers) => Announcing(Readers)'
    OBVIOUS
  <2> HIDE DEF n, b, bb
  <2> QED BY <1>1, <1>2, <2>1, <2>2
<1> QED BY <1>3, <1>4

(* A thread falls asleep only when the queue has nothing for it.           *)
LEMMA ReaderSleeps ==
  ASSUME Inv, Awoken, NEW r \in Readers, ReaderSleep(r), Contents' = Contents
  PROVE  Awoken'
<1>1. /\ QueueTypeOK /\ Lock /\ pc[r] = "check" /\ ~HasData /\ r \in Workers
      /\ crs' = Nobody /\ condwrite' = condwrite /\ isDone' = isDone
  BY DEF ReaderSleep, Runs, At, Inv, TypeOK, Workers
<1>2. crs = r
  BY <1>1 DEF Lock, InSection
<1>3. Len(Contents) = 0
  <2>1. ReaderView
    BY Views DEF Inv
  <2> QED BY <1>1, <1>2, <2>1, TestsAreExact DEF ReaderView
<1>4. /\ ~Announcing(Readers) /\ ~Announcing(Readers)'
      /\ ~Announcing(Writers) /\ ~Announcing(Writers)'
  BY <1>1, <1>2, ThreadsAssumption DEF Announcing, Threads, Workers
<1>5. Cardinality(Readers \ condread') \in Nat
  BY ThreadsAssumption, FewerAsleep
<1>6. ReadersAwake'
  BY <1>3, <1>4, <1>5 DEF ReadersAwake
<1>7. WritersAwake => WritersAwake'
  BY <1>1, <1>4 DEF WritersAwake
<1> QED BY <1>1, <1>6, <1>7 DEF Awoken

(* The same for a writer.                                                  *)
LEMMA WriterSleeps ==
  ASSUME Inv, Awoken, NEW w \in Writers, WriterSleep(w), Contents' = Contents
  PROVE  Awoken'
<1>1. /\ QueueTypeOK /\ Lock /\ pc[w] = "check" /\ ~HasRoom /\ w \in Workers
      /\ crs' = Nobody /\ condread' = condread /\ isDone' = isDone
  BY DEF WriterSleep, Runs, At, Inv, TypeOK, Workers
<1>2. crs = w
  BY <1>1 DEF Lock, InSection
<1>3. Len(Contents) = Size
  <2>1. WriterView
    BY Views DEF Inv
  <2> QED BY <1>1, <1>2, <2>1, TestsAreExact DEF WriterView
<1>4. /\ ~Announcing(Readers) /\ ~Announcing(Readers)'
      /\ ~Announcing(Writers) /\ ~Announcing(Writers)'
  BY <1>1, <1>2, ThreadsAssumption DEF Announcing, Threads, Workers
<1>5. Cardinality(Writers \ condwrite') \in Nat
  BY ThreadsAssumption, FewerAsleep
<1>6. WritersAwake'
  BY <1>3, <1>4, <1>5, SizeAssumption DEF WritersAwake
<1>7. ReadersAwake => ReadersAwake'
  BY <1>1, <1>4 DEF ReadersAwake
<1> QED BY <1>1, <1>6, <1>7 DEF Awoken

(* A message taken is a free slot to announce, and the other way round.    *)
LEMMA TakeAnnounces ==
  ASSUME Inv, Awoken, NEW r \in Readers, ReaderTake(r), Queue!Get(r)
  PROVE  Awoken'
<1>1. /\ Lock /\ pc[r] = "take" /\ pc'[r] = "advance" /\ r \in Workers
      /\ UNCHANGED <<crs, condread, condwrite, isDone>>
  BY DEF ReaderTake, Runs, At, GoTo, conds, Inv, TypeOK, Workers, Threads
<1>2. crs = r
  BY <1>1 DEF Lock, InSection
<1>3. /\ ~Announcing(Readers) /\ Announcing(Readers)'
      /\ ~Announcing(Writers) /\ ~Announcing(Writers)'
  BY <1>1, <1>2, ThreadsAssumption DEF Announcing
<1>4. Len(Contents') = Len(Contents) - 1
  <2>1. Contents # <<>> /\ Contents' = Tail(Contents)
    BY DEF Queue!Get
  <2>2. Contents \in Seq(Contained)
    BY ContentsIsSeq
  <2> QED BY <2>1, <2>2, HeadTailProperties
<1>5. Len(Contents) \in 0 .. Size /\ Size \in Nat
  BY ContentsIsSeq, SizeAssumption
<1>6. /\ Cardinality(Readers \ condread) \in Nat
      /\ Cardinality(Writers \ condwrite) \in Nat
  BY ThreadsAssumption, FewerAsleep
<1>7. ReadersAwake => ReadersAwake'
  BY <1>1, <1>3, <1>4, <1>5, <1>6 DEF ReadersAwake
<1>8. WritersAwake => WritersAwake'
  BY <1>1, <1>3, <1>4, <1>5, <1>6 DEF WritersAwake
<1> QED BY <1>1, <1>7, <1>8 DEF Awoken

(* A message stored is one to announce.                                    *)
LEMMA StoreAnnounces ==
  ASSUME Inv, Awoken, NEW w \in Writers, WriterStore(w), Queue!Put(w)
  PROVE  Awoken'
<1>1. /\ Lock /\ pc[w] = "check" /\ pc'[w] = "advance" /\ w \in Workers
      /\ UNCHANGED <<crs, condread, condwrite, isDone>>
  BY DEF WriterStore, Runs, At, GoTo, conds, Inv, TypeOK, Workers, Threads
<1>2. crs = w
  BY <1>1 DEF Lock, InSection
<1>3. /\ ~Announcing(Readers) /\ ~Announcing(Readers)'
      /\ ~Announcing(Writers) /\ Announcing(Writers)'
  BY <1>1, <1>2, ThreadsAssumption DEF Announcing
<1>4. Len(Contents') = Len(Contents) + 1
  <2> DEFINE v == <<w, msgnum[w]>>
  <2>1. Contents' = Append(Contents, v) /\ v \in Contained
    BY DEF Queue!Put, Inv, TypeOK, QueueTypeOK, Contained, Messages
  <2>2. Contents \in Seq(Contained)
    BY ContentsIsSeq
  <2> HIDE DEF v
  <2> QED BY <2>1, <2>2, AppendProperties
<1>5. Len(Contents) \in 0 .. Size /\ Size \in Nat
  BY ContentsIsSeq, SizeAssumption
<1>6. /\ Cardinality(Readers \ condread) \in Nat
      /\ Cardinality(Writers \ condwrite) \in Nat
  BY ThreadsAssumption, FewerAsleep
<1>7. ReadersAwake => ReadersAwake'
  BY <1>1, <1>3, <1>4, <1>5, <1>6 DEF ReadersAwake
<1>8. WritersAwake => WritersAwake'
  BY <1>1, <1>3, <1>4, <1>5, <1>6 DEF WritersAwake
<1> QED BY <1>1, <1>7, <1>8 DEF Awoken

(* The announcement wakes one sleeper, if there is one.                    *)
LEMMA ReaderAnnounces ==
  ASSUME Inv, Awoken, NEW r \in Readers, ReaderWakes(r), Contents' = Contents
  PROVE  Awoken'
<1>1. /\ Lock /\ pc[r] = "wake" /\ r \in Workers
      /\ UNCHANGED <<crs, condread, isDone>>
  BY DEF ReaderWakes, WakeOne, Runs, At, Inv, Workers
<1>2. crs = r
  BY <1>1 DEF Lock, InSection
<1>3. ~Announcing(Writers) /\ ~Announcing(Writers)'
  BY <1>1, <1>2, ThreadsAssumption DEF Announcing
<1>4. ReadersAwake => ReadersAwake'
  BY <1>1, <1>3 DEF ReadersAwake
<1>5. WritersAwake => WritersAwake'
  <2>1. CASE condwrite = {}
    BY <2>1 DEF ReaderWakes, WakeOne, WritersAwake
  <2>2. CASE condwrite # {}
    <3>1. PICK s \in condwrite : condwrite' = condwrite \ {s}
      BY <2>2 DEF ReaderWakes, WakeOne
    <3>2. s \in Writers
      BY DEF Inv, TypeOK
    <3> DEFINE b == Cardinality(Writers \ condwrite)
               bb == Cardinality(Writers \ condwrite')
    <3>3. b \in Nat /\ bb \in Nat /\ b + 1 <= bb
      BY <3>1, <3>2, FewerAsleep, ThreadsAssumption
    <3>4. Len(Contents) \in 0 .. Size /\ Size \in Nat
      BY ContentsIsSeq, SizeAssumption
    <3>5. WritersAwake => Size - Len(Contents) - 1 <= b
      <4>1. WritersAwake => Size - Len(Contents) - (IF Announcing(Readers) THEN 1 ELSE 0) <= b
        BY <2>2 DEF WritersAwake
      <4>2. Announcing(Readers)
        BY <1>1, <1>2 DEF Announcing
      <4> QED BY <4>1, <4>2
    <3> HIDE DEF b
    <3>6. (Size - Len(Contents) - 1 <= b)
            => Size - Len(Contents) - (IF Announcing(Readers)' THEN 1 ELSE 0) <= bb
      <4> HIDE DEF bb
      <4> QED BY <3>3, <3>4
    <3> QED BY <3>5, <3>6 DEF WritersAwake
  <2> QED BY <2>1, <2>2
<1> QED BY <1>1, <1>4, <1>5 DEF Awoken

(* The same for a writer.                                                  *)
LEMMA WriterAnnounces ==
  ASSUME Inv, Awoken, NEW w \in Writers, WriterWakes(w), Contents' = Contents
  PROVE  Awoken'
<1>1. /\ Lock /\ pc[w] = "wake" /\ w \in Workers
      /\ UNCHANGED <<crs, condwrite, isDone>>
  BY DEF WriterWakes, WakeOne, Runs, At, Inv, Workers
<1>2. crs = w
  BY <1>1 DEF Lock, InSection
<1>3. ~Announcing(Readers) /\ ~Announcing(Readers)'
  BY <1>1, <1>2, ThreadsAssumption DEF Announcing
<1>4. WritersAwake => WritersAwake'
  BY <1>1, <1>3 DEF WritersAwake
<1>5. ReadersAwake => ReadersAwake'
  <2>1. CASE condread = {}
    BY <2>1 DEF WriterWakes, WakeOne, ReadersAwake
  <2>2. CASE condread # {}
    <3>1. PICK s \in condread : condread' = condread \ {s}
      BY <2>2 DEF WriterWakes, WakeOne
    <3>2. s \in Readers
      BY DEF Inv, TypeOK
    <3> DEFINE b == Cardinality(Readers \ condread)
               bb == Cardinality(Readers \ condread')
    <3>3. b \in Nat /\ bb \in Nat /\ b + 1 <= bb
      BY <3>1, <3>2, FewerAsleep, ThreadsAssumption
    <3>4. Len(Contents) \in 0 .. Size /\ Size \in Nat
      BY ContentsIsSeq, SizeAssumption
    <3>5. ReadersAwake => Len(Contents) - 1 <= b
      <4>1. ReadersAwake => Len(Contents) - (IF Announcing(Writers) THEN 1 ELSE 0) <= b
        BY <2>2 DEF ReadersAwake
      <4>2. Announcing(Writers)
        BY <1>1, <1>2 DEF Announcing
      <4> QED BY <4>1, <4>2
    <3> HIDE DEF b
    <3>6. (Len(Contents) - 1 <= b)
            => Len(Contents) - (IF Announcing(Writers)' THEN 1 ELSE 0) <= bb
      <4> HIDE DEF bb
      <4> QED BY <3>3, <3>4
    <3> QED BY <3>5, <3>6 DEF ReadersAwake
  <2> QED BY <2>1, <2>2
<1> QED BY <1>1, <1>4, <1>5 DEF Awoken

(* All other steps neither put to sleep nor announce.                      *)
LEMMA ThreadQuiet ==
  ASSUME Inv, Awoken, Contents' = Contents, NEW t \in Workers,
         LoopTest(t) \/ Enter(t) \/ Leave(t) \/ SpuriousWake(t)
  PROVE  Awoken'
<1>1. /\ t \in Threads /\ TypeOK /\ Lock
      /\ SpuriousWake(t) => pc[t] = "asleep"
  BY DEF Inv, Threads, SpuriousWake, Asleep
<1>2. condread' \subseteq condread /\ condwrite' \subseteq condwrite /\ isDone' = isDone
  BY DEF LoopTest, Enter, Leave, SpuriousWake, conds
<1>3. pc[t] \notin {"advance", "wake"} /\ \A s \in Workers : s # t => pc'[s] = pc[s]
  BY <1>1 DEF LoopTest, Enter, Leave, SpuriousWake, GoTo, TypeOK, Runs, At, Threads
<1>4. ASSUME NEW s \in Workers, crs = s, pc[s] \in {"advance", "wake"}
      PROVE  crs' = s /\ pc'[s] \in {"advance", "wake"}
  <2>1. s # t /\ crs # t /\ crs # Nobody
    BY <1>3, <1>4, ThreadsAssumption DEF Threads
  <2>2. crs' = crs
    BY <1>1, <2>1 DEF LoopTest, Enter, Leave, SpuriousWake, Lock, InSection, Runs, At
  <2> QED BY <1>3, <1>4, <2>1, <2>2
<1>5. /\ Announcing(Readers) => Announcing(Readers)'
      /\ Announcing(Writers) => Announcing(Writers)'
  BY <1>4 DEF Announcing, Workers
<1> QED BY <1>2, <1>5, QuietStep

(* No step loses a wake-up.                                                *)
LEMMA AwokenStep == Inv /\ Awoken /\ [Next]_vars => Awoken'
<1> SUFFICES ASSUME Inv, Awoken, [Next]_vars PROVE Awoken'
  OBVIOUS
<1>1. TypeOK /\ Lock /\ Asleep /\ (TypeOK /\ Lock)'
  BY StepInv DEF Inv
<1>2. CASE \E r \in Readers : ReaderTake(r)
  BY <1>1, <1>2, ReaderStep, TakeAnnounces
<1>3. CASE \E w \in Writers : WriterStore(w)
  BY <1>1, <1>3, WriterStep, StoreAnnounces
<1>4. CASE ~(\E r \in Readers : ReaderTake(r)) /\ ~(\E w \in Writers : WriterStore(w))
  <2>1. Contents' = Contents
    BY <1>1, <1>4, OffOrOn, OffQueueStep, ReaderStep, WriterStep DEF OnQueue
  <2>2. CASE UNCHANGED vars \/ TimeManager \/ Main
    <3>1. /\ UNCHANGED <<crs, condread, condwrite>>
          /\ isDone' = TRUE \/ isDone' = isDone
      BY <2>2 DEF vars, conds, TimeManager, Main, Join, JoinTimeout, CleanUp
    <3>2. \A s \in Workers : pc'[s] = pc[s]
      BY <2>2, <1>1, ThreadsAssumption DEF vars, TimeManager, Main, Join, JoinTimeout,
         CleanUp, GoTo, TypeOK, Threads
    <3>3. /\ Announcing(Readers) => Announcing(Readers)'
          /\ Announcing(Writers) => Announcing(Writers)'
      BY <3>1, <3>2 DEF Announcing, Workers
    <3> QED BY <2>1, <3>1, <3>3, QuietStep
  <2>3. ASSUME NEW r \in Readers, ReaderClear(r) \/ ReaderAdvance(r) PROVE Awoken'
    <3>1. /\ UNCHANGED <<crs, condread, condwrite, isDone>> /\ r \in Workers
          /\ pc[r] = "check" \/ pc'[r] = "wake"
          /\ \A s \in Workers : s # r => pc'[s] = pc[s]
      BY <1>1, <2>3 DEF ReaderClear, ReaderAdvance, conds, GoTo, Runs, At, TypeOK,
         Threads, Workers
    <3>2. /\ Announcing(Readers) => Announcing(Readers)'
          /\ Announcing(Writers) => Announcing(Writers)'
      BY <3>1 DEF Announcing, Workers
    <3> QED BY <2>1, <3>1, <3>2, QuietStep
  <2>4. ASSUME NEW w \in Writers, WriterAdvance(w) PROVE Awoken'
    <3>1. /\ UNCHANGED <<crs, condread, condwrite, isDone>> /\ w \in Workers
          /\ pc'[w] = "wake"
          /\ \A s \in Workers : s # w => pc'[s] = pc[s]
      BY <1>1, <2>4 DEF WriterAdvance, conds, GoTo, Runs, At, TypeOK, Threads, Workers
    <3>2. /\ Announcing(Readers) => Announcing(Readers)'
          /\ Announcing(Writers) => Announcing(Writers)'
      BY <3>1 DEF Announcing, Workers
    <3> QED BY <2>1, <3>1, <3>2, QuietStep
  <2> QED BY <1>4, <2>1, <2>2, <2>3, <2>4, ThreadQuiet, ReaderSleeps, WriterSleeps,
             ReaderAnnounces, WriterAnnounces DEF Next, Reader, Writer, Workers, Finished
<1> QED BY <1>2, <1>3, <1>4

(* No wake-up is lost, for any number of readers and writers, although a   *)
(* WakeConditionVariable with nobody asleep does nothing.                  *)
THEOREM WakesArrive == Spec => []NoLostWakeup
<1>1. Init => Awoken
  BY DEF Init, Awoken, ReadersAwake, WritersAwake
<1>2. Inv /\ Awoken => NoLostWakeup
  BY AwokenIs
<1> QED BY <1>1, <1>2, InitInv, StepInv, AwokenStep, PTL DEF Spec
=============================================================================
