----------------------------- MODULE EventProofs -----------------------------
(***************************************************************************)
(* One writer and any number of readers with events, as threads and as     *)
(* processes: the types, the counters, no reading during a writing, and    *)
(* that the programs implement Broadcast.  A round goes through six phases,*)
(* and in each of them what the events, the counters and the labels can be *)
(* is known:                                                               *)
(*   Gathering  the boundary is open, the readers come and are counted     *)
(*   Closing    the last one closes the boundary and calls the writer      *)
(*   Called     all have come, the writer is called                        *)
(*   Writing    the writer writes                                          *)
(*   Reading    the readers read and are counted                           *)
(*   Opening    the last one opens the boundary                            *)
(***************************************************************************)
EXTENDS MCReaderWriters, FiniteSetTheorems, TLAPS

N == numOfReaders
Successor(m) == (m + 1) % MsgNums

Outside == {"loop", "wait canWrite", "finished"}
CameLabels == {"release ready", "wait canRead", "finished"}
LockLabels == ReadyLabels \cup CountLabels \cup {"add", "give"}

Types ==
  /\ program \in Programs
  /\ canRead \in BOOLEAN /\ allRead \in BOOLEAN /\ exit \in BOOLEAN
  /\ canWrite \in BOOLEAN /\ changeCount \in BOOLEAN /\ isDone \in BOOLEAN
  /\ countread \in Int /\ countready \in Int
  /\ memory \in 0 .. MsgNums - 1 /\ msgnum \in 0 .. MsgNums - 1
  /\ pc \in [Threads -> ReaderLabels \cup WriterLabels \cup {"set exit"}]
  /\ pc[Writer] \in WriterLabels /\ pc[Manager] \in {"loop", "set exit", "finished"}
  /\ mainpc \in {"join", "done"}
  /\ times \in [Readers -> 0 .. MsgNums - 1]
  /\ got \in [Readers -> 0 .. MsgNums - 1]

(* changeCount is taken while a process is at a label behind its wait.     *)
Locked ==
  /\ changeCount => \A t \in Threads : pc[t] \notin LockLabels
  /\ \A s, t \in Threads : pc[s] \in LockLabels /\ pc[t] \in LockLabels => s = t

AllRead == \A r \in Readers : times[r] = memory
NoneRead == \A r \in Readers : Successor(times[r]) = memory
AllCame == \A r \in Readers : pc[r] \in CameLabels

(* How many were counted since the boundary was opened, and of whom they   *)
(* are some: who has finished may have been counted or not.                *)
Counted == IF program = "threads" THEN countready ELSE N - countready
Came == {r \in Readers : pc[r] \in CameLabels}
Uncounted == IF program = "threads" THEN 0 ELSE N
Unread == {r \in Readers : times[r] # memory \/ pc[r] \in {"wait count", "count"}}

Gathering ==
  /\ allRead /\ ~canRead /\ ~canWrite /\ pc[Writer] \in Outside
  /\ \A r \in Readers : pc[r] \in {"loop", "wait allRead", "wait ready", "ready",
                                   "release count"} \cup CameLabels
  /\ AllRead /\ msgnum = memory
  /\ countread = 0 /\ Counted \in 0 .. N - 1 /\ Counted <= Cardinality(Came)

Closing ==
  \E r \in Readers :
    /\ pc[r] \in {"reset allRead", "set canWrite"} /\ allRead = At(r, "reset allRead")
    /\ ~canRead /\ ~canWrite /\ pc[Writer] \in Outside
    /\ \A q \in Readers \ {r} : pc[q] \in {"wait canRead", "finished"}
    /\ AllRead /\ msgnum = memory
    /\ countread = 0 /\ countready = 0

Called ==
  /\ ~allRead /\ ~canRead /\ canWrite /\ pc[Writer] \in Outside
  /\ AllCame /\ AllRead /\ msgnum = memory
  /\ countread = 0 /\ countready = 0

Writing ==
  /\ ~allRead /\ ~canRead /\ ~canWrite /\ AllCame
  /\ \/ /\ At(Writer, "number")
        /\ AllRead /\ msgnum = memory /\ countread = 0 /\ countready = 0
     \/ /\ program = "threads" /\ At(Writer, "write")
        /\ AllRead /\ msgnum = Successor(memory) /\ countread = N /\ countready = 0
     \/ /\ program = "processes" /\ pc[Writer] \in {"wait change", "add"}
        /\ NoneRead /\ msgnum = memory /\ countread = 0 /\ countready = 0
     \/ /\ \/ program = "processes" /\ pc[Writer] \in {"give", "set canRead"}
           \/ program = "threads" /\ At(Writer, "set canRead")
        /\ NoneRead /\ msgnum = memory /\ countread = N /\ countready = Uncounted

Reading ==
  /\ ~allRead /\ canRead /\ ~canWrite /\ pc[Writer] \in Outside
  /\ \A r \in Readers :
       \/ /\ pc[r] \in {"release ready", "wait canRead", "read"}
          /\ Successor(times[r]) = memory
       \/ /\ pc[r] \in {"wait count", "count", "release count", "loop", "wait allRead"}
          /\ times[r] = memory
       \/ /\ pc[r] = "finished"
          /\ times[r] = memory \/ Successor(times[r]) = memory
  /\ msgnum = memory /\ countread = Cardinality(Unread) /\ countready = Uncounted

Opening ==
  \E r \in Readers :
    /\ pc[r] \in {"reset canRead", "set allRead"} /\ canRead = At(r, "reset canRead")
    /\ ~allRead /\ ~canWrite /\ pc[Writer] \in Outside
    /\ \A q \in Readers \ {r} : pc[q] \in {"loop", "wait allRead", "finished"}
    /\ AllRead /\ msgnum = memory
    /\ countread = 0 /\ countready = Uncounted

Phases == Gathering \/ Closing \/ Called \/ Writing \/ Reading \/ Opening

Inv == Types /\ Locked /\ Phases
-----------------------------------------------------------------------------
(* numOfReaders is a positive number.                                      *)
LEMMA SomeReaders == N \in Nat /\ N > 0 /\ IsFiniteSet(Readers)
                     /\ N = Cardinality(Readers) /\ N = numOfReaders
<1>1. N = numOfReaders /\ N = Cardinality(Readers)
  BY DEF N, numOfReaders
<1>2. IsFiniteSet(Readers) /\ Readers # {}
  BY ConfigAssumption
<1> QED BY <1>1, <1>2, FS_CardinalityType, FS_EmptySet

(* The number after a message's is another number.                         *)
LEMMA OtherNumber ==
  ASSUME NEW n \in 0 .. MsgNums - 1
  PROVE  Successor(n) \in 0 .. MsgNums - 1 /\ Successor(n) # n
<1>1. CASE n + 1 < MsgNums
  BY <1>1, WidthAssumption DEF Successor
<1>2. CASE n + 1 = MsgNums
  BY <1>2, WidthAssumption DEF Successor
<1> QED BY <1>1, <1>2, WidthAssumption

(* countready starts again from 0 with the last reader, not before.        *)
LEMMA CountUp ==
  ASSUME NEW k \in 0 .. N - 1
  PROVE  (k + 1) % N = IF k + 1 = N THEN 0 ELSE k + 1
<1>1. CASE k + 1 < N
  BY <1>1, SomeReaders
<1>2. CASE k + 1 = N
  BY <1>2, SomeReaders
<1> QED BY <1>1, <1>2, SomeReaders

(* Sets of readers: how many they are.                                     *)
LEMMA ReadersCounted ==
  ASSUME NEW S \in SUBSET Readers
  PROVE  /\ IsFiniteSet(S) /\ Cardinality(S) \in 0 .. N
         /\ (Cardinality(S) = N) => S = Readers
         /\ (Cardinality(S) = 0) => S = {}
         /\ \A T \in SUBSET S : Cardinality(T) <= Cardinality(S)
<1>1. IsFiniteSet(S) /\ Cardinality(S) \in Nat
  BY SomeReaders, FS_Subset, FS_CardinalityType
<1>2. Cardinality(S) <= N /\ (Cardinality(S) = N => S = Readers)
  BY SomeReaders, FS_Subset
<1>3. Cardinality(S) = 0 => S = {}
  BY <1>1, FS_EmptySet
<1>4. \A T \in SUBSET S : Cardinality(T) <= Cardinality(S)
  BY <1>1, FS_Subset
<1> QED BY <1>1, <1>2, <1>3, <1>4, SomeReaders

(* A reader more, a reader less.                                           *)
LEMMA OneMore ==
  ASSUME NEW S \in SUBSET Readers, NEW r \in Readers, r \notin S
  PROVE  Cardinality(S \cup {r}) = Cardinality(S) + 1
BY ReadersCounted, FS_AddElement

LEMMA OneLess ==
  ASSUME NEW S \in SUBSET Readers, NEW r \in S
  PROVE  Cardinality(S \ {r}) = Cardinality(S) - 1
BY ReadersCounted, FS_RemoveElement

(* A step changes the label of one thread.                                 *)
LEMMA OneMoves ==
  ASSUME Types, NEW t \in Threads, NEW label, GoTo(t, label)
  PROVE  pc'[t] = label /\ \A u \in Threads \ {t} : pc'[u] = pc[u]
BY DEF GoTo, Types

LEMMA Names ==
  /\ Writer \in Threads /\ Manager \in Threads /\ Writer # Manager
  /\ \A r \in Readers : r \in Threads /\ r # Writer /\ r # Manager
BY ConfigAssumption DEF Threads
-----------------------------------------------------------------------------
(* The programs start in the phase Gathering.                              *)
LEMMA StartTyped == Init => Inv
<1> SUFFICES ASSUME Init PROVE Inv
  OBVIOUS
<1>0. pc[Writer] = "loop" /\ pc[Manager] = "loop" /\ \A r \in Readers : pc[r] = "loop"
  BY Names DEF Init
<1>1. Types
  <2>1. countread \in Int /\ countready \in Int
    BY SomeReaders DEF Init
  <2>2. memory \in 0 .. MsgNums - 1 /\ msgnum \in 0 .. MsgNums - 1
    BY WidthAssumption DEF Init
  <2>3. times \in [Readers -> 0 .. MsgNums - 1] /\ got \in [Readers -> 0 .. MsgNums - 1]
    BY WidthAssumption DEF Init
  <2> QED BY <1>0, <2>1, <2>2, <2>3 DEF Init, Types, Programs, ReaderLabels, WriterLabels
<1>2. Locked
  BY DEF Init, Locked, LockLabels, ReadyLabels, CountLabels
<1>3. Counted = 0
  BY SomeReaders DEF Init, Counted, Programs
<1>4. Cardinality(Came) \in 0 .. N
  BY ReadersCounted DEF Came
<1>5. Counted \in 0 .. N - 1 /\ Counted <= Cardinality(Came)
  BY <1>3, <1>4, SomeReaders
<1>6. Gathering
  BY <1>0, <1>5 DEF Init, Gathering, Outside, CameLabels, AllRead
<1> QED BY <1>1, <1>2, <1>6 DEF Inv, Phases

(* No step, no type changed.                                               *)
LEMMA Unmoved == Types /\ UNCHANGED <<vars>> => Types'
BY DEF Types, vars, main, events, counters, history

(* Joining the threads changes no type.                                    *)
LEMMA Joined == Types /\ Join => Types'
BY DEF Types, Join, events, counters, history

(* Every step keeps the types.                                             *)
LEMMA TypesKept == Types /\ [Next]_vars => Types'
<1> SUFFICES ASSUME Types, [Next]_vars PROVE Types'
  OBVIOUS
<1>0. N \in Int /\ countread \in Int /\ countready \in Int /\ countread - 1 \in Int /\ countready - 1 \in Int
       /\ countread + N \in Int /\ countready + N \in Int /\ (countready + 1) % N \in Int
  <2>1. countread \in Int /\ countready \in Int
    BY DEF Types
  <2> QED BY <2>1, Names, SomeReaders
<1> USE DEF Types, Step, At, GoTo, ReaderLabels,
        WriterLabels, ReadyLabels, CountLabels, Programs, main, events, counters, history
<1>1. ASSUME NEW r \in Readers, Reader(r) PROVE Types'
  <2>1. CASE LoopTest(r, "wait allRead")
    BY <2>1, Names DEF LoopTest
  <2>2. CASE LoopAgain(r)
    BY <2>2, Names DEF LoopAgain
  <2>3. CASE WaitAllRead(r)
    BY <2>3, Names DEF WaitAllRead
  <2>4. CASE WaitReady(r)
    BY <2>4, Names DEF WaitReady, TakeCount
  <2>5. CASE CountReady(r)
    BY <1>0, <2>5, Names, SomeReaders DEF CountReady
  <2>6. CASE ResetAllRead(r)
    BY <2>6, Names DEF ResetAllRead
  <2>7. CASE SetCanWrite(r)
    BY <2>7, Names DEF SetCanWrite
  <2>8. CASE ReleaseReady(r)
    BY <2>8, Names DEF ReleaseReady, GiveCount
  <2>9. CASE WaitCanRead(r)
    BY <2>9, Names DEF WaitCanRead, WaitExitOr
  <2>10. CASE Read(r)
    <3>1. Successor(times[r]) \in 0 .. MsgNums - 1
      BY OtherNumber, WidthAssumption
    <3> QED BY <2>10, Names, <3>1 DEF Read, Successor
  <2>11. CASE WaitCount(r)
    BY <2>11, Names DEF WaitCount, TakeCount
  <2>12. CASE CountRead(r)
    BY <1>0, <2>12, Names DEF CountRead
  <2>13. CASE ResetCanRead(r)
    BY <2>13, Names DEF ResetCanRead
  <2>14. CASE SetAllRead(r)
    BY <2>14, Names DEF SetAllRead
  <2>15. CASE ReleaseCount(r)
    BY <2>15, Names DEF ReleaseCount, GiveCount
  <2> QED BY <1>1, <2>1, <2>2, <2>3, <2>4, <2>5, <2>6, <2>7, <2>8, <2>9, <2>10, <2>11,
             <2>12, <2>13, <2>14, <2>15 DEF Reader, ThreadReader, ProcessReader, Round
<1>2. ASSUME WriterThread PROVE Types'
  <2>0. Successor(msgnum) \in 0 .. MsgNums - 1
    BY OtherNumber, WidthAssumption
  <2>1. CASE LoopTest(Writer, "wait canWrite")
    BY <2>1, Names DEF LoopTest
  <2>2. CASE WaitCanWrite
    BY <2>2, Names DEF WaitCanWrite, WaitExitOr
  <2>3. CASE SetCountRead
    <3>1. countread' = N
      BY <2>3, SomeReaders DEF SetCountRead
    <3>2. msgnum' = Successor(msgnum)
      BY <2>3 DEF SetCountRead, Successor
    <3> QED BY <1>0, <2>0, <2>3, <3>1, <3>2, Names DEF SetCountRead
  <2>4. CASE WriteMessage
    BY <2>4, Names DEF WriteMessage
  <2>5. CASE NumberAndWrite
    BY <2>0, <2>5, Names DEF NumberAndWrite, Successor
  <2>6. CASE WriterTakes
    BY <2>6, Names DEF WriterTakes, TakeCount
  <2>7. CASE AddReaders
    BY <1>0, <2>7, Names, SomeReaders DEF AddReaders
  <2>8. CASE WriterGives
    BY <2>8, Names DEF WriterGives, GiveCount
  <2>9. CASE SetCanRead
    BY <2>9, Names DEF SetCanRead
  <2> QED BY <1>2, <2>1, <2>2, <2>3, <2>4, <2>5, <2>6, <2>7, <2>8, <2>9
          DEF WriterThread, ThreadWriter, ProcessWriter
<1>3. ASSUME TimeManager PROVE Types'
  <2>1. CASE RaiseDone
    BY <2>1, Names DEF RaiseDone
  <2>2. CASE SetExit
    BY <2>2, Names DEF SetExit
  <2> QED BY <1>3, <2>1, <2>2 DEF TimeManager
<1>4. ASSUME Join PROVE Types'
  BY <1>4, Joined
<1>5. ASSUME UNCHANGED vars PROVE Types'
  BY <1>5, Unmoved
<1> QED BY <1>1, <1>2, <1>3, <1>4, <1>5 DEF Next
-----------------------------------------------------------------------------
(* A thread takes changeCount, gives it back, holds it while it goes on, or*)
(* goes on outside.                                                        *)
LEMMA LockMoves ==
  ASSUME Types, Locked, NEW t \in Threads, NEW label, GoTo(t, label),
         \/ TakeCount
         \/ GiveCount /\ pc[t] \in LockLabels /\ label \notin LockLabels
         \/ UNCHANGED changeCount /\ pc[t] \in LockLabels
         \/ UNCHANGED changeCount /\ label \notin LockLabels
  PROVE  Locked'
<1>1. pc'[t] = label /\ \A u \in Threads \ {t} : pc'[u] = pc[u]
  BY OneMoves
<1>2. CASE TakeCount
  BY <1>1, <1>2 DEF Locked, TakeCount
<1>3. CASE GiveCount /\ pc[t] \in LockLabels /\ label \notin LockLabels
  BY <1>1, <1>3 DEF Locked
<1>4. CASE UNCHANGED changeCount /\ pc[t] \in LockLabels
  BY <1>1, <1>4 DEF Locked
<1>5. CASE UNCHANGED changeCount /\ label \notin LockLabels
  BY <1>1, <1>5 DEF Locked
<1> QED BY <1>2, <1>3, <1>4, <1>5

(* Every step keeps changeCount a lock.                                    *)
LEMMA LockKept == Types /\ Locked /\ [Next]_vars => Locked'
<1> SUFFICES ASSUME Types, Locked, [Next]_vars PROVE Locked'
  OBVIOUS
<1> USE DEF Step, At, LockLabels, ReadyLabels, CountLabels, events
<1>1. ASSUME NEW r \in Readers, Reader(r) PROVE Locked'
  <2>0. r \in Threads
    BY Names
  <2>1. CASE LoopTest(r, "wait allRead")
    <3>1. \E label \in {"finished", "wait allRead"} : GoTo(r, label)
      BY <2>1 DEF LoopTest
    <3> QED BY <2>0, <2>1, <3>1, LockMoves DEF LoopTest
  <2>2. CASE LoopAgain(r)
    BY <2>0, <2>2, LockMoves DEF LoopAgain
  <2>3. CASE WaitAllRead(r)
    BY <2>0, <2>3, LockMoves DEF WaitAllRead
  <2>4. CASE WaitReady(r)
    BY <2>0, <2>4, LockMoves DEF WaitReady
  <2>5. CASE CountReady(r)
    <3>1. /\ pc[r] = "ready" /\ UNCHANGED changeCount
          /\ GoTo(r, IF countready' = 0 THEN "reset allRead" ELSE "release ready")
      BY <2>5 DEF CountReady
    <3> QED BY <2>0, <3>1, LockMoves
  <2>6. CASE ResetAllRead(r)
    BY <2>0, <2>6, LockMoves DEF ResetAllRead
  <2>7. CASE SetCanWrite(r)
    BY <2>0, <2>7, LockMoves DEF SetCanWrite
  <2>8. CASE ReleaseReady(r)
    BY <2>0, <2>8, LockMoves DEF ReleaseReady
  <2>9. CASE WaitCanRead(r)
    <3>1. \E label \in {"finished", "read"} : GoTo(r, label)
      BY <2>9 DEF WaitCanRead, WaitExitOr
    <3> QED BY <2>0, <2>9, <3>1, LockMoves DEF WaitCanRead
  <2>10. CASE Read(r)
    BY <2>0, <2>10, LockMoves DEF Read
  <2>11. CASE WaitCount(r)
    BY <2>0, <2>11, LockMoves DEF WaitCount
  <2>12. CASE CountRead(r)
    <3>1. /\ pc[r] = "count" /\ UNCHANGED changeCount
          /\ GoTo(r, IF countread = 1 THEN "reset canRead" ELSE "release count")
      BY <2>12 DEF CountRead
    <3> QED BY <2>0, <3>1, LockMoves
  <2>13. CASE ResetCanRead(r)
    BY <2>0, <2>13, LockMoves DEF ResetCanRead
  <2>14. CASE SetAllRead(r)
    BY <2>0, <2>14, LockMoves DEF SetAllRead
  <2>15. CASE ReleaseCount(r)
    BY <2>0, <2>15, LockMoves DEF ReleaseCount
  <2> QED BY <1>1, <2>1, <2>2, <2>3, <2>4, <2>5, <2>6, <2>7, <2>8, <2>9, <2>10, <2>11,
             <2>12, <2>13, <2>14, <2>15 DEF Reader, ThreadReader, ProcessReader, Round
<1>2. ASSUME WriterThread PROVE Locked'
  <2>1. CASE LoopTest(Writer, "wait canWrite")
    <3>1. \E label \in {"finished", "wait canWrite"} : GoTo(Writer, label)
      BY <2>1 DEF LoopTest
    <3> QED BY <2>1, <3>1, Names, LockMoves DEF LoopTest
  <2>2. CASE WaitCanWrite
    <3>1. \E label \in {"finished", "number"} : GoTo(Writer, label)
      BY <2>2 DEF WaitCanWrite, WaitExitOr
    <3> QED BY <2>2, <3>1, Names, LockMoves DEF WaitCanWrite
  <2>3. CASE SetCountRead
    BY <2>3, Names, LockMoves DEF SetCountRead
  <2>4. CASE WriteMessage
    BY <2>4, Names, LockMoves DEF WriteMessage
  <2>5. CASE NumberAndWrite
    BY <2>5, Names, LockMoves DEF NumberAndWrite
  <2>6. CASE WriterTakes
    BY <2>6, Names, LockMoves DEF WriterTakes
  <2>7. CASE AddReaders
    BY <2>7, Names, LockMoves DEF AddReaders
  <2>8. CASE WriterGives
    BY <2>8, Names, LockMoves DEF WriterGives
  <2>9. CASE SetCanRead
    BY <2>9, Names, LockMoves DEF SetCanRead
  <2> QED BY <1>2, <2>1, <2>2, <2>3, <2>4, <2>5, <2>6, <2>7, <2>8, <2>9
          DEF WriterThread, ThreadWriter, ProcessWriter
<1>3. CASE TimeManager
  BY <1>3, Names, LockMoves DEF TimeManager, RaiseDone, SetExit
<1>4. CASE Join
  BY <1>4 DEF Join, Locked
<1>5. CASE UNCHANGED vars
  BY <1>5 DEF vars, Locked
<1> QED BY <1>1, <1>2, <1>3, <1>4, <1>5 DEF Next
-----------------------------------------------------------------------------
(* Steps that change a label and neither the counters, the message nor an  *)
(* event but exit and changeCount.                                         *)
Calm == UNCHANGED <<program, allRead, canRead, canWrite, countread, countready,
                    memory, msgnum, times>>

CalmStep(r, label) ==
  \/ pc[r] = "loop" /\ label \in {"wait allRead", "finished"}
  \/ pc[r] = "wait allRead" /\ label = "wait ready" /\ allRead
  \/ pc[r] = "wait ready" /\ label = "ready"
  \/ pc[r] = "release ready" /\ label = "wait canRead"
  \/ pc[r] = "wait canRead" /\ label = "finished"
  \/ pc[r] = "wait canRead" /\ label = "read" /\ canRead
  \/ pc[r] = "wait count" /\ label = "count"
  \/ pc[r] = "release count" /\ label = "loop"

(* Who has come does not go before the boundary opens.                     *)
LEMMA CameGrows ==
  ASSUME Types, NEW r \in Readers, NEW label, GoTo(r, label),
         pc[r] \in CameLabels => label \in CameLabels
  PROVE  /\ Cardinality(Came) \in 0 .. N /\ Cardinality(Came') \in 0 .. N
         /\ Cardinality(Came) <= Cardinality(Came')
         /\ pc[r] \notin CameLabels /\ label \in CameLabels =>
              Cardinality(Came') = Cardinality(Came) + 1
<1>1. pc'[r] = label /\ \A u \in Threads \ {r} : pc'[u] = pc[u]
  BY OneMoves, Names
<1>2. Came \subseteq Came' /\ Came' \subseteq Readers
  BY <1>1, Names DEF Came
<1>3. ASSUME pc[r] \notin CameLabels, label \in CameLabels
      PROVE  Came' = Came \cup {r} /\ r \notin Came
  BY <1>1, <1>3, Names DEF Came
<1>4. Came \subseteq Readers
  BY DEF Came
<1> QED BY <1>2, <1>3, <1>4, ReadersCounted, OneMore

(* A calm step of a reader leaves the phase what it is.                    *)
LEMMA CalmReader ==
  ASSUME Types, Locked, Phases, NEW r \in Readers, NEW label, GoTo(r, label),
         CalmStep(r, label), Calm
  PROVE  Phases'
<1>0. /\ pc'[r] = label /\ \A u \in Threads \ {r} : pc'[u] = pc[u]
      /\ pc'[Writer] = pc[Writer]
      /\ \A q \in Readers : q # r => pc'[q] = pc[q]
      /\ pc[r] # label
  BY OneMoves, Names DEF CalmStep
<1> USE DEF Calm
<1>1. CASE Gathering
  <2>1. Counted' = Counted
    BY SomeReaders DEF Counted
  <2>2. Counted' \in 0 .. N - 1 /\ Counted' <= Cardinality(Came')
    <3>1. pc[r] \in CameLabels => label \in CameLabels
      BY <1>1 DEF CalmStep, CameLabels, Gathering
    <3>2. Counted \in 0 .. N - 1 /\ Counted <= Cardinality(Came)
      BY <1>1 DEF Gathering
    <3>3. /\ Cardinality(Came) \in 0 .. N /\ Cardinality(Came') \in 0 .. N
          /\ Cardinality(Came) <= Cardinality(Came')
      BY <3>1, CameGrows
    <3> HIDE DEF N, Calm, Counted, Came
    <3> QED BY <2>1, <3>2, <3>3, SomeReaders
  <2>3. \A q \in Readers : pc'[q] \in {"loop", "wait allRead", "wait ready", "ready",
                                   "release count"} \cup CameLabels
    BY <1>0, <1>1 DEF CalmStep, CameLabels, Gathering
  <2>4. AllRead'
    BY <1>1 DEF Gathering, AllRead
  <2> QED BY <1>0, <1>1, <2>2, <2>3, <2>4 DEF Gathering, Phases
<1>2. CASE Closing
  <2>1. PICK s \in Readers :
          /\ pc[s] \in {"reset allRead", "set canWrite"} /\ allRead = At(s, "reset allRead")
          /\ ~canRead /\ ~canWrite /\ pc[Writer] \in Outside
          /\ \A q \in Readers \ {s} : pc[q] \in {"wait canRead", "finished"}
          /\ AllRead /\ msgnum = memory
          /\ countread = 0 /\ countready = 0
    BY <1>2 DEF Closing
  <2>2. r # s
    BY <2>1 DEF CalmStep
  <2>3. label = "finished"
    BY <2>1, <2>2 DEF CalmStep
  <2>4. /\ pc'[s] \in {"reset allRead", "set canWrite"} /\ allRead' = At(s, "reset allRead")'
        /\ \A q \in Readers \ {s} : pc'[q] \in {"wait canRead", "finished"}
    BY <1>0, <2>1, <2>2, <2>3 DEF At
  <2> QED BY <1>0, <2>1, <2>4 DEF Closing, Phases, AllRead
<1>3. CASE Called
  BY <1>0, <1>3 DEF Called, Phases, AllCame, AllRead, CameLabels, CalmStep
<1>4. CASE Writing
  <2>1. AllCame'
    BY <1>0, <1>4 DEF Writing, AllCame, CameLabels, CalmStep
  <2>2. (AllRead <=> AllRead') /\ (NoneRead <=> NoneRead') /\ Uncounted' = Uncounted
        /\ Successor(memory)' = Successor(memory)
    BY DEF AllRead, NoneRead, Uncounted, Successor
  <2> QED BY <1>0, <1>4, <2>1, <2>2 DEF Writing, Phases, At
<1>5. CASE Reading
  <2>1. Unread' = Unread /\ Uncounted' = Uncounted
    BY <1>0, <1>5 DEF Unread, Uncounted, Reading, CalmStep
  <2>2. \A q \in Readers :
          \/ /\ pc'[q] \in {"release ready", "wait canRead", "read"}
             /\ Successor(times[q]) = memory
          \/ /\ pc'[q] \in {"wait count", "count", "release count", "loop", "wait allRead"}
             /\ times[q] = memory
          \/ /\ pc'[q] = "finished"
             /\ times[q] = memory \/ Successor(times[q]) = memory
    BY <1>0, <1>5 DEF Reading, CalmStep
  <2> QED BY <1>0, <1>5, <2>1, <2>2 DEF Reading, Phases, Successor
<1>6. CASE Opening
  <2>1. PICK s \in Readers :
          /\ pc[s] \in {"reset canRead", "set allRead"} /\ canRead = At(s, "reset canRead")
          /\ ~allRead /\ ~canWrite /\ pc[Writer] \in Outside
          /\ \A q \in Readers \ {s} : pc[q] \in {"loop", "wait allRead", "finished"}
          /\ AllRead /\ msgnum = memory
          /\ countread = 0 /\ countready = Uncounted
    BY <1>6 DEF Opening
  <2>2. r # s
    BY <2>1 DEF CalmStep
  <2>3. label \in {"wait allRead", "finished"}
    BY <2>1, <2>2 DEF CalmStep
  <2>4. /\ pc'[s] \in {"reset canRead", "set allRead"} /\ canRead' = At(s, "reset canRead")'
        /\ \A q \in Readers \ {s} : pc'[q] \in {"loop", "wait allRead", "finished"}
    BY <1>0, <2>1, <2>2, <2>3 DEF At
  <2> QED BY <1>0, <2>1, <2>4 DEF Opening, Phases, AllRead, Uncounted
<1> QED BY <1>1, <1>2, <1>3, <1>4, <1>5, <1>6 DEF Phases
-----------------------------------------------------------------------------
(* A reader's label tells the phase.                                       *)
LEMMA ReaderPhase ==
  ASSUME Phases, NEW r \in Readers
  PROVE  /\ pc[r] = "ready" => Gathering
         /\ pc[r] \in {"reset allRead", "set canWrite"} => Closing
         /\ pc[r] \in {"read", "wait count", "count"} => Reading
         /\ pc[r] \in {"reset canRead", "set allRead"} => Opening
<1>1. Gathering => pc[r] \in {"loop", "wait allRead", "wait ready", "ready",
                              "release count"} \cup CameLabels
  BY DEF Gathering
<1>2. Closing => pc[r] \in {"reset allRead", "set canWrite", "wait canRead", "finished"}
  BY DEF Closing
<1>3. Called \/ Writing => pc[r] \in CameLabels
  BY DEF Called, Writing, AllCame
<1>4. Reading => pc[r] \in {"release ready", "wait canRead", "read", "wait count",
                            "count", "release count", "loop", "wait allRead", "finished"}
  BY DEF Reading
<1>5. Opening => pc[r] \in {"reset canRead", "set allRead", "loop", "wait allRead",
                            "finished"}
  BY DEF Opening
<1> QED BY <1>1, <1>2, <1>3, <1>4, <1>5 DEF Phases, CameLabels

(* The writer writes in its phase, and is called before.                   *)
LEMMA WriterPhase ==
  /\ Phases /\ pc[Writer] \notin Outside => Writing
  /\ Phases /\ canWrite => Called
BY DEF Phases, Gathering, Closing, Called, Writing, Reading, Opening

(* The last reader that is counted closes the boundary.                    *)
LEMMA CountReadyKeeps ==
  ASSUME Types, Locked, Phases, NEW r \in Readers, CountReady(r)
  PROVE  Phases'
<1> DEFINE label == IF countready' = 0 THEN "reset allRead" ELSE "release ready"
<1>0. pc[r] = "ready" /\ GoTo(r, label) /\ UNCHANGED <<events, countread, memory, msgnum, program>>
      /\ UNCHANGED times
  BY DEF CountReady, Step, At, main, history
<1>1. Gathering
  BY <1>0, ReaderPhase
<1>2. /\ pc'[r] = label /\ pc'[Writer] = pc[Writer]
      /\ \A q \in Readers : q # r => pc'[q] = pc[q]
  BY <1>0, OneMoves, Names
<1>3. Counted \in 0 .. N - 1 /\ Counted <= Cardinality(Came)
  BY <1>1 DEF Gathering
<1>4. r \notin Came /\ Came \in SUBSET Readers
  BY <1>0 DEF Came, CameLabels
<1>5. Cardinality(Came) \in 0 .. N /\ Cardinality(Came \cup {r}) = Cardinality(Came) + 1
      /\ Cardinality(Came \cup {r}) \in 0 .. N
  <2>1. Came \cup {r} \in SUBSET Readers
    BY <1>4
  <2> QED BY <1>4, <2>1, OneMore, ReadersCounted
<1>6. \A q \in Readers : q # r => pc[q] # "release ready"
  BY <1>0, Names DEF Locked, LockLabels, ReadyLabels
<1>7. AllRead'
  BY <1>0, <1>1 DEF Gathering, AllRead
<1>8. countready' = 0 <=> Counted + 1 = N
  <2>1. CASE program = "threads"
    <3>1. Counted = countready /\ countready' = (countready + 1) % N
      BY <2>1, SomeReaders DEF Counted, CountReady, Programs
    <3>2. countready' = IF Counted + 1 = N THEN 0 ELSE Counted + 1
      BY <1>3, <3>1, CountUp
    <3> QED BY <1>3, <3>2
  <2>2. CASE program = "processes"
    <3>1. Counted = N - countready /\ countready' = countready - 1 /\ countready \in Int
      BY <2>2 DEF Counted, CountReady, Types
    <3> HIDE DEF N, Counted
    <3> QED BY <1>3, <3>1, SomeReaders
  <2> QED BY <2>1, <2>2 DEF Types, Programs
<1>9. CASE countready' = 0
  <2>1. Cardinality(Came \cup {r}) = N
    <3> HIDE DEF N, Counted, Came
    <3> QED BY <1>3, <1>5, <1>8, <1>9, SomeReaders
  <2>2. Came \cup {r} = Readers
    <3>1. Came \cup {r} \in SUBSET Readers
      BY <1>4
    <3> QED BY <2>1, <3>1, ReadersCounted
  <2>3. \A q \in Readers \ {r} : pc'[q] \in {"wait canRead", "finished"}
    BY <1>2, <1>6, <2>2 DEF Came, CameLabels
  <2>4. /\ pc'[r] = "reset allRead" /\ allRead' /\ ~canRead' /\ ~canWrite'
        /\ pc'[Writer] \in Outside /\ (msgnum = memory)' /\ countread' = 0
    BY <1>0, <1>1, <1>2, <1>9 DEF Gathering, events
  <2> QED BY <1>7, <1>9, <2>3, <2>4 DEF Closing, Phases, At
<1>10. CASE countready' # 0
  <2>1. Came' = Came \cup {r}
    BY <1>2, <1>10 DEF Came, CameLabels
  <2>2. Counted' = Counted + 1
    <3>1. CASE program = "threads"
      <4>1. Counted = countready /\ Counted' = countready' /\ countready' = (countready + 1) % N
        BY <1>0, <3>1, SomeReaders DEF Counted, CountReady, Programs
      <4>2. countready' = IF Counted + 1 = N THEN 0 ELSE Counted + 1
        BY <1>3, <4>1, CountUp
      <4> QED BY <1>10, <4>1, <4>2
    <3>2. CASE program = "processes"
      <4>1. Counted = N - countready /\ countready' = countready - 1 /\ countready \in Int
            /\ Counted' = N - countready'
        BY <1>0, <3>2 DEF Counted, CountReady, Types, N
      <4> HIDE DEF N, Counted
      <4> QED BY <4>1, SomeReaders
    <3> QED BY <3>1, <3>2 DEF Types, Programs
  <2>3. Counted' \in 0 .. N - 1 /\ Counted' <= Cardinality(Came')
    <3> HIDE DEF N, Counted, Came
    <3> QED BY <1>3, <1>5, <1>8, <1>10, <2>1, <2>2, SomeReaders
  <2>4. \A q \in Readers : pc'[q] \in {"loop", "wait allRead", "wait ready", "ready",
                                   "release count"} \cup CameLabels
    BY <1>1, <1>2, <1>10 DEF CameLabels, Gathering
  <2> QED BY <1>0, <1>1, <1>2, <1>7, <2>3, <2>4 DEF Gathering, Phases, events
<1> QED BY <1>9, <1>10

(* The last one closes the boundary and calls the writer.                  *)
LEMMA ClosingKeeps ==
  ASSUME Types, Phases, NEW r \in Readers, ResetAllRead(r) \/ SetCanWrite(r)
  PROVE  Phases'
<1>0. /\ pc[r] \in {"reset allRead", "set canWrite"} /\ pc[r] # "finished"
      /\ UNCHANGED <<canRead, countread, countready, memory, msgnum, program, times>>
  BY DEF ResetAllRead, SetCanWrite, Step, At, main, history, counters
<1>1. /\ pc[r] \in {"reset allRead", "set canWrite"} /\ allRead = At(r, "reset allRead")
      /\ ~canRead /\ ~canWrite /\ pc[Writer] \in Outside
      /\ \A q \in Readers \ {r} : pc[q] \in {"wait canRead", "finished"}
      /\ AllRead /\ msgnum = memory
      /\ countread = 0 /\ countready = 0
  <2>1. Closing
    BY <1>0, ReaderPhase
  <2> QED BY <1>0, <2>1 DEF Closing
<1>2. AllRead'
  BY <1>0, <1>1 DEF AllRead
<1>3. CASE ResetAllRead(r)
  <2>1. /\ pc[r] = "reset allRead" /\ GoTo(r, "set canWrite") /\ allRead' = FALSE
        /\ UNCHANGED canWrite
    BY <1>3 DEF ResetAllRead, Step, At
  <2>2. /\ pc'[r] = "set canWrite" /\ pc'[Writer] = pc[Writer]
        /\ \A q \in Readers : q # r => pc'[q] = pc[q]
    BY <2>1, OneMoves, Names
  <2> QED BY <1>0, <1>1, <1>2, <2>1, <2>2 DEF Closing, Phases, At
<1>4. CASE SetCanWrite(r)
  <2>1. /\ pc[r] = "set canWrite" /\ GoTo(r, "release ready") /\ canWrite'
        /\ UNCHANGED allRead
    BY <1>4 DEF SetCanWrite, Step, At
  <2>2. /\ pc'[r] = "release ready" /\ pc'[Writer] = pc[Writer]
        /\ \A q \in Readers : q # r => pc'[q] = pc[q]
    BY <2>1, OneMoves, Names
  <2>3. AllCame'
    BY <1>1, <2>2 DEF AllCame, CameLabels
  <2> QED BY <1>0, <1>1, <1>2, <2>1, <2>2, <2>3 DEF Called, Phases, At
<1> QED BY <1>3, <1>4
-----------------------------------------------------------------------------
(* A reader that reads has read the message in memory.                     *)
LEMMA ReadKeeps ==
  ASSUME Types, Phases, NEW r \in Readers, Read(r)
  PROVE  Phases'
<1>0. /\ pc[r] = "read" /\ GoTo(r, "wait count") /\ UNCHANGED <<events, counters, memory, msgnum, program>>
      /\ times' = [times EXCEPT ![r] = Successor(times[r])]
  BY DEF Read, Step, At, main, Successor
<1>1. Reading
  BY <1>0, ReaderPhase
<1>2. /\ pc'[r] = "wait count" /\ pc'[Writer] = pc[Writer]
      /\ \A q \in Readers : q # r => pc'[q] = pc[q]
  BY <1>0, OneMoves, Names
<1>3. Successor(times[r]) = memory
  BY <1>0, <1>1 DEF Reading
<1>4. /\ times'[r] = memory
      /\ \A q \in Readers : q # r => times'[q] = times[q]
  BY <1>0, <1>3 DEF Types
<1>5. times[r] # memory
  BY <1>3, OtherNumber DEF Types
<1>6. Unread' = Unread
  BY <1>0, <1>2, <1>4, <1>5 DEF Unread
<1>7. \A q \in Readers :
       \/ /\ pc'[q] \in {"release ready", "wait canRead", "read"}
          /\ Successor(times'[q]) = memory
       \/ /\ pc'[q] \in {"wait count", "count", "release count", "loop", "wait allRead"}
          /\ times'[q] = memory
       \/ /\ pc'[q] = "finished"
          /\ times'[q] = memory \/ Successor(times'[q]) = memory
  <2> TAKE q \in Readers
  <2>1. CASE q = r
    BY <1>2, <1>4, <2>1
  <2>2. CASE q # r
    BY <1>1, <1>2, <1>4, <2>2 DEF Reading
  <2> QED BY <2>1, <2>2
<1>8. (\A q \in Readers :
       \/ /\ pc[q] \in {"release ready", "wait canRead", "read"}
          /\ Successor(times[q]) = memory
       \/ /\ pc[q] \in {"wait count", "count", "release count", "loop", "wait allRead"}
          /\ times[q] = memory
       \/ /\ pc[q] = "finished"
          /\ times[q] = memory \/ Successor(times[q]) = memory)'
  BY <1>0, <1>7 DEF Successor
<1> QED BY <1>0, <1>1, <1>2, <1>6, <1>8
        DEF Reading, Phases, events, counters, Uncounted

(* The last reader that counts its reading closes canRead.                 *)
LEMMA CountReadKeeps ==
  ASSUME Types, Locked, Phases, NEW r \in Readers, CountRead(r)
  PROVE  Phases'
<1> DEFINE label == IF countread = 1 THEN "reset canRead" ELSE "release count"
<1>0. /\ pc[r] = "count" /\ GoTo(r, label) /\ countread' = countread - 1
      /\ UNCHANGED <<events, countready, memory, msgnum, program, times>>
  BY DEF CountRead, Step, At, main, history
<1>1. Reading
  BY <1>0, ReaderPhase
<1>2. /\ pc'[r] = label /\ pc'[Writer] = pc[Writer]
      /\ \A q \in Readers : q # r => pc'[q] = pc[q]
  BY <1>0, OneMoves, Names
<1>3. times[r] = memory
  BY <1>0, <1>1 DEF Reading
<1>4. r \in Unread /\ Unread \in SUBSET Readers
  BY <1>0 DEF Unread
<1>5. Unread' = Unread \ {r}
  BY <1>0, <1>2, <1>3 DEF Unread
<1>6. Cardinality(Unread \ {r}) = Cardinality(Unread) - 1 /\ countread = Cardinality(Unread)
  BY <1>1, <1>4, OneLess DEF Reading
<1>7. countread' = Cardinality(Unread')
  BY <1>0, <1>5, <1>6
<1>8. \A q \in Readers : q # r => pc[q] \notin {"release ready", "release count"}
  BY <1>0, Names DEF Locked, LockLabels, ReadyLabels, CountLabels
<1>9. CASE countread = 1
  <2>1. Unread \ {r} = {}
    <3>1. Cardinality(Unread \ {r}) = 0 /\ Unread \ {r} \in SUBSET Readers
      BY <1>4, <1>6, <1>9
    <3> QED BY <3>1, ReadersCounted
  <2>2. \A q \in Readers : q # r => times[q] = memory /\ pc[q] \notin {"wait count", "count"}
    <3>1. \A q \in Readers : q # r => q \notin Unread
      BY <2>1
    <3> QED BY <3>1 DEF Unread
  <2>3. \A q \in Readers : Successor(times[q]) # times[q]
    BY OtherNumber DEF Types
  <2>4. \A q \in Readers \ {r} : pc'[q] \in {"loop", "wait allRead", "finished"}
    BY <1>1, <1>2, <1>8, <2>2, <2>3 DEF Reading
  <2>5. AllRead'
    BY <1>0, <1>3, <2>2 DEF AllRead
  <2>6. countread' = 0
    <3>1. countread' = countread - 1
      BY <1>0
    <3> QED BY <1>9, <3>1
  <2>7. /\ pc'[r] = "reset canRead" /\ canRead' = canRead /\ canRead
        /\ ~allRead' /\ ~canWrite' /\ pc'[Writer] \in Outside
        /\ (msgnum = memory)' /\ (countready = Uncounted)'
    BY <1>0, <1>1, <1>2, <1>9 DEF Reading, Uncounted, events
  <2>8. canRead' = At(r, "reset canRead")'
    BY <2>7 DEF At, Types
  <2> QED BY <2>4, <2>5, <2>6, <2>7, <2>8 DEF Opening, Phases
<1>10. CASE countread # 1
  <2>1. \A q \in Readers :
       \/ /\ pc'[q] \in {"release ready", "wait canRead", "read"}
          /\ Successor(times[q]) = memory
       \/ /\ pc'[q] \in {"wait count", "count", "release count", "loop", "wait allRead"}
          /\ times[q] = memory
       \/ /\ pc'[q] = "finished"
          /\ times[q] = memory \/ Successor(times[q]) = memory
    <3> TAKE q \in Readers
    <3>1. CASE q = r
      BY <1>2, <1>3, <1>10, <3>1
    <3>2. CASE q # r
      BY <1>1, <1>2, <3>2 DEF Reading
    <3> QED BY <3>1, <3>2
  <2> QED BY <1>0, <1>1, <1>2, <1>7, <2>1
          DEF Reading, Phases, events, Uncounted, Successor
<1> QED BY <1>9, <1>10

(* The last one closes canRead and opens the boundary.                     *)
LEMMA OpeningKeeps ==
  ASSUME Types, Phases, NEW r \in Readers, ResetCanRead(r) \/ SetAllRead(r)
  PROVE  Phases'
<1>0. /\ pc[r] \in {"reset canRead", "set allRead"}
      /\ UNCHANGED <<canWrite, countread, countready, memory, msgnum, program, times>>
  BY DEF ResetCanRead, SetAllRead, Step, At, main, history, counters
<1>1. /\ pc[r] \in {"reset canRead", "set allRead"} /\ canRead = At(r, "reset canRead")
      /\ ~allRead /\ ~canWrite /\ pc[Writer] \in Outside
      /\ \A q \in Readers \ {r} : pc[q] \in {"loop", "wait allRead", "finished"}
      /\ AllRead /\ msgnum = memory
      /\ countread = 0 /\ countready = Uncounted
  <2>1. Opening
    BY <1>0, ReaderPhase
  <2> QED BY <1>0, <2>1 DEF Opening
<1>2. AllRead' /\ (countready = Uncounted)'
  BY <1>0, <1>1 DEF AllRead, Uncounted
<1>3. CASE ResetCanRead(r)
  <2>1. /\ pc[r] = "reset canRead" /\ GoTo(r, "set allRead") /\ canRead' = FALSE
        /\ UNCHANGED allRead
    BY <1>3 DEF ResetCanRead, Step, At
  <2>2. /\ pc'[r] = "set allRead" /\ pc'[Writer] = pc[Writer]
        /\ \A q \in Readers : q # r => pc'[q] = pc[q]
    BY <2>1, OneMoves, Names
  <2> QED BY <1>0, <1>1, <1>2, <2>1, <2>2 DEF Opening, Phases, At
<1>4. CASE SetAllRead(r)
  <2>1. /\ pc[r] = "set allRead" /\ GoTo(r, "release count") /\ allRead'
        /\ UNCHANGED canRead
    BY <1>4 DEF SetAllRead, Step, At
  <2>2. /\ pc'[r] = "release count" /\ pc'[Writer] = pc[Writer]
        /\ \A q \in Readers : q # r => pc'[q] = pc[q]
    BY <2>1, OneMoves, Names
  <2>3. Counted' = 0
    <3>1. countready' = Uncounted' /\ program' \in Programs
      BY <1>0, <1>2 DEF Types
    <3> QED BY <3>1, SomeReaders DEF Counted, Uncounted, Programs, N
  <2>4. Cardinality(Came)' \in 0 .. N
    <3>1. Came' \in SUBSET Readers
      BY DEF Came
    <3> QED BY <3>1, ReadersCounted
  <2>5. Counted' \in 0 .. N - 1 /\ Counted' <= Cardinality(Came)'
    <3> HIDE DEF N, Counted, Came
    <3> QED BY <2>3, <2>4, SomeReaders
  <2>6. \A q \in Readers : pc'[q] \in {"loop", "wait allRead", "wait ready", "ready",
                                   "release count"} \cup CameLabels
    BY <1>1, <2>2 DEF CameLabels
  <2> QED BY <1>0, <1>1, <1>2, <2>1, <2>2, <2>5, <2>6 DEF Gathering, Phases, At
<1> QED BY <1>3, <1>4
-----------------------------------------------------------------------------
(* The steps of the writer.                                                *)
LEMMA WriterOutsideKeeps ==
  ASSUME Types, Phases, LoopTest(Writer, "wait canWrite") \/ WaitCanWrite
  PROVE  Phases'
<1>0. UNCHANGED <<program, allRead, canRead, countread, countready, memory, msgnum, times>>
  BY DEF LoopTest, WaitCanWrite, main, events, counters, history
<1>1. PICK label :
        /\ GoTo(Writer, label)
        /\ \/ label \in Outside /\ canWrite' = canWrite
           \/ label = "number" /\ canWrite /\ ~canWrite'
  <2>1. CASE LoopTest(Writer, "wait canWrite")
    <3>1. canWrite' = canWrite
      BY <2>1 DEF LoopTest, events
    <3>2. \E label \in {"finished", "wait canWrite"} : GoTo(Writer, label)
      BY <2>1 DEF LoopTest
    <3> QED BY <3>1, <3>2 DEF Outside
  <2>2. CASE WaitCanWrite /\ exit
    <3>1. canWrite' = canWrite
      BY <2>2, Zenon DEF WaitCanWrite, Types
    <3>2. GoTo(Writer, "finished")
      BY <2>2 DEF WaitCanWrite, WaitExitOr
    <3> QED BY <3>1, <3>2 DEF Outside
  <2>3. CASE WaitCanWrite /\ ~exit
    <3>1. canWrite /\ ~canWrite'
      BY <2>3 DEF WaitCanWrite, WaitExitOr
    <3>2. GoTo(Writer, "number")
      BY <2>3 DEF WaitCanWrite, WaitExitOr
    <3> QED BY <3>1, <3>2
  <2> QED BY <2>1, <2>2, <2>3
<1>2. pc'[Writer] = label /\ \A r \in Readers : pc'[r] = pc[r]
  BY <1>1, OneMoves, Names
<1>3. pc[Writer] \in Outside
  BY DEF LoopTest, WaitCanWrite, At, Outside
<1>4. (AllRead <=> AllRead') /\ (AllCame <=> AllCame') /\ Uncounted' = Uncounted
      /\ Counted' = Counted /\ Came' = Came /\ Unread' = Unread
  BY <1>0, <1>2 DEF AllRead, AllCame, Uncounted, Counted, Came, Unread
<1>5. CASE label = "number"
  <2>1. canWrite /\ ~canWrite'
    BY <1>1, <1>5 DEF Outside
  <2>2. Called
    BY <2>1, WriterPhase
  <2> QED BY <1>0, <1>2, <1>4, <1>5, <2>1, <2>2 DEF Called, Writing, Phases, At
<1>6. CASE label \in Outside /\ canWrite' = canWrite
  <2>1. Gathering => Gathering'
    BY <1>0, <1>2, <1>4, <1>6 DEF Gathering
  <2>2. Closing => Closing'
    BY <1>0, <1>2, <1>4, <1>6 DEF Closing, At
  <2>3. Called => Called'
    BY <1>0, <1>2, <1>4, <1>6 DEF Called
  <2>4. ~Writing
    BY <1>3 DEF Writing, Outside, At
  <2>5. Reading => Reading'
    BY <1>0, <1>2, <1>4, <1>6 DEF Reading, Successor
  <2>6. Opening => Opening'
    BY <1>0, <1>2, <1>4, <1>6 DEF Opening, At
  <2> QED BY <2>1, <2>2, <2>3, <2>4, <2>5, <2>6 DEF Phases
<1> QED BY <1>1, <1>5, <1>6

(* The message after one that all have read is one that none has read.     *)
LEMMA NewMessage ==
  ASSUME Types, AllRead, UNCHANGED times, memory' = Successor(memory)
  PROVE  NoneRead'
BY DEF AllRead, NoneRead, Successor

(* The writer's steps from its call to canRead.                            *)
LEMMA WriterInsideKeeps ==
  ASSUME Types, Phases, pc[Writer] \notin Outside, WriterThread
  PROVE  Phases'
<1>0. Writing
  BY WriterPhase
<1>1. ASSUME NEW label, GoTo(Writer, label)
      PROVE  pc'[Writer] = label /\ \A r \in Readers : pc'[r] = pc[r]
  BY <1>1, OneMoves, Names
<1>2. ASSUME NEW label, GoTo(Writer, label) PROVE AllCame'
  BY <1>0, <1>1, <1>2 DEF Writing, AllCame
<1>3. CASE program = "threads" /\ SetCountRead
  <2>0. pc[Writer] = "number" /\ GoTo(Writer, "write") /\ program = "threads"
        /\ UNCHANGED <<program, allRead, canRead, canWrite, countready, memory, times>>
        /\ countread' = numOfReaders /\ msgnum' = Successor(msgnum)
    BY <1>3 DEF SetCountRead, Step, At, main, events, history, Successor
  <2>1. AllCame' /\ pc'[Writer] = "write"
    BY <1>1, <1>2, <2>0
  <2>2. ~allRead /\ ~canRead /\ ~canWrite /\ AllRead /\ msgnum = memory /\ countready = 0
    BY <1>0, <2>0 DEF Writing, At
  <2>3. AllRead' /\ (msgnum = Successor(memory))'
    BY <2>0, <2>2 DEF AllRead, Successor
  <2>4. countread' = N
    BY <2>0, SomeReaders
  <2> QED BY <2>0, <2>1, <2>2, <2>3, <2>4 DEF Writing, Phases, At, N
<1>4. CASE program = "threads" /\ WriteMessage
  <2>0. pc[Writer] = "write" /\ GoTo(Writer, "set canRead") /\ program = "threads"
        /\ UNCHANGED <<program, allRead, canRead, canWrite, countread, countready, msgnum, times>>
        /\ memory' = msgnum
    BY <1>4 DEF WriteMessage, Step, At, main, events, counters, history
  <2>1. AllCame' /\ pc'[Writer] = "set canRead"
    BY <1>1, <1>2, <2>0
  <2>2. ~allRead /\ ~canRead /\ ~canWrite /\ AllRead /\ msgnum = Successor(memory)
        /\ countready = 0 /\ countread = N
    BY <1>0, <2>0 DEF Writing, At
  <2>3. NoneRead'
    BY <2>0, <2>2, NewMessage
  <2>4. Uncounted' = 0
    BY <2>0 DEF Uncounted
  <2> QED BY <2>0, <2>1, <2>2, <2>3, <2>4 DEF Writing, Phases, At, N
<1>5. CASE program = "processes" /\ NumberAndWrite
  <2>0. pc[Writer] = "number" /\ GoTo(Writer, "wait change") /\ program = "processes"
        /\ UNCHANGED <<program, allRead, canRead, canWrite, countread, countready, times>>
        /\ msgnum' = Successor(msgnum) /\ memory' = msgnum'
    BY <1>5 DEF NumberAndWrite, Step, At, main, events, counters, history, Successor
  <2>1. AllCame' /\ pc'[Writer] = "wait change"
    BY <1>1, <1>2, <2>0
  <2>2. ~allRead /\ ~canRead /\ ~canWrite /\ AllRead /\ msgnum = memory
        /\ countready = 0 /\ countread = 0
    BY <1>0, <2>0 DEF Writing, At
  <2>3. NoneRead'
    BY <2>0, <2>2, NewMessage
  <2> QED BY <2>0, <2>1, <2>2, <2>3 DEF Writing, Phases, At
<1>6. CASE program = "processes" /\ WriterTakes
  <2>0. pc[Writer] = "wait change" /\ GoTo(Writer, "add") /\ program = "processes"
        /\ UNCHANGED <<program, allRead, canRead, canWrite, countread, countready, memory, msgnum, times>>
    BY <1>6 DEF WriterTakes, Step, At, main, counters, history
  <2>1. AllCame' /\ pc'[Writer] = "add"
    BY <1>1, <1>2, <2>0
  <2>2. ~allRead /\ ~canRead /\ ~canWrite /\ NoneRead /\ msgnum = memory
        /\ countready = 0 /\ countread = 0
    BY <1>0, <2>0 DEF Writing, At
  <2>3. NoneRead'
    BY <2>0, <2>2 DEF NoneRead, Successor
  <2> QED BY <2>0, <2>1, <2>2, <2>3 DEF Writing, Phases, At
<1>7. CASE program = "processes" /\ AddReaders
  <2>0. pc[Writer] = "add" /\ GoTo(Writer, "give") /\ program = "processes"
        /\ UNCHANGED <<program, allRead, canRead, canWrite, memory, msgnum, times>>
    BY <1>7 DEF AddReaders, Step, At, main, events, history
  <2>1. AllCame' /\ pc'[Writer] = "give"
    BY <1>1, <1>2, <2>0
  <2>2. ~allRead /\ ~canRead /\ ~canWrite /\ NoneRead /\ msgnum = memory
        /\ countready = 0 /\ countread = 0
    BY <1>0, <2>0 DEF Writing, At
  <2>3. NoneRead'
    BY <2>0, <2>2 DEF NoneRead, Successor
  <2>4. countread' = N /\ countready' = Uncounted'
    <3>1. countread' = countread + numOfReaders /\ countready' = countready + numOfReaders
      BY <1>7 DEF AddReaders
    <3>2. Uncounted' = N
      BY <2>0 DEF Uncounted, N
    <3> QED BY <2>2, <3>1, <3>2, SomeReaders
  <2> QED BY <2>0, <2>1, <2>2, <2>3, <2>4 DEF Writing, Phases, At, N
<1>8. CASE program = "processes" /\ WriterGives
  <2>0. pc[Writer] = "give" /\ GoTo(Writer, "set canRead") /\ program = "processes"
        /\ UNCHANGED <<program, allRead, canRead, canWrite, countread, countready, memory, msgnum, times>>
    BY <1>8 DEF WriterGives, Step, At, main, counters, history
  <2>1. AllCame' /\ pc'[Writer] = "set canRead"
    BY <1>1, <1>2, <2>0
  <2>2. ~allRead /\ ~canRead /\ ~canWrite /\ NoneRead /\ msgnum = memory
        /\ countready = Uncounted /\ countread = N
    BY <1>0, <2>0 DEF Writing, At
  <2>3. NoneRead' /\ (countready = Uncounted)'
    BY <2>0, <2>2 DEF NoneRead, Successor, Uncounted
  <2> QED BY <2>0, <2>1, <2>2, <2>3 DEF Writing, Phases, At, N
<1>9. CASE SetCanRead
  <2>0. pc[Writer] = "set canRead" /\ GoTo(Writer, "loop") /\ canRead' = TRUE
        /\ UNCHANGED <<program, allRead, canWrite, countread, countready, memory, msgnum, times>>
    BY <1>9 DEF SetCanRead, Step, At, main, counters, history
  <2>1. AllCame /\ pc'[Writer] = "loop" /\ \A r \in Readers : pc'[r] = pc[r]
    BY <1>0, <1>1, <2>0 DEF Writing
  <2>2. ~allRead /\ ~canWrite /\ NoneRead /\ msgnum = memory
        /\ countready = Uncounted /\ countread = N
    BY <1>0, <2>0 DEF Writing, At
  <2>3. (countready = Uncounted)'
    BY <2>0, <2>2 DEF Uncounted
  <2>4. \A r \in Readers : times[r] # memory
    BY <2>2, OtherNumber DEF NoneRead, Types
  <2>5. Unread' = Readers
    BY <2>0, <2>4 DEF Unread
  <2>6. countread' = Cardinality(Unread')
    BY <2>0, <2>2, <2>5, SomeReaders
  <2>7. \A r \in Readers :
          pc'[r] \in {"release ready", "wait canRead", "finished"} /\ (Successor(times[r]) = memory)'
    BY <2>0, <2>1, <2>2 DEF AllCame, CameLabels, NoneRead, Successor
  <2> QED BY <2>0, <2>1, <2>2, <2>3, <2>6, <2>7 DEF Reading, Phases, Outside
<1>10. ~LoopTest(Writer, "wait canWrite") /\ ~WaitCanWrite
  BY DEF LoopTest, WaitCanWrite, At, Outside
<1> QED BY <1>3, <1>4, <1>5, <1>6, <1>7, <1>8, <1>9, <1>10
        DEF WriterThread, ThreadWriter, ProcessWriter
-----------------------------------------------------------------------------
(* Every step of a reader keeps the phases.                                *)
LEMMA ReaderKeeps ==
  ASSUME Types, Locked, Phases, NEW r \in Readers, Reader(r)
  PROVE  Phases'
<1> USE DEF Step, At, events, counters, main, history
<1>1. CASE LoopTest(r, "wait allRead")
  <2>1. \E label \in {"finished", "wait allRead"} : GoTo(r, label)
    BY <1>1 DEF LoopTest
  <2>2. pc[r] = "loop" /\ Calm
    BY <1>1 DEF LoopTest, Calm
  <2> QED BY <2>1, <2>2, CalmReader DEF CalmStep
<1>2. CASE LoopAgain(r)
  BY <1>2, CalmReader DEF LoopAgain, CalmStep, Calm
<1>3. CASE WaitAllRead(r)
  BY <1>3, CalmReader DEF WaitAllRead, CalmStep, Calm
<1>4. CASE WaitReady(r)
  BY <1>4, CalmReader DEF WaitReady, CalmStep, Calm
<1>5. CASE ReleaseReady(r)
  BY <1>5, CalmReader DEF ReleaseReady, CalmStep, Calm
<1>6. CASE WaitCanRead(r)
  <2>1. pc[r] = "wait canRead" /\ Calm
    BY <1>6 DEF WaitCanRead, Calm
  <2>2. \/ GoTo(r, "finished")
        \/ canRead /\ GoTo(r, "read")
    BY <1>6 DEF WaitCanRead, WaitExitOr
  <2> QED BY <2>1, <2>2, CalmReader DEF CalmStep
<1>7. CASE WaitCount(r)
  BY <1>7, CalmReader DEF WaitCount, CalmStep, Calm
<1>8. CASE ReleaseCount(r)
  BY <1>8, CalmReader DEF ReleaseCount, CalmStep, Calm
<1> QED BY <1>1, <1>2, <1>3, <1>4, <1>5, <1>6, <1>7, <1>8, CountReadyKeeps,
           ClosingKeeps, ReadKeeps, CountReadKeeps, OpeningKeeps
        DEF Reader, ThreadReader, ProcessReader, Round

(* The manager and the joining thread change nothing of a phase.           *)
LEMMA OthersKeep ==
  ASSUME Types, Phases, TimeManager \/ Join \/ UNCHANGED vars
  PROVE  Phases'
<1>1. UNCHANGED <<program, allRead, canRead, canWrite, countread, countready, memory,
                  msgnum, times>>
  BY DEF TimeManager, RaiseDone, SetExit, Join, vars, main, events, counters, history
<1>2. pc'[Writer] = pc[Writer] /\ \A r \in Readers : pc'[r] = pc[r]
  <2>1. CASE TimeManager
    BY <2>1, OneMoves, Names DEF TimeManager, RaiseDone, SetExit, Step
  <2>2. CASE Join \/ UNCHANGED vars
    BY <2>2 DEF Join, vars
  <2> QED BY <2>1, <2>2
<1>3. (AllRead <=> AllRead') /\ (AllCame <=> AllCame') /\ Uncounted' = Uncounted
      /\ Counted' = Counted /\ Came' = Came /\ Unread' = Unread
  BY <1>1, <1>2 DEF AllRead, AllCame, Uncounted, Counted, Came, Unread
<1>4. (NoneRead <=> NoneRead') /\ Successor(memory)' = Successor(memory)
  BY <1>1 DEF NoneRead, Successor
<1>5. Gathering => Gathering'
  BY <1>1, <1>2, <1>3 DEF Gathering
<1>6. Closing => Closing'
  BY <1>1, <1>2, <1>3 DEF Closing, At
<1>7. Called => Called'
  BY <1>1, <1>2, <1>3 DEF Called
<1>8. Writing => Writing'
  BY <1>1, <1>2, <1>3, <1>4 DEF Writing, At
<1>9. Reading => Reading'
  BY <1>1, <1>2, <1>3 DEF Reading, Successor
<1>10. Opening => Opening'
  BY <1>1, <1>2, <1>3 DEF Opening, At
<1> QED BY <1>5, <1>6, <1>7, <1>8, <1>9, <1>10 DEF Phases

(* Every step keeps the invariant.                                         *)
LEMMA InvKept == Inv /\ [Next]_vars => Inv'
<1> SUFFICES ASSUME Types, Locked, Phases, [Next]_vars PROVE Phases'
  BY TypesKept, LockKept DEF Inv
<1>1. CASE \E r \in Readers : Reader(r)
  BY <1>1, ReaderKeeps
<1>2. CASE WriterThread
  <2>1. CASE pc[Writer] \in Outside
    <3>1. LoopTest(Writer, "wait canWrite") \/ WaitCanWrite
      BY <1>2, <2>1 DEF WriterThread, ThreadWriter, ProcessWriter, SetCountRead, WriteMessage,
         NumberAndWrite, WriterTakes, AddReaders, WriterGives, SetCanRead, Step, At, Outside
    <3> QED BY <3>1, WriterOutsideKeeps
  <2>2. CASE pc[Writer] \notin Outside
    BY <1>2, <2>2, WriterInsideKeeps
  <2> QED BY <2>1, <2>2
<1>3. CASE TimeManager \/ Join \/ UNCHANGED vars
  BY <1>3, OthersKeep
<1> QED BY <1>1, <1>2, <1>3 DEF Next

(* Every state is in one of the phases.                                    *)
LEMMA Invariance == Spec => []Inv
<1> QED BY StartTyped, InvKept, PTL DEF Spec
-----------------------------------------------------------------------------
(* In each of the phases the counters are between 0 and the number of      *)
(* readers.                                                                *)
LEMMA InvTyped == Inv => TypeOK
<1> SUFFICES ASSUME Inv PROVE TypeOK
  OBVIOUS
<1>1. Cardinality(Unread) \in 0 .. N
  <2>1. Unread \in SUBSET Readers
    BY DEF Unread
  <2> QED BY <2>1, ReadersCounted
<1>2. countread \in 0 .. N
  <2>1. countread \in {0, N, Cardinality(Unread)}
    BY DEF Inv, Phases, Gathering, Closing, Called, Writing, Reading, Opening
  <2> HIDE DEF N, Unread
  <2> QED BY <1>1, <2>1, SomeReaders
<1>3. countready \in 0 .. N
  <2>1. Uncounted \in 0 .. N
    BY SomeReaders DEF Uncounted
  <2>2. Counted \in 0 .. N - 1 => countready \in 0 .. N
    <3>1. countready \in Int /\ N \in Nat
      BY SomeReaders DEF Inv, Types
    <3>2. Counted = countready \/ Counted = N - countready
      BY DEF Counted
    <3> HIDE DEF N, Counted
    <3> QED BY <3>1, <3>2
  <2>3. 0 \in 0 .. N
    BY SomeReaders
  <2> QED BY <2>1, <2>2, <2>3
          DEF Inv, Phases, Gathering, Closing, Called, Writing, Reading, Opening
<1> QED BY <1>2, <1>3 DEF Inv, Types, TypeOK, N

(* The lock of the counters and the phase Writing keep them to one process.*)
LEMMA InvGuards == Inv => CountersGuarded
<1> SUFFICES ASSUME Inv PROVE CountersGuarded
  OBVIOUS
<1>1. \A s, t \in Counting : s = t
  BY DEF Inv, Locked, Counting, LockLabels
<1>2. ASSUME At(Writer, "number"), NEW r \in Readers PROVE pc[r] \notin {"wait count", "count"}
  <2>1. Writing
    BY <1>2, WriterPhase DEF Inv, At, Outside
  <2> QED BY <2>1 DEF Writing, AllCame, CameLabels
<1> QED BY <1>1, <1>2 DEF CountersGuarded

(* While the writer writes the readers are where they came to.             *)
LEMMA InvWrites == Inv => NoReadDuringWrite
<1> SUFFICES ASSUME Inv, pc[Writer] \notin Outside, NEW r \in Readers PROVE ~At(r, "read")
  BY DEF NoReadDuringWrite, Outside
<1>1. Writing
  BY WriterPhase DEF Inv
<1> QED BY <1>1 DEF Writing, AllCame, CameLabels, At

(* canRead is set in the phase Reading, and in Opening before its reset.   *)
LEMMA InvCounts == Inv => CountreadIsExact
<1> SUFFICES ASSUME Inv, canRead PROVE countread = Cardinality(Unread)
  BY DEF CountreadIsExact, Unread
<1>1. CASE Reading
  BY <1>1 DEF Reading
<1>2. CASE Opening
  <2>1. Unread = {}
    BY <1>2 DEF Opening, Unread, AllRead
  <2>2. countread = 0
    BY <1>2 DEF Opening
  <2> QED BY <2>1, <2>2, FS_EmptySet
<1>3. Reading \/ Opening
  BY DEF Inv, Phases, Gathering, Closing, Called, Writing
<1> QED BY <1>1, <1>2, <1>3

(* For any number of readers the counters stay between 0 and it, and       *)
(* changeCount works as a lock: two processes never change the counters at *)
(* a time, and the writer of the threads, that takes no lock, sets         *)
(* countread when no reader is counting.                                   *)
THEOREM CountersAreGuarded == Spec => [](TypeOK /\ CountersGuarded)
<1> QED BY InvTyped, InvGuards, Invariance, PTL

(* Nobody reads the message while the writer is between the event that let *)
(* it write and the one by which it lets the readers read.                 *)
THEOREM NobodyReadsDuringAWriting == Spec => []NoReadDuringWrite
<1> QED BY InvWrites, Invariance, PTL

(* While the readers may read, countread is the number of those that have  *)
(* still to read the message or to count that they have.                   *)
THEOREM CountreadCountsTheUnread == Spec => []CountreadIsExact
<1> QED BY InvCounts, Invariance, PTL

(* A step of the program is a writing or a reading of the shared cell, or  *)
(* leaves the cell alone.                                                  *)
LEMMA CellStep == Inv /\ [Next]_vars => [Cell!Next]_(Cell!vars)
<1> SUFFICES ASSUME Inv, [Next]_vars PROVE [Cell!Next]_(Cell!vars)
  OBVIOUS
<1> USE DEF Cell!vars
<1>1. ASSUME NEW r \in Readers, Read(r) PROVE Cell!Next
  <2>1. pc[r] = "read" /\ times' = [times EXCEPT ![r] = (@ + 1) % MsgNums]
        /\ got' = [got EXCEPT ![r] = memory] /\ UNCHANGED memory
    BY <1>1 DEF Read, Step, At
  <2>2. Reading
    BY <2>1, ReaderPhase DEF Inv
  <2>3. times[r] # memory
    <3>1. Successor(times[r]) = memory
      BY <2>1, <2>2 DEF Reading
    <3> QED BY <3>1, OtherNumber DEF Inv, Types
  <2> QED BY <2>1, <2>3 DEF Cell!Next, Cell!Read
<1>2. ASSUME WriteMessage PROVE Cell!Next
  <2>1. At(Writer, "write") /\ memory' = msgnum /\ UNCHANGED <<times, got>>
    BY <1>2 DEF WriteMessage, Step, history
  <2>2. Writing
    BY <2>1, WriterPhase DEF Inv, At, Outside
  <2>3. AllRead /\ msgnum = (memory + 1) % MsgNums
    BY <2>1, <2>2 DEF Writing, At, Successor
  <2> QED BY <2>1, <2>3 DEF Cell!Next, Cell!Write, AllRead
<1>3. ASSUME NumberAndWrite PROVE Cell!Next
  <2>1. At(Writer, "number") /\ memory' = (msgnum + 1) % MsgNums /\ UNCHANGED <<times, got>>
    BY <1>3 DEF NumberAndWrite, Step, history
  <2>2. Writing
    BY <2>1, WriterPhase DEF Inv, At, Outside
  <2>3. AllRead /\ msgnum = memory
    BY <2>1, <2>2 DEF Writing, At
  <2> QED BY <2>1, <2>3 DEF Cell!Next, Cell!Write, AllRead
<1>4. ASSUME UNCHANGED <<memory, times, got>> PROVE [Cell!Next]_(Cell!vars)
  BY <1>4
<1>5. ASSUME NEW r \in Readers, Reader(r), ~Read(r) PROVE UNCHANGED <<memory, times, got>>
  BY <1>5 DEF Reader, ThreadReader, ProcessReader, Round, LoopTest, LoopAgain, WaitAllRead,
     WaitReady, CountReady, ResetAllRead, SetCanWrite, ReleaseReady, WaitCanRead, WaitCount,
     CountRead, ResetCanRead, SetAllRead, ReleaseCount, history
<1>6. ASSUME WriterThread, ~WriteMessage, ~NumberAndWrite PROVE UNCHANGED <<memory, times, got>>
  BY <1>6 DEF WriterThread, ThreadWriter, ProcessWriter, LoopTest, WaitCanWrite, SetCountRead,
     WriterTakes, AddReaders, WriterGives, SetCanRead, history
<1>7. ASSUME TimeManager \/ Join \/ UNCHANGED vars PROVE UNCHANGED <<memory, times, got>>
  BY <1>7 DEF TimeManager, RaiseDone, SetExit, Join, vars, history
<1> QED BY <1>1, <1>2, <1>3, <1>4, <1>5, <1>6, <1>7 DEF Next

(* The programs implement the shared cell: each reader reads each message  *)
(* once, and a message is overwritten when all have read it.               *)
THEOREM EventsImplementBroadcast == Spec => ImplementsBroadcast
<1>1. Init => Cell!Init
  BY DEF Init, Cell!Init
<1> QED BY <1>1, CellStep, Invariance, PTL DEF Spec, ImplementsBroadcast, Cell!Spec
-----------------------------------------------------------------------------
(* The programs without shared memory: one report at a time, the reports   *)
(* counted exactly.  Their events stand in the places of those of the      *)
(* others: changeCount is their canChangeCount, canWrite their changeCount,*)
(* countread their reportCounter.  A state is in one of two phases, in     *)
(* which the readers report that they are ready or that they have read, or *)
(* the writer turns from one to the other.                                 *)
NoMemTypes ==
  /\ canRead \in BOOLEAN /\ allRead \in BOOLEAN /\ exit \in BOOLEAN
  /\ changeCount \in BOOLEAN /\ canWrite \in BOOLEAN /\ isDone \in BOOLEAN
  /\ countread \in 0 .. N - 1
  /\ readyState \in [Readers \cup {Writer} -> BOOLEAN]
  /\ memory \in 0 .. MsgNums - 1 /\ msgnum = memory
  /\ pc \in [NoMem!Threads -> NoMem!ReaderLabels \cup NoMem!WriterLabels \cup {"set exit"}]
  /\ mainpc \in {"join", "done"}
  /\ times \in [Readers -> 0 .. MsgNums - 1]
  /\ got \in [Readers -> 0 .. MsgNums - 1]

(* One of canChangeCount, changeCount, a reader that reports and the writer*)
(* that counts has the token, or nobody.                                   *)
InPhase == pc[Writer] \in NoMem!PhaseLabels
Token ==
  /\ changeCount => ~canWrite /\ ~InPhase
  /\ canWrite => ~InPhase
  /\ \A r \in Readers : NoMem!At(r, "report") =>
       /\ ~changeCount /\ ~canWrite /\ ~InPhase
       /\ \A q \in Readers : NoMem!At(q, "report") => q = r

Reported == {r \in Readers : readyState[r] # readyState[Writer]}
Pending == IF canWrite \/ NoMem!At(Writer, "count") THEN 1 ELSE 0
AllCounted == Cardinality(Reported) = countread + Pending

Between == {"loop", "wait report", "count", "set canChange", "finished"}

Preparing ==
  /\ ~readyState[Writer] /\ allRead /\ ~canRead /\ pc[Writer] \in Between
  /\ \A r \in Readers :
       \/ readyState[r] /\ pc[r] \in {"loop", "finished"}
       \/ ~readyState[r] /\ pc[r] \in {"loop", "wait canChange", "report", "finished"}
  /\ AllRead

TurnToRead ==
  /\ readyState[Writer] /\ ~canRead
  /\ \A r \in Readers : readyState[r] /\ pc[r] \in {"loop", "finished"}
  /\ \/ NoMem!At(Writer, "write") /\ allRead /\ AllRead
     \/ NoMem!At(Writer, "reset getReady") /\ allRead /\ NoneRead
     \/ NoMem!At(Writer, "set canRead") /\ ~allRead /\ NoneRead

ReadingOn ==
  /\ readyState[Writer] /\ ~allRead /\ canRead /\ pc[Writer] \in Between
  /\ \A r \in Readers :
       \/ readyState[r] /\ pc[r] \in {"loop", "read", "finished"} /\ Successor(times[r]) = memory
       \/ readyState[r] /\ pc[r] \in {"wait canChange", "report"} /\ times[r] = memory
       \/ ~readyState[r] /\ pc[r] \in {"loop", "finished"} /\ times[r] = memory

TurnToPrepare ==
  /\ ~readyState[Writer] /\ ~allRead
  /\ \A r \in Readers : ~readyState[r] /\ pc[r] \in {"loop", "finished"}
  /\ \/ NoMem!At(Writer, "reset canRead") /\ canRead
     \/ NoMem!At(Writer, "set getReady") /\ ~canRead
  /\ AllRead

NoMemPhases == Preparing \/ TurnToRead \/ ReadingOn \/ TurnToPrepare

NoMemInv == NoMemTypes /\ Token /\ AllCounted /\ NoMemPhases

(* What the writer does between the phases.                                *)
TurnSteps == \/ NoMem!ResetCanRead \/ NoMem!SetGetReady \/ NoMem!WriteMessage
             \/ NoMem!ResetGetReady \/ NoMem!SetCanRead

-----------------------------------------------------------------------------
(* NoMem has its own copy of what it is built from.                        *)
LEMMA SameCardinality ==
  /\ \A S : NoMem!Cardinality(S) = Cardinality(S)
  /\ NoMem!numOfReaders = N
BY DEF NoMem!Cardinality, Cardinality, NoMem!numOfReaders, numOfReaders, N

(* A step changes the label of one thread.                                 *)
LEMMA NoMemMoves ==
  ASSUME NoMemTypes, NEW t \in NoMem!Threads, NEW label, NoMem!GoTo(t, label)
  PROVE  pc'[t] = label /\ \A u \in NoMem!Threads \ {t} : pc'[u] = pc[u]
BY DEF NoMem!GoTo, NoMemTypes

(* The writer and the manager are no readers and not each other.           *)
LEMMA NoMemNames ==
  /\ Writer \in NoMem!Threads /\ Manager \in NoMem!Threads /\ Writer # Manager
  /\ \A r \in Readers : r \in NoMem!Threads /\ r # Writer /\ r # Manager
BY ConfigAssumption DEF NoMem!Threads

(* A step of a reader changes no other reader's label, nor the writer's.   *)
LEMMA ReaderMoves ==
  ASSUME NoMemTypes, NEW r \in Readers, NEW label, NoMem!GoTo(r, label)
  PROVE  /\ pc'[r] = label /\ pc'[Writer] = pc[Writer]
         /\ \A q \in Readers : q # r => pc'[q] = pc[q]
BY NoMemMoves, NoMemNames

(* A step of the writer changes no reader's label.                         *)
LEMMA WriterMoves ==
  ASSUME NoMemTypes, NEW label, NoMem!GoTo(Writer, label)
  PROVE  pc'[Writer] = label /\ \A r \in Readers : pc'[r] = pc[r]
BY NoMemMoves, NoMemNames

(* A step of the manager changes neither.                                  *)
LEMMA ManagerMoves ==
  ASSUME NoMemTypes, NEW label, NoMem!GoTo(Manager, label)
  PROVE  pc'[Writer] = pc[Writer] /\ \A r \in Readers : pc'[r] = pc[r]
BY NoMemMoves, NoMemNames
-----------------------------------------------------------------------------
(* The programs start in the phase Preparing, nobody having reported.      *)
LEMMA StartsPreparing == NoMem!Init => NoMemInv
<1> SUFFICES ASSUME NoMem!Init PROVE NoMemInv
  OBVIOUS
<1>0. /\ pc[Writer] = "loop" /\ pc[Manager] = "loop" /\ ~readyState[Writer]
      /\ \A r \in Readers : pc[r] = "loop" /\ ~readyState[r]
      /\ readyState \in [Readers \cup {Writer} -> BOOLEAN]
  BY NoMemNames DEF NoMem!Init
<1>1. NoMemTypes
  <2>1. 0 \in 0 .. MsgNums - 1 /\ 0 \in 0 .. N - 1
    BY SomeReaders, WidthAssumption
  <2> QED BY <1>0, <2>1 DEF NoMem!Init, NoMemTypes, NoMem!ReaderLabels, NoMem!WriterLabels
<1>2. Token
  BY <1>0 DEF NoMem!Init, Token, NoMem!At, InPhase, NoMem!PhaseLabels
<1>3. AllCounted
  <2>1. Reported = {}
    BY <1>0 DEF Reported
  <2>2. Pending = 0 /\ countread = 0
    BY <1>0 DEF Pending, NoMem!At, NoMem!Init
  <2> QED BY <2>1, <2>2, FS_EmptySet DEF AllCounted
<1>4. Preparing
  BY <1>0 DEF Preparing, NoMem!Init, AllRead, Between
<1> QED BY <1>1, <1>2, <1>3, <1>4 DEF NoMemInv, NoMemPhases

(* Every step keeps the types.                                             *)
LEMMA NoMemTypesKept == NoMemTypes /\ [NoMem!Next]_(NoMem!vars) => NoMemTypes'
<1> SUFFICES ASSUME NoMemTypes, [NoMem!Next]_(NoMem!vars) PROVE NoMemTypes'
  OBVIOUS
<1> USE DEF NoMem!Step, NoMem!At, NoMem!GoTo, NoMem!ReaderLabels, NoMem!WriterLabels,
        NoMem!PhaseLabels,
            NoMem!phases, NoMem!handshake, NoMem!counting, NoMem!message, NoMem!control
<1>1. ASSUME NEW r \in Readers, NoMem!Reader(r) PROVE NoMemTypes'
  <2>1. CASE NoMem!AwaitPhase(r)
    BY <2>1, NoMemNames DEF NoMem!AwaitPhase, NoMemTypes
  <2>2. CASE NoMem!Read(r)
    <3>1. (times[r] + 1) % MsgNums \in 0 .. MsgNums - 1
      BY OtherNumber DEF NoMemTypes, Successor
    <3> QED BY <2>2, <3>1, NoMemNames DEF NoMem!Read, NoMemTypes
  <2>3. CASE NoMem!WaitCanChange(r)
    BY <2>3, NoMemNames DEF NoMem!WaitCanChange, NoMemTypes
  <2>4. CASE NoMem!Report(r)
    BY <2>4, NoMemNames DEF NoMem!Report, NoMemTypes
  <2> QED BY <1>1, <2>1, <2>2, <2>3, <2>4 DEF NoMem!Reader
<1>2. ASSUME NoMem!WriterThread PROVE NoMemTypes'
  <2>1. CASE NoMem!LoopTest
    BY <2>1, NoMemNames DEF NoMem!LoopTest, NoMemTypes
  <2>2. CASE NoMem!WaitReport
    BY <2>2, NoMemNames DEF NoMem!WaitReport, NoMemTypes
  <2>3. CASE NoMem!CountReport
    <3>1. countread' \in 0 .. N - 1
      <4>1. countread' = IF countread + 1 = N THEN 0 ELSE countread + 1
        BY <2>3, SameCardinality DEF NoMem!CountReport
      <4>2. countread \in 0 .. N - 1
        BY DEF NoMemTypes
      <4> QED BY <4>1, <4>2, SomeReaders
    <3>2. readyState' \in [Readers \cup {Writer} -> BOOLEAN]
      BY <2>3 DEF NoMem!CountReport, NoMemTypes
    <3>3. pc' \in [NoMem!Threads -> NoMem!ReaderLabels \cup NoMem!WriterLabels \cup {"set exit"}]
      BY <2>3, NoMemNames DEF NoMem!CountReport, NoMemTypes
    <3> QED BY <2>3, <3>1, <3>2, <3>3 DEF NoMem!CountReport, NoMemTypes
  <2>4. CASE \/ NoMem!ResetCanRead \/ NoMem!SetGetReady \/ NoMem!ResetGetReady
             \/ NoMem!SetCanRead \/ NoMem!SetCanChange
    BY <2>4, NoMemNames DEF NoMem!ResetCanRead, NoMem!SetGetReady, NoMem!ResetGetReady,
         NoMem!SetCanRead, NoMem!SetCanChange, NoMemTypes
  <2>5. CASE NoMem!WriteMessage
    <3>1. (msgnum + 1) % MsgNums \in 0 .. MsgNums - 1
      BY OtherNumber DEF NoMemTypes, Successor
    <3> QED BY <2>5, <3>1, NoMemNames DEF NoMem!WriteMessage, NoMemTypes
  <2> QED BY <1>2, <2>1, <2>2, <2>3, <2>4, <2>5 DEF TurnSteps, NoMem!WriterThread
<1>3. CASE NoMem!TimeManager
  BY <1>3, NoMemNames DEF NoMem!TimeManager, NoMem!RaiseDone, NoMem!SetExit, NoMemTypes
<1>4. CASE NoMem!Join
  BY <1>4 DEF NoMem!Join, NoMemTypes
<1>5. CASE UNCHANGED NoMem!vars
  BY <1>5 DEF NoMem!vars, NoMemTypes
<1> QED BY <1>1, <1>2, <1>3, <1>4, <1>5 DEF NoMem!Next

(* Every step hands the token on or leaves it where it is.                 *)
LEMMA TokenKept == NoMemTypes /\ Token /\ [NoMem!Next]_(NoMem!vars) => Token'
<1> SUFFICES ASSUME NoMemTypes, Token, [NoMem!Next]_(NoMem!vars) PROVE Token'
  OBVIOUS
<1> USE DEF NoMem!Step, NoMem!At, Token, InPhase, NoMem!PhaseLabels, NoMem!handshake
<1>1. ASSUME NEW r \in Readers, NoMem!Reader(r) PROVE Token'
  <2>1. CASE NoMem!AwaitPhase(r) \/ NoMem!Read(r)
    <3>1. PICK label \in {"finished", "read", "wait canChange"} : NoMem!GoTo(r, label)
      BY <2>1 DEF NoMem!AwaitPhase, NoMem!Read
    <3>2. UNCHANGED <<changeCount, canWrite>>
      BY <2>1 DEF NoMem!AwaitPhase, NoMem!Read
    <3>3. /\ pc'[r] = label /\ pc'[Writer] = pc[Writer]
          /\ \A q \in Readers : q # r => pc'[q] = pc[q]
      BY <3>1, ReaderMoves
    <3> QED BY <3>1, <3>2, <3>3
  <2>2. CASE NoMem!WaitCanChange(r)
    BY <2>2, ReaderMoves DEF NoMem!WaitCanChange
  <2>3. CASE NoMem!Report(r)
    <3>1. /\ NoMem!GoTo(r, "loop") /\ pc[r] = "report"
          /\ canWrite' /\ changeCount' = changeCount
      BY <2>3 DEF NoMem!Report
    <3>2. /\ pc'[r] = "loop" /\ pc'[Writer] = pc[Writer]
          /\ \A q \in Readers : q # r => pc'[q] = pc[q]
      BY <3>1, ReaderMoves
    <3> QED BY <3>1, <3>2
  <2> QED BY <1>1, <2>1, <2>2, <2>3 DEF NoMem!Reader
<1>2. ASSUME NoMem!WriterThread PROVE Token'
  <2>1. CASE NoMem!LoopTest
    <3>1. \E label \in {"finished", "wait report"} : NoMem!GoTo(Writer, label)
      BY <2>1 DEF NoMem!LoopTest
    <3> QED BY <2>1, <3>1, WriterMoves DEF NoMem!LoopTest
  <2>2. CASE NoMem!WaitReport
    <3>1. CASE exit
      <4>1. NoMem!GoTo(Writer, "finished") /\ (canWrite' => canWrite) /\ UNCHANGED changeCount
        BY <2>2, <3>1 DEF NoMem!WaitReport
      <4>2. pc'[Writer] = "finished" /\ \A r \in Readers : pc'[r] = pc[r]
        BY <4>1, WriterMoves
      <4> QED BY <4>1, <4>2
    <3>2. CASE ~exit
      <4>1. NoMem!GoTo(Writer, "count") /\ canWrite /\ ~canWrite' /\ UNCHANGED changeCount
        BY <2>2, <3>2 DEF NoMem!WaitReport
      <4> QED BY <4>1, WriterMoves
    <3> QED BY <3>1, <3>2
  <2>3. CASE NoMem!CountReport
    <3>1. /\ \E label \in {"set canChange", "reset canRead", "write"} : NoMem!GoTo(Writer, label)
          /\ pc[Writer] = "count" /\ UNCHANGED <<changeCount, canWrite>>
      BY <2>3 DEF NoMem!CountReport
    <3> QED BY <3>1, WriterMoves
  <2>4. CASE TurnSteps
    <3>1. PICK label : NoMem!GoTo(Writer, label) /\ pc[Writer] \in NoMem!PhaseLabels
      BY <2>4 DEF TurnSteps, NoMem!ResetCanRead, NoMem!SetGetReady, NoMem!WriteMessage,
           NoMem!ResetGetReady, NoMem!SetCanRead
    <3>2. pc'[Writer] = label /\ \A r \in Readers : pc'[r] = pc[r]
      BY <3>1, WriterMoves
    <3>3. UNCHANGED <<changeCount, canWrite>>
      BY <2>4 DEF TurnSteps, NoMem!ResetCanRead, NoMem!SetGetReady, NoMem!WriteMessage,
           NoMem!ResetGetReady, NoMem!SetCanRead
    <3> QED BY <3>1, <3>2, <3>3
  <2>5. CASE NoMem!SetCanChange
    <3>1. NoMem!GoTo(Writer, "loop") /\ pc[Writer] = "set canChange" /\ UNCHANGED canWrite
      BY <2>5 DEF NoMem!SetCanChange
    <3>2. pc'[Writer] = "loop" /\ \A r \in Readers : pc'[r] = pc[r]
      BY <3>1, WriterMoves
    <3> QED BY <3>1, <3>2
  <2> QED BY <1>2, <2>1, <2>2, <2>3, <2>4, <2>5 DEF TurnSteps, NoMem!WriterThread
<1>3. CASE NoMem!TimeManager
  <2>1. \E label : NoMem!GoTo(Manager, label)
    BY <1>3 DEF NoMem!TimeManager, NoMem!RaiseDone, NoMem!SetExit
  <2>2. pc'[Writer] = pc[Writer] /\ \A r \in Readers : pc'[r] = pc[r]
    BY <2>1, ManagerMoves
  <2>3. UNCHANGED <<changeCount, canWrite>>
    BY <1>3 DEF NoMem!TimeManager, NoMem!RaiseDone, NoMem!SetExit
  <2> QED BY <2>2, <2>3
<1>4. CASE NoMem!Join
  BY <1>4 DEF NoMem!Join
<1>5. CASE UNCHANGED NoMem!vars
  BY <1>5 DEF NoMem!vars
<1> QED BY <1>1, <1>2, <1>3, <1>4, <1>5 DEF NoMem!Next
-----------------------------------------------------------------------------
(* A report counts with the next step of the writer; the last one of a     *)
(* phase is the last reader's.                                             *)
LEMMA StillCounted ==
  ASSUME AllCounted, Reported' = Reported, countread' = countread, Pending' = Pending
  PROVE  AllCounted'
BY DEF AllCounted

(* Who reports has not reported in this phase.                             *)
LEMMA ReportsOnce ==
  ASSUME NoMemTypes, NoMemPhases, NEW r \in Readers, NoMem!At(r, "report")
  PROVE  r \notin Reported
<1>1. Preparing => ~readyState[r] /\ ~readyState[Writer]
  BY DEF Preparing, NoMem!At
<1>2. ReadingOn => readyState[r] /\ readyState[Writer]
  BY DEF ReadingOn, NoMem!At
<1>3. ~TurnToRead /\ ~TurnToPrepare
  BY DEF TurnToRead, TurnToPrepare, NoMem!At
<1>4. readyState[r] \in BOOLEAN /\ readyState[Writer] \in BOOLEAN
  BY DEF NoMemTypes
<1>5. readyState[r] = readyState[Writer]
  BY <1>1, <1>2, <1>3, <1>4 DEF NoMemPhases
<1> QED BY <1>5 DEF Reported

(* With the last report all readers have reported.                         *)
LEMMA LastIsAll ==
  ASSUME NoMemTypes, Token, AllCounted, NoMem!CountReport, countread + 1 = NoMem!numOfReaders
  PROVE  Reported = Readers
<1>1. Pending = 1
  BY DEF NoMem!CountReport, NoMem!Step, Pending
<1>2. Cardinality(Reported) = N
  BY <1>1, SameCardinality DEF AllCounted
<1>3. Reported \in SUBSET Readers
  BY DEF Reported
<1> QED BY <1>2, <1>3, ReadersCounted

(* Every step keeps the reports counted.                                   *)
LEMMA CountKept == NoMemInv /\ [NoMem!Next]_(NoMem!vars) => AllCounted'
<1> SUFFICES ASSUME NoMemTypes, Token, AllCounted, NoMemPhases, [NoMem!Next]_(NoMem!vars)
             PROVE  AllCounted'
  BY DEF NoMemInv
<1> USE DEF NoMem!Step, NoMem!At, NoMem!handshake, NoMem!counting
<1>1. ASSUME NEW r \in Readers, NoMem!Reader(r) PROVE AllCounted'
  <2>1. CASE NoMem!AwaitPhase(r) \/ NoMem!Read(r) \/ NoMem!WaitCanChange(r)
    <3>1. \E label : NoMem!GoTo(r, label)
      BY <2>1 DEF NoMem!AwaitPhase, NoMem!Read, NoMem!WaitCanChange
    <3>2. pc'[Writer] = pc[Writer]
      BY <3>1, ReaderMoves
    <3>3. UNCHANGED <<canWrite, countread, readyState>>
      BY <2>1 DEF NoMem!AwaitPhase, NoMem!Read, NoMem!WaitCanChange
    <3>4. Reported' = Reported /\ Pending' = Pending
      BY <3>2, <3>3 DEF Reported, Pending
    <3> QED BY <3>3, <3>4, StillCounted
  <2>2. CASE NoMem!Report(r)
    <3>1. /\ pc[r] = "report" /\ NoMem!GoTo(r, "loop") /\ canWrite' = TRUE
          /\ readyState' = [readyState EXCEPT ![r] = ~readyState[r]]
          /\ countread' = countread
      BY <2>2 DEF NoMem!Report
    <3>2. Pending = 0 /\ Pending' = 1
      BY <3>1 DEF Pending, Token, InPhase, NoMem!PhaseLabels
    <3>3. r \notin Reported /\ Reported \in SUBSET Readers
      BY <3>1, ReportsOnce DEF Reported
    <3>4. Reported' = Reported \cup {r}
      <4>1. readyState'[Writer] = readyState[Writer]
        BY <3>1, NoMemNames DEF NoMemTypes
      <4>2. \A q \in Readers : q # r => readyState'[q] = readyState[q]
        BY <3>1 DEF NoMemTypes
      <4>3. readyState'[r] # readyState[Writer]
        BY <3>1, <3>3 DEF NoMemTypes, Reported
      <4> QED BY <4>1, <4>2, <4>3 DEF Reported
    <3>5. Cardinality(Reported') = Cardinality(Reported) + 1
      BY <3>3, <3>4, ReadersCounted, FS_AddElement
    <3>6. Cardinality(Reported) \in Nat
      BY <3>3, ReadersCounted, FS_CardinalityType
    <3>7. Cardinality(Reported) = countread + 0 /\ countread \in Int
      <4>1. Cardinality(Reported) = countread + Pending
        BY DEF AllCounted
      <4>2. countread \in 0 .. N - 1
        BY DEF NoMemTypes
      <4> QED BY <3>2, <4>1, <4>2, SomeReaders
    <3>8. Cardinality(Reported') = countread' + 1
      BY <3>1, <3>5, <3>6, <3>7
    <3> QED BY <3>2, <3>8 DEF AllCounted
  <2> QED BY <1>1, <2>1, <2>2 DEF NoMem!Reader
<1>2. ASSUME NoMem!WriterThread PROVE AllCounted'
  <2>1. CASE NoMem!LoopTest
    <3>1. PICK label \in {"finished", "wait report"} : NoMem!GoTo(Writer, label)
      BY <2>1 DEF NoMem!LoopTest
    <3>2. pc'[Writer] = label
      BY <3>1, WriterMoves
    <3>3. UNCHANGED <<canWrite, countread, readyState>> /\ pc[Writer] = "loop"
      BY <2>1 DEF NoMem!LoopTest
    <3>4. Reported' = Reported /\ Pending' = Pending
      BY <3>1, <3>2, <3>3 DEF Reported, Pending
    <3> QED BY <3>3, <3>4, StillCounted
  <2>2. CASE NoMem!WaitReport
    <3>1. UNCHANGED <<countread, readyState>> /\ pc[Writer] = "wait report"
      BY <2>2 DEF NoMem!WaitReport
    <3>2. Reported' = Reported
      BY <3>1 DEF Reported
    <3>3. Pending' = Pending
      <4>1. CASE exit
        <5>1. NoMem!GoTo(Writer, "finished")
          BY <2>2, <4>1 DEF NoMem!WaitReport
        <5>2. pc'[Writer] = "finished"
          BY <5>1, WriterMoves
        <5>3. canWrite' <=> canWrite
          BY <2>2, <4>1 DEF NoMem!WaitReport
        <5> QED BY <3>1, <5>2, <5>3 DEF Pending
      <4>2. CASE ~exit
        <5>1. NoMem!GoTo(Writer, "count") /\ canWrite
          BY <2>2, <4>2 DEF NoMem!WaitReport
        <5>2. pc'[Writer] = "count"
          BY <5>1, WriterMoves
        <5> QED BY <5>1, <5>2 DEF Pending
      <4> QED BY <4>1, <4>2
    <3> QED BY <3>1, <3>2, <3>3, StillCounted
  <2>3. CASE NoMem!CountReport
    <3>1. Pending = 1 /\ ~canWrite /\ ~canWrite'
      BY <2>3 DEF NoMem!CountReport, Pending, Token, InPhase, NoMem!PhaseLabels
    <3>2. Pending' = 0
      <4>1. PICK label \in {"set canChange", "reset canRead", "write"} : NoMem!GoTo(Writer, label)
        BY <2>3 DEF NoMem!CountReport
      <4>2. pc'[Writer] = label
        BY <4>1, WriterMoves
      <4> QED BY <3>1, <4>1, <4>2 DEF Pending
    <3>3. CASE countread + 1 = NoMem!numOfReaders
      <4>1. Reported = Readers
        BY <2>3, <3>3, LastIsAll
      <4>2. countread' = 0 /\ readyState' = [readyState EXCEPT ![Writer] = ~readyState[Writer]]
        BY <2>3, <3>3 DEF NoMem!CountReport
      <4>3. \A r \in Readers : readyState'[r] = readyState[r] /\ r # Writer
        BY <4>2, NoMemNames DEF NoMemTypes
      <4>4. readyState'[Writer] = ~readyState[Writer]
        BY <4>2 DEF NoMemTypes
      <4>5. \A r \in Readers : readyState[r] # readyState[Writer] /\ readyState[r] \in BOOLEAN
                               /\ readyState[Writer] \in BOOLEAN
        BY <4>1 DEF Reported, NoMemTypes
      <4>6. \A r \in Readers : readyState'[r] = readyState'[Writer]
        BY <4>3, <4>4, <4>5
      <4>7. Reported' = {}
        BY <4>6 DEF Reported
      <4> QED BY <3>2, <4>2, <4>7, FS_EmptySet DEF AllCounted
    <3>4. CASE countread + 1 # NoMem!numOfReaders
      <4>1. countread' = countread + 1 /\ readyState' = readyState
        BY <2>3, <3>4 DEF NoMem!CountReport, NoMemTypes
      <4>2. Reported' = Reported
        BY <4>1 DEF Reported
      <4>3. Cardinality(Reported) = countread + 1 /\ countread \in Int
        <5>1. Cardinality(Reported) = countread + Pending
          BY DEF AllCounted
        <5>2. countread \in 0 .. N - 1
          BY DEF NoMemTypes
        <5> QED BY <3>1, <5>1, <5>2, SomeReaders
      <4>4. Cardinality(Reported') = countread' + 0
        BY <4>1, <4>2, <4>3
      <4> QED BY <3>2, <4>4 DEF AllCounted
    <3> QED BY <3>3, <3>4
  <2>4. CASE TurnSteps \/ NoMem!SetCanChange
    <3>1. PICK label \in {"set getReady", "set canChange", "reset getReady", "set canRead",
                          "loop"} :
             NoMem!GoTo(Writer, label)
      BY <2>4 DEF TurnSteps, NoMem!ResetCanRead, NoMem!SetGetReady, NoMem!WriteMessage,
           NoMem!ResetGetReady, NoMem!SetCanRead, NoMem!SetCanChange
    <3>2. pc'[Writer] = label
      BY <3>1, WriterMoves
    <3>3. UNCHANGED <<canWrite, countread, readyState>> /\ pc[Writer] # "count"
      BY <2>4 DEF TurnSteps, NoMem!ResetCanRead, NoMem!SetGetReady, NoMem!WriteMessage,
           NoMem!ResetGetReady, NoMem!SetCanRead, NoMem!SetCanChange
    <3>4. Reported' = Reported /\ Pending' = Pending
      BY <3>1, <3>2, <3>3 DEF Reported, Pending
    <3> QED BY <3>3, <3>4, StillCounted
  <2> QED BY <1>2, <2>1, <2>2, <2>3, <2>4 DEF TurnSteps, NoMem!WriterThread
<1>3. CASE NoMem!TimeManager
  <2>1. \E label : NoMem!GoTo(Manager, label)
    BY <1>3 DEF NoMem!TimeManager, NoMem!RaiseDone, NoMem!SetExit
  <2>2. pc'[Writer] = pc[Writer]
    BY <2>1, ManagerMoves
  <2>3. UNCHANGED <<canWrite, countread, readyState>>
    BY <1>3 DEF NoMem!TimeManager, NoMem!RaiseDone, NoMem!SetExit
  <2>4. Reported' = Reported /\ Pending' = Pending
    BY <2>2, <2>3 DEF Reported, Pending
  <2> QED BY <2>3, <2>4, StillCounted
<1>4. CASE NoMem!Join \/ UNCHANGED NoMem!vars
  <2>1. UNCHANGED <<canWrite, countread, readyState, pc>>
    BY <1>4 DEF NoMem!Join, NoMem!vars
  <2>2. Reported' = Reported /\ Pending' = Pending
    BY <2>1 DEF Reported, Pending
  <2> QED BY <2>1, <2>2, StillCounted
<1> QED BY <1>1, <1>2, <1>3, <1>4 DEF NoMem!Next
-----------------------------------------------------------------------------
(* What a phase says of one reader.                                        *)
PreparingAt(r) ==
  \/ readyState[r] /\ pc[r] \in {"loop", "finished"}
  \/ ~readyState[r] /\ pc[r] \in {"loop", "wait canChange", "report", "finished"}
ReadingAt(r) ==
  \/ readyState[r] /\ pc[r] \in {"loop", "read", "finished"} /\ Successor(times[r]) = memory
  \/ readyState[r] /\ pc[r] \in {"wait canChange", "report"} /\ times[r] = memory
  \/ ~readyState[r] /\ pc[r] \in {"loop", "finished"} /\ times[r] = memory

(* A step of a reader concerns no other reader, nor what the phase says of *)
(* the writer and of the events.                                           *)
LEMMA ReaderStays ==
  ASSUME NoMemTypes, NEW r \in Readers, NoMem!Reader(r)
  PROVE  /\ pc'[Writer] = pc[Writer] /\ readyState'[Writer] = readyState[Writer]
         /\ UNCHANGED <<canRead, allRead, memory>>
         /\ \A q \in Readers : q # r => /\ pc'[q] = pc[q] /\ times'[q] = times[q]
                                        /\ readyState'[q] = readyState[q]
<1> USE DEF NoMem!Step, NoMem!phases, NoMem!handshake, NoMem!counting, NoMem!message
<1>1. \E label : NoMem!GoTo(r, label)
  BY DEF NoMem!Reader, NoMem!AwaitPhase, NoMem!Read, NoMem!WaitCanChange, NoMem!Report
<1>2. pc'[Writer] = pc[Writer] /\ \A q \in Readers : q # r => pc'[q] = pc[q]
  BY <1>1, ReaderMoves
<1>3. UNCHANGED <<canRead, allRead, memory>>
  BY DEF NoMem!Reader, NoMem!AwaitPhase, NoMem!Read, NoMem!WaitCanChange, NoMem!Report
<1>4. \/ UNCHANGED times
      \/ times' = [times EXCEPT ![r] = (times[r] + 1) % MsgNums]
  BY DEF NoMem!Reader, NoMem!AwaitPhase, NoMem!Read, NoMem!WaitCanChange, NoMem!Report
<1>5. \/ UNCHANGED readyState
      \/ readyState' = [readyState EXCEPT ![r] = ~readyState[r]]
  BY DEF NoMem!Reader, NoMem!AwaitPhase, NoMem!Read, NoMem!WaitCanChange, NoMem!Report
<1>6. \A q \in Readers : q # r => times'[q] = times[q]
  BY <1>4 DEF NoMemTypes
<1>7. \A q \in Readers \cup {Writer} : q # r => readyState'[q] = readyState[q]
  BY <1>5 DEF NoMemTypes
<1> QED BY <1>2, <1>3, <1>6, <1>7, NoMemNames

(* While the readers prepare, a step of one of them keeps the phase: it    *)
(* reports, once, that it is ready, and cannot begin to read.              *)
LEMMA ReaderInPreparing ==
  ASSUME NoMemTypes, Preparing, NEW r \in Readers, NoMem!Reader(r)
  PROVE  Preparing'
<1> USE DEF NoMem!Step, NoMem!At, NoMem!phases, NoMem!counting, NoMem!message
<1>0. ~canRead /\ PreparingAt(r) /\ readyState[r] \in BOOLEAN
  BY DEF Preparing, PreparingAt, NoMemTypes
<1>1. PreparingAt(r)' /\ times'[r] = times[r]
  <2>1. CASE NoMem!AwaitPhase(r)
    <3>1. /\ pc[r] = "loop" /\ UNCHANGED <<readyState, times>>
          /\ (NoMem!GoTo(r, "finished") \/ (~readyState[r] /\ NoMem!GoTo(r, "wait canChange")))
      <4>1. pc[r] = "loop" /\ UNCHANGED <<readyState, times>>
        BY <2>1 DEF NoMem!AwaitPhase
      <4>2. CASE exit
        <5>1. NoMem!GoTo(r, "finished")
          BY <2>1, <4>2 DEF NoMem!AwaitPhase
        <5> QED BY <4>1, <5>1
      <4>3. CASE ~exit
        <5>1. ~readyState[r]
          BY <1>0, <2>1, <4>3 DEF NoMem!AwaitPhase
        <5> QED BY <2>1, <4>1, <4>3, <5>1 DEF NoMem!AwaitPhase
      <4> QED BY <4>2, <4>3
    <3>2. pc'[r] = "finished" \/ (~readyState[r] /\ pc'[r] = "wait canChange")
      BY <3>1, ReaderMoves
    <3> QED BY <1>0, <3>1, <3>2 DEF PreparingAt
  <2>2. CASE NoMem!WaitCanChange(r)
    <3>1. pc[r] = "wait canChange" /\ UNCHANGED <<readyState, times>> /\ NoMem!GoTo(r, "report")
      BY <2>2 DEF NoMem!WaitCanChange
    <3>2. pc'[r] = "report"
      BY <3>1, ReaderMoves
    <3> QED BY <1>0, <3>1, <3>2 DEF PreparingAt
  <2>3. CASE NoMem!Report(r)
    <3>1. pc[r] = "report" /\ UNCHANGED times /\ NoMem!GoTo(r, "loop")
          /\ readyState' = [readyState EXCEPT ![r] = ~readyState[r]]
      BY <2>3 DEF NoMem!Report
    <3>2. pc'[r] = "loop" /\ readyState'[r] = ~readyState[r]
      BY <3>1, ReaderMoves DEF NoMemTypes
    <3>3. ~readyState[r]
      BY <1>0, <3>1 DEF PreparingAt
    <3> QED BY <3>1, <3>2, <3>3 DEF PreparingAt
  <2>4. ~NoMem!Read(r)
    BY <1>0 DEF NoMem!Read, PreparingAt
  <2> QED BY <2>1, <2>2, <2>3, <2>4 DEF NoMem!Reader
<1>2. \A q \in Readers : PreparingAt(q)' /\ times'[q] = times[q]
  BY <1>1, ReaderStays DEF Preparing, PreparingAt
<1>3. AllRead'
  BY <1>2, ReaderStays DEF Preparing, AllRead
<1> QED BY <1>2, <1>3, ReaderStays DEF Preparing, PreparingAt

(* While the readers read, a step of one of them keeps the phase: it reads *)
(* the message, then reports once, and cannot prepare for another one.     *)
LEMMA ReaderInReading ==
  ASSUME NoMemTypes, ReadingOn, NEW r \in Readers, NoMem!Reader(r)
  PROVE  ReadingOn'
<1> USE DEF NoMem!Step, NoMem!At, NoMem!phases, NoMem!counting, NoMem!message
<1>0. /\ ~allRead /\ ReadingAt(r) /\ readyState[r] \in BOOLEAN
      /\ UNCHANGED memory
  BY ReaderStays DEF ReadingOn, ReadingAt, NoMemTypes
<1>1. ReadingAt(r)'
  <2>1. CASE NoMem!AwaitPhase(r)
    <3>1. /\ pc[r] = "loop" /\ UNCHANGED <<readyState, times>>
          /\ (NoMem!GoTo(r, "finished") \/ (readyState[r] /\ NoMem!GoTo(r, "read")))
      <4>1. pc[r] = "loop" /\ UNCHANGED <<readyState, times>>
        BY <2>1 DEF NoMem!AwaitPhase
      <4>2. CASE exit
        <5>1. NoMem!GoTo(r, "finished")
          BY <2>1, <4>2 DEF NoMem!AwaitPhase
        <5> QED BY <4>1, <5>1
      <4>3. CASE ~exit
        <5>1. readyState[r]
          BY <1>0, <2>1, <4>3 DEF NoMem!AwaitPhase
        <5> QED BY <2>1, <4>1, <4>3, <5>1 DEF NoMem!AwaitPhase
      <4> QED BY <4>2, <4>3
    <3>2. pc'[r] = "finished" \/ (readyState[r] /\ pc'[r] = "read")
      BY <3>1, ReaderMoves
    <3> QED BY <1>0, <3>1, <3>2 DEF ReadingAt, Successor
  <2>2. CASE NoMem!Read(r)
    <3>1. pc[r] = "read" /\ UNCHANGED readyState /\ NoMem!GoTo(r, "wait canChange")
          /\ times' = [times EXCEPT ![r] = (times[r] + 1) % MsgNums]
      BY <2>2 DEF NoMem!Read
    <3>2. pc'[r] = "wait canChange" /\ times'[r] = Successor(times[r])
      BY <3>1, ReaderMoves DEF NoMemTypes, Successor
    <3> QED BY <1>0, <3>1, <3>2 DEF ReadingAt
  <2>3. CASE NoMem!WaitCanChange(r)
    <3>1. pc[r] = "wait canChange" /\ UNCHANGED <<readyState, times>> /\ NoMem!GoTo(r, "report")
      BY <2>3 DEF NoMem!WaitCanChange
    <3>2. pc'[r] = "report"
      BY <3>1, ReaderMoves
    <3> QED BY <1>0, <3>1, <3>2 DEF ReadingAt
  <2>4. CASE NoMem!Report(r)
    <3>1. pc[r] = "report" /\ UNCHANGED times /\ NoMem!GoTo(r, "loop")
          /\ readyState' = [readyState EXCEPT ![r] = ~readyState[r]]
      BY <2>4 DEF NoMem!Report
    <3>2. pc'[r] = "loop" /\ readyState'[r] = ~readyState[r]
      BY <3>1, ReaderMoves DEF NoMemTypes
    <3>3. readyState[r] /\ times[r] = memory
      BY <1>0, <3>1 DEF ReadingAt
    <3> QED BY <1>0, <3>1, <3>2, <3>3 DEF ReadingAt
  <2> QED BY <2>1, <2>2, <2>3, <2>4 DEF NoMem!Reader
<1>2. \A q \in Readers : q # r => ReadingAt(q)'
  <2> TAKE q \in Readers
  <2> HAVE q # r
  <2>1. /\ pc'[q] = pc[q] /\ times'[q] = times[q] /\ readyState'[q] = readyState[q]
        /\ memory' = memory
    BY ReaderStays
  <2>2. ReadingAt(q)
    BY DEF ReadingOn, ReadingAt
  <2> QED BY <2>1, <2>2 DEF ReadingAt, Successor
<1> QED BY <1>1, <1>2, ReaderStays DEF ReadingOn, ReadingAt

(* Between the phases a reader can end only.                               *)
LEMMA ReaderInTurn ==
  ASSUME NoMemTypes, TurnToRead \/ TurnToPrepare, NEW r \in Readers, NoMem!Reader(r)
  PROVE  TurnToRead' \/ TurnToPrepare'
<1> USE DEF NoMem!Step, NoMem!At, NoMem!phases, NoMem!counting, NoMem!message
<1>1. pc[r] \in {"loop", "finished"}
      /\ (IF readyState[r] THEN ~canRead ELSE ~allRead)
  BY DEF TurnToRead, TurnToPrepare
<1>2. NoMem!AwaitPhase(r) /\ NoMem!GoTo(r, "finished")
  BY <1>1 DEF NoMem!Reader, NoMem!AwaitPhase, NoMem!Read, NoMem!WaitCanChange, NoMem!Report
<1>3. UNCHANGED <<readyState, times, memory>> /\ pc'[r] = "finished"
  BY <1>2, ReaderMoves DEF NoMem!AwaitPhase
<1>4. \A q \in Readers : pc[q] \in {"loop", "finished"} => pc'[q] \in {"loop", "finished"}
  BY <1>3, ReaderStays
<1>5. (AllRead <=> AllRead') /\ (NoneRead <=> NoneRead')
  BY <1>3 DEF AllRead, NoneRead, Successor
<1>6. TurnToRead => TurnToRead'
  BY <1>3, <1>4, <1>5, ReaderStays DEF TurnToRead
<1>7. TurnToPrepare => TurnToPrepare'
  BY <1>3, <1>4, <1>5, ReaderStays DEF TurnToPrepare
<1> QED BY <1>6, <1>7
-----------------------------------------------------------------------------
(* A step of the writer that leaves the phase what it is.                  *)
LEMMA WriterWaits ==
  ASSUME NoMemTypes, NoMemPhases, NEW label, NoMem!GoTo(Writer, label),
         pc[Writer] \in Between, label \in Between,
         UNCHANGED <<NoMem!phases, readyState, memory, times>>
  PROVE  NoMemPhases'
<1>1. pc'[Writer] = label /\ \A r \in Readers : pc'[r] = pc[r]
  BY WriterMoves
<1>2. ~TurnToRead /\ ~TurnToPrepare
  BY DEF TurnToRead, TurnToPrepare, NoMem!At, Between
<1>3. Preparing => Preparing'
  BY <1>1 DEF Preparing, AllRead, NoMem!phases
<1>4. ReadingOn => ReadingOn'
  BY <1>1 DEF ReadingOn, Successor, NoMem!phases
<1> QED BY <1>2, <1>3, <1>4 DEF NoMemPhases

(* With the last report the writer turns to the other phase.               *)
LEMMA CountReportKeeps ==
  ASSUME NoMemTypes, Token, AllCounted, NoMemPhases, NoMem!CountReport
  PROVE  NoMemPhases'
<1> USE DEF NoMem!Step, NoMem!At, NoMem!phases, NoMem!handshake, NoMem!message
<1>0. pc[Writer] = "count" /\ UNCHANGED <<NoMem!phases, memory, times>>
  BY DEF NoMem!CountReport
<1>1. CASE countread + 1 # NoMem!numOfReaders
  <2>1. NoMem!GoTo(Writer, "set canChange")
    BY <1>1 DEF NoMem!CountReport
  <2>2. readyState' = readyState
    BY <1>1 DEF NoMem!CountReport, NoMemTypes
  <2> QED BY <1>0, <2>1, <2>2, WriterWaits DEF Between
<1>2. CASE countread + 1 = NoMem!numOfReaders
  <2>1. \A r \in Readers : readyState[r] # readyState[Writer]
    BY <1>2, LastIsAll DEF Reported
  <2>2. readyState' = [readyState EXCEPT ![Writer] = ~readyState[Writer]]
    BY <1>2 DEF NoMem!CountReport
  <2>3. readyState'[Writer] = ~readyState[Writer]
        /\ \A r \in Readers : readyState'[r] = readyState[r]
    BY <2>2, NoMemNames DEF NoMemTypes
  <2>4. (AllRead <=> AllRead') /\ ~TurnToRead /\ ~TurnToPrepare
    BY <1>0 DEF AllRead, TurnToRead, TurnToPrepare
  <2>5. ASSUME Preparing PROVE TurnToRead'
    <3>1. NoMem!GoTo(Writer, "write") /\ ~readyState[Writer]
      BY <1>2, <2>5 DEF NoMem!CountReport, Preparing
    <3>2. pc'[Writer] = "write" /\ \A r \in Readers : pc'[r] = pc[r]
      BY <3>1, WriterMoves
    <3>3. \A r \in Readers : readyState[r] /\ pc[r] \in {"loop", "finished"}
      BY <2>1, <2>5, <3>1 DEF Preparing, NoMemTypes
    <3>4. allRead' /\ ~canRead' /\ AllRead'
      BY <1>0, <2>4, <2>5 DEF Preparing
    <3> QED BY <2>3, <3>1, <3>2, <3>3, <3>4 DEF TurnToRead
  <2>6. ASSUME ReadingOn PROVE TurnToPrepare'
    <3>1. NoMem!GoTo(Writer, "reset canRead") /\ readyState[Writer]
      BY <1>2, <2>6 DEF NoMem!CountReport, ReadingOn
    <3>2. pc'[Writer] = "reset canRead" /\ \A r \in Readers : pc'[r] = pc[r]
      BY <3>1, WriterMoves
    <3>3. \A r \in Readers : readyState[r] \in BOOLEAN /\ readyState[Writer] \in BOOLEAN
      BY DEF NoMemTypes
    <3>4. \A r \in Readers : ~readyState[r]
      BY <2>1, <3>1, <3>3
    <3>5. \A r \in Readers : pc[r] \in {"loop", "finished"} /\ times[r] = memory
      BY <2>6, <3>4 DEF ReadingOn
    <3>6. ~allRead' /\ canRead' /\ AllRead'
      BY <1>0, <2>6, <3>5 DEF ReadingOn, AllRead
    <3> QED BY <2>3, <3>1, <3>2, <3>4, <3>5, <3>6 DEF TurnToPrepare
  <2> QED BY <2>4, <2>5, <2>6 DEF NoMemPhases
<1> QED BY <1>1, <1>2

(* What the writer does between the phases.                                *)
LEMMA TurnKeeps ==
  ASSUME NoMemTypes, NoMemPhases,
         TurnSteps
  PROVE  NoMemPhases'
<1> USE DEF NoMem!Step, NoMem!At, NoMem!phases, NoMem!handshake, NoMem!message,
        NoMem!counting
<1>0. ~Preparing /\ ~ReadingOn
  BY DEF Preparing, ReadingOn, Between, TurnSteps, NoMem!ResetCanRead, NoMem!SetGetReady,
       NoMem!WriteMessage, NoMem!ResetGetReady, NoMem!SetCanRead
<1>1. UNCHANGED <<readyState, times>>
  BY DEF TurnSteps, NoMem!ResetCanRead, NoMem!SetGetReady, NoMem!WriteMessage,
       NoMem!ResetGetReady, NoMem!SetCanRead
<1>2. CASE NoMem!ResetCanRead
  <2>1. /\ pc[Writer] = "reset canRead" /\ NoMem!GoTo(Writer, "set getReady") /\ ~canRead'
        /\ UNCHANGED <<allRead, memory>>
    BY <1>2 DEF NoMem!ResetCanRead
  <2>2. pc'[Writer] = "set getReady" /\ \A r \in Readers : pc'[r] = pc[r]
    BY <2>1, WriterMoves
  <2>3. TurnToPrepare
    BY <1>0, <2>1 DEF NoMemPhases, TurnToRead
  <2> QED BY <1>1, <2>1, <2>2, <2>3 DEF TurnToPrepare, AllRead, NoMemPhases
<1>3. CASE NoMem!SetGetReady
  <2>1. /\ pc[Writer] = "set getReady" /\ NoMem!GoTo(Writer, "set canChange") /\ allRead'
        /\ UNCHANGED <<canRead, memory>>
    BY <1>3 DEF NoMem!SetGetReady
  <2>2. pc'[Writer] = "set canChange" /\ \A r \in Readers : pc'[r] = pc[r]
    BY <2>1, WriterMoves
  <2>3. TurnToPrepare
    BY <1>0, <2>1 DEF NoMemPhases, TurnToRead
  <2> QED BY <1>1, <2>1, <2>2, <2>3 DEF TurnToPrepare, Preparing, AllRead, NoMemPhases, Between
<1>4. CASE NoMem!WriteMessage
  <2>1. /\ pc[Writer] = "write" /\ NoMem!GoTo(Writer, "reset getReady")
        /\ UNCHANGED <<allRead, canRead>> /\ memory' = Successor(memory)
    BY <1>4 DEF NoMem!WriteMessage, NoMemTypes, Successor
  <2>2. pc'[Writer] = "reset getReady" /\ \A r \in Readers : pc'[r] = pc[r]
    BY <2>1, WriterMoves
  <2>3. TurnToRead
    BY <1>0, <2>1 DEF NoMemPhases, TurnToPrepare
  <2>4. NoneRead'
    BY <1>1, <2>1, <2>3 DEF TurnToRead, AllRead, NoneRead, Successor
  <2> QED BY <1>1, <2>1, <2>2, <2>3, <2>4 DEF TurnToRead, NoMemPhases
<1>5. CASE NoMem!ResetGetReady
  <2>1. /\ pc[Writer] = "reset getReady" /\ NoMem!GoTo(Writer, "set canRead") /\ ~allRead'
        /\ UNCHANGED <<canRead, memory>>
    BY <1>5 DEF NoMem!ResetGetReady
  <2>2. pc'[Writer] = "set canRead" /\ \A r \in Readers : pc'[r] = pc[r]
    BY <2>1, WriterMoves
  <2>3. TurnToRead
    BY <1>0, <2>1 DEF NoMemPhases, TurnToPrepare
  <2>4. NoneRead'
    BY <1>1, <2>1, <2>3 DEF TurnToRead, NoneRead, Successor
  <2> QED BY <1>1, <2>1, <2>2, <2>3, <2>4 DEF TurnToRead, NoMemPhases
<1>6. CASE NoMem!SetCanRead
  <2>1. /\ pc[Writer] = "set canRead" /\ NoMem!GoTo(Writer, "set canChange") /\ canRead'
        /\ UNCHANGED <<allRead, memory>>
    BY <1>6 DEF NoMem!SetCanRead
  <2>2. pc'[Writer] = "set canChange" /\ \A r \in Readers : pc'[r] = pc[r]
    BY <2>1, WriterMoves
  <2>3. TurnToRead
    BY <1>0, <2>1 DEF NoMemPhases, TurnToPrepare
  <2>4. NoneRead'
    BY <1>1, <2>1, <2>3 DEF TurnToRead, NoneRead, Successor
  <2>5. \A r \in Readers : readyState'[r] /\ pc'[r] \in {"loop", "read", "finished"}
                           /\ (Successor(times[r]) = memory)'
    BY <1>1, <2>2, <2>3, <2>4 DEF TurnToRead, NoneRead
  <2> QED BY <1>1, <2>1, <2>2, <2>3, <2>5 DEF TurnToRead, ReadingOn, NoMemPhases, Between
<1> QED BY <1>2, <1>3, <1>4, <1>5, <1>6 DEF TurnSteps

(* Every step stays in its phase or turns to the next one.                 *)
LEMMA PhasesKept == NoMemInv /\ [NoMem!Next]_(NoMem!vars) => NoMemPhases'
<1> SUFFICES ASSUME NoMemTypes, Token, AllCounted, NoMemPhases, [NoMem!Next]_(NoMem!vars)
             PROVE  NoMemPhases'
  BY DEF NoMemInv
<1> USE DEF NoMem!Step, NoMem!At, NoMem!phases, NoMem!handshake, NoMem!message,
        NoMem!counting
<1>1. ASSUME NEW r \in Readers, NoMem!Reader(r) PROVE NoMemPhases'
  BY <1>1, ReaderInPreparing, ReaderInReading, ReaderInTurn DEF NoMemPhases
<1>2. ASSUME NoMem!WriterThread PROVE NoMemPhases'
  <2>1. CASE NoMem!LoopTest \/ NoMem!WaitReport \/ NoMem!SetCanChange
    <3>1. /\ \E label \in Between : NoMem!GoTo(Writer, label)
          /\ pc[Writer] \in Between /\ UNCHANGED <<NoMem!phases, readyState, memory, times>>
      BY <2>1 DEF NoMem!LoopTest, NoMem!WaitReport, NoMem!SetCanChange, Between
    <3> QED BY <3>1, WriterWaits
  <2>2. CASE NoMem!CountReport
    BY <2>2, CountReportKeeps
  <2>3. CASE TurnSteps
    BY <2>3, TurnKeeps
  <2> QED BY <1>2, <2>1, <2>2, <2>3 DEF TurnSteps, NoMem!WriterThread
<1>3. ASSUME NoMem!TimeManager \/ NoMem!Join \/ UNCHANGED NoMem!vars PROVE NoMemPhases'
  <2>1. pc'[Writer] = pc[Writer] /\ \A r \in Readers : pc'[r] = pc[r]
    <3>1. CASE NoMem!TimeManager
      <4>1. \E label : NoMem!GoTo(Manager, label)
        BY <3>1 DEF NoMem!TimeManager, NoMem!RaiseDone, NoMem!SetExit
      <4> QED BY <4>1, ManagerMoves
    <3>2. CASE NoMem!Join \/ UNCHANGED NoMem!vars
      BY <3>2 DEF NoMem!Join, NoMem!vars
    <3> QED BY <1>3, <3>1, <3>2
  <2>2. UNCHANGED <<canRead, allRead, readyState, memory, times>>
    BY <1>3 DEF NoMem!TimeManager, NoMem!RaiseDone, NoMem!SetExit, NoMem!Join, NoMem!vars
  <2>3. (AllRead <=> AllRead') /\ (NoneRead <=> NoneRead')
    BY <2>2 DEF AllRead, NoneRead, Successor
  <2>4. Preparing => Preparing'
    BY <2>1, <2>2, <2>3 DEF Preparing
  <2>5. TurnToRead => TurnToRead'
    BY <2>1, <2>2, <2>3 DEF TurnToRead
  <2>6. ReadingOn => ReadingOn'
    BY <2>1, <2>2 DEF ReadingOn, Successor
  <2>7. TurnToPrepare => TurnToPrepare'
    BY <2>1, <2>2, <2>3 DEF TurnToPrepare
  <2> QED BY <2>4, <2>5, <2>6, <2>7 DEF NoMemPhases
<1> QED BY <1>1, <1>2, <1>3 DEF NoMem!Next

(* Every step keeps the invariant.                                         *)
LEMMA NoMemInvKept == NoMemInv /\ [NoMem!Next]_(NoMem!vars) => NoMemInv'
BY NoMemTypesKept, TokenKept, CountKept, PhasesKept DEF NoMemInv

(* Every state is in a phase or between the two, its reports counted.      *)
LEMMA NoMemInvariance == NoMem!Spec => []NoMemInv
<1> QED BY StartsPreparing, NoMemInvKept, PTL DEF NoMem!Spec
-----------------------------------------------------------------------------
(* What holds in a state of the invariant.                                 *)
LEMMA NoMemInvSays ==
  NoMemInv =>
    /\ NoMem!TypeOK /\ NoMem!OneReport /\ NoMem!ReportsCounted /\ NoMem!NoReadDuringWrite
    /\ NoMem!At(Writer, "set canRead") => \A r \in Readers : ~NoMem!At(r, "read")
<1> SUFFICES ASSUME NoMemInv
             PROVE  /\ NoMem!TypeOK /\ NoMem!OneReport
                    /\ NoMem!ReportsCounted /\ NoMem!NoReadDuringWrite
                    /\ NoMem!At(Writer, "set canRead") => \A r \in Readers : ~NoMem!At(r, "read")
  OBVIOUS
<1>1. NoMem!TypeOK
  BY SameCardinality DEF NoMemInv, NoMemTypes, NoMem!TypeOK
<1>2. NoMem!OneReport
  BY DEF NoMemInv, Token, NoMem!OneReport, NoMem!Reporting, InPhase
<1>3. NoMem!ReportsCounted
  BY SameCardinality DEF NoMemInv, AllCounted, NoMem!ReportsCounted, Reported, Pending
<1>4. /\ NoMem!NoReadDuringWrite
      /\ NoMem!At(Writer, "set canRead") => \A r \in Readers : ~NoMem!At(r, "read")
  BY DEF NoMemInv, NoMemPhases, Preparing, TurnToRead, ReadingOn, TurnToPrepare, Between,
       NoMem!At,
         NoMem!NoReadDuringWrite
<1> QED BY <1>1, <1>2, <1>3, <1>4

(* For any number of reader processes there is one report at a time: no two*)
(* SetEvent(changeCount) melt into one, and the writer counts each.        *)
THEOREM OneReportAtATime == NoMem!Spec => [](NoMem!OneReport /\ NoMem!ReportsCounted)
<1> QED BY NoMemInvSays, NoMemInvariance, PTL

(* Nobody reads while the writer writes.                                   *)
THEOREM NobodyReadsWhileWriting == NoMem!Spec => []NoMem!NoReadDuringWrite
<1> QED BY NoMemInvSays, NoMemInvariance, PTL

(* A step of the program is a writing or a reading of the shared cell, or  *)
(* leaves the cell alone.                                                  *)
LEMMA NoMemCellStep == NoMemInv /\ [NoMem!Next]_(NoMem!vars) => [Cell!Next]_(Cell!vars)
<1> SUFFICES ASSUME NoMemInv, [NoMem!Next]_(NoMem!vars) PROVE [Cell!Next]_(Cell!vars)
  OBVIOUS
<1> USE DEF Cell!vars
<1>1. ASSUME NEW r \in Readers, NoMem!Read(r) PROVE Cell!Next
  <2>1. pc[r] = "read" /\ times' = [times EXCEPT ![r] = (@ + 1) % MsgNums]
        /\ got' = [got EXCEPT ![r] = memory] /\ UNCHANGED memory
    BY <1>1 DEF NoMem!Read, NoMem!Step, NoMem!At
  <2>2. ReadingOn
    BY <2>1 DEF NoMemInv, NoMemPhases, Preparing, TurnToRead, TurnToPrepare
  <2>3. times[r] # memory
    <3>1. Successor(times[r]) = memory
      BY <2>1, <2>2 DEF ReadingOn
    <3> QED BY <3>1, OtherNumber DEF NoMemInv, NoMemTypes
  <2> QED BY <2>1, <2>3 DEF Cell!Next, Cell!Read
<1>2. ASSUME NoMem!WriteMessage PROVE Cell!Next
  <2>1. pc[Writer] = "write" /\ memory' = (memory + 1) % MsgNums /\ UNCHANGED <<times, got>>
    BY <1>2 DEF NoMem!WriteMessage, NoMem!Step, NoMem!At, NoMemInv, NoMemTypes
  <2>2. TurnToRead
    BY <2>1 DEF NoMemInv, NoMemPhases, Preparing, ReadingOn, TurnToPrepare, Between,
         NoMem!At
  <2>3. AllRead
    BY <2>1, <2>2 DEF TurnToRead, NoMem!At
  <2> QED BY <2>1, <2>3 DEF Cell!Next, Cell!Write, AllRead
<1>3. ASSUME UNCHANGED <<memory, times, got>> PROVE [Cell!Next]_(Cell!vars)
  BY <1>3
<1>4. ASSUME NEW r \in Readers, NoMem!Reader(r), ~NoMem!Read(r)
      PROVE  UNCHANGED <<memory, times, got>>
  BY <1>4 DEF NoMem!Reader, NoMem!AwaitPhase, NoMem!WaitCanChange, NoMem!Report,
       NoMem!message
<1>5. ASSUME NoMem!WriterThread, ~NoMem!WriteMessage PROVE UNCHANGED <<memory, times, got>>
  BY <1>5 DEF NoMem!WriterThread, NoMem!LoopTest, NoMem!WaitReport, NoMem!CountReport,
       NoMem!ResetCanRead, NoMem!SetGetReady,
     NoMem!ResetGetReady, NoMem!SetCanRead, NoMem!SetCanChange, NoMem!message
<1>6. ASSUME NoMem!TimeManager \/ NoMem!Join \/ UNCHANGED NoMem!vars
      PROVE  UNCHANGED <<memory, times, got>>
  BY <1>6 DEF NoMem!TimeManager, NoMem!RaiseDone, NoMem!SetExit, NoMem!Join, NoMem!vars,
       NoMem!message
<1> QED BY <1>1, <1>2, <1>3, <1>4, <1>5, <1>6 DEF NoMem!Next

(* The programs implement the shared cell: each reader process reads each  *)
(* message once, and a message is overwritten when all have read it.       *)
THEOREM ReportsImplementBroadcast == NoMem!Spec => Cell!Spec
<1>1. NoMem!Init => Cell!Init
  BY DEF NoMem!Init, Cell!Init
<1> QED BY <1>1, NoMemCellStep, NoMemInvariance, PTL DEF NoMem!Spec, Cell!Spec
-----------------------------------------------------------------------------
(* The invariant of the program that runs.                                 *)
MCInv == IF WithoutMemory THEN NoMemInv ELSE Inv

(* A step of the three programs is a step of the one that runs.            *)
LEMMA OneProgramRuns ==
  ASSUME [MCNext]_mcvars
  PROVE  /\ ~WithoutMemory => [Next]_vars
         /\ WithoutMemory => [NoMem!Next]_(NoMem!vars) /\ UNCHANGED program
<1>1. CASE UNCHANGED mcvars
  BY <1>1 DEF mcvars, vars, main, events, counters, history, NoMem!vars, NoMem!phases,
              NoMem!handshake, NoMem!counting, NoMem!message, NoMem!control
<1>2. CASE MCNext /\ ~WithoutMemory
  BY <1>2 DEF MCNext, MCReader, MCWriter, MCSetExit, MCJoin, Either, Next, TimeManager
<1>3. CASE MCNext /\ WithoutMemory
  BY <1>3 DEF MCNext, MCReader, MCWriter, MCSetExit, MCJoin, Either, NoMem!Next,
              NoMem!TimeManager
<1> QED BY <1>1, <1>2, <1>3

(* The invariant of the program that runs is kept.                         *)
LEMMA MCInvKept == MCInv /\ [MCNext]_mcvars => MCInv'
<1> SUFFICES ASSUME MCInv, [MCNext]_mcvars PROVE MCInv'
  OBVIOUS
<1>1. CASE WithoutMemory
  <2>1. NoMemInv'
    BY <1>1, OneProgramRuns, NoMemInvKept DEF MCInv
  <2>2. WithoutMemory'
    BY <1>1, OneProgramRuns DEF WithoutMemory
  <2> QED BY <2>1, <2>2 DEF MCInv
<1>2. CASE ~WithoutMemory
  <2>1. Inv'
    BY <1>2, OneProgramRuns, InvKept DEF MCInv
  <2>2. ~WithoutMemory'
    BY <2>1 DEF Inv, Types, Programs, WithoutMemory
  <2> QED BY <2>1, <2>2 DEF MCInv
<1> QED BY <1>1, <1>2

(* Whichever program is chosen starts in its invariant.                    *)
LEMMA MCStarts == MCInit => MCInv
<1>1. Init => Inv /\ ~WithoutMemory
  BY StartTyped DEF Init, Programs, WithoutMemory
<1>2. NoMem!Init => NoMemInv
  BY StartsPreparing
<1> QED BY <1>1, <1>2 DEF MCInit, MCInv

(* Every state of the three is one of the invariant of its program.        *)
LEMMA MCInvariance == MCSpec => []MCInv
BY MCStarts, MCInvKept, PTL DEF MCSpec

(* In each of the three programs, with any number of readers, one process  *)
(* at a time counts or reports.                                            *)
THEOREM OneCountsAtATime == MCSpec => []OneAtATime
<1>1. MCInv => OneAtATime
  <2> SUFFICES ASSUME MCInv PROVE OneAtATime
    OBVIOUS
  <2>1. CASE ~WithoutMemory
    BY <2>1, InvGuards DEF MCInv, OneAtATime
  <2>2. CASE WithoutMemory
    BY <2>2, NoMemInvSays DEF MCInv, OneAtATime
  <2> QED BY <2>1, <2>2
<1> QED BY <1>1, MCInvariance, PTL

(* The counter of the phase is exactly the number of readers it counts.    *)
THEOREM CountersAreExact == MCSpec => []CounterIsExact
<1>1. MCInv => CounterIsExact
  <2> SUFFICES ASSUME MCInv PROVE CounterIsExact
    OBVIOUS
  <2>1. CASE ~WithoutMemory
    BY <2>1, InvTyped, InvCounts DEF MCInv, CounterIsExact
  <2>2. CASE WithoutMemory
    BY <2>2, NoMemInvSays DEF MCInv, CounterIsExact
  <2> QED BY <2>1, <2>2
<1> QED BY <1>1, MCInvariance, PTL

(* In none of the three programs does a reader read while the writer       *)
(* writes.                                                                 *)
THEOREM NobodyReadsDuringAnyWriting == MCSpec => []NoReadDuringWrite
<1>1. MCInv => NoReadDuringWrite
  <2> SUFFICES ASSUME MCInv PROVE NoReadDuringWrite
    OBVIOUS
  <2>1. CASE ~WithoutMemory
    BY <2>1, InvWrites DEF MCInv
  <2>2. CASE WithoutMemory
    <3>1. /\ NoMem!NoReadDuringWrite
          /\ NoMem!At(Writer, "set canRead") => \A r \in Readers : ~NoMem!At(r, "read")
      BY <2>2, NoMemInvSays DEF MCInv
    <3>2. pc[Writer] \notin {"number", "wait change", "add", "give"}
      <4>1. pc[Writer] \in Between \cup NoMem!PhaseLabels
        BY <2>2 DEF MCInv, NoMemInv, NoMemPhases, Preparing, TurnToRead, ReadingOn,
                    TurnToPrepare, NoMem!At, NoMem!PhaseLabels
      <4> QED BY <4>1 DEF Between, NoMem!PhaseLabels
    <3> QED BY <3>1, <3>2 DEF NoReadDuringWrite, NoMem!NoReadDuringWrite, NoMem!At, At
  <2> QED BY <2>1, <2>2
<1> QED BY <1>1, MCInvariance, PTL

(* Each of the three programs implements the shared cell of Broadcast.     *)
THEOREM AllImplementBroadcast == MCSpec => ImplementsBroadcast
<1>1. MCInit => Cell!Init
  BY DEF MCInit, Init, Cell!Init, NoMem!Init
<1>2. MCInv /\ [MCNext]_mcvars => [Cell!Next]_(Cell!vars)
  <2> SUFFICES ASSUME MCInv, [MCNext]_mcvars PROVE [Cell!Next]_(Cell!vars)
    OBVIOUS
  <2>1. CASE ~WithoutMemory
    BY <2>1, OneProgramRuns, CellStep DEF MCInv
  <2>2. CASE WithoutMemory
    BY <2>2, OneProgramRuns, NoMemCellStep DEF MCInv
  <2> QED BY <2>1, <2>2
<1> QED BY <1>1, <1>2, MCInvariance, PTL DEF MCSpec, ImplementsBroadcast, Cell!Spec
=============================================================================
