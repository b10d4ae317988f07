---------------------------- MODULE SlimLockProofs ----------------------------
(***************************************************************************)
(* Proofs about OptimalReaderWriter and ReaderWriterServer, the programs   *)
(* that use the slim lock, for any number of readers, writers and clients. *)
(***************************************************************************)
EXTENDS MCSlimLock, SequenceTheorems, TLAPS

InLock == {"sleep", "read", "release"}          \* a reader that holds the lock
Writing == {"write", "wake", "release"}         \* the writer holds it

(* Who holds the lock follows from where the threads are.                  *)
LockHeld == /\ exclusive = Writer <=> pc[Writer] \in Writing
            /\ \A r \in Readers : r \in shared <=> pc[r] \in InLock
            /\ exclusive # Nobody => shared = {}

(* Only sleeping readers are on the condition variable.                    *)
SleepersSleep == \A r \in condread : pc[r] = "asleep"

(* A reader that is past its sleep has a message to read, unless nobody    *)
(* woke it; between the message and the wake-up it is new to everybody.    *)
WokenHasNews ==
  /\ \A r \in Readers : \/ pc[r] = "read"
                        \/ pc[r] = "asleep" /\ r \notin condread
                        => r \in unread \cup early
  /\ pc[Writer] = "wake" => unread = Readers

(* The inductive invariant.                                                *)
Inv == TypeOK /\ LockHeld /\ SleepersSleep /\ WokenHasNews

(* The threads start outside the lock.                                     *)
LEMMA InitInv == Init => Inv
<1> SUFFICES ASSUME Init PROVE Inv
  OBVIOUS
<1>1. TypeOK
  <2>1. 0 \in 0 .. MsgNums - 1 /\ 0 \in 0 .. MaxSpurious
    BY BoundAssumption
  <2> QED BY <2>1 DEF Init, TypeOK
<1>2. \A t \in Threads : pc[t] = "loop"
  BY DEF Init
<1>3. LockHeld
  BY <1>2, ConfigAssumption DEF Init, LockHeld, InLock, Writing, Threads
<1>4. SleepersSleep /\ WokenHasNews
  BY <1>2 DEF Init, SleepersSleep, WokenHasNews, Threads
<1> QED BY <1>1, <1>3, <1>4 DEF Inv

(* Every step keeps the types.                                             *)
LEMMA TypeStep ==
  ASSUME TypeOK, Next PROVE TypeOK'
<1>1. CASE \E r \in Readers : Reader(r) \/ SpuriousWake(r)
  BY <1>1, BoundAssumption, ConfigAssumption
     DEF Reader, SpuriousWake, LoopTest, ReaderAcquire, ReaderSleep, ReaderWake,
         Read, ReaderRelease, AcquireSRWLockShared, ReleaseSRWLockShared, Sleep,
         At, GoTo, Step, TypeOK, Threads, lock
<1>2. CASE WriterThread
  BY <1>2, BoundAssumption, ConfigAssumption
     DEF WriterThread, LoopTest, WriterAcquire, WriteMessage, WriterWakesAll,
         WriterRelease, AcquireSRWLockExclusive, ReleaseSRWLockExclusive,
         WakeAllConditionVariable, At, GoTo, Step, TypeOK, Threads, lock
<1>3. CASE TimeManager \/ Join
  BY <1>3 DEF TimeManager, Join, At, GoTo, Step, TypeOK, Threads, lock
<1> QED BY <1>1, <1>2, <1>3 DEF Next

(* Every step keeps the lock with those that the labels say have it.       *)
LEMMA LockStep ==
  ASSUME Inv, Next PROVE LockHeld'
<1>t. TypeOK /\ LockHeld /\ SleepersSleep
  BY DEF Inv
<1>1. CASE \E r \in Readers : Reader(r) \/ SpuriousWake(r)
  BY <1>1, <1>t, ConfigAssumption
     DEF Reader, SpuriousWake, LoopTest, ReaderAcquire, ReaderSleep, ReaderWake,
         Read, ReaderRelease, AcquireSRWLockShared, ReleaseSRWLockShared, Sleep,
         At, GoTo, Step, TypeOK, Threads, lock, LockHeld, InLock, Writing
<1>2. CASE WriterThread
  BY <1>2, <1>t, ConfigAssumption
     DEF WriterThread, LoopTest, WriterAcquire, WriteMessage, WriterWakesAll,
         WriterRelease, AcquireSRWLockExclusive, ReleaseSRWLockExclusive,
         WakeAllConditionVariable, At, GoTo, Step, TypeOK, Threads, lock,
         LockHeld, InLock, Writing
<1>3. CASE TimeManager \/ Join
  BY <1>3, <1>t, ConfigAssumption
     DEF TimeManager, Join, At, GoTo, Step, TypeOK, Threads, lock, LockHeld
<1> QED BY <1>1, <1>2, <1>3 DEF Next

(* Every step keeps the sleepers asleep.                                   *)
LEMMA SleepersStep ==
  ASSUME Inv, Next PROVE SleepersSleep'
<1>t. TypeOK /\ SleepersSleep
  BY DEF Inv
<1>1. CASE \E r \in Readers : Reader(r) \/ SpuriousWake(r)
  BY <1>1, <1>t, ConfigAssumption
     DEF Reader, SpuriousWake, LoopTest, ReaderAcquire, ReaderSleep, ReaderWake,
         Read, ReaderRelease, AcquireSRWLockShared, ReleaseSRWLockShared, Sleep,
         At, GoTo, Step, TypeOK, Threads, lock, SleepersSleep
<1>2. CASE WriterThread
  BY <1>2, <1>t, ConfigAssumption
     DEF WriterThread, LoopTest, WriterAcquire, WriteMessage, WriterWakesAll,
         WriterRelease, AcquireSRWLockExclusive, ReleaseSRWLockExclusive,
         WakeAllConditionVariable, At, GoTo, Step, TypeOK, Threads, lock,
         SleepersSleep
<1>3. CASE TimeManager \/ Join
  BY <1>3, <1>t, ConfigAssumption
     DEF TimeManager, Join, At, GoTo, Step, TypeOK, Threads, lock, SleepersSleep
<1> QED BY <1>1, <1>2, <1>3 DEF Next

(* Every step keeps what a woken reader can be sure of.                    *)
LEMMA NewsStep ==
  ASSUME Inv, Next PROVE WokenHasNews'
<1>t. TypeOK /\ LockHeld /\ SleepersSleep /\ WokenHasNews
  BY DEF Inv
<1>1. CASE \E r \in Readers : Reader(r) \/ SpuriousWake(r)
  <2>1. CASE \E r \in Readers : Read(r)
    <3>1. PICK r \in Readers : Read(r)
      BY <2>1
    <3>2. pc[Writer] # "wake"
      BY <3>1, <1>t, ConfigAssumption
         DEF Read, Step, At, LockHeld, InLock, Writing, Threads
    <3> QED BY <3>1, <3>2, <1>t, ConfigAssumption
            DEF Read, Step, At, GoTo, TypeOK, Threads, WokenHasNews, lock
  <2>2. CASE \E r \in Readers : \/ LoopTest(r) \/ ReaderAcquire(r)
                                \/ ReaderSleep(r) \/ ReaderWake(r)
                                \/ ReaderRelease(r) \/ SpuriousWake(r)
    BY <2>2, <1>t, ConfigAssumption
       DEF SpuriousWake, LoopTest, ReaderAcquire, ReaderSleep, ReaderWake,
           ReaderRelease, AcquireSRWLockShared, ReleaseSRWLockShared, Sleep,
           At, GoTo, Step, TypeOK, Threads, lock, WokenHasNews
  <2> QED BY <1>1, <2>1, <2>2 DEF Reader
<1>2. CASE WriterThread
  BY <1>2, <1>t, ConfigAssumption
     DEF WriterThread, LoopTest, WriterAcquire, WriteMessage, WriterWakesAll,
         WriterRelease, AcquireSRWLockExclusive, ReleaseSRWLockExclusive,
         WakeAllConditionVariable, At, GoTo, Step, TypeOK, Threads, lock,
         WokenHasNews
<1>3. CASE TimeManager \/ Join
  BY <1>3, <1>t, ConfigAssumption
     DEF TimeManager, Join, At, GoTo, Step, TypeOK, Threads, lock, WokenHasNews
<1> QED BY <1>1, <1>2, <1>3 DEF Next

(* Every step keeps the invariant.                                         *)
LEMMA StepInv == Inv /\ [Next]_vars => Inv'
<1> SUFFICES ASSUME Inv, [Next]_vars PROVE Inv'
  OBVIOUS
<1>1. CASE UNCHANGED vars
  BY <1>1 DEF vars, lock, Inv, TypeOK, LockHeld, SleepersSleep, WokenHasNews
<1>2. CASE Next
  BY <1>2, TypeStep, LockStep, SleepersStep, NewsStep DEF Inv
<1> QED BY <1>1, <1>2

(* The variables keep their types.                                         *)
THEOREM OptimalTypes == Spec => []TypeOK
<1>1. Inv => TypeOK
  BY DEF Inv
<1> QED BY InitInv, StepInv, <1>1, PTL DEF Spec

(* No reader, of any number of them, reads while the writer writes.        *)
THEOREM ReadersKeptOut == Spec => []NoReadDuringWrite
<1>1. Inv => NoReadDuringWrite
  BY ConfigAssumption
     DEF Inv, LockHeld, InLock, Writing, NoReadDuringWrite, At, Threads
<1> QED BY InitInv, StepInv, <1>1, PTL DEF Spec

(* No reader reads a message twice unless a wake-up was spurious.          *)
THEOREM NothingTwice == Spec => NoMessageTwice
<1>1. Inv /\ [Next]_vars =>
        [\A r \in Readers : Read(r) => r \in unread \cup early]_vars
  BY DEF Inv, WokenHasNews, Read, Step, At
<1> QED BY InitInv, StepInv, <1>1, PTL DEF Spec, NoMessageTwice
-----------------------------------------------------------------------------
(* The server.  Instance threads are at the labels InLock while they hold  *)
(* the lock, writers at Writing, and some threads keep it to their end.    *)
Texts == {ExitText} \cup 0 .. 0
Ending == {"goodbye", "flush", "finished"}

ServerTypes == Server!TypeOK /\ channel \in [Clients -> Seq(Texts)]

ServerLock ==
  /\ \A w \in Writers : rw = w <=> spc[w] \in Writing
  /\ rw # Nobody => held = {}
  /\ \A c \in Clients : spc[c] \in InLock => c \in held
  /\ \A c \in held : spc[c] \in InLock \cup Ending
  /\ \A c \in held : spc[c] \in Ending => client[c] = "gone"

(* Who has not been let in has no instance thread that could hold a lock.  *)
Newcomers ==
  /\ \A c \in Clients : client[c] = "start" \/ visitor = c =>
                          c \notin held /\ spc[c] \in {"none", "finished"}
  /\ \A c \in Clients : visitor = c => client[c] # "start"

(* Unless a writer came too early, who is inside owns the critical section.*)
Section ==
  /\ ~hasty => \A w \in Writers : spc[w] \in Server!Inside => crs = w
  /\ spc[Main] = "initialize" => crs = Server!Uninitialized

(* The inductive invariant of the server.                                  *)
ServerInv == ServerTypes /\ ServerLock /\ Newcomers /\ Section

(* The server starts in the invariant.                                     *)
LEMMA ServerStarts == Server!Init => ServerInv
<1> SUFFICES ASSUME Server!Init PROVE ServerInv
  OBVIOUS
<1>0. /\ spc[Main] = "initialize" /\ \A w \in Writers : spc[w] = "loop"
      /\ \A c \in Clients : spc[c] = "none"
  BY ServerAssumption DEF Server!Init, Server!Threads
<1>1. ServerTypes
  <2>1. \A c \in Clients : channel[c] = <<>> /\ Len(channel[c]) = 0
    BY DEF Server!Init
  <2>2. channel \in [Clients -> Seq(Texts)]
    BY DEF Server!Init
  <2>3. message \in 0 .. 1 - 1 /\ wakeups \in 0 .. MaxSpurious
    BY BoundAssumption DEF Server!Init
  <2>4. \A c \in Clients : Len(channel[c]) <= PipeSize
    BY <2>1, PipeAssumption
  <2>5. DOMAIN spc = Server!Threads
    BY DEF Server!Init
  <2> QED BY <2>2, <2>3, <2>4, <2>5 DEF ServerTypes, Server!TypeOK, Server!Init
<1>2. ServerLock
  BY <1>0, ServerAssumption DEF Server!Init, ServerLock, InLock, Writing
<1>3. Newcomers /\ Section
  BY <1>0, ServerAssumption DEF Server!Init, Newcomers, Section, Server!Inside
<1> QED BY <1>1, <1>2, <1>3 DEF ServerInv
(* WriteFile puts no more into a pipe than it holds.                       *)
LEMMA PipeHolds ==
  ASSUME ServerTypes, NEW c \in Clients, NEW text \in Texts, Server!WriteFile(c, text)
  PROVE  /\ channel' \in [Clients -> Seq(Texts)]
         /\ \A d \in Clients : Len(channel'[d]) <= PipeSize
<1>1. channel[c] \in Seq(Texts) /\ Len(channel[c]) < PipeSize
      /\ channel' = [channel EXCEPT ![c] = Append(channel[c], text)]
  BY DEF ServerTypes, Server!WriteFile
<1>2. Append(channel[c], text) \in Seq(Texts)
      /\ Len(Append(channel[c], text)) = Len(channel[c]) + 1 /\ Len(channel[c]) \in Nat
  BY <1>1, AppendProperties, LenProperties
<1>3. Len(Append(channel[c], text)) <= PipeSize
  BY <1>1, <1>2, PipeAssumption
<1> DEFINE longer == Append(channel[c], text)
<1> HIDE DEF longer
<1>4. channel' = [channel EXCEPT ![c] = longer] /\ longer \in Seq(Texts) /\ Len(longer) <= PipeSize
  BY <1>1, <1>2, <1>3 DEF longer
<1> QED BY <1>4 DEF ServerTypes, Server!TypeOK

(* A pipe that is emptied.                                                 *)
LEMMA PipeEmptied ==
  ASSUME ServerTypes, NEW c \in Clients, channel' = [channel EXCEPT ![c] = <<>>]
  PROVE  /\ channel' \in [Clients -> Seq(Texts)]
         /\ \A d \in Clients : Len(channel'[d]) <= PipeSize
<1>1. <<>> \in Seq(Texts) /\ Len(<<>>) = 0
  BY EmptySeq
<1> QED BY <1>1, PipeAssumption DEF ServerTypes, Server!TypeOK

(* Every step of the server keeps the types.                               *)
LEMMA ServerTypeStep == ServerTypes /\ Server!Next => ServerTypes'
<1> SUFFICES ASSUME ServerTypes, Server!Next PROVE ServerTypes'
  OBVIOUS
<1> USE DEF ServerTypes, Server!TypeOK, Server!Step, Server!At, Server!GoTo, Server!lock,
            Server!section, Server!news, Server!pipes, Server!Uninitialized, Server!Corrupt,
            Server!AcquireSRWLockExclusive, Server!ReleaseSRWLockExclusive,
            Server!AcquireSRWLockShared, Server!ReleaseSRWLockShared, Server!Sleep,
            Server!WakeAllConditionVariable
<1>1. ASSUME NEW c \in Clients, Server!InstanceThread(c) PROVE ServerTypes'
  <2>1. CASE Server!Send(c)
    <3>1. message \in Texts
      BY DEF Texts
    <3> QED BY <2>1, <3>1, PipeHolds DEF Server!Send
  <2>2. CASE Server!Goodbye(c)
    <3>1. ExitText \in Texts
      BY DEF Texts
    <3> QED BY <2>2, <3>1, PipeHolds DEF Server!Goodbye
  <2>3. CASE Server!Disconnect(c)
    BY <2>3, PipeEmptied DEF Server!Disconnect
  <2>4. CASE Server!LoopTest(c, "acquire", "goodbye") \/ Server!ReaderAcquire(c)
             \/ Server!ReaderSleep(c) \/ Server!ReaderWake(c) \/ Server!SendFails(c)
             \/ Server!ReaderRelease(c)
    BY <2>4 DEF Server!LoopTest, Server!ReaderAcquire, Server!ReaderSleep, Server!ReaderWake,
                Server!SendFails, Server!ReaderRelease
  <2> QED BY <1>1, <2>1, <2>2, <2>3, <2>4 DEF Server!InstanceThread
<1>2. ASSUME NEW c \in Clients, Server!SpuriousWake(c) \/ Server!Client(c) PROVE ServerTypes'
  <2>1. CASE Server!SpuriousWake(c)
    BY <2>1, BoundAssumption DEF Server!SpuriousWake
  <2>2. CASE Server!ClientReads(c)
    BY <2>2, PipeEmptied DEF Server!ClientReads
  <2>3. CASE Server!ClientOpens(c) \/ Server!ClientGivesUp(c) \/ Server!ClientKilled(c)
    BY <2>3 DEF Server!ClientOpens, Server!ClientGivesUp, Server!ClientKilled
  <2> QED BY <1>2, <2>1, <2>2, <2>3 DEF Server!Client
<1>3. ASSUME NEW w \in Writers, Server!ThreadWriter(w) PROVE ServerTypes'
  <2>1. CASE Server!WriteMessage(w)
    BY <2>1 DEF Server!WriteMessage
  <2>2. CASE Server!LoopTest(w, "enter", "finished") \/ Server!EnterSection(w)
             \/ Server!WriterAcquire(w) \/ Server!WriterWakesAll(w)
             \/ Server!WriterRelease(w) \/ Server!LeaveSection(w)
    BY <2>2 DEF Server!LoopTest, Server!EnterSection, Server!WriterAcquire,
                Server!WriterWakesAll, Server!WriterRelease, Server!LeaveSection
  <2> QED BY <1>3, <2>1, <2>2 DEF Server!ThreadWriter
<1>4. ASSUME Server!MainThread PROVE ServerTypes'
  BY <1>4 DEF Server!MainThread, Server!InitializeSection, Server!LoopTest,
              Server!CreateNamedPipe, Server!TurnAway, Server!ConnectNamedPipe,
              Server!CreateInstance, Server!Join
<1>5. ASSUME Server!Exit \/ Server!TimeManager PROVE ServerTypes'
  BY <1>5 DEF Server!Exit, Server!TimeManager
<1> QED BY <1>1, <1>2, <1>3, <1>4, <1>5 DEF Server!Next
(* Every step keeps the slim lock with those that the labels say have it.  *)
LEMMA ServerLockStep == ServerInv /\ Server!Next => ServerLock'
<1> SUFFICES ASSUME ServerTypes, ServerLock, Newcomers, Section, Server!Next PROVE ServerLock'
  BY DEF ServerInv
<1>0. DOMAIN spc = Server!Threads /\ held \subseteq Clients /\ rw \in Writers \cup {Nobody}
  BY DEF ServerTypes, Server!TypeOK
<1> USE DEF Server!Step, Server!At, Server!GoTo, Server!lock, Server!section, Server!news,
            Server!pipes, Server!AcquireSRWLockExclusive, Server!ReleaseSRWLockExclusive,
            Server!AcquireSRWLockShared, Server!ReleaseSRWLockShared, Server!Sleep,
            Server!WakeAllConditionVariable, Server!Threads
<1> USE <1>0, ServerAssumption DEF ServerLock, Newcomers, InLock, Writing, Ending
<1>1. ASSUME NEW c \in Clients, Server!InstanceThread(c) PROVE ServerLock'
  <2>1. CASE Server!LoopTest(c, "acquire", "goodbye") \/ Server!ReaderAcquire(c)
             \/ Server!ReaderSleep(c) \/ Server!ReaderWake(c)
    BY <2>1 DEF Server!LoopTest, Server!ReaderAcquire, Server!ReaderSleep, Server!ReaderWake
  <2>2. CASE Server!Send(c) \/ Server!SendFails(c) \/ Server!ReaderRelease(c)
    BY <2>2 DEF Server!Send, Server!SendFails, Server!ReaderRelease
  <2>3. CASE Server!Goodbye(c) \/ Server!Disconnect(c)
    BY <2>3 DEF Server!Goodbye, Server!Disconnect
  <2> QED BY <1>1, <2>1, <2>2, <2>3 DEF Server!InstanceThread
<1>2. ASSUME NEW c \in Clients, Server!SpuriousWake(c) \/ Server!Client(c) PROVE ServerLock'
  BY <1>2 DEF Server!SpuriousWake, Server!Client, Server!ClientReads, Server!ClientOpens,
              Server!ClientGivesUp, Server!ClientKilled, ServerTypes, Server!TypeOK
<1>3. ASSUME NEW w \in Writers, Server!ThreadWriter(w) PROVE ServerLock'
  <2>1. CASE Server!LoopTest(w, "enter", "finished") \/ Server!EnterSection(w)
    BY <2>1 DEF Server!LoopTest, Server!EnterSection
  <2>2. CASE Server!WriterAcquire(w) \/ Server!WriteMessage(w) \/ Server!WriterWakesAll(w)
    BY <2>2 DEF Server!WriterAcquire, Server!WriteMessage, Server!WriterWakesAll
  <2>3. CASE Server!WriterRelease(w) \/ Server!LeaveSection(w)
    BY <2>3 DEF Server!WriterRelease, Server!LeaveSection
  <2> QED BY <1>3, <2>1, <2>2, <2>3 DEF Server!ThreadWriter
<1>4. ASSUME Server!MainThread PROVE ServerLock'
  <2>1. CASE Server!CreateInstance
    BY <2>1 DEF Server!CreateInstance, ServerTypes, Server!TypeOK
  <2>2. CASE ~Server!CreateInstance
    BY <1>4, <2>2 DEF Server!MainThread, Server!InitializeSection, Server!LoopTest,
       Server!CreateNamedPipe, Server!TurnAway, Server!ConnectNamedPipe, Server!Join
  <2> QED BY <2>1, <2>2
<1>5. ASSUME Server!Exit \/ Server!TimeManager PROVE ServerLock'
  BY <1>5 DEF Server!Exit, Server!TimeManager
<1> QED BY <1>1, <1>2, <1>3, <1>4, <1>5 DEF Server!Next

(* Every step keeps the newcomers out of the lock.                         *)
LEMMA NewcomersStep == ServerInv /\ Server!Next => Newcomers'
<1> SUFFICES ASSUME ServerTypes, ServerLock, Newcomers, Section, Server!Next PROVE Newcomers'
  BY DEF ServerInv
<1>0. DOMAIN spc = Server!Threads
  BY DEF ServerTypes, Server!TypeOK
<1> USE DEF Server!Step, Server!At, Server!GoTo, Server!lock, Server!section, Server!news,
            Server!pipes, Server!AcquireSRWLockExclusive, Server!ReleaseSRWLockExclusive,
            Server!AcquireSRWLockShared, Server!ReleaseSRWLockShared, Server!Sleep,
            Server!WakeAllConditionVariable, Server!Threads
<1> USE <1>0, ServerAssumption DEF Newcomers
<1>1. ASSUME NEW c \in Clients, Server!InstanceThread(c) PROVE Newcomers'
  <2>1. CASE Server!LoopTest(c, "acquire", "goodbye") \/ Server!ReaderAcquire(c)
             \/ Server!ReaderSleep(c) \/ Server!ReaderWake(c)
    BY <2>1 DEF Server!LoopTest, Server!ReaderAcquire, Server!ReaderSleep, Server!ReaderWake
  <2>2. CASE Server!Send(c) \/ Server!SendFails(c) \/ Server!ReaderRelease(c)
    BY <2>2 DEF Server!Send, Server!SendFails, Server!ReaderRelease
  <2>3. CASE Server!Goodbye(c) \/ Server!Disconnect(c)
    BY <2>3 DEF Server!Goodbye, Server!Disconnect
  <2> QED BY <1>1, <2>1, <2>2, <2>3 DEF Server!InstanceThread
<1>2. ASSUME NEW c \in Clients, Server!SpuriousWake(c) \/ Server!Client(c) PROVE Newcomers'
  BY <1>2 DEF Server!SpuriousWake, Server!Client, Server!ClientReads, Server!ClientOpens,
              Server!ClientGivesUp, Server!ClientKilled, ServerTypes, Server!TypeOK
<1>3. ASSUME NEW w \in Writers, Server!ThreadWriter(w) PROVE Newcomers'
  <2>1. CASE Server!LoopTest(w, "enter", "finished") \/ Server!EnterSection(w)
    BY <2>1 DEF Server!LoopTest, Server!EnterSection
  <2>2. CASE Server!WriterAcquire(w) \/ Server!WriteMessage(w) \/ Server!WriterWakesAll(w)
    BY <2>2 DEF Server!WriterAcquire, Server!WriteMessage, Server!WriterWakesAll
  <2>3. CASE Server!WriterRelease(w) \/ Server!LeaveSection(w)
    BY <2>3 DEF Server!WriterRelease, Server!LeaveSection
  <2> QED BY <1>3, <2>1, <2>2, <2>3 DEF Server!ThreadWriter
<1>4. ASSUME Server!MainThread PROVE Newcomers'
  <2>1. CASE Server!CreateInstance
    BY <2>1 DEF Server!CreateInstance, ServerTypes, Server!TypeOK
  <2>2. CASE ~Server!CreateInstance
    BY <1>4, <2>2 DEF Server!MainThread, Server!InitializeSection, Server!LoopTest,
       Server!CreateNamedPipe, Server!TurnAway, Server!ConnectNamedPipe, Server!Join
  <2> QED BY <2>1, <2>2
<1>5. ASSUME Server!Exit \/ Server!TimeManager PROVE Newcomers'
  BY <1>5 DEF Server!Exit, Server!TimeManager
<1> QED BY <1>1, <1>2, <1>3, <1>4, <1>5 DEF Server!Next

(* Every step keeps the critical section with its owner.                   *)
LEMMA SectionStep == ServerInv /\ Server!Next => Section'
<1> SUFFICES ASSUME ServerTypes, ServerLock, Newcomers, Section, Server!Next PROVE Section'
  BY DEF ServerInv
<1>0. DOMAIN spc = Server!Threads
  BY DEF ServerTypes, Server!TypeOK
<1> USE DEF Server!Step, Server!At, Server!GoTo, Server!lock, Server!section, Server!news,
            Server!pipes, Server!AcquireSRWLockExclusive, Server!ReleaseSRWLockExclusive,
            Server!AcquireSRWLockShared, Server!ReleaseSRWLockShared, Server!Sleep,
            Server!WakeAllConditionVariable, Server!Threads
<1> USE <1>0, ServerAssumption DEF Section, Server!Inside, Server!Uninitialized, Server!Corrupt
<1>1. ASSUME NEW c \in Clients, Server!InstanceThread(c) PROVE Section'
  <2>1. CASE Server!LoopTest(c, "acquire", "goodbye") \/ Server!ReaderAcquire(c)
             \/ Server!ReaderSleep(c) \/ Server!ReaderWake(c)
    BY <2>1 DEF Server!LoopTest, Server!ReaderAcquire, Server!ReaderSleep, Server!ReaderWake
  <2>2. CASE Server!Send(c) \/ Server!SendFails(c) \/ Server!ReaderRelease(c)
    BY <2>2 DEF Server!Send, Server!SendFails, Server!ReaderRelease
  <2>3. CASE Server!Goodbye(c) \/ Server!Disconnect(c)
    BY <2>3 DEF Server!Goodbye, Server!Disconnect
  <2> QED BY <1>1, <2>1, <2>2, <2>3 DEF Server!InstanceThread
<1>2. ASSUME NEW c \in Clients, Server!SpuriousWake(c) \/ Server!Client(c) PROVE Section'
  BY <1>2 DEF Server!SpuriousWake, Server!Client, Server!ClientReads, Server!ClientOpens,
              Server!ClientGivesUp, Server!ClientKilled, ServerTypes, Server!TypeOK
<1>3. ASSUME NEW w \in Writers, Server!ThreadWriter(w) PROVE Section'
  <2>1. CASE Server!LoopTest(w, "enter", "finished") \/ Server!EnterSection(w)
    BY <2>1 DEF Server!LoopTest, Server!EnterSection
  <2>2. CASE Server!WriterAcquire(w) \/ Server!WriteMessage(w) \/ Server!WriterWakesAll(w)
    BY <2>2 DEF Server!WriterAcquire, Server!WriteMessage, Server!WriterWakesAll
  <2>3. CASE Server!WriterRelease(w) \/ Server!LeaveSection(w)
    BY <2>3 DEF Server!WriterRelease, Server!LeaveSection
  <2> QED BY <1>3, <2>1, <2>2, <2>3 DEF Server!ThreadWriter
<1>4. ASSUME Server!MainThread PROVE Section'
  <2>1. CASE Server!CreateInstance
    BY <2>1 DEF Server!CreateInstance, ServerTypes, Server!TypeOK
  <2>2. CASE ~Server!CreateInstance
    BY <1>4, <2>2 DEF Server!MainThread, Server!InitializeSection, Server!LoopTest,
       Server!CreateNamedPipe, Server!TurnAway, Server!ConnectNamedPipe, Server!Join
  <2> QED BY <2>1, <2>2
<1>5. ASSUME Server!Exit \/ Server!TimeManager PROVE Section'
  BY <1>5 DEF Server!Exit, Server!TimeManager
<1> QED BY <1>1, <1>2, <1>3, <1>4, <1>5 DEF Server!Next

(* Every step of the server keeps the invariant.                           *)
LEMMA ServerInvKept == ServerInv /\ [Server!Next]_(Server!vars) => ServerInv'
<1>1. ServerInv /\ UNCHANGED Server!vars => ServerInv'
  BY DEF ServerInv, ServerTypes, ServerLock, Newcomers, Section, Server!TypeOK, Server!vars,
         Server!lock, Server!section, Server!news, Server!pipes
<1>2. ServerInv /\ Server!Next => ServerInv'
  BY ServerTypeStep, ServerLockStep, NewcomersStep, SectionStep DEF ServerInv
<1> QED BY <1>1, <1>2

(* A step of the two programs is a step of one of them, and none of the    *)
(* other one.                                                              *)
LEMMA OneProgramRuns ==
  ASSUME [MCNext]_mcvars
  PROVE  [Next]_vars /\ [Server!Next]_(Server!vars)
<1>1. UNCHANGED serverVars => UNCHANGED Server!vars
  BY DEF serverVars, Server!vars, Server!lock, Server!section, Server!news, Server!pipes
<1>2. CASE UNCHANGED mcvars
  BY <1>1, <1>2 DEF mcvars
<1>3. CASE MCNext
  <2>1. \/ Next /\ UNCHANGED serverVars
        \/ Server!Next /\ UNCHANGED vars
    BY <1>3 DEF MCNext, InThreads, InServer, MCReader, MCWriter, MCJoin, InstanceThread,
       ThreadWriter, MainThread, ClientReads, Next, Server!Next, Server!Client
  <2> QED BY <1>1, <2>1
<1> QED BY <1>2, <1>3

(* Both invariants hold of the two programs together.                      *)
LEMMA MCInvariance == MCSpec => [](Inv /\ ServerInv)
<1>1. MCInit => Inv /\ ServerInv
  BY InitInv, ServerStarts DEF MCInit
<1>2. Inv /\ ServerInv /\ [MCNext]_mcvars => Inv' /\ ServerInv'
  BY OneProgramRuns, StepInv, ServerInvKept
<1> QED BY <1>1, <1>2, PTL DEF MCSpec

(* For any number of clients and writers: the writers are alone in the     *)
(* critical section unless one of them came before it was initialized, the *)
(* slim lock keeps readers and other writers out of a writing in any case, *)
(* and it is kept for ever only by a thread whose client has gone.         *)
THEOREM ServerExcludes == MCSpec => []ServerExclusion
<1>1. Inv /\ ServerInv => ServerExclusion
  <2> SUFFICES ASSUME ServerTypes, ServerLock, Section PROVE ServerExclusion
    BY DEF ServerInv
  <2>1. ~hasty => \A v, w \in Writers :
                     spc[v] \in Server!Inside /\ spc[w] \in Server!Inside => v = w
    BY DEF Section
  <2>2. ASSUME NEW w \in Writers, spc[w] \in Writing
        PROVE  /\ \A v \in Writers \ {w} : spc[v] \notin Writing
               /\ \A c \in Clients : ~Server!At(c, "read")
    BY <2>2, ServerAssumption DEF ServerLock, InLock, Server!At
  <2>3. \A c \in Clients : Server!Kept(c) => client[c] = "gone"
    BY DEF ServerLock, Server!Kept, Ending
  <2> QED BY <2>1, <2>2, <2>3 DEF ServerExclusion, Server!Exclusion, ServerTypes, Writing
<1> QED BY <1>1, MCInvariance, PTL
=============================================================================
