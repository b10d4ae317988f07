--------------------------- MODULE ProgramsProofs ---------------------------
(***************************************************************************)
(* The programs that talk through a means of the system: what a client gets*)
(* back is what it has sent, what is written to the shared memory and to   *)
(* the mailslot is read whole, one hand at a time moves a connection, and a*)
(* client costs the server one worker at most, for any number of clients,  *)
(* workers, texts and rounds.  Each program has an inductive invariant of  *)
(* its own; since a step of one of them changes nothing of the others, all *)
(* hold together.  The last part is about SystemInformation, whose partner *)
(* is Windows.                                                             *)
(***************************************************************************)
EXTENDS MCPrograms, SequenceTheorems, FiniteSetTheorems, TLAPS

(* SharedMemory: who copies or reads has the mutex, but for a client that  *)
(* has no handle; the two halves of the memory are of one text while nobody*)
(* writes, and what the client has read of them is what they are.          *)
Holds(labels, p) == pc[p] \in labels => mutex = p
MemoryInv ==
  /\ Memory!TypeOK
  /\ Holds({"copy", "second", "release"}, Producer)
  /\ handle => Holds({"read", "second", "release"}, Consumer)
  /\ pc[Producer] # "second" => memory[1] = memory[2] \/ torn
  /\ torn => pc[Producer] = "ended"
  /\ pc[Consumer] \in {"start", "map"} => halves[1] = halves[2]
  /\ handle /\ pc[Consumer] = "second" => halves = <<memory[1], memory[1]>>
  /\ halves[1] = halves[2] \/ torn \/ ~handle
  /\ pc[Consumer] # "ended" => readings < Readings

(* Mailslot: everything that was written is in the slot or shown.          *)
SlotInv ==
  /\ Slot!TypeOK /\ Slot!AllShown
  /\ slot \in Seq(Nat) /\ shown \in Seq(Nat)
  /\ late <= written /\ Len(slot) <= written
  /\ writer # "ended" => written < MsgNums

(* NamedPipes: a client that has not begun to ask has no question either.  *)
PipesInv ==
  /\ Pipes!TypeOK /\ Pipes!OneQuestion
  /\ \A c \in Clients : asking[c] = "start" => asked[c] = "nothing" /\ answer[c] = "nothing"

(* AnonymousPipes: the number that is under way, in one of three places, is*)
(* the one the client waits for.                                           *)
UnderWay == {toServer, inServer.has, toClient} \ {0}
RedirectedInv ==
  /\ Redirected!TypeOK /\ Redirected!AnswersMatch
  /\ UnderWay \subseteq {inClient}
  /\ UnderWay # {} => child # "write"
  /\ toServer # 0 => inServer.has = 0 /\ toClient = 0
  /\ inServer.has # 0 => toServer = 0 /\ toClient = 0
  /\ parent \in {"read", "write"} => inServer.round <= MsgNums
  /\ child \in {"read", "write"} => inClient <= MsgNums

(* EchoSockets, types: as TypeOK, and the workers that wait, handle a      *)
(* completion or have still to print are not more than all of them.        *)
Completions == Clients \X {"bytes", "nothing", "failed"}
SocketTypes ==
  /\ port \in BOOLEAN /\ running \in BOOLEAN
  /\ client \in [Clients -> {"start", "prompt", "waiting", "closed", "killed"}]
  /\ conn \in [Clients -> {"none", "open", "closed", "freed"}]
  /\ op \in [Clients -> {"none", "recv", "send", "welcome"}]
  /\ received \in [Clients -> BOOLEAN]
  /\ typed \in [Clients -> Nat] /\ seen \in [Clients -> Nat]
  /\ up \in [Clients -> Seq(Texts)] /\ echo \in [Clients -> Seq(Texts)]
  /\ buffer \in [Clients -> Seq(Texts)]
  /\ \A c \in Clients : buffer[c] # <<>> /\ seen[c] <= Len(echo[c])

PoolTypes ==
  /\ queue \in Seq(Completions) /\ telling \in Seq(Clients)
  /\ busy \subseteq Clients \X {"bytes", "nothing"} /\ IsFiniteSet(busy)
  /\ idle \in Nat /\ idle + Cardinality(busy) + Len(telling) <= NumWorkers

(* Who is at work for a client: a completion in the queue or taken by a    *)
(* worker, one in all, while the server runs, its connection is open and no*)
(* operation is under way.  The end of the data is found after the client has gone, and *)
(* an operation fails only then.                                           *)
HandOf(x) ==
  running /\ op[x[1]] = "none" /\ conn[x[1]] = "open" /\ (x[2] # "bytes" => Gone(x[1]))
QueueAlone ==
  \A i, j \in 1 .. Len(queue) : queue[i][1] = queue[j][1] => i = j
BusyAlone == \A a, b \in busy : a[1] = b[1] => a = b
Apart == \A i \in 1 .. Len(queue) : \A b \in busy : b[1] # queue[i][1]
HandInv ==
  /\ QueueAlone /\ BusyAlone /\ Apart
  /\ \A i \in 1 .. Len(queue) : HandOf(queue[i])
  /\ \A b \in busy : HandOf(b)
  /\ ~port => running /\ queue = <<>> /\ busy = {} /\ telling = <<>>

(* What was sent back, what is in the hand of the server and what is on    *)
(* its way are all that the client has sent, until it has gone; and when it*)
(* has closed, the beginning, as long as somebody handles its connection.  *)
AtWork(c) == <<c, "bytes">> \in busy \/ \E i \in 1 .. Len(queue) : queue[i] = <<c, "bytes">>
Live(c) == /\ running /\ client[c] # "killed"
           /\ ~Gone(c) \/ conn[c] = "none" \/ op[c] # "none" \/ AtWork(c)
InHand(c) ==
  IF conn[c] = "none" THEN Prelude
  ELSE IF op[c] = "welcome" THEN <<Welcome>> \o buffer[c]
  ELSE IF op[c] = "send" \/ (port /\ op[c] = "none" /\ ~received[c]) THEN buffer[c]
  ELSE <<>>
All(c) == echo[c] \o (InHand(c) \o up[c])
Follows(c) == IsPrefix(All(c), Sent(c)) /\ (~Gone(c) => All(c) = Sent(c))
NoQuit(texts) == \A i \in 1 .. Len(texts) : texts[i] # Quit
StreamInv(c) ==
  /\ op[c] # "none" => conn[c] = "open" /\ running
  /\ client[c] = "start" => conn[c] = "none" /\ up[c] = <<>>
  /\ conn[c] = "none" => buffer[c] = <<Blank>> /\ ~received[c] /\ echo[c] = <<>>
  /\ conn[c] \in {"closed", "freed"} => Gone(c)
  /\ op[c] = "welcome" => port
  /\ port /\ op[c] # "none" => (received[c] <=> op[c] = "send")
  /\ IsPrefix(echo[c], Sent(c))
  /\ Live(c) => Follows(c)
  /\ ~Gone(c) => NoQuit(up[c]) /\ NoQuit(buffer[c])

(* The clients that have gone and that nobody handles any more: a worker   *)
(* that ends, ends with one of them.                                       *)
Handled(c) == \/ op[c] # "none" \/ \E b \in busy : b[1] = c
              \/ \E i \in 1 .. Len(queue) : queue[i][1] = c
Unhandled == {c \in Clients : Gone(c) /\ conn[c] # "none" /\ ~Handled(c)}
WorkersInv ==
  /\ IsFiniteSet(Left)
  /\ running => idle + Cardinality(busy) + Len(telling) + Cardinality(Unhandled) >= NumWorkers

SocketsInv == /\ SocketTypes /\ PoolTypes /\ HandInv /\ WorkersInv
              /\ \A c \in Clients : StreamInv(c)

(* SharedTimer: a program that has the timer for itself has waited, with   *)
(* what remains, for its whole time, and when the timer has run out for its*)
(* whole time.                                                             *)
Due(p) == ttl[p] * Second
AloneWaits(p) == phase[p] = "wait" /\ alone[p] /\ Due(p) <= Half
TimerInv ==
  /\ Timer!TypeOK /\ Timer!NeverEarly
  /\ \A p \in Clients :
       /\ phase[p] \in {"create", "set", "wait", "close"} => ttl[p] > 0
       /\ phase[p] \in {"set", "wait", "close"} => p \in holders
       /\ AloneWaits(p) => /\ waited[p] >= Due(p) \/ waited[p] + remaining >= Due(p)
                           /\ signaled => waited[p] >= Due(p)

-----------------------------------------------------------------------------
(* Texts <- 2: a pair of halves is made of two of the texts.               *)
LEMMA Halves ==
  /\ \A a, b \in 0 .. 2 - 1 : <<a, b>> \in (0 .. 2 - 1) \X (0 .. 2 - 1)
  /\ \A h \in (0 .. 2 - 1) \X (0 .. 2 - 1) : h[1] \in 0 .. 2 - 1 /\ h[2] \in 0 .. 2 - 1
<1> DEFINE T == 0 .. 2 - 1
<1> HIDE DEF T
<1>1. /\ \A a, b \in T : <<a, b>> \in T \X T
      /\ \A h \in T \X T : h[1] \in T /\ h[2] \in T
  OBVIOUS
<1> QED BY <1>1 DEF T

(* A step of a process changes its own label only.                         *)
LEMMA MemoryGoes ==
  ASSUME Memory!TypeOK, NEW from, NEW to
  PROVE  /\ Memory!Goes(Producer, from, to) =>
              pc[Producer] = from /\ pc'[Producer] = to /\ pc'[Consumer] = pc[Consumer]
         /\ Memory!Goes(Consumer, from, to) =>
              pc[Consumer] = from /\ pc'[Consumer] = to /\ pc'[Producer] = pc[Producer]
BY ProgramsAssumption DEF Memory!TypeOK, Memory!Goes, Memory!Processes

(* The types of the shared memory are kept.                                *)
LEMMA MemoryTyped == MemoryInv /\ [Memory!Next]_(Memory!vars) => Memory!TypeOK'
<1> SUFFICES ASSUME MemoryInv, [Memory!Next]_(Memory!vars) PROVE Memory!TypeOK'
  OBVIOUS
<1> USE ProgramsAssumption DEF Memory!TypeOK, Memory!Goes, Memory!Processes
<1>1. ASSUME Memory!ServerProcess PROVE Memory!TypeOK'
  <2>1. CASE Memory!CopyFirst \/ Memory!CopySecond
    <3>1. memory' \in (0 .. 2 - 1) \X (0 .. 2 - 1)
      BY <2>1, Halves, Zenon DEF MemoryInv, Memory!CopyFirst, Memory!CopySecond
    <3> QED BY <2>1, <3>1 DEF MemoryInv, Memory!CopyFirst, Memory!CopySecond
  <2>2. CASE ~(Memory!CopyFirst \/ Memory!CopySecond)
    BY <1>1, <2>2 DEF MemoryInv, Memory!ServerProcess, Memory!CreateMutex, Memory!CreateMapping,
       Memory!WaitForMutex, Memory!ServerReleases, Memory!ReleaseMutex
  <2> QED BY <2>1, <2>2
<1>2. ASSUME Memory!ClientProcess PROVE Memory!TypeOK'
  <2>1. CASE Memory!ClientReleases
    <3>1. readings' \in 0 .. Readings
      BY <2>1 DEF Memory!ClientReleases, Memory!ReleaseMutex, MemoryInv
    <3> QED BY <2>1, <3>1 DEF Memory!ClientReleases, Memory!ReleaseMutex, MemoryInv
  <2>2. CASE Memory!ReadFirst \/ Memory!ReadSecond
    <3>1. halves' \in (0 .. 2 - 1) \X (0 .. 2 - 1)
      BY <2>2, Halves, Zenon DEF MemoryInv, Memory!ReadFirst, Memory!ReadSecond
    <3> QED BY <2>2, <3>1 DEF MemoryInv, Memory!ReadFirst, Memory!ReadSecond
  <2>3. CASE Memory!OpenMutex
    BY <2>3 DEF MemoryInv, Memory!OpenMutex
  <2>4. CASE Memory!OpenMapping \/ Memory!WaitForMutex(Consumer, "read")
    BY <2>4 DEF MemoryInv, Memory!OpenMapping, Memory!WaitForMutex
  <2> QED BY <1>2, <2>1, <2>2, <2>3, <2>4 DEF Memory!ClientProcess
<1>3. ASSUME NEW p \in {Producer, Consumer}, Memory!Killed(p) PROVE Memory!TypeOK'
  BY <1>3 DEF MemoryInv, Memory!Killed
<1>4. ASSUME UNCHANGED Memory!vars PROVE Memory!TypeOK'
  BY <1>4 DEF MemoryInv, Memory!vars
<1> QED BY <1>1, <1>2, <1>3, <1>4 DEF Memory!Next

(* What the server does keeps the halves together and the client out.      *)
LEMMA ServerKeepsMemory == MemoryInv /\ Memory!ServerProcess => MemoryInv'
<1> SUFFICES ASSUME MemoryInv, Memory!ServerProcess PROVE MemoryInv'
  OBVIOUS
<1>1. Memory!TypeOK /\ Memory!TypeOK'
  BY MemoryTyped DEF MemoryInv, Memory!Next
<1> USE <1>1, MemoryGoes, ProgramsAssumption DEF MemoryInv, Holds
<1>2. CASE Memory!CreateMutex
  BY <1>2 DEF Memory!CreateMutex
<1>3. CASE Memory!CreateMapping
  BY <1>3 DEF Memory!CreateMapping
<1>4. CASE Memory!WaitForMutex(Producer, "copy")
  BY <1>4 DEF Memory!WaitForMutex
<1>5. CASE Memory!CopyFirst
  BY <1>5 DEF Memory!CopyFirst
<1>6. CASE Memory!CopySecond
  BY <1>6 DEF Memory!CopySecond
<1>7. CASE Memory!ServerReleases
  BY <1>7 DEF Memory!ServerReleases, Memory!ReleaseMutex
<1> QED BY <1>2, <1>3, <1>4, <1>5, <1>6, <1>7 DEF Memory!ServerProcess

(* What the client does.                                                   *)
LEMMA ClientKeepsMemory == MemoryInv /\ Memory!ClientProcess => MemoryInv'
<1> SUFFICES ASSUME MemoryInv, Memory!ClientProcess PROVE MemoryInv'
  OBVIOUS
<1>1. Memory!TypeOK /\ Memory!TypeOK'
  BY MemoryTyped DEF MemoryInv, Memory!Next
<1> USE <1>1, MemoryGoes, ProgramsAssumption DEF MemoryInv, Holds
<1>2. CASE Memory!OpenMutex
  BY <1>2 DEF Memory!OpenMutex
<1>3. CASE Memory!OpenMapping
  BY <1>3 DEF Memory!OpenMapping
<1>4. CASE Memory!WaitForMutex(Consumer, "read")
  BY <1>4 DEF Memory!WaitForMutex
<1>5. CASE Memory!ReadFirst
  BY <1>5 DEF Memory!ReadFirst
<1>6. CASE Memory!ReadSecond
  BY <1>6 DEF Memory!ReadSecond
<1>7. CASE Memory!ClientReleases
  BY <1>7 DEF Memory!ClientReleases, Memory!ReleaseMutex, Memory!TypeOK
<1> QED BY <1>2, <1>3, <1>4, <1>5, <1>6, <1>7 DEF Memory!ClientProcess

(* A process that dies frees the mutex; the server leaves a text torn if it*)
(* was in the middle of one.                                               *)
LEMMA DeathKeepsMemory ==
  ASSUME MemoryInv, NEW p \in {Producer, Consumer}, Memory!Killed(p)
  PROVE  MemoryInv'
<1>1. Memory!TypeOK /\ Memory!TypeOK'
  BY MemoryTyped DEF MemoryInv, Memory!Next, Memory!Processes
<1>2. /\ pc'[p] = "ended" /\ \A q \in {Producer, Consumer} : q # p => pc'[q] = pc[q]
      /\ mutex' = IF mutex = p THEN Nobody ELSE mutex
      /\ torn' = (torn \/ (p = Producer /\ pc[p] = "second"))
      /\ UNCHANGED <<handle, memory, halves, readings>>
  BY <1>1 DEF Memory!Killed, Memory!TypeOK, Memory!Processes
<1>3. CASE p = Producer
  BY <1>1, <1>2, <1>3, ProgramsAssumption DEF MemoryInv, Holds
<1>4. CASE p = Consumer
  BY <1>1, <1>2, <1>4, ProgramsAssumption DEF MemoryInv, Holds
<1> QED BY <1>3, <1>4

(* The shared memory's invariant is kept by every step.                    *)
LEMMA MemoryKept == MemoryInv /\ [Memory!Next]_(Memory!vars) => MemoryInv'
<1>1. MemoryInv /\ UNCHANGED Memory!vars => MemoryInv'
  BY DEF MemoryInv, Memory!vars, Memory!TypeOK, Holds
<1> QED BY <1>1, ServerKeepsMemory, ClientKeepsMemory, DeathKeepsMemory
        DEF Memory!Next, Memory!Processes

(* It holds before the processes have begun.                               *)
LEMMA MemoryStarts == Memory!Init => MemoryInv
<1> SUFFICES ASSUME Memory!Init PROVE MemoryInv
  OBVIOUS
<1>1. Memory!TypeOK
  <2>1. <<0, 0>> \in (0 .. 2 - 1) \X (0 .. 2 - 1)
    BY Halves
  <2>2. memory \in (0 .. 2 - 1) \X (0 .. 2 - 1) /\ halves \in (0 .. 2 - 1) \X (0 .. 2 - 1)
    BY <2>1, Zenon DEF Memory!Init
  <2>3. pc \in [Memory!Processes -> {"start"}]
    BY DEF Memory!Init
  <2>4. readings \in 0 .. Readings
    BY ProgramsAssumption DEF Memory!Init
  <2> QED BY <2>2, <2>3, <2>4 DEF Memory!Init, Memory!TypeOK
<1>2. pc[Producer] = "start" /\ pc[Consumer] = "start"
  BY DEF Memory!Init, Memory!Processes
<1> QED BY <1>1, <1>2, ProgramsAssumption DEF Memory!Init, MemoryInv, Holds
-----------------------------------------------------------------------------
(* What is under way in the redirected pipes is a number and stays the one *)
(* the client waits for, whoever is killed.                                *)
LEMMA RedirectedKept ==
  RedirectedInv /\ [Redirected!Next]_(Redirected!vars) => RedirectedInv'
<1> SUFFICES ASSUME RedirectedInv, [Redirected!Next]_(Redirected!vars) PROVE RedirectedInv'
  OBVIOUS
<1> USE ProgramsAssumption
    DEF RedirectedInv, Redirected!TypeOK, Redirected!AnswersMatch, UnderWay, Redirected!Nothing
<1>1. CASE Redirected!ServerReads
  BY <1>1 DEF Redirected!ServerReads
<1>2. CASE Redirected!ServerReadFails
  BY <1>2 DEF Redirected!ServerReadFails
<1>3. CASE Redirected!ServerWrites
  BY <1>3 DEF Redirected!ServerWrites
<1>4. CASE Redirected!ServerWriteFails
  BY <1>4 DEF Redirected!ServerWriteFails
<1>5. CASE Redirected!ClientWrites
  BY <1>5 DEF Redirected!ClientWrites
<1>6. CASE Redirected!ClientReads
  <2>1. toClient = inClient /\ inServer.has = 0 /\ toServer = 0 /\ inClient \in 1 .. MsgNums
    BY <1>6 DEF Redirected!ClientReads
  <2>2. /\ toClient' = 0 /\ inClient' = inClient + 1 /\ matched' = (matched /\ TRUE)
        /\ child' = IF inClient = MsgNums THEN "ended" ELSE "write"
        /\ UNCHANGED <<parent, inServer, toServer>>
    BY <1>6, <2>1 DEF Redirected!ClientReads
  <2>3. inClient' \in 1 .. MsgNums + 1 /\ (child' \in {"read", "write"} => inClient' <= MsgNums)
    BY <2>1, <2>2
  <2> QED BY <2>1, <2>2, <2>3
<1>7. CASE Redirected!Killed
  BY <1>7 DEF Redirected!Killed
<1>8. CASE UNCHANGED Redirected!vars
  BY <1>8 DEF Redirected!vars
<1> QED BY <1>1, <1>2, <1>3, <1>4, <1>5, <1>6, <1>7, <1>8
        DEF Redirected!Next, Redirected!Server, Redirected!Client

(* At the start nothing is under way.                                      *)
LEMMA RedirectedStarts == Redirected!Init => RedirectedInv
BY ProgramsAssumption DEF Redirected!Init, RedirectedInv, Redirected!TypeOK,
   Redirected!AnswersMatch, UnderWay, Redirected!Nothing
-----------------------------------------------------------------------------
(* A pipe has its question and its answer one after the other.             *)
LEMMA PipesKept == PipesInv /\ [Pipes!Next]_(Pipes!vars) => PipesInv'
<1> SUFFICES ASSUME PipesInv, [Pipes!Next]_(Pipes!vars) PROVE PipesInv'
  OBVIOUS
<1> USE DEF PipesInv, Pipes!TypeOK, Pipes!OneQuestion, Pipes!Nothing, Pipes!Open,
        Pipes!ThreadGoes, Pipes!ClientGoes, Pipes!pipe
<1>1. CASE Pipes!CreateNamedPipe
  BY <1>1 DEF Pipes!CreateNamedPipe
<1>2. CASE Pipes!NoMoreInstances
  BY <1>2 DEF Pipes!NoMoreInstances
<1>3. ASSUME NEW c \in Clients, Pipes!ConnectNamedPipe(c) \/ Pipes!TurnAway(c) PROVE PipesInv'
  BY <1>3 DEF Pipes!ConnectNamedPipe, Pipes!TurnAway
<1>4. ASSUME NEW c \in Clients, Pipes!InstanceThread(c) \/ Pipes!KeyPressed(c) PROVE PipesInv'
  <2>1. CASE Pipes!WriteFile(c)
    BY <2>1 DEF Pipes!WriteFile
  <2>2. CASE Pipes!ReadFile(c) \/ Pipes!ReadFileFails(c) \/ Pipes!Disconnect(c)
             \/ Pipes!KeyPressed(c)
    BY <2>2 DEF Pipes!ReadFile, Pipes!ReadFileFails, Pipes!Disconnect, Pipes!KeyPressed
  <2> QED BY <1>4, <2>1, <2>2 DEF Pipes!InstanceThread
<1>5. ASSUME NEW c \in Clients, Pipes!Client(c) PROVE PipesInv'
  <2>1. CASE Pipes!GetAnswer(c)
    BY <2>1 DEF Pipes!GetAnswer
  <2>2. CASE Pipes!ConnectionLost(c)
    BY <2>2 DEF Pipes!ConnectionLost
  <2> QED BY <1>5, <2>1, <2>2 DEF Pipes!Client
<1>6. ASSUME NEW c \in Clients, Pipes!CreateFile(c) \/ Pipes!GiveUp(c) PROVE PipesInv'
  BY <1>6 DEF Pipes!CreateFile, Pipes!GiveUp
<1>7. ASSUME NEW c \in Clients, Pipes!Ask(c) PROVE PipesInv'
  BY <1>7 DEF Pipes!Ask
<1>8. ASSUME NEW c \in Clients, Pipes!Killed(c) PROVE PipesInv'
  BY <1>8 DEF Pipes!Killed
<1>9. CASE UNCHANGED Pipes!vars
  BY <1>9 DEF Pipes!vars
<1> HIDE DEF PipesInv, Pipes!TypeOK, Pipes!OneQuestion, Pipes!Nothing, Pipes!Open,
        Pipes!ThreadGoes, Pipes!ClientGoes, Pipes!pipe
<1> QED BY <1>1, <1>2, <1>3, <1>4, <1>5, <1>6, <1>7, <1>8, <1>9
        DEF Pipes!Next, Pipes!MainThread

(* Nothing has been asked at the start.                                    *)
LEMMA PipesStart == Pipes!Init => PipesInv
BY DEF Pipes!Init, PipesInv, Pipes!TypeOK, Pipes!OneQuestion, Pipes!Nothing
-----------------------------------------------------------------------------
(* Taking the first message of the slot and showing it moves the boundary  *)
(* between what was shown and what was not.                                *)
LEMMA HeadShown ==
  ASSUME NEW s \in Seq(Nat), NEW t \in Seq(Nat), t # <<>>
  PROVE  /\ Append(s, Head(t)) \in Seq(Nat) /\ Tail(t) \in Seq(Nat)
         /\ Len(Tail(t)) = Len(t) - 1
         /\ Append(s, Head(t)) \o Tail(t) = s \o t
<1>1. Head(t) \in Nat /\ Tail(t) \in Seq(Nat) /\ Len(Tail(t)) = Len(t) - 1
      /\ t = <<Head(t)>> \o Tail(t)
  OBVIOUS
<1>2. Append(s, Head(t)) = s \o <<Head(t)>> /\ <<Head(t)>> \in Seq(Nat)
  BY <1>1, AppendIsConcat
<1>3. (s \o <<Head(t)>>) \o Tail(t) = s \o (<<Head(t)>> \o Tail(t))
  BY <1>1, <1>2, ConcatAssociative
<1> QED BY <1>1, <1>2, <1>3, AppendProperties

(* A message more at the end of the slot is one more at the end of all.    *)
LEMMA AppendToAll ==
  \A s, t \in Seq(Nat), x \in Nat : s \o Append(t, x) = Append(s \o t, x)
<1> TAKE s, t \in Seq(Nat), x \in Nat
<1>1. Append(t, x) = t \o <<x>> /\ <<x>> \in Seq(Nat) /\ s \o t \in Seq(Nat)
  BY AppendIsConcat, ConcatProperties
<1>2. Append(s \o t, x) = (s \o t) \o <<x>>
  BY <1>1, AppendIsConcat
<1> QED BY <1>1, <1>2, ConcatAssociative

(* The first n numbers and the next one                                    *)
LEMMA OneMoreNumber ==
  ASSUME NEW n \in Nat
  PROVE  /\ [k \in 1 .. n |-> k] \in Seq(Nat) /\ Len([k \in 1 .. n |-> k]) = n
         /\ Append([k \in 1 .. n |-> k], n + 1) = [k \in 1 .. n + 1 |-> k]
  OBVIOUS

(* Every step of the reader of the mailslot shows what comes next.         *)
LEMMA SlotKept == SlotInv /\ [Slot!Next]_(Slot!vars) => SlotInv'
<1> SUFFICES ASSUME SlotInv, [Slot!Next]_(Slot!vars) PROVE SlotInv'
  OBVIOUS
<1> USE ProgramsAssumption DEF Slot!TypeOK, Slot!AllShown, SlotInv
<1>0. Len(slot) \in Nat
  BY LenProperties
<1>1. CASE Slot!MakeSlot
  BY <1>1 DEF Slot!MakeSlot
<1>2. CASE Slot!CountMessages
  BY <1>0, <1>2 DEF Slot!CountMessages
<1>3. CASE Slot!ReadSlot
  <2>1. cMessage # 0 /\ cMessage <= Len(slot) /\ Len(slot) - cMessage <= late /\ slot # <<>>
    BY <1>0, <1>3 DEF Slot!ReadSlot
  <2>2. /\ shown' = Append(shown, Head(slot)) /\ slot' = Tail(slot)
        /\ number' = cAllMessages - cMessage + 1 /\ cMessage' = Len(slot) - 1
        /\ UNCHANGED <<writer, written, reader, cAllMessages, late>>
    BY <1>3 DEF Slot!ReadSlot, Slot!LeftInSlot
  <2>3. /\ slot' \in Seq(Nat) /\ shown' \in Seq(Nat) /\ Len(slot') = Len(slot) - 1
        /\ shown' \o slot' = shown \o slot
    BY <2>1, <2>2, HeadShown
  <2>4. cMessage' \in 0 .. MsgNums /\ number' \in -MsgNums .. MsgNums
    <3>1. /\ cMessage \in 0 .. MsgNums /\ cAllMessages \in 0 .. MsgNums
          /\ Len(slot) <= written /\ written \in 0 .. MsgNums /\ MsgNums \in Nat
      OBVIOUS
    <3> HIDE DEF SlotInv, Slot!AllShown, Slot!TypeOK
    <3> QED BY <1>0, <2>1, <2>2, <3>1
  <2>5. shown' \o slot' = [n \in 1 .. written' |-> n]
    BY <2>2, <2>3
  <2>6. /\ reader = "read" /\ cMessage \in 0 .. MsgNums /\ cAllMessages \in 0 .. MsgNums
        /\ late \in 0 .. MsgNums /\ written \in 0 .. MsgNums /\ late <= written
        /\ Len(slot) <= written
        /\ writer \in {"start", "write", "ended"} /\ (writer # "ended" => written < MsgNums)
    BY <1>3 DEF Slot!ReadSlot
  <2> DEFINE was == Len(slot)
             left == Len(slot')
  <2>7. was \in Nat /\ left = was - 1 /\ cMessage' = was - 1 /\ cMessage <= was
        /\ was - cMessage <= late /\ was <= written /\ cMessage # 0
    BY <1>0, <2>1, <2>2, <2>3, <2>6
  <2> HIDE DEF SlotInv, was, left
  <2>8. /\ cMessage' <= left /\ left - cMessage' <= late' /\ left <= written'
        /\ number' <= cAllMessages' /\ late' <= written'
    BY <2>2, <2>6, <2>7
  <2>9. number' >= cAllMessages' - left - late'
    BY <2>2, <2>6, <2>7
  <2>10. ASSUME late' = 0 PROVE number' = cAllMessages' - cMessage'
    <3>1. late = 0 /\ cMessage = was
      BY <2>2, <2>6, <2>7, <2>10
    <3> QED BY <2>2, <2>6, <2>7, <3>1
  <2> QED BY <2>2, <2>3, <2>4, <2>5, <2>6, <2>8, <2>9, <2>10 DEF SlotInv, was, left
<1>4. CASE Slot!ReadSlotReturns
  <2>1. reader' = "look" /\ UNCHANGED <<slot, writer, written, cAllMessages, cMessage,
                                        shown, number, late>>
    BY <1>4 DEF Slot!ReadSlotReturns
  <2> QED BY <2>1
<1>5. CASE Slot!OpenSlot
  <2>1. writer = "start" /\ writer' \in {"ended", "write"}
        /\ UNCHANGED <<slot, written, reader, cAllMessages, cMessage, shown, number, late>>
    BY <1>5 DEF Slot!OpenSlot
  <2> QED BY <2>1
<1>6. CASE Slot!WriteSlot
  <2>1. /\ written' = written + 1 /\ slot' = Append(slot, written + 1)
        /\ writer' = IF written + 1 = MsgNums THEN "ended" ELSE "write"
        /\ late' = IF reader = "read" THEN late + 1 ELSE late
        /\ UNCHANGED <<reader, cAllMessages, cMessage, shown, number>>
    BY <1>6 DEF Slot!WriteSlot
  <2>2. written \in Nat /\ written + 1 \in Nat /\ written < MsgNums
    BY <1>6 DEF Slot!WriteSlot
  <2>3. slot' \in Seq(Nat) /\ Len(slot') = Len(slot) + 1
    BY <2>1, <2>2, AppendProperties
  <2>4. reader = "read" => /\ cMessage <= Len(slot) /\ Len(slot) - cMessage <= late
                           /\ number # 0 => /\ number <= cAllMessages
                                            /\ number >= cAllMessages - Len(slot) - late
                           /\ late = 0 => number = cAllMessages - cMessage
    OBVIOUS
  <2>5. /\ late \in 0 .. MsgNums /\ late <= written /\ Len(slot) <= written
        /\ number \in -MsgNums .. MsgNums /\ cAllMessages \in 0 .. MsgNums
        /\ cMessage \in 0 .. MsgNums /\ reader \in {"start", "look", "read"}
        /\ shown \in Seq(Nat)
    OBVIOUS
  <2> DEFINE numbers(n) == [k \in 1 .. n |-> k]
  <2>6. /\ shown' = shown /\ shown \in Seq(Nat) /\ slot \in Seq(Nat)
        /\ shown \o slot = numbers(written)
    BY <2>1
  <2> HIDE DEF SlotInv, Slot!AllShown, Slot!TypeOK, numbers
  <2>7. shown \o Append(slot, written + 1) = Append(shown \o slot, written + 1)
    <3>1. shown \in Seq(Nat)
      BY <2>6
    <3>2. slot \in Seq(Nat)
      BY <2>6
    <3>3. written + 1 \in Nat
      BY <2>2
    <3> QED BY <3>1, <3>2, <3>3, AppendToAll, Zenon
  <2>8. Append(numbers(written), written + 1) = numbers(written + 1)
    BY <2>2, OneMoreNumber DEF numbers
  <2>9. shown' \o slot' = numbers(written')
    BY <2>1, <2>6, <2>7, <2>8, Zenon
  <2>10. /\ late' \in 0 .. MsgNums /\ late' <= written' /\ Len(slot') <= written'
         /\ written' \in 0 .. MsgNums /\ (writer' # "ended" => written' < MsgNums)
         /\ writer' \in {"start", "write", "ended"}
    BY <1>0, <2>1, <2>2, <2>3, <2>5
  <2>11. reader' = "read" => /\ cMessage' <= Len(slot') /\ Len(slot') - cMessage' <= late'
                             /\ number' # 0 => /\ number' <= cAllMessages'
                                               /\ number' >= cAllMessages' - Len(slot') - late'
                             /\ late' = 0 => number' = cAllMessages' - cMessage'
    BY <1>0, <2>1, <2>3, <2>4, <2>5
  <2> QED BY <2>1, <2>3, <2>5, <2>9, <2>10, <2>11
       DEF SlotInv, Slot!AllShown, Slot!TypeOK, numbers
<1>7. CASE UNCHANGED Slot!vars
  BY <1>7 DEF Slot!vars
<1> QED BY <1>1, <1>2, <1>3, <1>4, <1>5, <1>6, <1>7 DEF Slot!Next

(* The slot is empty at the start.                                         *)
LEMMA SlotStarts == Slot!Init => SlotInv
<1> SUFFICES ASSUME Slot!Init PROVE SlotInv
  OBVIOUS
<1>1. <<>> \in Seq(Nat) /\ <<>> \o <<>> = [n \in 1 .. 0 |-> n] /\ Len(<<>>) = 0
  OBVIOUS
<1> QED BY <1>1, ProgramsAssumption DEF Slot!Init, SlotInv, Slot!TypeOK, Slot!AllShown
-----------------------------------------------------------------------------
(* EchoSockets.  The texts a recv returns and those it leaves make up what *)
(* was on its way.                                                         *)
LEMMA TextsTaken ==
  \A u \in Seq(Texts), n \in Nat : n \in 1 .. Len(u) =>
    /\ SubSeq(u, 1, n) \in Seq(Texts) /\ SubSeq(u, 1, n) # <<>>
    /\ SubSeq(u, n + 1, Len(u)) \in Seq(Texts)
    /\ SubSeq(u, 1, n) \o SubSeq(u, n + 1, Len(u)) = u
<1> TAKE u \in Seq(Texts), n \in Nat
<1> HAVE n \in 1 .. Len(u)
<1>1. Len(u) \in Nat
  BY LenProperties
<1>2. SubSeq(u, 1, n) \in Seq(Texts) /\ Len(SubSeq(u, 1, n)) = n
  BY <1>1, SubSeqProperties
<1>3. SubSeq(u, n + 1, Len(u)) \in Seq(Texts)
  BY <1>1, SubSeqProperties
<1>4. SubSeq(u, 1, n) \o SubSeq(u, n + 1, Len(u)) = SubSeq(u, 1, Len(u))
  BY <1>1, ConcatAdjacentSubSeq
<1>5. SubSeq(u, 1, Len(u)) = u
  BY SubSeqFull
<1>6. SubSeq(u, 1, n) # <<>>
  BY <1>2
<1>7. SubSeq(u, 1, n) \in Seq(Texts)
  BY <1>2
<1>8. SubSeq(u, 1, n) \o SubSeq(u, n + 1, Len(u)) = u
  BY <1>4, <1>5, Zenon
<1> QED BY <1>3, <1>6, <1>7, <1>8, Zenon

(* A recv of texts without QUIT returns and leaves texts without QUIT.     *)
LEMMA NoQuitTaken ==
  ASSUME NEW u \in Seq(Texts), NEW n \in 1 .. Len(u), NoQuit(u)
  PROVE  NoQuit(SubSeq(u, 1, n)) /\ NoQuit(SubSeq(u, n + 1, Len(u)))
  BY DEF NoQuit

(* Nor is there one in what is left after one more text.                   *)
LEMMA NoQuitAppended ==
  ASSUME NEW u \in Seq(Texts), NEW x \in Texts, NoQuit(u), x # Quit
  PROVE  NoQuit(Append(u, x))
  BY DEF NoQuit

(* Three sequences one after another, in whatever way they are put together*)
LEMMA TextsJoined ==
  \A s, t, u \in Seq(Texts) : /\ s \o (t \o u) = (s \o t) \o u
                              /\ t \o u \in Seq(Texts) /\ s \o t \in Seq(Texts)
                              /\ <<>> \o u = u /\ u \o <<>> = u
  BY ConcatAssociative, ConcatProperties, ConcatEmptySeq

(* The same, kept closed for the provers                                   *)
Joins(s, t, u) == s \o (t \o u) = (s \o t) \o u
LEMMA Joined == \A s, t, u \in Seq(Texts) : Joins(s, t, u)
  BY TextsJoined, Zenon DEF Joins

(* What is sent is appended to all.                                        *)
LEMMA TextAppended ==
  ASSUME NEW s \in Seq(Texts), NEW t \in Seq(Texts), NEW u \in Seq(Texts), NEW x \in Texts
  PROVE  s \o (t \o Append(u, x)) = Append(s \o (t \o u), x)
<1>1. Append(u, x) = u \o <<x>> /\ <<x>> \in Seq(Texts)
  BY AppendIsConcat
<1>2. t \o u \in Seq(Texts) /\ s \o (t \o u) \in Seq(Texts)
  BY TextsJoined
<1>3. Joins(t, u, <<x>>) /\ Joins(s, t \o u, <<x>>)
  BY <1>1, <1>2, Joined
<1>4. t \o (u \o <<x>>) = (t \o u) \o <<x>>
  BY <1>3, Zenon DEF Joins
<1>5. s \o ((t \o u) \o <<x>>) = (s \o (t \o u)) \o <<x>>
  BY <1>3, Zenon DEF Joins
<1>6. Append(s \o (t \o u), x) = (s \o (t \o u)) \o <<x>>
  BY <1>2, AppendIsConcat
<1> QED BY <1>1, <1>4, <1>5, <1>6, Zenon

(* The beginning of a concatenation is a prefix of it, and of whatever the *)
(* concatenation is a prefix of.                                           *)
LEMMA Beginning ==
  ASSUME NEW s \in Seq(Texts), NEW r \in Seq(Texts)
  PROVE  IsPrefix(s, s \o r)
<1>1. Len(s \o r) = Len(s) + Len(r) /\ Len(s) \in Nat /\ Len(r) \in Nat
  BY ConcatProperties, LenProperties
<1>2. SubSeq(s \o r, 1, Len(s)) = s /\ SubSeq(s, 1, Len(s)) = s
  BY SubSeqOfConcat1, SubSeqFull
<1> QED BY <1>1, <1>2 DEF IsPrefix

(* See above.                                                              *)
LEMMA BeginningOf ==
  ASSUME NEW s \in Seq(Texts), NEW r \in Seq(Texts), NEW t \in Seq(Texts), IsPrefix(s \o r, t)
  PROVE  IsPrefix(s, t)
<1> DEFINE sr == s \o r
<1>1. /\ sr \in Seq(Texts) /\ Len(sr) = Len(s) + Len(r)
      /\ Len(s) \in Nat /\ Len(r) \in Nat /\ Len(t) \in Nat
  BY ConcatProperties, LenProperties
<1>2. SubSeq(sr, 1, Len(s)) = s /\ SubSeq(s, 1, Len(s)) = s
  BY SubSeqOfConcat1, SubSeqFull
<1> HIDE DEF sr
<1>3. Len(sr) <= Len(t) /\ SubSeq(sr, 1, Len(sr)) = SubSeq(t, 1, Len(sr))
  BY DEF IsPrefix, sr
<1>4. SubSeq(sr, 1, Len(s)) = SubSeq(t, 1, Len(s))
  <2>1. \A i \in 1 .. Len(s) : sr[i] = t[i]
    <3> TAKE i \in 1 .. Len(s)
    <3>1. i \in 1 .. Len(sr)
      BY <1>1
    <3>2. SubSeq(sr, 1, Len(sr))[i] = sr[i] /\ SubSeq(t, 1, Len(sr))[i] = t[i]
      BY <1>1, <1>3, <3>1, SubSeqProperties
    <3> QED BY <1>3, <3>2
  <2>2. /\ SubSeq(sr, 1, Len(s)) \in Seq(Texts) /\ SubSeq(t, 1, Len(s)) \in Seq(Texts)
        /\ Len(SubSeq(sr, 1, Len(s))) = Len(s) /\ Len(SubSeq(t, 1, Len(s))) = Len(s)
        /\ \A i \in 1 .. Len(s) : /\ SubSeq(sr, 1, Len(s))[i] = sr[i]
                                  /\ SubSeq(t, 1, Len(s))[i] = t[i]
    BY <1>1, <1>3, SubSeqProperties
  <2> DEFINE one == SubSeq(sr, 1, Len(s))
             two == SubSeq(t, 1, Len(s))
  <2>3. /\ one \in Seq(Texts) /\ two \in Seq(Texts) /\ Len(one) = Len(two)
        /\ \A i \in 1 .. Len(one) : one[i] = two[i]
    BY <2>1, <2>2
  <2> HIDE DEF one, two
  <2>4. one = two
    BY <2>3, SeqEqual, Zenon
  <2> QED BY <2>4 DEF one, two
<1> QED BY <1>1, <1>2, <1>3, <1>4 DEF IsPrefix

(* All that a client has sent, and one text more                           *)
Typed(c) == Prelude \o [n \in 1 .. typed[c] |-> n]
LEMMA SentMore ==
  ASSUME SocketTypes, NEW c \in Clients
  PROVE  /\ Prelude \in Seq(Texts) /\ Sent(c) \in Seq(Texts)
         /\ typed[c] \in Nat
         /\ client[c] # "closed" => Sent(c) = Typed(c)
         /\ Prelude \o [n \in 1 .. typed[c] + 1 |-> n] = Append(Typed(c), typed[c] + 1)
         /\ Typed(c) \o <<Quit>> = Append(Typed(c), Quit)
<1> DEFINE numbers(n) == [k \in 1 .. n |-> k]
<1>1. typed[c] \in Nat
  BY DEF SocketTypes
<1>2. Prelude \in Seq(Texts)
  <2>1. Welcome \in Texts /\ Blank \in Texts
    BY DEF Texts
  <2>2. \A S : Welcome \in S /\ Blank \in S => <<Welcome, Blank>> \in Seq(S) /\ <<>> \in Seq(S)
    OBVIOUS
  <2>3. Prelude = <<Welcome, Blank>> \/ Prelude = <<>>
    BY DEF Prelude
  <2> QED BY <2>1, <2>2, <2>3, Zenon
<1>3. /\ numbers(typed[c]) \in Seq(Texts) /\ typed[c] + 1 \in Texts /\ Quit \in Texts
      /\ <<typed[c] + 1>> \in Seq(Texts) /\ <<Quit>> \in Seq(Texts) /\ <<>> \in Seq(Texts)
  BY <1>1 DEF Texts, Quit
<1>4. Append(numbers(typed[c]), typed[c] + 1) = numbers(typed[c] + 1)
  BY <1>1, OneMoreNumber
<1>5. Append(numbers(typed[c]), typed[c] + 1) = numbers(typed[c]) \o <<typed[c] + 1>>
  BY <1>3, AppendIsConcat
<1> HIDE DEF numbers
<1>6. Typed(c) = Prelude \o numbers(typed[c]) /\ Typed(c) \in Seq(Texts)
  BY <1>2, <1>3, ConcatProperties DEF Typed, numbers
<1>7. /\ Append(Typed(c), typed[c] + 1) = Typed(c) \o <<typed[c] + 1>>
      /\ Append(Typed(c), Quit) = Typed(c) \o <<Quit>>
  BY <1>3, <1>6, AppendIsConcat
<1>8. Prelude \o (numbers(typed[c]) \o <<typed[c] + 1>>)
      = (Prelude \o numbers(typed[c])) \o <<typed[c] + 1>>
  BY <1>2, <1>3, ConcatAssociative
<1>9. Sent(c) = IF client[c] = "closed" THEN Typed(c) \o <<Quit>> ELSE Typed(c) \o <<>>
  BY DEF Sent, Typed
<1>10. Typed(c) \o <<>> = Typed(c) /\ Typed(c) \o <<Quit>> \in Seq(Texts)
  BY <1>3, <1>6, ConcatProperties, TextsJoined
<1>11. Prelude \o numbers(typed[c] + 1) = Append(Typed(c), typed[c] + 1)
  BY <1>4, <1>5, <1>6, <1>7, <1>8
<1>12. Sent(c) \in Seq(Texts) /\ (client[c] # "closed" => Sent(c) = Typed(c))
  BY <1>6, <1>9, <1>10
<1> QED BY <1>1, <1>2, <1>7, <1>11, <1>12 DEF numbers

(* What a recv or a send of the server does to the sequences of texts      *)
LEMMA ReceiveTypes ==
  ASSUME SocketTypes, NEW c \in Clients, Receive(c)
  PROVE  /\ up' \in [Clients -> Seq(Texts)] /\ buffer' \in [Clients -> Seq(Texts)]
         /\ \A d \in Clients : buffer'[d] # <<>>
<1>1. PICK n \in 1 .. Len(up[c]) : /\ buffer' = [buffer EXCEPT ![c] = SubSeq(up[c], 1, n)]
                                  /\ up' = [up EXCEPT ![c] = SubSeq(up[c], n + 1, Len(up[c]))]
  BY DEF Receive, Set
<1>2. up[c] \in Seq(Texts)
  BY DEF SocketTypes
<1>3. n \in Nat
  BY <1>2, LenProperties
<1> DEFINE first == SubSeq(up[c], 1, n)
           rest == SubSeq(up[c], n + 1, Len(up[c]))
<1>4. first \in Seq(Texts) /\ first # <<>> /\ rest \in Seq(Texts)
  BY <1>2, <1>3, TextsTaken, Zenon
<1> HIDE DEF first, rest
<1>5. buffer' = [buffer EXCEPT ![c] = first] /\ up' = [up EXCEPT ![c] = rest]
  BY <1>1 DEF first, rest
<1> QED BY <1>4, <1>5 DEF SocketTypes

(* What a client is sent becomes longer, if anything.                      *)
LEMMA SendBackTypes ==
  ASSUME SocketTypes, NEW c \in Clients, NEW texts \in Seq(Texts),
         echo' = [echo EXCEPT ![c] = IF client[c] = "killed" THEN echo[c] ELSE echo[c] \o texts]
  PROVE  /\ echo' \in [Clients -> Seq(Texts)]
         /\ \A d \in Clients : Len(echo[d]) <= Len(echo'[d]) /\ Len(echo[d]) \in Nat
                               /\ Len(echo'[d]) \in Nat
<1> DEFINE more == IF client[c] = "killed" THEN echo[c] ELSE echo[c] \o texts
<1>1. echo[c] \in Seq(Texts) /\ echo[c] \o texts \in Seq(Texts)
      /\ Len(echo[c] \o texts) = Len(echo[c]) + Len(texts)
      /\ Len(texts) \in Nat /\ Len(echo[c]) \in Nat
  BY ConcatProperties, LenProperties DEF SocketTypes
<1>2. more \in Seq(Texts) /\ Len(echo[c]) <= Len(more)
  BY <1>1
<1>3. echo' = [echo EXCEPT ![c] = more]
  OBVIOUS
<1> HIDE DEF more
<1>4. \A d \in Clients : echo'[d] = IF d = c THEN more ELSE echo[d]
  BY <1>3 DEF SocketTypes
<1> QED BY <1>1, <1>2, <1>3, <1>4, LenProperties DEF SocketTypes

(* Every step keeps the types of clients and connections.                  *)
LEMMA SocketTypesKept == SocketTypes /\ [Next]_vars => SocketTypes'
<1> SUFFICES ASSUME SocketTypes, [Next]_vars PROVE SocketTypes'
  OBVIOUS
<1>1. ASSUME NEW c \in Clients, Connect(c) \/ Accept(c) \/ AcceptFails(c) PROVE SocketTypes'
  <2>1. UNCHANGED <<typed, up, seen, port, buffer, echo, received>>
    BY <1>1 DEF Connect, Accept, AcceptFails, network, server
  <2>2. client' \in [Clients -> {"start", "prompt", "waiting", "closed", "killed"}]
    BY <1>1 DEF Connect, Accept, AcceptFails, network, Set, SocketTypes
  <2>3. conn' \in [Clients -> {"none", "open", "closed", "freed"}] /\ running' \in BOOLEAN
    BY <1>1 DEF Connect, Accept, AcceptFails, server, Ends, Set, SocketTypes
  <2>4. op' \in [Clients -> {"none", "recv", "send", "welcome"}]
    BY <1>1 DEF Connect, Accept, AcceptFails, server, Ends, Set, SocketTypes
  <2> QED BY <2>1, <2>2, <2>3, <2>4 DEF SocketTypes
<1>2. ASSUME NEW c \in Clients, SendText(c) PROVE SocketTypes'
  <2>1. typed[c] + 1 \in Nat /\ typed[c] + 1 \in Texts
    BY DEF SocketTypes, Texts
  <2>2. Append(up[c], typed[c] + 1) \in Seq(Texts)
    BY <2>1, AppendProperties DEF SocketTypes
  <2> DEFINE more == Append(up[c], typed[c] + 1)
             next == typed[c] + 1
  <2>3. /\ client' = [client EXCEPT ![c] = "waiting"] /\ typed' = [typed EXCEPT ![c] = next]
        /\ up' = [up EXCEPT ![c] = more]
        /\ UNCHANGED <<port, running, conn, op, received, seen, echo, buffer>>
    BY <1>2 DEF SendText, Set, server
  <2>4. more \in Seq(Texts) /\ next \in Nat
    BY <2>1, <2>2
  <2> HIDE DEF more, next
  <2> QED BY <2>3, <2>4 DEF SocketTypes
<1>3. ASSUME NEW c \in Clients, SendQuit(c) PROVE SocketTypes'
  <2> DEFINE more == Append(up[c], Quit)
  <2>1. more \in Seq(Texts)
    BY AppendProperties DEF SocketTypes, Texts, Quit
  <2>2. /\ client' = [client EXCEPT ![c] = "closed"] /\ up' = [up EXCEPT ![c] = more]
        /\ UNCHANGED <<port, running, conn, op, received, typed, seen, echo, buffer>>
    BY <1>3 DEF SendQuit, Set, server
  <2> HIDE DEF more
  <2> QED BY <2>1, <2>2 DEF SocketTypes
<1>4. ASSUME NEW c \in Clients, Answered(c) PROVE SocketTypes'
  <2>1. PICK next \in Nat : seen' = [seen EXCEPT ![c] = next] /\ next <= Len(echo[c])
    <3>1. /\ seen \in [Clients -> Nat] /\ seen[c] \in Nat
          /\ Len(echo[c]) \in Nat /\ seen[c] <= Len(echo[c])
      BY LenProperties DEF SocketTypes
    <3>2. CASE UNCHANGED seen
      BY <3>1, <3>2
    <3>3. ASSUME NEW n \in 1 .. Len(echo[c]) - seen[c], seen' = [seen EXCEPT ![c] = seen[c] + n]
          PROVE  \E next \in Nat : seen' = [seen EXCEPT ![c] = next] /\ next <= Len(echo[c])
      <4>1. seen[c] + n \in Nat /\ seen[c] + n <= Len(echo[c])
        BY <3>1
      <4> QED BY <3>3, <4>1, Zenon
    <3>4. \/ UNCHANGED seen
          \/ \E n \in 1 .. Len(echo[c]) - seen[c] : seen' = [seen EXCEPT ![c] = seen[c] + n]
      BY <1>4 DEF Answered, Set
    <3> QED BY <3>2, <3>3, <3>4, Zenon
  <2>2. /\ client' = [client EXCEPT ![c] = "prompt"]
        /\ UNCHANGED <<port, running, conn, op, received, typed, up, echo, buffer>>
    BY <1>4 DEF Answered, Set, server
  <2> QED BY <2>1, <2>2 DEF SocketTypes
<1>5. ASSUME NEW c \in Clients, Killed(c) \/ Discarded(c) PROVE SocketTypes'
  <2>1. <<>> \in Seq(Texts)
    OBVIOUS
  <2> QED BY <1>5, <2>1 DEF Killed, Discarded, Set, server, SocketTypes
<1>6. ASSUME NEW c \in Clients, ThreadReceives(c) PROVE SocketTypes'
  <2>1. Receive(c) /\ op' = [op EXCEPT ![c] = "send"]
        /\ UNCHANGED <<client, typed, seen, port, running, echo, conn, received>>
    BY <1>6 DEF ThreadReceives, Set
  <2> QED BY <2>1, ReceiveTypes DEF SocketTypes
<1>7. ASSUME NEW c \in Clients, ThreadSends(c) PROVE SocketTypes'
  <2>1. UNCHANGED <<client, typed, seen, up, port, running, buffer, received>>
        /\ conn' \in [Clients -> {"none", "open", "closed", "freed"}]
        /\ op' \in [Clients -> {"none", "recv", "send", "welcome"}]
    BY <1>7 DEF ThreadSends, Set, network, SocketTypes
  <2> DEFINE texts == buffer[c]
  <2>2. CASE echo' = [echo EXCEPT ![c] = IF client[c] = "killed" THEN echo[c]
                                         ELSE echo[c] \o texts]
    <3>1. texts \in Seq(Texts)
      BY DEF SocketTypes
    <3> QED BY <2>1, <2>2, <3>1, SendBackTypes DEF SocketTypes
  <2>3. CASE UNCHANGED echo
    BY <2>1, <2>3 DEF SocketTypes
  <2> QED BY <1>7, <2>2, <2>3, Zenon DEF ThreadSends, SendBack, Set, AllOf
<1>8. ASSUME NEW c \in Clients, SendCompletes(c) PROVE SocketTypes'
  <2>1. UNCHANGED <<client, typed, seen, up, port, running, buffer, received, conn>>
        /\ op' = [op EXCEPT ![c] = "none"]
    BY <1>8 DEF SendCompletes, Complete, Set, network
  <2> DEFINE texts == IF op[c] = "send" THEN AllOf(buffer[c]) ELSE <<Welcome>>
  <2>2. echo' = [echo EXCEPT ![c] = IF client[c] = "killed" THEN echo[c] ELSE echo[c] \o texts]
    BY <1>8, Zenon DEF SendCompletes, SendBack, Set
  <2>3. texts \in Seq(Texts)
    <3>1. buffer[c] \in Seq(Texts) /\ <<Welcome>> \in Seq(Texts)
      BY DEF SocketTypes, Texts
    <3> QED BY <3>1 DEF AllOf
  <2> HIDE DEF texts
  <2> QED BY <2>1, <2>2, <2>3, SendBackTypes DEF SocketTypes
<1>9. ASSUME NEW c \in Clients, RecvCompletes(c) PROVE SocketTypes'
  <2>1. Receive(c) /\ op' = [op EXCEPT ![c] = "none"]
        /\ UNCHANGED <<client, typed, seen, port, running, echo, conn, received>>
    BY <1>9 DEF RecvCompletes, Complete, Set
  <2> QED BY <2>1, ReceiveTypes DEF SocketTypes
<1>10. ASSUME NEW c \in Clients, RecvFindsClosed(c) \/ OperationFails(c) PROVE SocketTypes'
  <2>1. op' = [op EXCEPT ![c] = "none"]
        /\ UNCHANGED <<client, typed, seen, up, port, running, echo, conn, received, buffer>>
    BY <1>10 DEF RecvFindsClosed, OperationFails, Complete, Set, network
  <2> QED BY <2>1 DEF SocketTypes
<1>11. ASSUME NEW c \in Clients, Worker(c) PROVE SocketTypes'
  <2>1. UNCHANGED <<client, typed, seen, up, port, echo, buffer>>
    BY <1>11 DEF Worker, CloseSocket, QuitReceived, StartSend, StartRecv, Tells, network
  <2>2. conn' \in [Clients -> {"none", "open", "closed", "freed"}]
        /\ received' \in [Clients -> BOOLEAN]
    BY <1>11 DEF Worker, CloseSocket, QuitReceived, StartSend, StartRecv, Tells, Set, SocketTypes
  <2>3. op' \in [Clients -> {"none", "recv", "send", "welcome"}] /\ running' \in BOOLEAN
    BY <1>11 DEF Worker, CloseSocket, QuitReceived, StartSend, StartRecv, StartFails, Tells,
                 Ends, Set, SocketTypes
  <2> QED BY <2>1, <2>2, <2>3 DEF SocketTypes
<1>12. CASE Dequeue \/ UNCHANGED vars
  <2>1. UNCHANGED <<client, typed, seen, up, port, running, echo, buffer, conn, op, received>>
    BY <1>12 DEF Dequeue, vars, network, server
  <2> QED BY <2>1 DEF SocketTypes
<1> QED BY <1>1, <1>2, <1>3, <1>4, <1>5, <1>6, <1>7, <1>8, <1>9, <1>10, <1>11, <1>12
        DEF Next, ServerThread, System

(* A completion more at the end of the queue, or one less at its head      *)
LEMMA QueuedLast ==
  ASSUME NEW x \in Completions, queue \in Seq(Completions), queue' = Append(queue, x)
  PROVE  /\ queue' \in Seq(Completions) /\ Len(queue) \in Nat /\ Len(queue') = Len(queue) + 1
         /\ \A i \in 1 .. Len(queue) : queue'[i] = queue[i]
         /\ queue'[Len(queue) + 1] = x
  BY AppendProperties, LenProperties

(* What the queue is when its first completion has been taken              *)
LEMMA QueuedFirst ==
  ASSUME queue \in Seq(Completions), queue # <<>>, queue' = Tail(queue)
  PROVE  /\ queue' \in Seq(Completions) /\ Len(queue) \in Nat /\ Len(queue') = Len(queue) - 1
         /\ \A i \in 1 .. Len(queue') : i + 1 \in 1 .. Len(queue) /\ queue'[i] = queue[i + 1]
         /\ Head(queue) = queue[1] /\ 1 \in 1 .. Len(queue) /\ queue[1] \in Completions
  BY HeadTailProperties, LenProperties

(* A pair is what its two components are.                                  *)
LEMMA Completed ==
  /\ \A c \in Clients, r \in {"bytes", "nothing", "failed"} :
       /\ <<c, r>> \in Completions /\ <<c, r>>[1] = c /\ <<c, r>>[2] = r
  /\ \A x \in Completions : /\ x[1] \in Clients /\ x[2] \in {"bytes", "nothing", "failed"}
                            /\ x = <<x[1], x[2]>>
                            /\ x[2] # "failed" => x \in Clients \X {"bytes", "nothing"}
  BY DEF Completions

(* A worker more that handles a completion, or one less                    *)
LEMMA BusyMore ==
  ASSUME IsFiniteSet(busy), NEW x, busy' = busy \cup {x}
  PROVE  /\ IsFiniteSet(busy') /\ Cardinality(busy) \in Nat
         /\ Cardinality(busy') \in Nat /\ Cardinality(busy') <= Cardinality(busy) + 1
<1>1. Cardinality(busy) \in Nat
  BY FS_CardinalityType
<1>2. IsFiniteSet(busy \cup {x})
      /\ (Cardinality(busy \cup {x}) = Cardinality(busy)
          \/ Cardinality(busy \cup {x}) = Cardinality(busy) + 1)
  BY FS_AddElement
<1> QED BY <1>1, <1>2

(* One of the completions that workers have taken is done with.            *)
LEMMA BusyLess ==
  ASSUME IsFiniteSet(busy), NEW x \in busy, busy' = busy \ {x}
  PROVE  /\ IsFiniteSet(busy') /\ Cardinality(busy) \in Nat
         /\ Cardinality(busy') = Cardinality(busy) - 1
  BY FS_CardinalityType, FS_RemoveElement

(* The pool stays as it is while the connections it works for do.          *)
LEMMA PoolSame ==
  ASSUME PoolTypes, HandInv, UNCHANGED <<port, pool, running>>,
         \A d \in Clients : conn[d] = "open" /\ op[d] = "none" /\ port
                            => /\ UNCHANGED <<conn[d], op[d]>>
                               /\ Gone(d) => Gone(d)'
  PROVE  PoolTypes' /\ HandInv'
<1>1. UNCHANGED <<port, queue, idle, busy, telling>>
  BY DEF pool
<1>2. PoolTypes'
  BY <1>1 DEF PoolTypes
<1>3. /\ QueueAlone' /\ BusyAlone' /\ Apart'
      /\ ~port' => running' /\ queue' = <<>> /\ busy' = {} /\ telling' = <<>>
  BY <1>1 DEF HandInv, QueueAlone, BusyAlone, Apart
<1>4. \A x \in Completions : HandOf(x) /\ port => HandOf(x)'
  BY Completed DEF HandOf
<1>5. \A i \in 1 .. Len(queue') : HandOf(queue[i])'
  <2> TAKE i \in 1 .. Len(queue')
  <2>1. queue' = queue /\ i \in 1 .. Len(queue) /\ queue[i] \in Completions /\ HandOf(queue[i])
    BY <1>1 DEF PoolTypes, HandInv
  <2>2. port
    BY <2>1 DEF HandInv
  <2> QED BY <1>4, <2>1, <2>2 DEF HandOf
<1>6. \A b \in busy' : HandOf(b)'
  <2> TAKE b \in busy'
  <2>1. b \in busy /\ b \in Completions /\ HandOf(b) /\ port
    BY <1>1 DEF PoolTypes, HandInv, Completions
  <2> QED BY <1>4, <2>1
<1> QED BY <1>2, <1>3, <1>5, <1>6 DEF HandInv

(* The completion of an operation takes its place: an operation is under   *)
(* way only when nobody is at work for the connection.                     *)
LEMMA PoolCompletes ==
  ASSUME SocketTypes, PoolTypes, HandInv, NEW c \in Clients,
         NEW r \in {"bytes", "nothing", "failed"},
         port, op[c] # "none", conn[c] = "open", r # "bytes" => Gone(c),
         Complete(c, r), running, UNCHANGED <<port, running, client, conn, idle, busy, telling>>
  PROVE  PoolTypes' /\ HandInv'
<1> DEFINE x == <<c, r>>
           n == Len(queue)
<1>1. x \in Completions /\ x[1] = c /\ x[2] = r
  BY Completed
<1>2. queue' = Append(queue, x) /\ op' = [op EXCEPT ![c] = "none"]
  BY DEF Complete, Set
<1> HIDE DEF x
<1>3. /\ queue' \in Seq(Completions) /\ n \in Nat /\ Len(queue') = n + 1
      /\ \A i \in 1 .. n : queue'[i] = queue[i]
      /\ queue'[n + 1] = x
  BY <1>1, <1>2, QueuedLast DEF PoolTypes
<1>4. PoolTypes'
  BY <1>3 DEF PoolTypes
<1>5. /\ op'[c] = "none" /\ \A d \in Clients : d # c => op'[d] = op[d]
      /\ \A d \in Clients : Gone(d)' <=> Gone(d)
  BY <1>2 DEF SocketTypes, Gone
<1>6. \A i \in 1 .. n : queue[i] \in Completions /\ HandOf(queue[i])
  BY <1>3 DEF HandInv, PoolTypes
<1>7. \A i \in 1 .. n : queue[i][1] # c
  BY <1>6 DEF HandOf
<1>8. \A b \in busy : b \in Completions /\ HandOf(b) /\ b[1] # c
  BY DEF HandInv, HandOf, PoolTypes, Completions
<1> HIDE DEF n
<1>9. \A i \in 1 .. n + 1 : (i \in 1 .. n /\ queue'[i] = queue[i]) \/ (i = n + 1 /\ queue'[i] = x)
  BY <1>3
<1>10. QueueAlone'
  <2> SUFFICES ASSUME NEW i \in 1 .. n + 1, NEW j \in 1 .. n + 1, queue'[i][1] = queue'[j][1]
               PROVE  i = j
    BY <1>3 DEF QueueAlone
  <2>1. QueueAlone
    BY DEF HandInv
  <2> QED BY <1>1, <1>7, <1>9, <2>1 DEF QueueAlone, n
<1>11. Apart'
  <2> SUFFICES ASSUME NEW i \in 1 .. n + 1, NEW b \in busy PROVE b[1] # queue'[i][1]
    BY <1>3 DEF Apart
  <2>1. Apart
    BY DEF HandInv
  <2> QED BY <1>1, <1>8, <1>9, <2>1 DEF Apart, n
<1>12. \A y \in Completions : HandOf(y) /\ y[1] # c => HandOf(y)'
  BY <1>5, Completed DEF HandOf
<1>13. HandOf(x)'
  BY <1>1, <1>5 DEF HandOf, x
<1>14. \A i \in 1 .. Len(queue') : HandOf(queue[i])'
  <2> TAKE i \in 1 .. Len(queue')
  <2>1. CASE i \in 1 .. n /\ queue'[i] = queue[i]
    BY <1>6, <1>7, <1>12, <2>1 DEF HandOf
  <2>2. CASE i = n + 1 /\ queue'[i] = x
    BY <1>13, <2>2 DEF HandOf, x
  <2> QED BY <1>3, <1>9, <2>1, <2>2
<1>15. \A b \in busy' : HandOf(b)'
  BY <1>8, <1>12
<1> QED BY <1>4, <1>10, <1>11, <1>14, <1>15 DEF HandInv, BusyAlone

(* A worker takes the first completion of the queue.                       *)
LEMMA PoolDequeues ==
  ASSUME PoolTypes, HandInv, Dequeue
  PROVE  PoolTypes' /\ HandInv'
<1> DEFINE x == queue[1]
           n == Len(queue)
<1>1. /\ queue \in Seq(Completions) /\ queue # <<>> /\ queue' = Tail(queue)
      /\ idle' = idle - 1 /\ idle > 0
      /\ UNCHANGED <<port, running, client, conn, op, telling>>
  BY DEF Dequeue, PoolTypes, network
<1>2. /\ queue' \in Seq(Completions) /\ n \in Nat /\ Len(queue') = n - 1
      /\ \A i \in 1 .. Len(queue') : i + 1 \in 1 .. n /\ queue'[i] = queue[i + 1]
      /\ Head(queue) = x /\ 1 \in 1 .. n /\ x \in Completions
  BY <1>1, QueuedFirst
<1>3. (busy' = busy /\ x[2] = "failed") \/ (busy' = busy \cup {x} /\ x[2] # "failed")
  BY <1>2 DEF Dequeue
<1>4. HandOf(x) /\ \A b \in busy : b[1] # x[1]
  BY <1>2 DEF HandInv, Apart
<1>5. \A i \in 1 .. Len(queue') : queue[i + 1][1] # x[1] /\ queue'[i] = queue[i + 1]
                                  /\ i + 1 \in 1 .. n
  BY <1>2 DEF HandInv, QueueAlone
<1>6. port
  BY <1>1 DEF HandInv
<1>7. PoolTypes'
  <2>1. busy' \subseteq Clients \X {"bytes", "nothing"}
    BY <1>2, <1>3, Completed DEF PoolTypes
  <2>2. IsFiniteSet(busy') /\ Cardinality(busy) \in Nat
        /\ Cardinality(busy') \in Nat /\ Cardinality(busy') <= Cardinality(busy) + 1
    <3>1. CASE busy' = busy
      BY <3>1, FS_CardinalityType DEF PoolTypes
    <3>2. CASE busy' = busy \cup {x}
      BY <3>2, BusyMore DEF PoolTypes
    <3> QED BY <1>3, <3>1, <3>2
  <2>3. /\ idle \in Nat /\ idle + Cardinality(busy) + Len(telling) <= NumWorkers
        /\ Len(telling) \in Nat /\ NumWorkers \in Nat
    BY SocketsAssumption, LenProperties DEF PoolTypes
  <2>4. idle' \in Nat /\ idle' + Cardinality(busy') + Len(telling') <= NumWorkers
    BY <1>1, <2>2, <2>3
  <2> QED BY <1>1, <1>2, <2>1, <2>2, <2>4 DEF PoolTypes
<1> HIDE DEF x, n
<1>8. QueueAlone'
  <2> SUFFICES ASSUME NEW i \in 1 .. Len(queue'), NEW j \in 1 .. Len(queue'),
                      queue'[i][1] = queue'[j][1]
               PROVE  i = j
    BY DEF QueueAlone
  <2>1. i + 1 = j + 1
    BY <1>5 DEF HandInv, QueueAlone, n
  <2> QED BY <1>2, <2>1
<1>9. BusyAlone'
  BY <1>3, <1>4 DEF HandInv, BusyAlone
<1>10. Apart'
  BY <1>3, <1>5 DEF HandInv, Apart, n
<1>11. \A y : HandOf(y) => HandOf(y)'
  BY <1>1 DEF HandOf, Gone
<1>12. \A i \in 1 .. Len(queue') : HandOf(queue[i])'
  <2> TAKE i \in 1 .. Len(queue')
  <2>1. HandOf(queue[i + 1])
    BY <1>5 DEF HandInv, n
  <2> QED BY <1>1, <1>5, <2>1 DEF HandOf, Gone
<1>13. \A b \in busy' : HandOf(b)'
  BY <1>3, <1>4, <1>11 DEF HandInv
<1> QED BY <1>1, <1>6, <1>7, <1>8, <1>9, <1>10, <1>12, <1>13 DEF HandInv

(* A worker that has done with a completion waits, has to print or returns.*)
LEMMA WorkersCounted ==
  ASSUME PoolTypes, NEW x \in busy, busy' = busy \ {x}, NEW i \in Nat, NEW t \in Nat,
         i + t <= idle + Len(telling) + 1
  PROVE  /\ IsFiniteSet(busy') /\ Cardinality(busy') \in Nat
         /\ i + Cardinality(busy') + t <= NumWorkers
<1>1. /\ IsFiniteSet(busy') /\ Cardinality(busy) \in Nat
      /\ Cardinality(busy') = Cardinality(busy) - 1
  BY BusyLess DEF PoolTypes
<1>2. Cardinality(busy') \in Nat
  BY <1>1, FS_CardinalityType
<1>3. /\ idle \in Nat /\ idle + Cardinality(busy) + Len(telling) <= NumWorkers
      /\ Len(telling) \in Nat /\ NumWorkers \in Nat
  BY SocketsAssumption, LenProperties DEF PoolTypes
<1> QED BY <1>1, <1>2, <1>3

(* A worker has done with a completion: it lets go of the connection before*)
(* anything else is started on it.                                         *)
LEMMA PoolWorks ==
  ASSUME SocketTypes, PoolTypes, HandInv, NEW c \in Clients, NEW r \in {"bytes", "nothing"},
         Takes(c, r), UNCHANGED <<port, running, client, queue>>, telling' \in Seq(Clients), idle' \in Nat,
         idle' + Len(telling') <= idle + Len(telling) + 1,
         \A d \in Clients : d # c => UNCHANGED <<conn[d], op[d]>>
  PROVE  PoolTypes' /\ HandInv'
<1> DEFINE x == <<c, r>>
<1>1. x \in busy /\ busy' = busy \ {x} /\ x[1] = c
  BY DEF Takes
<1> HIDE DEF x
<1>2. port
  BY <1>1 DEF HandInv
<1>3. PoolTypes'
  <2>1. Len(telling') \in Nat
    BY LenProperties
  <2>2. /\ IsFiniteSet(busy')
        /\ idle' + Cardinality(busy') + Len(telling') <= NumWorkers
    BY <1>1, <2>1, WorkersCounted
  <2>3. busy' \subseteq Clients \X {"bytes", "nothing"} /\ queue' \in Seq(Completions)
    BY <1>1 DEF PoolTypes
  <2> QED BY <2>2, <2>3 DEF PoolTypes
<1>4. QueueAlone' /\ BusyAlone' /\ Apart'
  BY <1>1 DEF HandInv, QueueAlone, BusyAlone, Apart
<1>5. \A y \in Completions : HandOf(y) /\ y[1] # c => HandOf(y)'
  BY Completed DEF HandOf, Gone
<1>6. \A i \in 1 .. Len(queue') : HandOf(queue[i])'
  <2> TAKE i \in 1 .. Len(queue')
  <2>1. /\ i \in 1 .. Len(queue) /\ queue[i] \in Completions /\ HandOf(queue[i])
        /\ queue[i][1] # c /\ queue' = queue
    BY <1>1 DEF PoolTypes, HandInv, Apart
  <2> QED BY <1>5, <2>1 DEF HandOf
<1>7. \A b \in busy' : HandOf(b)'
  <2> TAKE b \in busy'
  <2>1. b \in busy /\ b # x
    BY <1>1
  <2>2. b \in Completions /\ HandOf(b) /\ b[1] # c
    BY <1>1, <2>1 DEF PoolTypes, HandInv, BusyAlone, Completions
  <2> QED BY <1>5, <2>2
<1> QED BY <1>2, <1>3, <1>4, <1>6, <1>7 DEF HandInv

(* One worker less has still to print.                                     *)
LEMMA ToldLess ==
  ASSUME telling \in Seq(Clients), NEW i \in DOMAIN telling, telling' = RemoveAt(telling, i)
  PROVE  /\ telling' \in Seq(Clients) /\ Len(telling) \in Nat /\ telling # <<>>
         /\ Len(telling') = Len(telling) - 1
<1>1. Len(telling) \in Nat /\ i \in 1 .. Len(telling) /\ i \in Nat
  BY LenProperties
<1> DEFINE before == SubSeq(telling, 1, i - 1)
           after == SubSeq(telling, i + 1, Len(telling))
<1>2. before \in Seq(Clients) /\ Len(before) = i - 1
  BY <1>1, SubSeqProperties
<1>3. after \in Seq(Clients) /\ Len(after) = Len(telling) - i
  BY <1>1, SubSeqProperties
<1>4. telling' = before \o after
  BY DEF RemoveAt
<1> HIDE DEF before, after
<1>5. telling' \in Seq(Clients) /\ Len(telling') = Len(before) + Len(after)
  BY <1>2, <1>3, <1>4, ConcatProperties
<1>6. telling # <<>>
  BY <1>1
<1> QED BY <1>1, <1>2, <1>3, <1>5, <1>6

(* A worker that has printed waits again.                                  *)
LEMMA PoolTells ==
  ASSUME PoolTypes, HandInv, NEW i \in DOMAIN telling, telling' = RemoveAt(telling, i),
         Continues, UNCHANGED <<port, running, client, conn, op, queue, busy>>
  PROVE  PoolTypes' /\ HandInv'
<1>1. /\ telling' \in Seq(Clients) /\ Len(telling) \in Nat /\ telling # <<>>
      /\ Len(telling') = Len(telling) - 1
  BY ToldLess DEF PoolTypes
<1>2. Cardinality(busy) \in Nat /\ idle' = idle + 1
  BY FS_CardinalityType DEF PoolTypes, Continues
<1>3. PoolTypes'
  BY <1>1, <1>2, SocketsAssumption DEF PoolTypes
<1>4. port
  BY <1>1 DEF HandInv
<1>5. \A y : HandOf(y) => HandOf(y)'
  BY DEF HandOf, Gone
<1>6. \A k \in 1 .. Len(queue') : HandOf(queue[k])'
  BY DEF HandInv, HandOf, Gone
<1>7. \A b \in busy' : HandOf(b)'
  BY <1>5 DEF HandInv
<1> QED BY <1>3, <1>4, <1>6, <1>7 DEF HandInv, QueueAlone, BusyAlone, Apart

(* The end of the server's process leaves no operation and no worker.      *)
LEMMA PoolEnds ==
  ASSUME port, Ends, UNCHANGED port
  PROVE  PoolTypes' /\ HandInv'
<1>1. /\ idle' = 0 /\ busy' = {} /\ queue' = <<>> /\ telling' = <<>> /\ port'
      /\ <<>> \in Seq(Completions) /\ <<>> \in Seq(Clients) /\ Len(<<>>) = 0
  BY DEF Ends
<1>2. PoolTypes'
  BY <1>1, FS_EmptySet, SocketsAssumption DEF PoolTypes
<1> QED BY <1>1, <1>2 DEF HandInv, QueueAlone, BusyAlone, Apart

(* Every step of the servers and their clients keeps one hand at work for  *)
(* each connection.                                                        *)
LEMMA PoolKept == SocketsInv /\ [Next]_vars => PoolTypes' /\ HandInv'
<1> SUFFICES ASSUME SocketsInv, [Next]_vars PROVE PoolTypes' /\ HandInv'
  OBVIOUS
<1>0. SocketTypes /\ PoolTypes /\ HandInv /\ \A c \in Clients : StreamInv(c)
  BY DEF SocketsInv
<1>1. ASSUME NEW c \in Clients, Accept(c) \/ AcceptFails(c) PROVE PoolTypes' /\ HandInv'
  <2>1. CASE port /\ Ends /\ AcceptFails(c)
    BY <2>1, PoolEnds DEF AcceptFails
  <2>2. CASE ~(port /\ Ends /\ AcceptFails(c))
    <3>1. conn[c] # "open" /\ UNCHANGED <<port, pool, client, running>>
      BY <1>1, <2>2 DEF Accept, AcceptFails, network
    <3>2. \A d \in Clients : d # c => UNCHANGED <<conn[d], op[d], client[d]>>
      BY <1>0, <1>1, <2>2 DEF Accept, AcceptFails, Set, SocketTypes, network
    <3> QED BY <1>0, <3>1, <3>2, PoolSame DEF Gone
  <2> QED BY <2>1, <2>2
<1>2. ASSUME NEW c \in Clients, \/ Connect(c) \/ SendText(c) \/ SendQuit(c) \/ Answered(c)
                                \/ Killed(c) \/ Discarded(c)
      PROVE PoolTypes' /\ HandInv'
  <2>1. \A d \in Clients : Gone(d) => Gone(d)'
    BY <1>0, <1>2 DEF Connect, SendText, SendQuit, Answered, Killed, Discarded, Set, SocketTypes,
                      Gone
  <2>2. UNCHANGED <<port, pool, conn, op, running>>
    BY <1>2 DEF Connect, SendText, SendQuit, Answered, Killed, Discarded, server
  <2> QED BY <1>0, <2>1, <2>2, PoolSame
<1>3. ASSUME NEW c \in Clients, ServerThread(c) PROVE PoolTypes' /\ HandInv'
  <2>1. ~port /\ UNCHANGED <<port, pool, running>>
    BY <1>3 DEF ServerThread, ThreadReceives, ThreadSends
  <2> QED BY <1>0, <2>1, PoolSame
<1>4. ASSUME NEW c \in Clients, System(c) PROVE PoolTypes' /\ HandInv'
  <2>1. port /\ op[c] # "none" /\ UNCHANGED <<port, running, client, conn, idle, busy, telling>>
    BY <1>4 DEF System, SendCompletes, RecvCompletes, RecvFindsClosed, OperationFails, network
  <2>2. conn[c] = "open" /\ running
    BY <1>0, <2>1 DEF StreamInv
  <2>3. PICK r \in {"bytes", "nothing", "failed"} : Complete(c, r) /\ (r # "bytes" => Gone(c))
    BY <1>4 DEF System, SendCompletes, RecvCompletes, RecvFindsClosed, OperationFails, Reset, Gone
  <2> QED BY <1>0, <2>1, <2>2, <2>3, PoolCompletes
<1>5. ASSUME NEW c \in Clients, Tells(c) PROVE PoolTypes' /\ HandInv'
  <2>1. CASE Ends
    <3>1. telling # <<>> /\ UNCHANGED port
      BY <1>5 DEF Tells, Range
    <3> QED BY <1>0, <2>1, <3>1, PoolEnds DEF HandInv
  <2>2. CASE ~Ends
    <3>1. PICK i \in DOMAIN telling : telling' = RemoveAt(telling, i)
      BY <1>5, <2>2 DEF Tells
    <3>2. Continues /\ UNCHANGED <<port, running, client, conn, op, queue, busy>>
      BY <1>5, <2>2 DEF Tells, network
    <3> QED BY <1>0, <3>1, <3>2, PoolTells
  <2> QED BY <2>1, <2>2
<1>6. ASSUME NEW c \in Clients, Worker(c), ~Tells(c) PROVE PoolTypes' /\ HandInv'
  <2>1. /\ UNCHANGED <<port, running, client, queue>>
        /\ \A d \in Clients : d # c => UNCHANGED <<conn[d], op[d]>>
    BY <1>0, <1>6 DEF Worker, CloseSocket, QuitReceived, StartSend, StartRecv, StartFails, Set,
                      network, SocketTypes
  <2>2. Takes(c, "nothing") \/ Takes(c, "bytes")
    BY <1>6 DEF Worker, CloseSocket, QuitReceived, StartSend, StartRecv
  <2>3. /\ telling' \in Seq(Clients) /\ idle' \in Nat
        /\ idle' + Len(telling') <= idle + Len(telling) + 1
    <3>1. idle \in Nat /\ telling \in Seq(Clients) /\ Len(telling) \in Nat
      BY <1>0, LenProperties DEF PoolTypes
    <3>2. Append(telling, c) \in Seq(Clients) /\ Len(Append(telling, c)) = Len(telling) + 1
      BY <3>1, AppendProperties
    <3>3. \/ UNCHANGED telling /\ idle' \in {idle, idle + 1}
          \/ telling' = Append(telling, c) /\ UNCHANGED idle
      BY <1>6 DEF Worker, CloseSocket, QuitReceived, StartSend, StartRecv, StartFails, Continues,
                  Returns
    <3>4. CASE UNCHANGED telling /\ idle' \in {idle, idle + 1}
      BY <3>1, <3>4
    <3>5. CASE telling' = Append(telling, c) /\ UNCHANGED idle
      BY <3>1, <3>2, <3>5
    <3> QED BY <3>3, <3>4, <3>5
  <2>4. CASE Takes(c, "nothing")
    BY <1>0, <2>1, <2>3, <2>4, PoolWorks
  <2>5. CASE Takes(c, "bytes")
    BY <1>0, <2>1, <2>3, <2>5, PoolWorks
  <2> QED BY <2>2, <2>4, <2>5
<1>7. CASE Dequeue
  BY <1>0, <1>7, PoolDequeues
<1>8. CASE UNCHANGED vars
  <2>1. UNCHANGED <<port, pool, conn, op, client, running>>
    BY <1>8 DEF vars, network, server
  <2> QED BY <1>0, <2>1, PoolSame DEF Gone
<1> QED BY <1>1, <1>2, <1>3, <1>4, <1>5, <1>6, <1>7, <1>8 DEF Next

(* A stream begins with what was sent back of it, and still does when what *)
(* is on its way is lost.                                                  *)
LEMMA SentBackFirst ==
  \A s, t, u \in Seq(Texts) : IsPrefix(s, s \o (t \o u))
  BY Beginning, TextsJoined

(* See above.                                                              *)
LEMMA FirstOfPrefix ==
  ASSUME NEW s \in Seq(Texts), NEW t \in Seq(Texts), NEW u \in Seq(Texts),
         NEW all \in Seq(Texts), IsPrefix(s \o (t \o u), all)
  PROVE  IsPrefix(s, all) /\ IsPrefix(s \o (t \o <<>>), all)
<1>1. /\ t \o u \in Seq(Texts) /\ s \o t \in Seq(Texts) /\ t \o <<>> = t
      /\ s \o (t \o u) = (s \o t) \o u
  BY TextsJoined
<1>2. IsPrefix(s, all)
  BY <1>1, BeginningOf
<1>3. IsPrefix(s \o t, all)
  <2> DEFINE st == s \o t
  <2>1. st \in Seq(Texts) /\ IsPrefix(st \o u, all)
    BY <1>1
  <2> HIDE DEF st
  <2>2. IsPrefix(st, all)
    BY <2>1, BeginningOf
  <2> QED BY <2>2 DEF st
<1> QED BY <1>1, <1>2, <1>3

(* A worker that has done with a connection leaves no completion of it.    *)
LEMMA TakesAll ==
  ASSUME HandInv, NEW c \in Clients, NEW r, Takes(c, r), UNCHANGED queue
  PROVE  ~AtWork(c)'
<1>1. <<c, r>> \in busy /\ busy' = busy \ {<<c, r>>}
  BY DEF Takes
<1>2. <<c, "bytes">> \notin busy'
  BY <1>1 DEF HandInv, BusyAlone
<1>3. \A i \in 1 .. Len(queue) : queue[i] # <<c, "bytes">>
  BY <1>1 DEF HandInv, Apart
<1> QED BY <1>2, <1>3 DEF AtWork

(* Nobody comes to work for a connection but by an operation that was under*)
(* way.                                                                    *)
LEMMA AtWorkBefore ==
  ASSUME SocketTypes, PoolTypes, HandInv, [Next]_vars, NEW d \in Clients, AtWork(d)'
  PROVE  AtWork(d) \/ op[d] # "none"
<1>1. CASE UNCHANGED <<queue, busy>>
  BY <1>1 DEF AtWork
<1>2. CASE Ends
  BY <1>2 DEF Ends, AtWork
<1>3. ASSUME NEW c \in Clients, NEW r \in {"bytes", "nothing", "failed"},
             op[c] # "none", Complete(c, r), UNCHANGED busy
      PROVE  AtWork(d) \/ op[d] # "none"
  <2> DEFINE x == <<c, r>>
  <2>1. x \in Completions /\ queue' = Append(queue, x)
    BY <1>3, Completed DEF Complete
  <2>2. x = <<d, "bytes">> => c = d
    OBVIOUS
  <2> HIDE DEF x
  <2>3. \A i \in 1 .. Len(queue') : (i \in 1 .. Len(queue) /\ queue'[i] = queue[i]) \/ queue'[i] = x
    BY <2>1, QueuedLast DEF PoolTypes
  <2> QED BY <1>3, <2>2, <2>3 DEF AtWork
<1>4. CASE Dequeue
  <2>1. queue \in Seq(Completions) /\ queue # <<>> /\ queue' = Tail(queue)
    BY <1>4 DEF Dequeue, PoolTypes
  <2>2. /\ \A i \in 1 .. Len(queue') : i + 1 \in 1 .. Len(queue) /\ queue'[i] = queue[i + 1]
        /\ Head(queue) = queue[1] /\ 1 \in 1 .. Len(queue)
    BY <2>1, QueuedFirst
  <2>3. busy' \subseteq busy \cup {queue[1]}
    BY <1>4, <2>2 DEF Dequeue
  <2> QED BY <2>2, <2>3 DEF AtWork
<1>5. ASSUME NEW c \in Clients, NEW r, Takes(c, r), UNCHANGED queue PROVE AtWork(d)
  BY <1>5 DEF Takes, AtWork
<1>6. ASSUME NEW c \in Clients, System(c) PROVE AtWork(d) \/ op[d] # "none"
  <2>1. op[c] # "none" /\ UNCHANGED busy
        /\ (Complete(c, "bytes") \/ Complete(c, "nothing") \/ Complete(c, "failed"))
    BY <1>6 DEF System, SendCompletes, RecvCompletes, RecvFindsClosed, OperationFails
  <2> QED BY <1>3, <2>1
<1>7. ASSUME NEW c \in Clients, Worker(c) PROVE AtWork(d) \/ op[d] # "none"
  <2>1. \/ UNCHANGED <<queue, busy>> \/ Ends
        \/ UNCHANGED queue /\ (Takes(c, "bytes") \/ Takes(c, "nothing"))
    BY <1>7 DEF Worker, CloseSocket, QuitReceived, StartSend, StartRecv, Tells
  <2> QED BY <1>1, <1>2, <1>5, <2>1
<1>8. ASSUME NEW c \in Clients, \/ Connect(c) \/ Accept(c) \/ AcceptFails(c) \/ SendText(c)
                                \/ SendQuit(c) \/ Answered(c) \/ Killed(c) \/ Discarded(c)
                                \/ ServerThread(c)
      PROVE  AtWork(d) \/ op[d] # "none"
  <2>1. UNCHANGED <<queue, busy>> \/ Ends
    BY <1>8 DEF Connect, Accept, AcceptFails, SendText, SendQuit, Answered, Killed, Discarded,
                ServerThread, ThreadReceives, ThreadSends, server, pool
  <2> QED BY <1>1, <1>2, <2>1
<1>9. UNCHANGED vars => UNCHANGED <<queue, busy>>
  BY DEF vars, server, pool
<1> QED BY <1>1, <1>4, <1>6, <1>7, <1>8, <1>9 DEF Next

(* The server does not begin to run again.                                 *)
LEMMA RunningBefore == [Next]_vars /\ running' => running
<1>1. ASSUME NEW c \in Clients,
             \/ Connect(c) \/ Accept(c) \/ AcceptFails(c) \/ SendText(c) \/ SendQuit(c)
             \/ Answered(c) \/ Killed(c) \/ Discarded(c) \/ ServerThread(c)
      PROVE  UNCHANGED running \/ ~running'
  BY <1>1 DEF Connect, Accept, AcceptFails, SendText, SendQuit, Answered, Killed, Discarded,
              ServerThread, ThreadReceives, ThreadSends, server, Ends
<1>2. ASSUME NEW c \in Clients, System(c) \/ Worker(c) PROVE UNCHANGED running \/ ~running'
  BY <1>2 DEF System, SendCompletes, RecvCompletes, RecvFindsClosed, OperationFails, Worker,
              CloseSocket, QuitReceived, StartSend, StartRecv, Tells, Ends
<1>3. Dequeue \/ UNCHANGED vars => UNCHANGED running
  BY DEF Dequeue, vars, server
<1> QED BY <1>1, <1>2, <1>3 DEF Next

(* Whose connection is handled after a step had it handled before.         *)
LEMMA LiveBefore ==
  ASSUME SocketTypes, PoolTypes, HandInv, [Next]_vars, NEW d \in Clients,
         UNCHANGED <<client[d], conn[d]>>, op'[d] # "none" => op[d] # "none" \/ AtWork(d)
  PROVE  Live(d)' => Live(d)
<1>1. Gone(d)' = Gone(d)
  BY DEF Gone
<1> QED BY <1>1, AtWorkBefore, RunningBefore DEF Live

(* The stream of a connection of which nothing changes                     *)
StreamOf(d) == <<port, running, client[d], conn[d], op[d], received[d], up[d], echo[d], typed[d], buffer[d]>>
LEMMA StreamSame ==
  ASSUME NEW d \in Clients, StreamInv(d), UNCHANGED StreamOf(d), Live(d)' => Live(d)
  PROVE  StreamInv(d)'
<1>1. UNCHANGED <<port, running, client[d], conn[d], op[d], received[d], up[d], echo[d], typed[d],
                  buffer[d]>>
  BY DEF StreamOf
<1>2. Sent(d)' = Sent(d) /\ InHand(d)' = InHand(d) /\ Gone(d)' = Gone(d)
  BY <1>1 DEF Sent, InHand, Prelude, Gone
<1>3. All(d)' = All(d)
  BY <1>1, <1>2 DEF All
<1>4. Follows(d)' = Follows(d)
  BY <1>2, <1>3 DEF Follows
<1> QED BY <1>1, <1>2, <1>4 DEF StreamInv

(* What is in the hand of the server are texts.                            *)
LEMMA HandTypes ==
  ASSUME SocketTypes, NEW c \in Clients
  PROVE  /\ InHand(c) \in Seq(Texts) /\ up[c] \in Seq(Texts) /\ echo[c] \in Seq(Texts)
         /\ buffer[c] \in Seq(Texts) /\ <<Welcome>> \in Seq(Texts) /\ <<>> \in Seq(Texts)
<1>1. /\ up[c] \in Seq(Texts) /\ echo[c] \in Seq(Texts) /\ buffer[c] \in Seq(Texts)
      /\ <<Welcome>> \in Seq(Texts) /\ <<>> \in Seq(Texts)
  BY DEF SocketTypes, Texts
<1>2. Prelude \in Seq(Texts) /\ <<Welcome>> \o buffer[c] \in Seq(Texts)
  BY <1>1, SentMore, ConcatProperties
<1> QED BY <1>1, <1>2 DEF InHand

(* Texts move from one place of the stream to the next.                    *)
LEMMA StreamMoves ==
  ASSUME SocketTypes, NEW c \in Clients, StreamInv(c), Live(c), All(c)' = All(c),
         UNCHANGED <<port, client[c], typed[c]>>,
         echo'[c] \in Seq(Texts), InHand(c)' \in Seq(Texts), up'[c] \in Seq(Texts)
  PROVE  Follows(c)' /\ IsPrefix(echo[c], Sent(c))'
<1>1. Sent(c)' = Sent(c) /\ Gone(c)' = Gone(c)
  BY DEF Sent, Prelude, Gone
<1>2. Follows(c)' = Follows(c) /\ Follows(c)
  BY <1>1 DEF Follows, StreamInv
<1>3. IsPrefix(echo'[c] \o (InHand(c)' \o up'[c]), Sent(c))
  BY <1>2 DEF Follows, All
<1>4. Sent(c) \in Seq(Texts)
  BY SentMore
<1>5. IsPrefix(echo'[c], Sent(c))
  BY <1>3, <1>4, FirstOfPrefix
<1> QED BY <1>1, <1>2, <1>5

(* A client connects.                                                      *)
LEMMA StreamConnects ==
  ASSUME SocketTypes, NEW c \in Clients, StreamInv(c), Connect(c)
  PROVE  StreamInv(c)'
<1>1. /\ client[c] = "start" /\ client'[c] = "prompt" /\ running
      /\ UNCHANGED <<port, running, typed, up, buffer, echo, received, conn, op>>
  BY DEF Connect, Set, SocketTypes, server
<1>2. InHand(c)' = InHand(c) /\ Sent(c)' = Sent(c) /\ ~Gone(c) /\ ~Gone(c)' /\ Live(c)
  BY <1>1 DEF InHand, Sent, Prelude, Gone, Live
<1>3. All(c)' = All(c)
  BY <1>1, <1>2 DEF All
<1>4. Follows(c)' = Follows(c) /\ Follows(c)
  BY <1>2, <1>3 DEF Follows, StreamInv
<1> QED BY <1>1, <1>2, <1>4 DEF StreamInv, NoQuit

(* main accepts: the prelude is in the hand of the server.                 *)
LEMMA StreamAccepted ==
  ASSUME SocketTypes, PoolTypes, HandInv, [Next]_vars, NEW c \in Clients, StreamInv(c), Accept(c)
  PROVE  StreamInv(c)'
<1>1. /\ client[c] # "start" /\ conn[c] = "none" /\ conn'[c] = "open"
      /\ op'[c] = IF port THEN "welcome" ELSE "recv"
      /\ running /\ UNCHANGED <<port, running, client, typed, up, buffer, echo, received>>
  BY DEF Accept, Set, SocketTypes, network
<1>2. buffer[c] = <<Blank>> /\ ~received[c] /\ echo[c] = <<>>
  BY <1>1 DEF StreamInv
<1>3. InHand(c)' = InHand(c) /\ Sent(c)' = Sent(c) /\ Gone(c)' = Gone(c)
  <2>1. <<Welcome>> \o <<Blank>> = <<Welcome, Blank>>
    <3>1. <<Welcome>> \in Seq(Texts) /\ Blank \in Texts /\ <<Welcome, Blank>> \in Seq(Texts)
      BY DEF Texts
    <3>2. Append(<<Welcome>>, Blank) = <<Welcome, Blank>>
      <4>1. /\ Append(<<Welcome>>, Blank) \in Seq(Texts)
            /\ Len(Append(<<Welcome>>, Blank)) = 2
            /\ Append(<<Welcome>>, Blank)[1] = Welcome
            /\ Append(<<Welcome>>, Blank)[2] = Blank
        BY <3>1, AppendProperties
      <4>2. Len(<<Welcome, Blank>>) = 2
        OBVIOUS
      <4>3. <<Welcome, Blank>>[1] = Welcome /\ <<Welcome, Blank>>[2] = Blank
        OBVIOUS
      <4>4. \A i \in 1 .. 2 : i = 1 \/ i = 2
        OBVIOUS
      <4> DEFINE two == Append(<<Welcome>>, Blank)
                 pair == <<Welcome, Blank>>
      <4> HIDE DEF two, pair
      <4>5. two \in Seq(Texts) /\ pair \in Seq(Texts) /\ Len(two) = Len(pair)
        BY <3>1, <4>1, <4>2 DEF two, pair
      <4>6. \A i \in 1 .. Len(two) : two[i] = pair[i]
        BY <4>1, <4>3, <4>4 DEF two, pair
      <4>7. two = pair
        BY <4>5, <4>6, SeqEqual, Zenon
      <4> QED BY <4>7 DEF two, pair
    <3>3. Append(<<Welcome>>, Blank) = <<Welcome>> \o <<Blank>>
      BY <3>1, AppendIsConcat
    <3> QED BY <3>2, <3>3
  <2>2. InHand(c) = IF port THEN <<Welcome, Blank>> ELSE <<>>
    BY <1>1 DEF InHand, Prelude
  <2>3. op'[c] # "send" /\ op'[c] # "none" /\ buffer'[c] = <<Blank>>
    BY <1>1, <1>2
  <2>4. InHand(c)' = IF port THEN <<Welcome>> \o <<Blank>> ELSE <<>>
    <3>1. CASE port
      BY <1>1, <2>3, <3>1, Zenon DEF InHand
    <3>2. CASE ~port
      BY <1>1, <2>3, <3>2 DEF InHand
    <3> QED BY <3>1, <3>2
  <2>5. Sent(c)' = Sent(c) /\ Gone(c)' = Gone(c)
    BY <1>1 DEF Sent, Prelude, Gone
  <2> QED BY <2>1, <2>2, <2>4, <2>5
<1>4. All(c)' = All(c)
  BY <1>1, <1>3 DEF All
<1>5. Follows(c)' = Follows(c)
  BY <1>3, <1>4 DEF Follows
<1>6. Live(c)' => Live(c)
  BY <1>1, <1>3, RunningBefore DEF Live
<1>7. IsPrefix(echo[c], Sent(c))' /\ (~Gone(c)' => NoQuit(up[c])' /\ NoQuit(buffer[c])')
  BY <1>1, <1>3 DEF StreamInv
<1> QED BY <1>1, <1>2, <1>5, <1>6, <1>7 DEF StreamInv

(* A text more is on its way, and is one more of all that were sent.       *)
LEMMA StreamSends ==
  ASSUME SocketTypes, NEW c \in Clients, StreamInv(c), NEW x \in Texts,
         running, client[c] = "prompt", client'[c] \in {"waiting", "closed"},
         client'[c] = "waiting" => x # Quit,
         up'[c] = Append(up[c], x), Sent(c)' = Append(Sent(c), x),
         UNCHANGED <<port, running, conn, op, received, echo, buffer>>
  PROVE  StreamInv(c)'
<1> DEFINE more == Append(up[c], x)
<1>1. ~Gone(c) /\ InHand(c)' = InHand(c) /\ Live(c)
  BY DEF Gone, InHand, Prelude, Live
<1>2. /\ InHand(c) \in Seq(Texts) /\ up[c] \in Seq(Texts) /\ echo[c] \in Seq(Texts)
  BY HandTypes
<1>3. All(c) = Sent(c) /\ NoQuit(up[c]) /\ NoQuit(buffer[c])
  BY <1>1 DEF StreamInv, Follows
<1>4. x # Quit => NoQuit(more)
  BY <1>2, <1>3, NoQuitAppended
<1>5. more \in Seq(Texts)
  BY <1>2, AppendProperties
<1>6. echo[c] \o (InHand(c) \o more) = Append(echo[c] \o (InHand(c) \o up[c]), x)
  BY <1>2, TextAppended
<1> HIDE DEF more
<1>7. All(c)' = echo[c] \o (InHand(c) \o more)
  BY <1>1 DEF All, more
<1>8. All(c)' = Sent(c)'
  BY <1>3, <1>6, <1>7 DEF All
<1>9. IsPrefix(echo[c], All(c)') /\ IsPrefix(All(c)', All(c)')
  <2>1. InHand(c) \o more \in Seq(Texts) /\ All(c)' \in Seq(Texts) /\ <<>> \in Seq(Texts)
    BY <1>2, <1>5, <1>7, TextsJoined
  <2>2. All(c)' \o <<>> = All(c)'
    BY <2>1, TextsJoined
  <2>3. IsPrefix(All(c)', All(c)' \o <<>>)
    BY <2>1, Beginning
  <2> QED BY <1>2, <1>5, <1>7, <2>2, <2>3, SentBackFirst
<1>10. IsPrefix(echo[c], Sent(c))' /\ Follows(c)'
  BY <1>8, <1>9 DEF Follows
<1>11. ~Gone(c)' => NoQuit(up[c])' /\ NoQuit(buffer[c])'
  BY <1>3, <1>4 DEF Gone, NoQuit, more
<1>12. client'[c] # "start" /\ (conn'[c] \in {"closed", "freed"} => Gone(c)')
  BY <1>1 DEF StreamInv
<1> QED BY <1>10, <1>11, <1>12 DEF StreamInv

(* See above: the text is the next one or QUIT.                            *)
LEMMA SentMoreOrQuit ==
  ASSUME SocketTypes, NEW c \in Clients, StreamInv(c), SendText(c) \/ SendQuit(c)
  PROVE  StreamInv(c)'
<1>1. /\ client[c] = "prompt" /\ running
      /\ UNCHANGED <<port, running, conn, op, received, echo, buffer>>
  BY DEF SendText, SendQuit, server
<1>2. /\ Sent(c) = Typed(c) /\ typed[c] \in Nat
      /\ Prelude \o [n \in 1 .. typed[c] + 1 |-> n] = Append(Typed(c), typed[c] + 1)
      /\ Typed(c) \o <<Quit>> = Append(Typed(c), Quit) /\ Sent(c) \in Seq(Texts)
  BY <1>1, SentMore
<1>3. CASE SendText(c)
  <2> DEFINE x == typed[c] + 1
  <2>1. client'[c] = "waiting" /\ typed'[c] = x /\ up'[c] = Append(up[c], x)
    BY <1>3 DEF SendText, Set, SocketTypes
  <2>2. x \in Texts /\ x # Quit
    BY <1>2 DEF Texts, Quit
  <2>3. Append(Typed(c), x) \in Seq(Texts)
    BY <1>2, <2>2, AppendProperties
  <2>4. Append(Typed(c), x) \o <<>> = Append(Typed(c), x)
    BY <2>3, TextsJoined
  <2>5. Sent(c)' = (Prelude \o [n \in 1 .. x |-> n]) \o <<>>
    BY <1>1, <2>1 DEF Sent, Prelude
  <2>6. Sent(c)' = Append(Sent(c), x)
    BY <1>2, <2>4, <2>5
  <2> HIDE DEF x
  <2> QED BY <1>1, <2>1, <2>2, <2>6, StreamSends
<1>4. CASE SendQuit(c)
  <2>1. client'[c] = "closed" /\ typed' = typed /\ up'[c] = Append(up[c], Quit)
    BY <1>4 DEF SendQuit, Set, SocketTypes
  <2>2. Sent(c)' = Typed(c) \o <<Quit>>
    BY <1>1, <2>1 DEF Sent, Prelude, Typed
  <2>3. Sent(c)' = Append(Sent(c), Quit) /\ Quit \in Texts
    BY <1>2, <2>2 DEF Texts, Quit
  <2> QED BY <1>1, <2>1, <2>3, StreamSends
<1> QED BY <1>3, <1>4

(* The stream of a client that goes or has gone and that nobody handles    *)
LEMMA StreamGone ==
  ASSUME NEW c \in Clients, StreamInv(c), Gone(c)', ~Live(c)',
         UNCHANGED <<port, typed[c], echo[c]>>,
         client'[c] = client[c] \/ (client[c] # "closed" /\ client'[c] = "killed"),
         conn'[c] = "none" => UNCHANGED <<conn[c], buffer[c], received[c]>>,
         op'[c] # "none" => UNCHANGED <<running, op[c], conn[c], received[c]>>
  PROVE  StreamInv(c)'
<1>1. client'[c] # "start"
  BY DEF Gone
<1>2. Sent(c)' = Sent(c)
  BY DEF Sent, Prelude
<1>3. IsPrefix(echo[c], Sent(c))'
  BY <1>2 DEF StreamInv
<1> QED BY <1>1, <1>3 DEF StreamInv

(* The stream of a client whose server ends                                *)
LEMMA StreamEnds ==
  ASSUME SocketTypes, NEW c \in Clients, StreamInv(c), Ends,
         UNCHANGED <<port, client[c], typed[c], up[c], echo[c], buffer[c], received[c]>>,
         conn'[c] = conn[c] \/ (conn'[c] = "closed" /\ Gone(c))
  PROVE  StreamInv(c)'
<1>1. op'[c] = "none" /\ ~running'
  BY DEF Ends
<1>2. Sent(c)' = Sent(c) /\ Gone(c)' = Gone(c) /\ ~Live(c)'
  BY <1>1 DEF Sent, Prelude, Gone, Live
<1>3. IsPrefix(echo[c], Sent(c))' /\ (~Gone(c)' => NoQuit(up[c])' /\ NoQuit(buffer[c])')
  BY <1>2 DEF StreamInv
<1>4. client'[c] = "start" => conn'[c] = "none" /\ up'[c] = <<>>
  BY DEF StreamInv, Gone
<1> QED BY <1>1, <1>2, <1>3, <1>4 DEF StreamInv

(* A recv takes texts from what is on its way into the hand of the server. *)
LEMMA StreamReceives ==
  ASSUME SocketTypes, NEW c \in Clients, StreamInv(c), Receive(c), op[c] = "recv",
         op'[c] = (IF port THEN "none" ELSE "send"),
         UNCHANGED <<port, running, client[c], conn[c], received[c], echo[c], typed[c]>>
  PROVE  StreamInv(c)'
<1>1. PICK n \in 1 .. Len(up[c]) : /\ buffer' = [buffer EXCEPT ![c] = SubSeq(up[c], 1, n)]
                                  /\ up' = [up EXCEPT ![c] = SubSeq(up[c], n + 1, Len(up[c]))]
  BY DEF Receive, Set
<1> DEFINE u == up[c]
           first == SubSeq(u, 1, n)
           rest == SubSeq(u, n + 1, Len(u))
<1>2. u \in Seq(Texts) /\ n \in Nat /\ n \in 1 .. Len(u) /\ echo[c] \in Seq(Texts)
  BY LenProperties DEF SocketTypes
<1>3. first \in Seq(Texts) /\ rest \in Seq(Texts) /\ first \o rest = u
  BY <1>2, TextsTaken, Zenon
<1>4. NoQuit(u) => NoQuit(first) /\ NoQuit(rest)
  BY <1>2, NoQuitTaken
<1>5. buffer'[c] = first /\ up'[c] = rest
  BY <1>1 DEF SocketTypes
<1> HIDE DEF first, rest, u
<1>6. conn[c] = "open" /\ running /\ (port => ~received[c]) /\ client[c] # "start"
  BY DEF StreamInv, SocketTypes
<1>7. InHand(c) = <<>> /\ InHand(c)' = buffer'[c]
  BY <1>6 DEF InHand
<1>8. Sent(c)' = Sent(c) /\ Gone(c)' = Gone(c)
  BY DEF Sent, Prelude, Gone
<1>9. (Live(c)' => Follows(c)') /\ IsPrefix(echo[c], Sent(c))'
  <2>1. CASE client[c] = "killed"
    BY <1>8, <2>1 DEF Live, StreamInv
  <2>2. CASE client[c] # "killed"
    <3>1. Live(c)
      BY <1>6, <2>2 DEF Live
    <3>2. <<>> \o u = u
      BY <1>2, TextsJoined
    <3>3. All(c)' = echo[c] \o (first \o rest) /\ All(c) = echo[c] \o (<<>> \o u)
      BY <1>5, <1>7 DEF All, u
    <3>4. All(c)' = All(c)
      BY <1>3, <3>2, <3>3
    <3>5. echo'[c] \in Seq(Texts) /\ InHand(c)' \in Seq(Texts) /\ up'[c] \in Seq(Texts)
      BY <1>2, <1>3, <1>5, <1>7
    <3> QED BY <3>1, <3>4, <3>5, StreamMoves
  <2> QED BY <2>1, <2>2
<1>10. ~Gone(c)' => NoQuit(up[c])' /\ NoQuit(buffer[c])'
  <2>1. ~Gone(c)' => NoQuit(first) /\ NoQuit(rest)
    BY <1>4, <1>8 DEF StreamInv, u
  <2> QED BY <1>5, <2>1 DEF NoQuit
<1> QED BY <1>6, <1>8, <1>9, <1>10 DEF StreamInv

(* Four sequences one after another                                        *)
Regroups(s, t, r, u) == s \o ((t \o r) \o u) = (s \o t) \o (r \o u)
LEMMA Regrouped == \A s, t, r, u \in Seq(Texts) : Regroups(s, t, r, u)
<1> TAKE s, t, r, u \in Seq(Texts)
<1>1. r \o u \in Seq(Texts)
  BY TextsJoined
<1>2. Joins(t, r, u) /\ Joins(s, t, r \o u)
  BY <1>1, Joined
<1>3. t \o (r \o u) = (t \o r) \o u
  BY <1>2, Zenon DEF Joins
<1>4. s \o (t \o (r \o u)) = (s \o t) \o (r \o u)
  BY <1>2, Zenon DEF Joins
<1> QED BY <1>3, <1>4, Zenon DEF Regroups

(* A send passes texts from the hand of the server to the client.          *)
LEMMA StreamReturns ==
  ASSUME SocketTypes, NEW c \in Clients, StreamInv(c), op[c] # "none",
         NEW texts \in Seq(Texts), NEW kept \in Seq(Texts), InHand(c) = texts \o kept,
         echo' = [echo EXCEPT ![c] = IF client[c] = "killed" THEN echo[c] ELSE echo[c] \o texts],
         InHand(c)' = kept, op'[c] = (IF port THEN "none" ELSE "recv"),
         UNCHANGED <<port, running, client[c], conn[c], received[c], up[c], buffer[c], typed[c]>>
  PROVE  StreamInv(c)'
<1>1. up[c] \in Seq(Texts) /\ echo[c] \in Seq(Texts) /\ echo'[c] \in Seq(Texts)
  BY ConcatProperties DEF SocketTypes
<1>2. Sent(c)' = Sent(c) /\ Gone(c)' = Gone(c)
  BY DEF Sent, Prelude, Gone
<1>3. /\ conn[c] = "open" /\ running /\ client[c] # "start" /\ ~(port /\ op'[c] # "none")
      /\ op'[c] # "welcome"
  BY DEF StreamInv
<1>4. (Live(c)' => Follows(c)') /\ IsPrefix(echo[c], Sent(c))'
  <2>1. CASE client[c] = "killed"
    <3>1. echo'[c] = echo[c]
      BY <2>1 DEF SocketTypes
    <3> QED BY <1>2, <2>1, <3>1 DEF Live, StreamInv
  <2>2. CASE client[c] # "killed"
    <3>1. echo'[c] = echo[c] \o texts
      BY <2>2 DEF SocketTypes
    <3>2. echo[c] \o ((texts \o kept) \o up[c]) = (echo[c] \o texts) \o (kept \o up[c])
      <4>1. Regroups(echo[c], texts, kept, up[c])
        BY <1>1, Regrouped
      <4> QED BY <4>1, Zenon DEF Regroups
    <3>3. All(c) = echo[c] \o ((texts \o kept) \o up[c])
      BY DEF All
    <3>4. All(c)' = (echo[c] \o texts) \o (kept \o up[c])
      BY <3>1 DEF All
    <3>5. All(c)' = All(c) /\ Live(c)
      BY <1>3, <2>2, <3>2, <3>3, <3>4 DEF Live
    <3> QED BY <1>1, <3>5, StreamMoves
  <2> QED BY <2>1, <2>2
<1>5. ~Gone(c)' => NoQuit(up[c])' /\ NoQuit(buffer[c])'
  BY <1>2 DEF StreamInv, NoQuit
<1> QED BY <1>2, <1>3, <1>4, <1>5 DEF StreamInv

(* A worker ends a connection only after its client has gone.              *)
LEMMA QuitGone ==
  ASSUME SocketTypes, NEW c \in Clients, StreamInv(c), SaysQuit(c)
  PROVE  Gone(c)
<1>1. buffer[c] \in Seq(Texts) /\ buffer[c] # <<>>
  BY DEF SocketTypes
<1>2. 1 \in 1 .. Len(buffer[c]) /\ buffer[c][1] = Quit
  BY <1>1, LenProperties DEF SaysQuit
<1> QED BY <1>2 DEF StreamInv, NoQuit

(* What has come to a connection that was reset is lost.                   *)
LEMMA StreamDiscarded ==
  ASSUME SocketTypes, NEW c \in Clients, StreamInv(c), Discarded(c)
  PROVE  StreamInv(c)'
<1>1. /\ Gone(c) /\ up'[c] = <<>>
      /\ UNCHANGED <<port, running, client, typed, conn, op, received, echo, buffer, queue, busy>>
  BY DEF Discarded, Reset, Gone, Set, SocketTypes, server, pool
<1>2. Sent(c)' = Sent(c) /\ Gone(c)' = Gone(c) /\ InHand(c)' = InHand(c)
  BY <1>1 DEF Sent, Prelude, Gone, InHand
<1>3. Live(c)' = Live(c)
  BY <1>1, <1>2 DEF Live, AtWork
<1>4. Live(c) => IsPrefix(echo[c] \o (InHand(c) \o <<>>), Sent(c))
  <2>1. Live(c) => IsPrefix(echo[c] \o (InHand(c) \o up[c]), Sent(c))
    BY DEF StreamInv, Follows, All
  <2>2. Sent(c) \in Seq(Texts)
    BY SentMore
  <2> QED BY <2>1, <2>2, HandTypes, FirstOfPrefix
<1>5. Live(c)' => Follows(c)'
  <2>1. All(c)' = echo[c] \o (InHand(c) \o <<>>)
    BY <1>1, <1>2 DEF All
  <2> QED BY <1>1, <1>2, <1>3, <1>4, <2>1 DEF Follows
<1>6. client'[c] = "start" => conn'[c] = "none" /\ up'[c] = <<>>
  BY <1>1 DEF StreamInv
<1> QED BY <1>1, <1>2, <1>5, <1>6 DEF StreamInv

(* WinSockServer: the thread of a client receives and sends in turn.       *)
LEMMA ThreadKeepsStream ==
  ASSUME SocketTypes, HandInv, NEW c \in Clients, StreamInv(c), ServerThread(c)
  PROVE  StreamInv(c)'
<1>1. CASE ThreadReceives(c)
  <2>1. /\ Receive(c) /\ ~port /\ op[c] = "recv" /\ op'[c] = "send"
        /\ UNCHANGED <<port, running, client[c], conn[c], received[c], echo[c], typed[c]>>
    BY <1>1 DEF ThreadReceives, Set, SocketTypes
  <2> QED BY <2>1, StreamReceives
<1>2. CASE ThreadSends(c)
  <2>1. /\ ~port /\ op[c] = "send" /\ conn[c] = "open" /\ client[c] # "start"
        /\ UNCHANGED <<port, running, client, received, up, buffer, typed, queue, busy>>
    BY <1>2 DEF ThreadSends, network, StreamInv, pool
  <2>2. CASE SaysQuit(c)
    <3>1. conn'[c] = "closed" /\ op'[c] = "none" /\ UNCHANGED echo
      BY <1>2, <2>2 DEF ThreadSends, Set, SocketTypes
    <3>2. Gone(c)'
      BY <2>1, <2>2, QuitGone DEF Gone
    <3>3. ~Live(c)'
      BY <2>1, <3>1, <3>2 DEF Live, AtWork, HandInv
    <3> QED BY <2>1, <3>1, <3>2, <3>3, StreamGone
  <2>3. CASE ~SaysQuit(c)
    <3>1. /\ op'[c] = "recv" /\ UNCHANGED conn
          /\ echo' = [echo EXCEPT ![c] = IF client[c] = "killed" THEN echo[c]
                                         ELSE echo[c] \o buffer[c]]
      BY <1>2, <2>3 DEF ThreadSends, SendBack, Set, AllOf, SocketTypes
    <3>2. InHand(c) = buffer[c] /\ InHand(c)' = <<>>
      BY <2>1, <3>1 DEF InHand
    <3>3. buffer[c] \in Seq(Texts) /\ <<>> \in Seq(Texts) /\ buffer[c] \o <<>> = buffer[c]
      BY HandTypes, TextsJoined
    <3> QED BY <2>1, <3>1, <3>2, <3>3, StreamReturns
  <2> QED BY <2>2, <2>3
<1> QED BY <1>1, <1>2 DEF ServerThread

(* After an operation that has failed or found the end of the data nobody  *)
(* has bytes of the connection.                                            *)
LEMMA NoBytesLeft ==
  ASSUME PoolTypes, HandInv, NEW c \in Clients, NEW r \in {"nothing", "failed"},
         op[c] # "none", Complete(c, r), UNCHANGED busy
  PROVE  ~AtWork(c)'
<1> DEFINE x == <<c, r>>
<1>1. x \in Completions /\ queue' = Append(queue, x) /\ x # <<c, "bytes">>
  BY Completed DEF Complete
<1> HIDE DEF x
<1>2. \A i \in 1 .. Len(queue') : (i \in 1 .. Len(queue) /\ queue'[i] = queue[i]) \/ queue'[i] = x
  BY <1>1, QueuedLast DEF PoolTypes
<1>3. <<c, "bytes">> \notin busy /\ \A i \in 1 .. Len(queue) : queue[i] # <<c, "bytes">>
  BY DEF HandInv, HandOf
<1> QED BY <1>1, <1>2, <1>3 DEF AtWork

(* CompletionPortServer: the system carries out a send or a recv.          *)
LEMMA SystemKeepsStream ==
  ASSUME SocketTypes, PoolTypes, HandInv, NEW c \in Clients, StreamInv(c), System(c)
  PROVE  StreamInv(c)'
<1>1. /\ port /\ op[c] # "none" /\ conn[c] = "open" /\ client[c] # "start"
      /\ op'[c] = "none" /\ (received[c] <=> op[c] = "send")
      /\ UNCHANGED <<port, running, client, conn, received, typed, busy>>
  BY DEF System, SendCompletes, RecvCompletes, RecvFindsClosed, OperationFails, Complete, Set,
         network, StreamInv, SocketTypes
<1>2. CASE SendCompletes(c) /\ op[c] = "send"
  <2>1. /\ echo' = [echo EXCEPT ![c] = IF client[c] = "killed" THEN echo[c]
                                       ELSE echo[c] \o buffer[c]]
        /\ UNCHANGED <<up, buffer>>
    BY <1>2 DEF SendCompletes, SendBack, Set, AllOf, network
  <2>2. InHand(c) = buffer[c] /\ InHand(c)' = <<>>
    BY <1>1, <1>2 DEF InHand
  <2>3. buffer[c] \in Seq(Texts) /\ <<>> \in Seq(Texts) /\ buffer[c] \o <<>> = buffer[c]
    BY HandTypes, TextsJoined
  <2> QED BY <1>1, <2>1, <2>2, <2>3, StreamReturns
<1>3. CASE SendCompletes(c) /\ op[c] = "welcome"
  <2>1. /\ echo' = [echo EXCEPT ![c] = IF client[c] = "killed" THEN echo[c]
                                       ELSE echo[c] \o <<Welcome>>]
        /\ UNCHANGED <<up, buffer>>
    BY <1>3 DEF SendCompletes, SendBack, Set, network
  <2>2. InHand(c) = <<Welcome>> \o buffer[c]
    BY <1>1, <1>3, Zenon DEF InHand
  <2>3. InHand(c)' = buffer[c]
    BY <1>1, <1>3, <2>1 DEF InHand
  <2>4. buffer[c] \in Seq(Texts) /\ <<Welcome>> \in Seq(Texts)
    BY HandTypes
  <2> QED BY <1>1, <2>1, <2>2, <2>3, <2>4, StreamReturns
<1>4. CASE RecvCompletes(c)
  <2>1. Receive(c) /\ op[c] = "recv" /\ UNCHANGED echo
    BY <1>4 DEF RecvCompletes
  <2> QED BY <1>1, <2>1, StreamReceives
<1>5. CASE RecvFindsClosed(c) \/ OperationFails(c)
  <2>1. Gone(c)' /\ UNCHANGED echo /\ (Complete(c, "nothing") \/ Complete(c, "failed"))
    BY <1>1, <1>5 DEF RecvFindsClosed, OperationFails, Reset, Gone
  <2>2. ~AtWork(c)'
    BY <1>1, <2>1, NoBytesLeft
  <2>3. ~Live(c)'
    BY <1>1, <2>1, <2>2 DEF Live
  <2> QED BY <1>1, <2>1, <2>3, StreamGone
<1> QED BY <1>2, <1>3, <1>4, <1>5 DEF System, SendCompletes

(* A worker ends a connection, or starts what comes after the completed    *)
(* operation: what was in its hand stays in the hand of the server.        *)
LEMMA WorkerKeepsStream ==
  ASSUME SocketTypes, PoolTypes, HandInv, NEW c \in Clients, StreamInv(c), Worker(c), ~Tells(c)
  PROVE  StreamInv(c)'
<1>1. PICK r \in {"bytes", "nothing"} :
         Takes(c, r) /\ (CloseSocket(c) => r = "nothing") /\ (~CloseSocket(c) => r = "bytes")
  BY DEF Worker, CloseSocket, QuitReceived, StartSend, StartRecv, Takes
<1>2. /\ port /\ op[c] = "none" /\ conn[c] = "open" /\ client[c] # "start"
      /\ CloseSocket(c) => Gone(c)
  <2>1. <<c, r>> \in busy
    BY <1>1 DEF Takes
  <2> QED BY <1>1, <2>1 DEF HandInv, HandOf, StreamInv
<1>3. UNCHANGED <<port, running, client, up, echo, buffer, typed, queue>>
  BY DEF Worker, CloseSocket, QuitReceived, StartSend, StartRecv, network
<1>4. ~AtWork(c)'
  BY <1>1, <1>3, TakesAll
<1>5. Sent(c)' = Sent(c) /\ Gone(c)' = Gone(c)
  BY <1>3 DEF Sent, Prelude, Gone
<1>6. ASSUME op'[c] = "none", Gone(c), conn'[c] # "none" PROVE StreamInv(c)'
  <2>1. ~Live(c)' /\ Gone(c)'
    BY <1>4, <1>5, <1>6 DEF Live
  <2> QED BY <1>3, <1>6, <2>1, StreamGone
<1>7. CASE CloseSocket(c) \/ QuitReceived(c)
  <2>1. conn'[c] \in {"closed", "freed"} /\ op'[c] = "none" /\ Gone(c)
    BY <1>2, <1>7, QuitGone DEF CloseSocket, QuitReceived, Set, SocketTypes
  <2> QED BY <1>6, <2>1
<1>8. ASSUME <<c, "bytes">> \in busy, UNCHANGED conn,
             \/ ~received[c] /\ received'[c] /\ op'[c] = "send"
             \/ received[c] /\ ~received'[c] /\ op'[c] = "recv"
      PROVE  StreamInv(c)'
  <2>1. running /\ AtWork(c)
    BY <1>8 DEF HandInv, HandOf, AtWork
  <2>2. InHand(c)' = InHand(c)
    BY <1>2, <1>3, <1>8 DEF InHand
  <2>3. All(c)' = All(c)
    BY <1>3, <2>2 DEF All
  <2>4. Follows(c)' = Follows(c) /\ (Live(c)' => Live(c))
    BY <1>2, <1>3, <1>5, <2>1, <2>3 DEF Follows, Live
  <2>5. IsPrefix(echo[c], Sent(c))' /\ (~Gone(c)' => NoQuit(up[c])' /\ NoQuit(buffer[c])')
    BY <1>3, <1>5 DEF StreamInv, NoQuit
  <2> QED BY <1>2, <1>3, <1>8, <2>1, <2>4, <2>5 DEF StreamInv
<1>9. CASE StartSend(c) \/ StartRecv(c)
  <2>1. <<c, "bytes">> \in busy /\ UNCHANGED conn
    BY <1>9 DEF StartSend, StartRecv, Takes
  <2>2. \/ ~received[c] /\ received'[c] /\ op'[c] = "send"
        \/ received[c] /\ ~received'[c] /\ op'[c] = "recv"
        \/ op'[c] = "none" /\ Gone(c)
    BY <1>2, <1>9 DEF StartSend, StartRecv, StartFails, Reset, Gone, Set, SocketTypes
  <2> QED BY <1>2, <1>6, <1>8, <2>1, <2>2
<1> QED BY <1>7, <1>9 DEF Worker

(* Every step keeps every stream: that of one connection by the lemmas, the*)
(* others because nothing of theirs changes.                               *)
LEMMA StreamKept == SocketsInv /\ [Next]_vars => \A d \in Clients : StreamInv(d)'
<1> SUFFICES ASSUME SocketsInv, [Next]_vars, NEW d \in Clients PROVE StreamInv(d)'
  OBVIOUS
<1>0. SocketTypes /\ PoolTypes /\ HandInv /\ StreamInv(d)
  BY DEF SocketsInv
<1>1. ASSUME NEW c \in Clients, c # d, AcceptFails(c) \/ Tells(c) => UNCHANGED <<running, op>>,
             \/ Connect(c) \/ Accept(c) \/ AcceptFails(c) \/ SendText(c) \/ SendQuit(c)
             \/ Answered(c) \/ Killed(c) \/ Discarded(c)
             \/ ServerThread(c) \/ System(c) \/ Worker(c)
      PROVE  StreamInv(d)'
  <2>1. UNCHANGED <<port, running, client[d], conn[d]>>
    BY <1>0, <1>1 DEF Connect, Accept, AcceptFails, SendText, SendQuit, Answered, Killed,
       Discarded, ServerThread, ThreadReceives, ThreadSends, System, SendCompletes, RecvCompletes,
       RecvFindsClosed, OperationFails, Worker, CloseSocket, QuitReceived, StartSend, StartRecv,
       Tells, Set, network, server, SocketTypes
  <2>2. UNCHANGED <<op[d], received[d], typed[d]>>
    BY <1>0, <1>1 DEF Connect, Accept, AcceptFails, SendText, SendQuit, Answered, Killed,
       Discarded, ServerThread, ThreadReceives, ThreadSends, System, SendCompletes, RecvCompletes,
       RecvFindsClosed, OperationFails, Worker, CloseSocket, QuitReceived, StartSend, StartRecv,
       StartFails, Tells, Complete, Set, network, server, SocketTypes
  <2>3. UNCHANGED <<up[d], buffer[d]>>
    BY <1>0, <1>1 DEF Connect, Accept, AcceptFails, SendText, SendQuit, Answered, Killed,
       Discarded, ServerThread, ThreadReceives, ThreadSends, System, SendCompletes, RecvCompletes,
       RecvFindsClosed, OperationFails, Worker, CloseSocket, QuitReceived, StartSend, StartRecv,
       Tells, Receive, Set, network, server, SocketTypes
  <2>4. UNCHANGED <<echo[d]>>
    BY <1>0, <1>1 DEF Connect, Accept, AcceptFails, SendText, SendQuit, Answered, Killed,
       Discarded, ServerThread, ThreadReceives, ThreadSends, System, SendCompletes, RecvCompletes,
       RecvFindsClosed, OperationFails, Worker, CloseSocket, QuitReceived, StartSend, StartRecv,
       Tells, SendBack, Set, network, server, SocketTypes
  <2>5. Live(d)' => Live(d)
    BY <1>0, <2>1, <2>2, LiveBefore
  <2> QED BY <1>0, <2>1, <2>2, <2>3, <2>4, <2>5, StreamSame DEF StreamOf
<1>2. ASSUME NEW c \in Clients, Ends, AcceptFails(c) \/ Tells(c) PROVE StreamInv(d)'
  <2>1. UNCHANGED <<port, client, typed, up, echo, buffer, received>>
    BY <1>2 DEF AcceptFails, Tells, network
  <2>2. conn'[d] = conn[d] \/ (conn'[d] = "closed" /\ Gone(d))
    BY <1>0, <1>2 DEF AcceptFails, Tells, Set, SocketTypes, Gone
  <2> QED BY <1>0, <1>2, <2>1, <2>2, StreamEnds
<1>3. CASE Connect(d)
  BY <1>0, <1>3, StreamConnects
<1>4. CASE Accept(d)
  BY <1>0, <1>4, StreamAccepted
<1>5. CASE AcceptFails(d) /\ UNCHANGED <<running, op>>
  <2>1. /\ client[d] = "killed" /\ conn'[d] = "closed" /\ op[d] = "none"
        /\ UNCHANGED <<port, running, client, typed, echo, op>>
    BY <1>0, <1>5 DEF AcceptFails, Set, SocketTypes, StreamInv, network
  <2>2. Gone(d)' /\ ~Live(d)'
    BY <2>1 DEF Gone, Live
  <2> QED BY <1>0, <2>1, <2>2, StreamGone
<1>6. CASE SendText(d) \/ SendQuit(d)
  BY <1>0, <1>6, SentMoreOrQuit
<1>7. CASE Killed(d)
  <2>1. /\ client[d] # "closed" /\ client'[d] = "killed"
        /\ UNCHANGED <<port, running, typed, echo, conn, op, received, buffer>>
    BY <1>0, <1>7 DEF Killed, Set, SocketTypes, server
  <2>2. Gone(d)' /\ ~Live(d)'
    BY <2>1 DEF Gone, Live
  <2> QED BY <1>0, <2>1, <2>2, StreamGone
<1>8. CASE Answered(d)
  <2>1. /\ client[d] = "waiting" /\ client'[d] = "prompt"
        /\ UNCHANGED <<port, running, typed, echo, conn, op, received, up, buffer>>
    BY <1>0, <1>8 DEF Answered, Set, SocketTypes, server
  <2>2. Sent(d)' = Sent(d) /\ InHand(d)' = InHand(d) /\ ~Gone(d) /\ ~Gone(d)'
    BY <2>1 DEF Sent, InHand, Prelude, Gone
  <2>3. All(d)' = All(d) /\ (Live(d)' => Live(d))
    BY <2>1, <2>2 DEF All, Live
  <2>4. Follows(d)' = Follows(d)
    BY <2>2, <2>3 DEF Follows
  <2>5. IsPrefix(echo[d], Sent(d))' /\ NoQuit(up[d])' /\ NoQuit(buffer[d])'
    BY <1>0, <2>1, <2>2 DEF StreamInv, NoQuit
  <2> QED BY <1>0, <2>1, <2>2, <2>3, <2>4, <2>5 DEF StreamInv
<1>9. CASE Discarded(d)
  BY <1>0, <1>9, StreamDiscarded
<1>10. CASE ServerThread(d)
  BY <1>0, <1>10, ThreadKeepsStream
<1>11. CASE System(d)
  BY <1>0, <1>11, SystemKeepsStream
<1>12. CASE Worker(d) /\ ~Tells(d)
  BY <1>0, <1>12, WorkerKeepsStream
<1>13. CASE Dequeue \/ (Tells(d) /\ UNCHANGED <<running, op>>) \/ UNCHANGED vars
  <2>1. UNCHANGED <<port, running, client, conn, op, received, up, echo, typed, buffer>>
    BY <1>13 DEF Dequeue, Tells, vars, network, server
  <2>2. Live(d)' => Live(d)
    BY <1>0, <2>1, LiveBefore
  <2> QED BY <1>0, <2>1, <2>2, StreamSame DEF StreamOf
<1>14. \A c \in Clients : AcceptFails(c) \/ Tells(c) => UNCHANGED <<running, op>> \/ Ends
  BY DEF AcceptFails, Tells
<1> QED BY <1>1, <1>2, <1>3, <1>4, <1>5, <1>6, <1>7, <1>8, <1>9, <1>10, <1>11, <1>12, <1>13,
           <1>14 DEF Next, Worker

(* Whom nobody handles any more nobody handles again.                      *)
LEMMA UnhandledStay ==
  ASSUME SocketTypes, PoolTypes, HandInv, \A c \in Clients : StreamInv(c), [Next]_vars,
         NEW d \in Unhandled
  PROVE  d \in Unhandled'
<1>1. d \in Clients /\ Gone(d) /\ conn[d] # "none" /\ ~Handled(d)
  BY DEF Unhandled
<1>2. /\ op[d] = "none" /\ \A b \in busy : b[1] # d
      /\ \A i \in 1 .. Len(queue) : queue[i][1] # d
  BY <1>1 DEF Handled
<1>3. \A r : ~Takes(d, r)
  BY <1>2 DEF Takes
<1>4. Gone(d)'
  BY <1>1 DEF Next, vars, Connect, Accept, AcceptFails, SendText, SendQuit, Answered, Killed,
     Discarded, ServerThread, ThreadReceives, ThreadSends, System, SendCompletes, RecvCompletes,
     RecvFindsClosed, OperationFails, Worker, CloseSocket, QuitReceived, StartSend, StartRecv,
     Tells, Dequeue, Set, network, SocketTypes, Gone
<1>5. conn'[d] # "none"
  BY <1>1 DEF Next, vars, Connect, Accept, AcceptFails, SendText, SendQuit, Answered, Killed,
     Discarded, ServerThread, ThreadReceives, ThreadSends, System, SendCompletes, RecvCompletes,
     RecvFindsClosed, OperationFails, Worker, CloseSocket, QuitReceived, StartSend, StartRecv,
     Tells, Dequeue, Set, server, SocketTypes
<1>6. op'[d] = "none"
  <2>1. Ends => op'[d] = "none"
    BY <1>1 DEF Ends
  <2>2. ASSUME NEW c \in Clients, \/ Connect(c) \/ Accept(c) \/ AcceptFails(c) \/ SendText(c)
                                  \/ SendQuit(c) \/ Answered(c) \/ Killed(c) \/ Discarded(c)
        PROVE  op'[d] = "none"
    BY <1>1, <1>2, <2>1, <2>2 DEF Connect, Accept, AcceptFails, SendText, SendQuit, Answered,
       Killed, Discarded, Set, server, SocketTypes
  <2>3. ASSUME NEW c \in Clients, ServerThread(c) \/ System(c) PROVE op'[d] = "none"
    BY <1>1, <1>2, <2>3 DEF ServerThread, ThreadReceives, ThreadSends, System, SendCompletes,
       RecvCompletes, RecvFindsClosed, OperationFails, Complete, Set, SocketTypes
  <2>4. ASSUME NEW c \in Clients, Worker(c) PROVE op'[d] = "none"
    BY <1>1, <1>2, <1>3, <2>1, <2>4 DEF Worker, CloseSocket, QuitReceived, StartSend, StartRecv,
       StartFails, Tells, Set, SocketTypes
  <2>5. Dequeue \/ UNCHANGED vars => op'[d] = "none"
    BY <1>2 DEF Dequeue, vars, server
  <2> QED BY <2>2, <2>3, <2>4, <2>5 DEF Next
<1>7. \/ UNCHANGED <<queue, busy>> \/ (queue' = <<>> /\ busy' = {}) \/ Dequeue
      \/ UNCHANGED queue /\ busy' \subseteq busy
      \/ \E c \in Clients, r \in {"bytes", "nothing", "failed"} :
           c # d /\ UNCHANGED busy /\ Complete(c, r)
  <2>1. ASSUME NEW c \in Clients, System(c)
        PROVE  c # d /\ UNCHANGED busy /\ (Complete(c, "bytes") \/ Complete(c, "nothing")
                                           \/ Complete(c, "failed"))
    BY <1>2, <2>1 DEF System, SendCompletes, RecvCompletes, RecvFindsClosed, OperationFails
  <2>2. ASSUME NEW c \in Clients, Worker(c)
        PROVE  \/ UNCHANGED queue /\ busy' \subseteq busy
               \/ queue' = <<>> /\ busy' = {}
    BY <2>2 DEF Worker, CloseSocket, QuitReceived, StartSend, StartRecv, Tells, Takes, Ends
  <2>3. ASSUME NEW c \in Clients, \/ Connect(c) \/ Accept(c) \/ AcceptFails(c) \/ SendText(c)
                                  \/ SendQuit(c) \/ Answered(c) \/ Killed(c) \/ Discarded(c)
                                  \/ ServerThread(c)
        PROVE  UNCHANGED <<queue, busy>> \/ (queue' = <<>> /\ busy' = {})
    BY <2>3 DEF Connect, Accept, AcceptFails, SendText, SendQuit, Answered, Killed, Discarded,
                ServerThread, ThreadReceives, ThreadSends, server, pool, Ends
  <2>4. UNCHANGED vars => UNCHANGED <<queue, busy>>
    BY DEF vars, server, pool
  <2> QED BY <2>1, <2>2, <2>3, <2>4 DEF Next
<1>8. (\A b \in busy : b[1] # d)' /\ (\A i \in 1 .. Len(queue) : queue[i][1] # d)'
  <2>1. CASE UNCHANGED <<queue, busy>> \/ (queue' = <<>> /\ busy' = {})
             \/ (UNCHANGED queue /\ busy' \subseteq busy)
    BY <1>2, <2>1
  <2>2. CASE Dequeue
    <3>1. queue \in Seq(Completions) /\ queue # <<>> /\ queue' = Tail(queue)
      BY <2>2 DEF Dequeue, PoolTypes
    <3>2. /\ \A i \in 1 .. Len(queue') : i + 1 \in 1 .. Len(queue) /\ queue'[i] = queue[i + 1]
          /\ Head(queue) = queue[1] /\ 1 \in 1 .. Len(queue)
      BY <3>1, QueuedFirst
    <3>3. busy' \subseteq busy \cup {queue[1]}
      BY <2>2, <3>2 DEF Dequeue
    <3> QED BY <1>2, <3>2, <3>3
  <2>3. ASSUME NEW c \in Clients, NEW r \in {"bytes", "nothing", "failed"}, c # d,
               UNCHANGED busy, Complete(c, r)
        PROVE  (\A b \in busy : b[1] # d)' /\ (\A i \in 1 .. Len(queue) : queue[i][1] # d)'
    <3> DEFINE x == <<c, r>>
    <3>1. x \in Completions /\ x[1] # d /\ queue' = Append(queue, x)
      BY <2>3, Completed DEF Complete
    <3> HIDE DEF x
    <3>2. \A i \in 1 .. Len(queue') : (i \in 1 .. Len(queue) /\ queue'[i] = queue[i])
                                      \/ queue'[i] = x
      BY <3>1, QueuedLast DEF PoolTypes
    <3> QED BY <1>2, <2>3, <3>1, <3>2
  <2> QED BY <1>7, <2>1, <2>2, <2>3
<1> QED BY <1>1, <1>4, <1>5, <1>6, <1>8 DEF Unhandled, Handled

(* A client goes at a time.                                                *)
LEMMA LeftFinite ==
  ASSUME SocketTypes, [Next]_vars, IsFiniteSet(Left)
  PROVE  IsFiniteSet(Left')
<1>1. \A c \in Clients : IsFiniteSet(Left \cup {c})
  BY FS_AddElement
<1>2. UNCHANGED client \/ \E c \in Clients : \A d \in Clients : d # c => client'[d] = client[d]
  BY DEF Next, vars, Connect, Accept, AcceptFails, SendText, SendQuit, Answered, Killed,
     Discarded, ServerThread, ThreadReceives, ThreadSends, System, SendCompletes, RecvCompletes,
     RecvFindsClosed, OperationFails, Worker, CloseSocket, QuitReceived, StartSend, StartRecv,
     Tells, Dequeue, Set, network, SocketTypes
<1>3. Left' \subseteq Left \/ \E c \in Clients : Left' \subseteq Left \cup {c}
  BY <1>2 DEF Left, Gone
<1> QED BY <1>1, <1>3, FS_Subset

(* A worker that ends has handled the connection of a client that has gone.*)
LEMMA EndsWithOne ==
  ASSUME SocketTypes, PoolTypes, HandInv, NEW c \in Clients, StreamInv(c),
         \/ (Dequeue /\ Head(queue) = <<c, "failed">>)
         \/ QuitReceived(c)
         \/ ((StartSend(c) \/ StartRecv(c)) /\ StartFails(c))
  PROVE  c \in Unhandled' \ Unhandled
<1>1. CASE Dequeue /\ Head(queue) = <<c, "failed">>
  <2>1. queue \in Seq(Completions) /\ queue # <<>> /\ queue' = Tail(queue) /\ busy' = busy
        /\ UNCHANGED <<client, conn, op>>
    BY <1>1 DEF Dequeue, PoolTypes, network
  <2>2. /\ \A i \in 1 .. Len(queue') : i + 1 \in 1 .. Len(queue) /\ queue'[i] = queue[i + 1]
        /\ queue[1] = <<c, "failed">> /\ 1 \in 1 .. Len(queue)
    BY <1>1, <2>1, QueuedFirst
  <2>3. op[c] = "none" /\ conn[c] = "open" /\ Gone(c) /\ \A b \in busy : b[1] # c
    BY <2>2 DEF HandInv, HandOf, Apart
  <2>4. \A i \in 1 .. Len(queue') : queue[i + 1][1] # c
    <3> TAKE i \in 1 .. Len(queue')
    <3>1. i + 1 # 1 /\ i + 1 \in 1 .. Len(queue)
      BY <2>2
    <3> QED BY <2>2, <3>1 DEF HandInv, QueueAlone
  <2>5. ~Handled(c)'
    BY <2>1, <2>2, <2>3, <2>4 DEF Handled
  <2>6. Gone(c)' /\ conn'[c] # "none" /\ Handled(c)
    BY <2>1, <2>2, <2>3 DEF Gone, Handled
  <2> QED BY <2>5, <2>6 DEF Unhandled
<1>2. CASE QuitReceived(c) \/ ((StartSend(c) \/ StartRecv(c)) /\ StartFails(c))
  <2>1. Takes(c, "bytes") /\ UNCHANGED <<queue, op, client>>
    BY <1>2 DEF QuitReceived, StartSend, StartRecv, StartFails, network
  <2>2. <<c, "bytes">> \in busy /\ busy' = busy \ {<<c, "bytes">>}
    BY <2>1 DEF Takes
  <2>3. op[c] = "none" /\ conn[c] = "open" /\ Handled(c)
    BY <2>2 DEF HandInv, HandOf, Handled
  <2>4. (\A b \in busy : b[1] # c)' /\ (\A i \in 1 .. Len(queue) : queue[i][1] # c)'
    BY <2>1, <2>2 DEF HandInv, BusyAlone, Apart
  <2>5. Gone(c) /\ conn'[c] # "none"
    BY <1>2, <2>3, QuitGone DEF QuitReceived, StartSend, StartRecv, StartFails, Reset, Gone, Set,
                                SocketTypes
  <2>6. ~Handled(c)' /\ Gone(c)'
    BY <2>1, <2>3, <2>4, <2>5 DEF Handled, Gone
  <2> QED BY <2>3, <2>5, <2>6 DEF Unhandled
<1> QED BY <1>1, <1>2

(* A worker that is taken away is made up for by a client more that has    *)
(* gone and is handled by nobody.                                          *)
LEMMA WorkersKept == SocketsInv /\ [Next]_vars => WorkersInv'
<1> SUFFICES ASSUME SocketsInv, [Next]_vars PROVE WorkersInv'
  OBVIOUS
<1>0. /\ SocketTypes /\ PoolTypes /\ HandInv /\ WorkersInv
      /\ \A c \in Clients : StreamInv(c)
  BY DEF SocketsInv
<1>1. IsFiniteSet(Left')
  BY <1>0, LeftFinite DEF WorkersInv
<1> SUFFICES ASSUME running'
             PROVE  idle' + Cardinality(busy') + Len(telling') + Cardinality(Unhandled')
                      >= NumWorkers
  BY <1>1 DEF WorkersInv
<1> DEFINE U == Unhandled
           V == Unhandled'
           b == Cardinality(busy)
           bb == Cardinality(busy')
           t == Len(telling)
           tt == Len(telling')
           u == Cardinality(U)
           v == Cardinality(V)
<1>2. /\ U \subseteq V /\ U \subseteq Left /\ V \subseteq Left'
      /\ IsFiniteSet(U) /\ IsFiniteSet(V)
  <2>1. U \subseteq V /\ U \subseteq Left /\ V \subseteq Left'
    BY <1>0, UnhandledStay DEF Unhandled, Left
  <2> QED BY <1>0, <1>1, <2>1, FS_Subset DEF WorkersInv
<1>3. u \in Nat /\ v \in Nat /\ u <= v
  BY <1>2, FS_Subset, FS_CardinalityType
<1>4. ASSUME NEW c \in V \ U PROVE u + 1 <= v
  <2>1. Cardinality(U \cup {c}) = u + 1
    BY <1>2, <1>4, FS_AddElement
  <2>2. U \cup {c} \subseteq V
    BY <1>2, <1>4
  <2> QED BY <1>2, <2>1, <2>2, FS_Subset
<1>5. /\ idle \in Nat /\ b \in Nat /\ t \in Nat /\ IsFiniteSet(busy)
      /\ idle' \in Nat /\ bb \in Nat /\ tt \in Nat /\ NumWorkers \in Nat
  <2>1. PoolTypes /\ PoolTypes'
    BY <1>0, PoolKept
  <2> QED BY <2>1, FS_CardinalityType, LenProperties, SocketsAssumption DEF PoolTypes
<1>6. idle + b + t + u >= NumWorkers
  BY <1>0, RunningBefore DEF WorkersInv
<1>7. \A x \in busy : busy' = busy \ {x} => bb = b - 1
  BY <1>5, BusyLess
<1> HIDE DEF U, V, b, bb, t, tt, u, v
<1> SUFFICES idle' + bb + tt + v >= NumWorkers
  BY DEF V, bb, tt, v
<1>8. CASE UNCHANGED <<idle, busy, telling>>
  <2>1. bb = b /\ tt = t /\ idle' = idle
    BY <1>8 DEF b, bb, t, tt
  <2> QED BY <1>3, <1>5, <1>6, <2>1
<1>9. CASE Dequeue
  <2>1. /\ queue \in Seq(Completions) /\ queue # <<>> /\ idle' = idle - 1 /\ tt = t
        /\ busy' = IF Head(queue)[2] = "failed" THEN busy ELSE busy \cup {Head(queue)}
    BY <1>0, <1>9 DEF Dequeue, PoolTypes, t, tt
  <2>2. /\ Head(queue) = queue[1] /\ 1 \in 1 .. Len(queue) /\ queue[1] \in Completions
    BY <2>1, QueuedFirst
  <2>3. CASE Head(queue)[2] = "failed"
    <3>1. PICK c \in Clients : Head(queue) = <<c, "failed">>
      BY <2>2, <2>3 DEF Completions
    <3>2. u + 1 <= v
      BY <1>0, <1>4, <1>9, <3>1, EndsWithOne DEF U, V
    <3>3. bb = b
      BY <2>1, <2>3 DEF b, bb
    <3> QED BY <1>3, <1>5, <1>6, <2>1, <3>2, <3>3
  <2>4. CASE Head(queue)[2] # "failed"
    <3>1. queue[1] \notin busy /\ busy' = busy \cup {queue[1]}
      BY <1>0, <2>1, <2>2, <2>4 DEF HandInv, Apart
    <3>2. bb = b + 1
      BY <1>5, <3>1, FS_AddElement DEF b, bb
    <3> QED BY <1>3, <1>5, <1>6, <2>1, <3>2
  <2> QED BY <2>3, <2>4
<1>10. ASSUME NEW c \in Clients, Worker(c), ~Tells(c)
       PROVE  idle' + bb + tt + v >= NumWorkers
  <2>1. Takes(c, "nothing") \/ Takes(c, "bytes")
    BY <1>10 DEF Worker, CloseSocket, QuitReceived, StartSend, StartRecv
  <2>2. bb = b - 1
    BY <1>7, <2>1 DEF Takes
  <2>3. \/ UNCHANGED telling /\ idle' = idle + 1
        \/ UNCHANGED idle /\ telling' = Append(telling, c)
        \/ UNCHANGED <<idle, telling>> /\ c \in V \ U
    <3>1. CASE QuitReceived(c) \/ ((StartSend(c) \/ StartRecv(c)) /\ StartFails(c))
      <4>1. UNCHANGED <<idle, telling>>
        BY <3>1 DEF QuitReceived, StartFails, Returns
      <4> QED BY <1>0, <3>1, <4>1, EndsWithOne DEF U, V
    <3>2. CASE ~(QuitReceived(c) \/ ((StartSend(c) \/ StartRecv(c)) /\ StartFails(c)))
      BY <1>10, <3>2 DEF Worker, CloseSocket, StartSend, StartRecv, Continues
    <3> QED BY <3>1, <3>2
  <2>4. CASE UNCHANGED telling /\ idle' = idle + 1
    <3>1. tt = t
      BY <2>4 DEF t, tt
    <3> QED BY <1>3, <1>5, <1>6, <2>2, <2>4, <3>1
  <2>5. CASE UNCHANGED idle /\ telling' = Append(telling, c)
    <3>1. tt = t + 1
      BY <1>0, <2>5, AppendProperties DEF t, tt, PoolTypes
    <3> QED BY <1>3, <1>5, <1>6, <2>2, <2>5, <3>1
  <2>6. CASE UNCHANGED <<idle, telling>> /\ c \in V \ U
    <3>1. tt = t /\ u + 1 <= v
      BY <1>4, <2>6 DEF t, tt
    <3> QED BY <1>3, <1>5, <1>6, <2>2, <2>6, <3>1
  <2> QED BY <2>3, <2>4, <2>5, <2>6
<1>11. ASSUME NEW c \in Clients, Tells(c)
       PROVE  idle' + bb + tt + v >= NumWorkers
  <2>1. ~Ends
    BY DEF Ends
  <2>2. PICK i \in DOMAIN telling : telling' = RemoveAt(telling, i)
    BY <1>11, <2>1 DEF Tells
  <2>3. idle' = idle + 1 /\ UNCHANGED busy
    BY <1>11, <2>1 DEF Tells, Continues
  <2>4. tt = t - 1 /\ bb = b
    BY <1>0, <2>2, <2>3, ToldLess DEF t, tt, b, bb, PoolTypes
  <2> QED BY <1>3, <1>5, <1>6, <2>3, <2>4
<1>12. ASSUME NEW c \in Clients,
              \/ Connect(c) \/ Accept(c) \/ AcceptFails(c) \/ SendText(c) \/ SendQuit(c)
              \/ Answered(c) \/ Killed(c) \/ Discarded(c) \/ ServerThread(c) \/ System(c)
       PROVE  UNCHANGED <<idle, busy, telling>>
  <2>1. ~Ends
    BY DEF Ends
  <2> QED BY <1>12, <2>1 DEF Connect, Accept, AcceptFails, SendText, SendQuit, Answered, Killed,
             Discarded, ServerThread, ThreadReceives, ThreadSends, System, SendCompletes,
             RecvCompletes, RecvFindsClosed, OperationFails, server, pool
<1>13. UNCHANGED vars => UNCHANGED <<idle, busy, telling>>
  BY DEF vars, server, pool
<1> QED BY <1>8, <1>9, <1>10, <1>11, <1>12, <1>13 DEF Next

(* Every step of the servers and their clients                             *)
LEMMA SocketsKept == SocketsInv /\ [Next]_vars => SocketsInv'
<1> SUFFICES ASSUME SocketsInv, [Next]_vars PROVE SocketsInv'
  OBVIOUS
<1>1. SocketTypes' /\ PoolTypes' /\ HandInv' /\ WorkersInv'
  BY SocketTypesKept, PoolKept, WorkersKept DEF SocketsInv
<1>2. \A c \in Clients : StreamInv(c)'
  BY StreamKept
<1> QED BY <1>1, <1>2 DEF SocketsInv

(* At the start no client is connected and all workers wait.               *)
LEMMA SocketsStart == Init => SocketsInv
<1> SUFFICES ASSUME Init PROVE SocketsInv
  OBVIOUS
<1>1. /\ <<>> \in Seq(Texts) /\ <<>> \in Seq(Completions) /\ <<>> \in Seq(Clients)
      /\ Len(<<>>) = 0 /\ <<Blank>> \in Seq(Texts) /\ <<Blank>> # <<>>
  BY DEF Texts
<1>2. SocketTypes
  BY <1>1 DEF Init, SocketTypes
<1>3. PoolTypes
  BY <1>1, FS_EmptySet, SocketsAssumption DEF Init, PoolTypes
<1>4. HandInv
  BY <1>1 DEF Init, HandInv, QueueAlone, BusyAlone, Apart
<1>5. WorkersInv
  <2>1. Left = {} /\ Unhandled = {}
    BY DEF Init, Left, Unhandled, Gone
  <2>2. /\ IsFiniteSet({}) /\ Cardinality({}) = 0 /\ Len(telling) = 0 /\ idle = NumWorkers
        /\ busy = {}
    BY <1>1, FS_EmptySet DEF Init
  <2>3. idle + Cardinality(busy) + Len(telling) + Cardinality(Unhandled) >= NumWorkers
    BY <2>1, <2>2, SocketsAssumption
  <2> QED BY <2>1, <2>2, <2>3 DEF WorkersInv
<1>6. ASSUME NEW c \in Clients PROVE StreamInv(c)
  <2>1. /\ client[c] = "start" /\ conn[c] = "none" /\ op[c] = "none" /\ typed[c] = 0
        /\ up[c] = <<>> /\ echo[c] = <<>> /\ buffer[c] = <<Blank>> /\ ~received[c]
    BY <1>6 DEF Init
  <2>2. Prelude \in Seq(Texts)
    BY <1>2, <1>6, SentMore
  <2>3. [n \in 1 .. 0 |-> n] = <<>>
    OBVIOUS
  <2>4. Prelude \o <<>> = Prelude /\ <<>> \o Prelude = Prelude
    BY <1>1, <2>2, TextsJoined
  <2>5. Sent(c) = Prelude /\ InHand(c) = Prelude
    BY <2>1, <2>3, <2>4 DEF Sent, InHand
  <2>6. All(c) = Sent(c)
    BY <2>1, <2>4, <2>5 DEF All
  <2>7. IsPrefix(<<>>, <<>> \o Prelude) /\ IsPrefix(Prelude, Prelude \o <<>>)
    BY <1>1, <2>2, Beginning
  <2>8. IsPrefix(echo[c], Sent(c)) /\ IsPrefix(All(c), Sent(c))
    BY <2>1, <2>4, <2>5, <2>6, <2>7
  <2>9. NoQuit(up[c]) /\ NoQuit(buffer[c])
    BY <2>1 DEF NoQuit, Quit, Blank
  <2> QED BY <2>1, <2>6, <2>8, <2>9 DEF StreamInv, Follows
<1> QED BY <1>2, <1>3, <1>4, <1>5, <1>6 DEF SocketsInv

(* What the invariant says of the streams and of the pool                  *)
LEMMA SocketsTyped == SocketsInv => TypeOK
<1> SUFFICES ASSUME SocketsInv PROVE TypeOK
  OBVIOUS
<1>1. SocketTypes /\ PoolTypes
  BY DEF SocketsInv
<1>2. ASSUME NEW c \in Clients
      PROVE  /\ typed[c] \in Nat
             /\ \A s \in {up[c], echo[c], buffer[c]} : \A i \in DOMAIN s : s[i] \in Texts
             /\ seen[c] \in 0 .. Len(echo[c])
  <2>1. \A s \in Seq(Texts) : \A i \in DOMAIN s : s[i] \in Texts
    BY ElementOfSeq, LenProperties
  <2>2. up[c] \in Seq(Texts) /\ echo[c] \in Seq(Texts) /\ buffer[c] \in Seq(Texts)
    BY <1>1 DEF SocketTypes
  <2>3. \A s \in {up[c], echo[c], buffer[c]} : s \in Seq(Texts)
    BY <2>2
  <2>4. \A s \in {up[c], echo[c], buffer[c]} : \A i \in DOMAIN s : s[i] \in Texts
    BY <2>1, <2>3, Zenon
  <2>5. typed[c] \in Nat /\ seen[c] \in 0 .. Len(echo[c])
    BY <1>1, <2>2, LenProperties DEF SocketTypes
  <2> QED BY <2>4, <2>5
<1>3. /\ idle \in 0 .. NumWorkers /\ busy \subseteq Clients \X {"bytes", "nothing"}
      /\ telling \in Seq(Clients)
  <2>1. Cardinality(busy) \in Nat /\ Len(telling) \in Nat
    BY <1>1, FS_CardinalityType, LenProperties DEF PoolTypes
  <2> QED BY <1>1, <2>1, SocketsAssumption DEF PoolTypes
<1> QED BY <1>1, <1>2, <1>3 DEF TypeOK, SocketTypes

(* What a client is sent begins what it has sent, and is all of it when    *)
(* the next text is awaited.                                               *)
LEMMA SocketsStreams == SocketsInv => EchoIsStream
<1> SUFFICES ASSUME SocketsInv, NEW c \in Clients
             PROVE  /\ IsPrefix(echo[c], Sent(c))
                    /\ op[c] = "recv" /\ ~Gone(c) => echo[c] \o up[c] = Sent(c)
  BY DEF EchoIsStream
<1>1. SocketTypes /\ StreamInv(c)
  BY DEF SocketsInv
<1>2. ASSUME op[c] = "recv", ~Gone(c) PROVE echo[c] \o up[c] = Sent(c)
  <2>1. InHand(c) = <<>>
    BY <1>1, <1>2 DEF InHand, StreamInv
  <2>2. <<>> \o up[c] = up[c]
    BY <1>1, HandTypes, TextsJoined
  <2>3. Live(c)
    BY <1>1, <1>2 DEF StreamInv, Live, Gone
  <2>4. echo[c] \o (InHand(c) \o up[c]) = Sent(c)
    BY <1>1, <1>2, <2>3 DEF StreamInv, Follows, All
  <2> QED BY <2>1, <2>2, <2>4
<1> QED BY <1>1, <1>2 DEF StreamInv

(* There is at most one element in the sets that Hands counts.             *)
LEMMA SocketsHands == SocketsInv => OneHand
<1> SUFFICES ASSUME SocketsInv, NEW c \in Clients
             PROVE  Hands(c) <= IF conn[c] = "open" THEN 1 ELSE 0
  BY DEF OneHand
<1> DEFINE taken == {b \in busy : b[1] = c}
           queued == {i \in 1 .. Len(queue) : queue[i][1] = c}
<1>1. HandInv /\ (op[c] # "none" => conn[c] = "open")
  BY DEF SocketsInv, StreamInv
<1>2. (taken # {} \/ queued # {}) => op[c] = "none" /\ conn[c] = "open"
  BY <1>1 DEF HandInv, HandOf
<1>3. taken = {} \/ queued = {}
  BY <1>1 DEF HandInv, Apart
<1>4. \A a, b \in taken : a = b
  BY <1>1 DEF HandInv, BusyAlone
<1>5. \A i, j \in queued : i = j
  BY <1>1 DEF HandInv, QueueAlone
<1> HIDE DEF taken, queued
<1>6. ASSUME NEW S, \A a, b \in S : a = b
      PROVE  Cardinality(S) = IF S = {} THEN 0 ELSE 1
  <2>1. CASE S = {}
    BY <2>1, FS_EmptySet
  <2>2. CASE S # {}
    <3>1. PICK a \in S : S = {a}
      BY <1>6, <2>2
    <3>2. Cardinality({a}) = 1
      BY FS_Singleton
    <3> QED BY <2>2, <3>1, <3>2
  <2> QED BY <2>1, <2>2
<1>7. /\ Cardinality(taken) = IF taken = {} THEN 0 ELSE 1
      /\ Cardinality(queued) = IF queued = {} THEN 0 ELSE 1
  BY <1>4, <1>5, <1>6
<1>8. Hands(c) = Cardinality(taken) + Cardinality(queued) + (IF op[c] = "none" THEN 0 ELSE 1)
  BY DEF Hands, taken, queued
<1> QED BY <1>1, <1>2, <1>3, <1>7, <1>8

(* Whom nobody handles any more has gone.                                  *)
LEMMA SocketsWorkers == SocketsInv => OneWorkerEach
<1> SUFFICES ASSUME SocketsInv, running
             PROVE  idle + Cardinality(busy) + Len(telling) + Cardinality(Left) >= NumWorkers
  BY DEF OneWorkerEach
<1>1. /\ IsFiniteSet(Left)
      /\ idle + Cardinality(busy) + Len(telling) + Cardinality(Unhandled) >= NumWorkers
  BY DEF SocketsInv, WorkersInv
<1>2. Unhandled \subseteq Left
  BY DEF Unhandled, Left
<1>3. IsFiniteSet(Unhandled) /\ Cardinality(Unhandled) <= Cardinality(Left)
  BY <1>1, <1>2, FS_Subset
<1>4. Cardinality(Unhandled) \in Nat /\ Cardinality(Left) \in Nat
  BY <1>1, <1>3, FS_CardinalityType
<1>5. idle \in Nat /\ Cardinality(busy) \in Nat /\ Len(telling) \in Nat /\ NumWorkers \in Nat
  BY FS_CardinalityType, LenProperties, SocketsAssumption DEF SocketsInv, PoolTypes
<1> QED BY <1>1, <1>3, <1>4, <1>5
-----------------------------------------------------------------------------
(* SharedTimer.  A word is a number of its range, and is what it stands for*)
(* when that is in the range.                                              *)
LEMMA Words ==
  \A n \in Int : /\ Timer!Word(n) \in Int /\ -Half <= Timer!Word(n) /\ Timer!Word(n) < Half
                 /\ -Half <= n /\ n < Half => Timer!Word(n) = n
<1> TAKE n \in Int
<1> DEFINE w == 2 * Half
           m == n + Half
<1>1. w \in Nat /\ w > 0 /\ m \in Int /\ w = Half + Half /\ Half \in Nat
  BY TimerAssumption
<1> HIDE DEF w, m
<1>2. m % w \in Int /\ 0 <= m % w /\ m % w < w
  BY <1>1
<1>3. 0 <= m /\ m < w => m % w = m
  BY <1>1
<1>4. Timer!Word(n) = (m % w) - Half
  BY DEF Timer!Word, m, w
<1>5. m = n + Half
  BY DEF m
<1> QED BY <1>1, <1>2, <1>3, <1>4, <1>5

(* The timer is set to the time of the program, if it fits.                *)
LEMMA TimeSet ==
  ASSUME NEW sec \in Nat, sec > 0
  PROVE  /\ Timer!EndTime(sec) \in Int /\ -Half <= Timer!EndTime(sec)
         /\ sec * Second <= Half => Timer!EndTime(sec) < 0 /\ -Timer!EndTime(sec) = sec * Second
         /\ sec * Second \in Nat
<1> DEFINE k == sec * Second
<1>1. k \in Nat /\ k > 0 /\ Half \in Nat
  BY TimerAssumption
<1>2. -1 * sec * Second = -k
  BY TimerAssumption
<1>3. Timer!EndTime(sec) = Timer!Word(-k)
  BY <1>2 DEF Timer!EndTime
<1> HIDE DEF k
<1>4. -k \in Int /\ (k <= Half => -Half <= -k /\ -k < Half)
  BY <1>1
<1>5. /\ Timer!Word(-k) \in Int /\ -Half <= Timer!Word(-k)
      /\ k <= Half => Timer!Word(-k) = -k
  BY <1>4, Words
<1>6. /\ Timer!EndTime(sec) \in Int /\ -Half <= Timer!EndTime(sec)
      /\ k <= Half => Timer!EndTime(sec) < 0 /\ -Timer!EndTime(sec) = k
      /\ k \in Nat
  BY <1>1, <1>3, <1>5
<1> QED BY <1>6 DEF k

(* What the time of a program is depends on its configuration alone.       *)
LEMMA DueSame ==
  ASSUME Timer!TypeOK, NEW p \in Clients
  PROVE  /\ Due(p) \in Int /\ (ttl'[p] = ttl[p] => Due(p)' = Due(p))
         /\ waited[p] \in Nat /\ remaining \in Int /\ remaining >= -1
<1>1. ttl[p] \in Int /\ Second \in Int
  <2>1. ttl[p] \in Ttls \cup {-1, 0, 3}
    BY DEF Timer!TypeOK
  <2>2. Second \in Int /\ \A sec \in Ttls : sec \in Int
    BY TimerAssumption
  <2> QED BY <2>1, <2>2
<1> QED BY <1>1 DEF Due, Timer!TypeOK, Timer!Unset

(* Every step of the timer and of the programs that share it               *)
LEMMA TimerTyped == TimerInv /\ [Timer!Next]_(Timer!vars) => Timer!TypeOK'
<1> SUFFICES ASSUME TimerInv, [Timer!Next]_(Timer!vars) PROVE Timer!TypeOK'
  OBVIOUS
<1> USE DEF Timer!TypeOK, Timer!Stage, Timer!Waiting, Timer!Unset
<1>0. Timer!TypeOK /\ Half \in Nat /\ Half > 0
  BY TimerAssumption DEF TimerInv
<1>1. ASSUME NEW p \in Clients, Timer!SetConfig(p) \/ Timer!SetDefaultConfig(p)
      PROVE  Timer!TypeOK'
  <2>1. PICK sec \in Ttls \cup {-1, 0, 3} : ttl' = [ttl EXCEPT ![p] = sec]
    BY <1>1 DEF Timer!SetConfig, Timer!SetDefaultConfig
  <2>2. PICK to \in {"refused", "command", "create"} : phase' = [phase EXCEPT ![p] = to]
    <3>1. \A t \in Ttls : t > 0 /\ t \in Int
      BY TimerAssumption
    <3> QED BY <1>1, <3>1 DEF Timer!SetConfig, Timer!SetDefaultConfig
  <2>3. UNCHANGED <<holders, remaining, signaled, alone, waited>>
    BY <1>1 DEF Timer!SetConfig, Timer!SetDefaultConfig
  <2> QED BY <1>0, <2>1, <2>2, <2>3
<1>2. ASSUME NEW p \in Clients, Timer!OperatorCommand(p) \/ Timer!CreateWaitableTimer(p)
      PROVE  Timer!TypeOK'
  BY <1>0, <1>2 DEF Timer!OperatorCommand, Timer!CreateWaitableTimer
<1>3. ASSUME NEW p \in Clients, Timer!SetWaitableTimer(p) PROVE Timer!TypeOK'
  <2>1. phase[p] = "set" /\ phase' = [phase EXCEPT ![p] = "wait"] /\ UNCHANGED <<ttl, holders>>
        /\ remaining' = (IF Timer!EndTime(ttl[p]) < 0 THEN -Timer!EndTime(ttl[p]) ELSE 0)
        /\ signaled' = FALSE /\ waited' = [waited EXCEPT ![p] = 0]
    BY <1>3 DEF Timer!SetWaitableTimer
  <2>2. alone' \in [Clients -> BOOLEAN]
    BY <1>0, <1>3 DEF Timer!SetWaitableTimer
  <2>3. ttl[p] \in Nat /\ ttl[p] > 0 /\ p \in holders
    <3>1. ttl[p] \in Ttls \cup {-1, 0, 3}
      BY <1>0
    <3>2. \A sec \in Ttls : sec \in Int
      BY TimerAssumption
    <3>3. ttl[p] > 0 /\ p \in holders
      BY <2>1 DEF TimerInv
    <3> QED BY <3>1, <3>2, <3>3
  <2>4. Timer!EndTime(ttl[p]) \in Int /\ -Half <= Timer!EndTime(ttl[p])
    BY <2>3, TimeSet
  <2>5. remaining' \in -1 .. Half
    BY <1>0, <2>1, <2>4
  <2>6. waited' \in [Clients -> 0 .. Half]
    BY <1>0, <2>1
  <2>7. /\ phase' \in [Clients -> {"config", "refused", "command", "create", "set", "wait",
                                    "close", "done"}]
        /\ {q \in Clients : phase'[q] = "wait"} \subseteq holders'
    BY <1>0, <2>1, <2>3
  <2>8. /\ ttl' \in [Clients -> Ttls \cup {-1, 0, 3}] /\ holders' \subseteq Clients
        /\ signaled' \in BOOLEAN
    BY <1>0, <2>1
  <2> QED BY <2>2, <2>5, <2>6, <2>7, <2>8
<1>4. ASSUME NEW p \in Clients, Timer!WaitForTimer(p) PROVE Timer!TypeOK'
  BY <1>0, <1>4 DEF Timer!WaitForTimer
<1>5. ASSUME NEW p \in Clients, Timer!CloseTimer(p) PROVE Timer!TypeOK'
  <2>1. /\ phase[p] = "close" /\ phase' = [phase EXCEPT ![p] = "done"]
        /\ holders' = holders \ {p} /\ UNCHANGED <<ttl, alone, waited>>
        /\ signaled' \in BOOLEAN /\ remaining' \in {-1, remaining}
    BY <1>0, <1>5 DEF Timer!CloseTimer
  <2>2. remaining' \in -1 .. Half
    BY <1>0, <2>1
  <2> QED BY <1>0, <2>1, <2>2
<1>6. CASE Timer!Expires
  BY <1>0, <1>6 DEF Timer!Expires
<1>7. CASE Timer!Tick
  BY <1>0, <1>7 DEF Timer!Tick
<1>8. CASE UNCHANGED Timer!vars
  BY <1>0, <1>8 DEF Timer!vars
<1> QED BY <1>1, <1>2, <1>3, <1>4, <1>5, <1>6, <1>7, <1>8 DEF Timer!Next, Timer!TimeManager

(* What the invariant says of one of the programs                          *)
OnTime(p) ==
  /\ phase[p] = "close" /\ alone[p] /\ Due(p) <= Half => waited[p] >= Due(p)
  /\ phase[p] \in {"create", "set", "wait", "close"} => ttl[p] > 0
  /\ phase[p] \in {"set", "wait", "close"} => p \in holders
  /\ AloneWaits(p) => /\ waited[p] >= Due(p) \/ waited[p] + remaining >= Due(p)
                      /\ signaled => waited[p] >= Due(p)
LEMMA OnTimeAll == TimerInv <=> Timer!TypeOK /\ \A p \in Clients : OnTime(p)
  BY DEF TimerInv, OnTime, Timer!NeverEarly, Due

(* A program does a step of its own: no other comes to its end by it.      *)
LEMMA OwnTime ==
  ASSUME TimerInv, NEW p \in Clients, NEW to, phase' = [phase EXCEPT ![p] = to],
         \A q \in Clients \ {p} : UNCHANGED <<ttl[q], waited[q]>>
                                  /\ (alone'[q] => alone[q])
                                  /\ (q \in holders => q \in holders'),
         \A q \in Clients \ {p} :
            AloneWaits(q) /\ alone'[q] =>
              (remaining' = remaining /\ (signaled' => signaled)) \/ waited[q] >= Due(q)
  PROVE  \A q \in Clients \ {p} : OnTime(q)'
<1> SUFFICES ASSUME NEW q \in Clients \ {p} PROVE OnTime(q)'
  OBVIOUS
<1>1. Timer!TypeOK /\ OnTime(q)
  BY OnTimeAll
<1>2. UNCHANGED <<phase[q], ttl[q], waited[q]>>
  BY <1>1 DEF Timer!TypeOK
<1>3. Due(q) \in Int /\ Due(q)' = Due(q) /\ waited[q] \in Nat
  BY <1>1, <1>2, DueSame
<1> QED BY <1>1, <1>2, <1>3 DEF OnTime, AloneWaits

(* Every step of the timer leaves every program on time.                   *)
LEMMA TimerKept == TimerInv /\ [Timer!Next]_(Timer!vars) => TimerInv'
<1> SUFFICES ASSUME TimerInv, [Timer!Next]_(Timer!vars), NEW q \in Clients PROVE OnTime(q)'
  BY TimerTyped DEF TimerInv, OnTime, Timer!NeverEarly, Due
<1>0. Timer!TypeOK /\ OnTime(q) /\ Half \in Nat
  BY OnTimeAll, TimerAssumption
<1>1. ASSUME NEW p \in Clients, Timer!SetConfig(p) \/ Timer!SetDefaultConfig(p)
      PROVE  OnTime(q)'
  <2>1. PICK sec \in Ttls \cup {-1, 0, 3} : ttl' = [ttl EXCEPT ![p] = sec]
                /\ \E to \in {"refused", "command", "create"} :
                     phase' = [phase EXCEPT ![p] = to] /\ (to = "create" => sec > 0)
    <3>1. \A sec \in Ttls : sec > 0 /\ sec \in Int
      BY TimerAssumption
    <3>2. CASE Timer!SetConfig(p)
      <4>1. PICK sec \in Ttls \cup {-1, 0}, inRange \in BOOLEAN :
              /\ Timer!Stage(p, "config", CASE ~inRange \/ sec = 0 -> "refused"
                                       [] inRange /\ sec < 0 -> "command"
                                       [] inRange /\ sec > 0 -> "create")
              /\ ttl' = [ttl EXCEPT ![p] = sec]
        BY <3>2, Zenon DEF Timer!SetConfig
      <4>2. sec \in Int
        BY <3>1
      <4> DEFINE next == CASE ~inRange \/ sec = 0 -> "refused"
                           [] inRange /\ sec < 0 -> "command"
                           [] inRange /\ sec > 0 -> "create"
      <4>3. phase' = [phase EXCEPT ![p] = next]
        BY <4>1 DEF Timer!Stage
      <4>4. /\ ~inRange \/ sec = 0 => next = "refused"
            /\ inRange /\ sec < 0 => next = "command"
            /\ inRange /\ sec > 0 => next = "create"
        BY <4>2
      <4> HIDE DEF next
      <4>5. ~inRange \/ sec = 0 => phase' = [phase EXCEPT ![p] = "refused"]
        BY <4>3, <4>4
      <4>6. inRange /\ sec < 0 => phase' = [phase EXCEPT ![p] = "command"]
        BY <4>3, <4>4
      <4>7. inRange /\ sec > 0 => phase' = [phase EXCEPT ![p] = "create"]
        BY <4>3, <4>4
      <4>8. ~inRange \/ sec = 0 \/ (inRange /\ sec < 0) \/ (inRange /\ sec > 0)
        BY <4>2
      <4>9. \E to \in {"refused", "command", "create"} :
              phase' = [phase EXCEPT ![p] = to] /\ (to = "create" => sec > 0)
        BY <4>5, <4>6, <4>7, <4>8, Zenon
      <4>10. sec \in Ttls \cup {-1, 0, 3} /\ ttl' = [ttl EXCEPT ![p] = sec]
        BY <4>1
      <4> QED BY <4>9, <4>10, Zenon
    <3>3. CASE Timer!SetDefaultConfig(p)
      <4>1. ttl' = [ttl EXCEPT ![p] = 3] /\ phase' = [phase EXCEPT ![p] = "create"]
        BY <3>3 DEF Timer!SetDefaultConfig, Timer!Stage
      <4>2. 3 \in Ttls \cup {-1, 0, 3} /\ 3 > 0 /\ "create" \in {"refused", "command", "create"}
        OBVIOUS
      <4> QED BY <4>1, <4>2, Zenon
    <3> QED BY <1>1, <3>2, <3>3
  <2>2. PICK to \in {"refused", "command", "create"} :
          phase' = [phase EXCEPT ![p] = to] /\ (to = "create" => sec > 0)
    BY <2>1
  <2>3. UNCHANGED <<holders, remaining, signaled, alone, waited>>
    BY <1>1 DEF Timer!SetConfig, Timer!SetDefaultConfig
  <2>4. \A r \in Clients \ {p} : ttl'[r] = ttl[r]
    BY <1>0, <2>1 DEF Timer!TypeOK
  <2>5. \A r \in Clients \ {p} : OnTime(r)'
    BY <2>2, <2>3, <2>4, OwnTime
  <2>6. CASE q = p
    <3>1. phase'[q] = to /\ ttl'[q] = sec
      BY <1>0, <2>1, <2>2, <2>6 DEF Timer!TypeOK
    <3> QED BY <2>2, <3>1 DEF OnTime, AloneWaits
  <2> QED BY <2>5, <2>6
<1>2. ASSUME NEW p \in Clients, Timer!OperatorCommand(p) \/ Timer!CreateWaitableTimer(p)
      PROVE  OnTime(q)'
  <2>1. PICK to \in {"done", "set"} :
          /\ phase' = [phase EXCEPT ![p] = to]
          /\ to = "set" => phase[p] = "create" /\ p \in holders'
    BY <1>2 DEF Timer!OperatorCommand, Timer!CreateWaitableTimer, Timer!Stage
  <2>2. UNCHANGED <<ttl, remaining, signaled, alone, waited>>
        /\ \A r \in Clients : r \in holders => r \in holders'
    BY <1>2 DEF Timer!OperatorCommand, Timer!CreateWaitableTimer
  <2>3. \A r \in Clients \ {p} : OnTime(r)'
    BY <2>1, <2>2, OwnTime
  <2>4. CASE q = p
    <3>1. phase'[q] = to
      BY <1>0, <2>1, <2>4 DEF Timer!TypeOK
    <3> QED BY <1>0, <2>1, <2>2, <2>4, <3>1 DEF OnTime, AloneWaits
  <2> QED BY <2>3, <2>4
<1>3. ASSUME NEW p \in Clients, Timer!SetWaitableTimer(p) PROVE OnTime(q)'
  <2>1. phase[p] = "set" /\ phase' = [phase EXCEPT ![p] = "wait"] /\ UNCHANGED <<ttl, holders>>
        /\ remaining' = (IF Timer!EndTime(ttl[p]) < 0 THEN -Timer!EndTime(ttl[p]) ELSE 0)
        /\ signaled' = FALSE /\ waited' = [waited EXCEPT ![p] = 0]
    BY <1>3 DEF Timer!SetWaitableTimer, Timer!Stage
  <2>2. \A r \in Clients \ {p} : alone'[r] => alone[r] /\ phase[r] # "wait"
    BY <1>3 DEF Timer!SetWaitableTimer, Timer!Waiting
  <2>3. \A r \in Clients \ {p} : waited'[r] = waited[r]
    BY <1>0, <2>1 DEF Timer!TypeOK
  <2>4. \A r \in Clients \ {p} : OnTime(r)'
    BY <2>1, <2>2, <2>3, OwnTime DEF AloneWaits
  <2>5. CASE q = p
    <3>1. phase'[q] = "wait" /\ waited'[q] = 0
      BY <1>0, <2>1, <2>5 DEF Timer!TypeOK
    <3>2. ttl[q] \in Nat /\ ttl[q] > 0 /\ q \in holders
      <4>1. ttl[q] \in Ttls \cup {-1, 0, 3}
        BY <1>0 DEF Timer!TypeOK
      <4>2. \A sec \in Ttls : sec \in Int
        BY TimerAssumption
      <4>3. ttl[q] > 0 /\ q \in holders
        BY <1>0, <2>1, <2>5 DEF OnTime
      <4> QED BY <4>1, <4>2, <4>3
    <3>3. Due(q) <= Half => Timer!EndTime(ttl[q]) < 0 /\ -Timer!EndTime(ttl[q]) = Due(q)
      BY <3>2, TimeSet DEF Due
    <3>4. Due(q) \in Int /\ Due(q)' = Due(q)
      BY <1>0, <2>1, DueSame
    <3>5. Due(q)' <= Half => remaining' = Due(q)'
      BY <2>1, <2>5, <3>3, <3>4
    <3>6. waited'[q] + remaining' >= Due(q)' \/ ~(Due(q)' <= Half)
      BY <3>1, <3>4, <3>5
    <3> QED BY <2>1, <3>1, <3>2, <3>6 DEF OnTime, AloneWaits
  <2> QED BY <2>4, <2>5
<1>4. ASSUME NEW p \in Clients, Timer!WaitForTimer(p) PROVE OnTime(q)'
  <2>1. phase[p] = "wait" /\ phase' = [phase EXCEPT ![p] = "close"] /\ signaled /\ ~signaled'
        /\ UNCHANGED <<ttl, holders, remaining, alone, waited>>
    BY <1>4 DEF Timer!WaitForTimer, Timer!Stage
  <2>2. \A r \in Clients \ {p} : OnTime(r)'
    BY <2>1, OwnTime
  <2>3. CASE q = p
    <3>1. phase'[q] = "close"
      BY <1>0, <2>1, <2>3 DEF Timer!TypeOK
    <3>2. Due(q)' = Due(q)
      BY <1>0, <2>1, DueSame
    <3> QED BY <1>0, <2>1, <2>3, <3>1, <3>2 DEF OnTime, AloneWaits
  <2> QED BY <2>2, <2>3
<1>5. ASSUME NEW p \in Clients, Timer!CloseTimer(p) PROVE OnTime(q)'
  <2>1. phase[p] = "close" /\ phase' = [phase EXCEPT ![p] = "done"]
        /\ holders' = holders \ {p} /\ UNCHANGED <<ttl, alone, waited>>
        /\ (signaled' => signaled) /\ (holders' # {} => remaining' = remaining)
    BY <1>5 DEF Timer!CloseTimer, Timer!Stage
  <2>2. \A r \in Clients \ {p} : AloneWaits(r) => remaining' = remaining
    <3> SUFFICES ASSUME NEW r \in Clients \ {p}, AloneWaits(r) PROVE remaining' = remaining
      OBVIOUS
    <3>1. r \in holders
      BY OnTimeAll DEF OnTime, AloneWaits
    <3> QED BY <2>1, <3>1
  <2>3. \A r \in Clients \ {p} : OnTime(r)'
    BY <2>1, <2>2, OwnTime
  <2>4. CASE q = p
    <3>1. phase'[q] = "done"
      BY <1>0, <2>1, <2>4 DEF Timer!TypeOK
    <3> QED BY <3>1 DEF OnTime, AloneWaits
  <2> QED BY <2>3, <2>4
<1>6. CASE Timer!Expires
  <2>1. remaining = 0 /\ UNCHANGED <<phase, ttl, holders, alone, waited>>
    BY <1>6 DEF Timer!Expires
  <2>2. Due(q)' = Due(q) /\ Due(q) \in Int /\ waited[q] \in Nat
    BY <1>0, <2>1, DueSame
  <2>3. AloneWaits(q) => waited[q] >= Due(q)
    BY <1>0, <2>1, <2>2 DEF OnTime
  <2> QED BY <1>0, <2>1, <2>2, <2>3 DEF OnTime, AloneWaits
<1>7. CASE Timer!Tick
  <2>1. /\ remaining' = (IF remaining > 0 THEN remaining - 1 ELSE remaining)
        /\ waited'[q] = (IF phase[q] = "wait" /\ waited[q] < Half THEN waited[q] + 1 ELSE waited[q])
        /\ UNCHANGED <<phase, ttl, holders, signaled, alone>>
    BY <1>7 DEF Timer!Tick, Timer!Waiting
  <2>2. Due(q)' = Due(q) /\ Due(q) \in Int /\ waited[q] \in Nat /\ remaining \in Int
    BY <1>0, <2>1, DueSame
  <2>3. waited'[q] >= waited[q] /\ (phase[q] = "close" => waited'[q] = waited[q])
    BY <2>1, <2>2
  <2>4. AloneWaits(q) => waited'[q] >= Due(q) \/ waited'[q] + remaining' >= Due(q)
    <3> SUFFICES ASSUME AloneWaits(q)
                 PROVE  waited'[q] >= Due(q) \/ waited'[q] + remaining' >= Due(q)
      OBVIOUS
    <3>1. waited[q] >= Due(q) \/ waited[q] + remaining >= Due(q)
      BY <1>0 DEF OnTime
    <3>2. phase[q] = "wait" /\ Due(q) <= Half
      BY DEF AloneWaits
    <3> QED BY <1>0, <2>1, <2>2, <3>1, <3>2
  <2>5. AloneWaits(q) /\ signaled => waited'[q] >= Due(q)
    BY <1>0, <2>2, <2>3, <2>1 DEF OnTime
  <2> QED BY <1>0, <2>1, <2>2, <2>3, <2>4, <2>5 DEF OnTime, AloneWaits
<1>8. CASE UNCHANGED Timer!vars
  <2>1. UNCHANGED <<phase, ttl, holders, remaining, signaled, alone, waited>>
    BY <1>8 DEF Timer!vars
  <2>2. Due(q)' = Due(q)
    BY <1>0, <2>1, DueSame
  <2> QED BY <1>0, <2>1, <2>2 DEF OnTime, AloneWaits
<1> QED BY <1>1, <1>2, <1>3, <1>4, <1>5, <1>6, <1>7, <1>8 DEF Timer!Next, Timer!TimeManager

(* At the start no program has the timer.                                  *)
LEMMA TimerStarts == Timer!Init => TimerInv
<1> SUFFICES ASSUME Timer!Init PROVE TimerInv
  OBVIOUS
<1>1. Timer!TypeOK
  <2>1. Half \in Nat /\ 0 \in 0 .. Half /\ -1 \in -1 .. Half /\ 0 \in Ttls \cup {-1, 0, 3}
    BY TimerAssumption
  <2>2. Timer!Waiting = {}
    BY DEF Timer!Init, Timer!Waiting
  <2>3. phase \in [Clients -> {"config", "refused", "command", "create", "set", "wait",
                               "close", "done"}]
        /\ alone \in [Clients -> BOOLEAN] /\ holders = {} /\ signaled = FALSE
        /\ remaining = -1
    BY DEF Timer!Init, Timer!Unset
  <2>4. ttl \in [Clients -> Ttls \cup {-1, 0, 3}] /\ waited \in [Clients -> 0 .. Half]
    BY <2>1 DEF Timer!Init
  <2> QED BY <2>1, <2>2, <2>3, <2>4 DEF Timer!TypeOK, Timer!Unset
<1>2. \A p \in Clients : phase[p] = "config"
  BY DEF Timer!Init
<1> QED BY <1>1, <1>2, OnTimeAll DEF OnTime, AloneWaits
-----------------------------------------------------------------------------
(* All programs together.  A step of one of them is none of the others.    *)
LEMMA StepsOfAll ==
  [MCNext]_mcvars =>
    /\ [Next]_vars /\ [Pipes!Next]_(Pipes!vars) /\ [Redirected!Next]_(Redirected!vars)
    /\ [Memory!Next]_(Memory!vars) /\ [Slot!Next]_(Slot!vars) /\ [Timer!Next]_(Timer!vars)
<1> SUFFICES ASSUME [MCNext]_mcvars
             PROVE  /\ [Next]_vars /\ [Pipes!Next]_(Pipes!vars)
                    /\ [Redirected!Next]_(Redirected!vars) /\ [Memory!Next]_(Memory!vars)
                    /\ [Slot!Next]_(Slot!vars) /\ [Timer!Next]_(Timer!vars)
  OBVIOUS
<1>1. /\ UNCHANGED pipeVars => UNCHANGED Pipes!vars
      /\ UNCHANGED redirectedVars => UNCHANGED Redirected!vars
      /\ UNCHANGED memoryVars => UNCHANGED Memory!vars
      /\ UNCHANGED slotVars => UNCHANGED Slot!vars
      /\ UNCHANGED timerVars => UNCHANGED Timer!vars
  BY DEF pipeVars, redirectedVars, memoryVars, slotVars, timerVars, Pipes!vars, Pipes!pipe,
         Redirected!vars, Memory!vars, Slot!vars, Timer!vars
<1>2. \/ UNCHANGED mcvars \/ InSockets(Next) \/ InNamed(Pipes!Next)
      \/ InAnonymous(Redirected!Next) \/ InMemory(Memory!Next) \/ InSlot(Slot!Next)
      \/ InTimer(Timer!Next)
  BY DEF MCNext
<1> QED BY <1>1, <1>2
        DEF mcvars, InSockets, InNamed, InAnonymous, InMemory, InSlot, InTimer

(* The invariant of all programs.                                          *)
ProgramsInv == SocketsInv /\ PipesInv /\ RedirectedInv /\ MemoryInv /\ SlotInv /\ TimerInv
THEOREM ProgramsKeepInv == MCSpec => []ProgramsInv
<1>1. MCInit => ProgramsInv
  BY SocketsStart, PipesStart, RedirectedStarts, MemoryStarts, SlotStarts, TimerStarts
     DEF MCInit, ProgramsInv
<1>2. ProgramsInv /\ [MCNext]_mcvars => ProgramsInv'
  <2> SUFFICES ASSUME ProgramsInv, [MCNext]_mcvars PROVE ProgramsInv'
    OBVIOUS
  <2>1. /\ [Next]_vars /\ [Pipes!Next]_(Pipes!vars) /\ [Redirected!Next]_(Redirected!vars)
        /\ [Memory!Next]_(Memory!vars) /\ [Slot!Next]_(Slot!vars) /\ [Timer!Next]_(Timer!vars)
    BY StepsOfAll
  <2> QED BY <2>1, SocketsKept, PipesKept, RedirectedKept, MemoryKept, SlotKept, TimerKept
          DEF ProgramsInv
<1> QED BY <1>1, <1>2, PTL DEF MCSpec

(* What a client gets back through sockets, named or anonymous pipes is    *)
(* what it has sent, in its order, nothing twice and nothing left out.     *)
THEOREM EveryEchoMatches == MCSpec => []EchoesMatch
<1>1. ProgramsInv => EchoesMatch
  BY SocketsTyped, SocketsStreams DEF ProgramsInv, PipesInv, RedirectedInv, EchoesMatch
<1> QED BY <1>1, ProgramsKeepInv, PTL

(* One hand at a time moves a connection: not two completions, nor a       *)
(* completion and an operation of the system, are under way for one client,*)
(* and none after its socket has been closed.  A worker that has started an*)
(* operation and only prints the connection's data (Tells) is no hand: it  *)
(* is beside the next one, and what it prints may be freed.                *)
THEOREM OneHandPerConnection == MCSpec => []OneHand
<1>1. ProgramsInv => OneHand
  BY SocketsHands DEF ProgramsInv
<1> QED BY <1>1, ProgramsKeepInv, PTL

(* A client costs the server one worker at most, when it has gone, and none*)
(* before: a worker that ends has handled the completion of a client that  *)
(* has gone, the last one for it.                                          *)
THEOREM OneWorkerForEachClient == MCSpec => []OneWorkerEach
<1>1. ProgramsInv => OneWorkerEach
  BY SocketsWorkers DEF ProgramsInv
<1> QED BY <1>1, ProgramsKeepInv, PTL

(* No text of the shared memory is read half written, and each message of  *)
(* the mailslot is shown once and in order.                                *)
THEOREM EverythingReadWhole == MCSpec => []ReadWhole
<1>1. Memory!TypeOK /\ SlotInv => Memory!TypeOK /\ Slot!TypeOK /\ Slot!AllShown
  BY DEF SlotInv
<1>2. ProgramsInv => ReadWhole
  BY <1>1 DEF ProgramsInv, MemoryInv, Memory!WholeTexts, ReadWhole, SlotInv
<1> QED BY <1>2, ProgramsKeepInv, PTL

(* A program that has the timer for itself does not end before its time,   *)
(* whatever the width of the word that the time is computed in.            *)
THEOREM NoTimerIsEarly == MCSpec => [](Timer!TypeOK /\ Timer!NeverEarly)
<1>1. ProgramsInv => Timer!TypeOK /\ Timer!NeverEarly
  BY DEF ProgramsInv, TimerInv
<1> QED BY <1>1, ProgramsKeepInv, PTL
-----------------------------------------------------------------------------
(* SystemInformation, which talks with Windows alone while drives and      *)
(* devices come and go.                                                    *)
CONSTANTS Drives, classOf, Nothing
VARIABLES uptime, volumes, present, adapters, screens, section, shownUptime, letters,
          shownVolumes, shownAdapters, shownScreens, allClassGuids, class, items,
          iIdx, did, result, failed, stayed
Report == INSTANCE SystemInformation WITH seen <- stayed

(* The instance counts as everybody does.                                   *)
LEMMA SameCount == \A S : Report!Cardinality(S) = Cardinality(S)
  BY DEF Report!Cardinality, Cardinality

(* Every device has a place of its own in the list Windows gives.          *)
Enumerates(s, S) ==
  /\ s \in Seq(S) /\ \A d \in S : \E i \in 1 .. Len(s) : s[i] = d
  /\ \A i, j \in 1 .. Len(s) : s[i] = s[j] => i = j
LEMMA SetEnumerated ==
  ASSUME NEW S, IsFiniteSet(S)
  PROVE  Enumerates(Report!SetToSeq(S), S)
<1> DEFINE n == Cardinality(S)
           f == Report!SetToSeq(S)
<1>1. n \in Nat /\ ExistsBijection(1 .. n, S)
  BY FS_CardinalityType
<1>2. \E g \in [1 .. n -> S] : IsInjective(g)
  BY <1>1 DEF ExistsBijection, Bijection, Injection, IsInjective
<1>3. f \in [1 .. n -> S] /\ IsInjective(f)
  <2> HIDE DEF n
  <2>1. Report!Cardinality(S) = n
    BY SameCount DEF n
  <2>2. f = CHOOSE g \in [1 .. n -> S] : IsInjective(g)
    BY <2>1 DEF Report!SetToSeq, Report!IsInjective, IsInjective
  <2> QED BY <1>2, <2>2
<1>4. f \in Injection(1 .. n, S)
  BY <1>3 DEF Injection
<1>5. f \in Surjection(1 .. n, S)
  BY <1>1, <1>4, FS_Injection, FS_Interval
<1>6. \A d \in S : \E i \in 1 .. n : f[i] = d
  BY <1>5 DEF Surjection
<1> HIDE DEF f, n
<1>7. f \in Seq(S) /\ Len(f) = n
  BY <1>1, <1>3
<1> QED BY <1>3, <1>6, <1>7 DEF Enumerates, f, IsInjective

(* SystemInformation, unless a call fails.  First all classes are          *)
(* collected; then the devices of one class after the other are listed,    *)
(* and of the class it is at, those it has read.                           *)
Classes == {classOf[d] : d \in Report!Devices}
Class(d) == classOf[d]
Read(d) == \/ \E j \in 1 .. Len(allClassGuids) : j < class /\ allClassGuids[j] = Class(d)
           \/ \E i \in 1 .. iIdx : items[i] = d
AllDifferent(s) == \A i, j \in 1 .. Len(s) : s[i] = s[j] => i = j
Collecting ==
  /\ Enumerates(items, Report!Devices) /\ iIdx \in 0 .. Len(items) /\ result = << >>
  /\ \A k \in 1 .. iIdx : \E i \in 1 .. Len(allClassGuids) : allClassGuids[i] = Class(items[k])
Listing ==
  /\ items \in Seq(Report!Devices) /\ AllDifferent(items)
  /\ iIdx \in 0 .. Len(items) /\ class \in Nat
  /\ \A d \in Report!Devices : \E i \in 1 .. Len(allClassGuids) : allClassGuids[i] = Class(d)
  /\ AllDifferent(result)
  /\ \A i \in 1 .. Len(result) : \E d \in Report!Devices : result[i] = Report!Device(d) /\ Read(d)
  /\ \A d \in stayed : Read(d) => \E i \in 1 .. Len(result) : result[i] = Report!Device(d)
OfClass ==
  /\ class \in 1 .. Len(allClassGuids)
  /\ \A i \in 1 .. Len(items) : Class(items[i]) = allClassGuids[class]
  /\ \A d \in stayed : Class(d) = allClassGuids[class] => \E i \in 1 .. Len(items) : items[i] = d
NoCallFailed ==
  /\ allClassGuids \in Seq(Classes) /\ AllDifferent(allClassGuids)
  /\ result \in Seq({Report!Device(d) : d \in Report!Devices})
  /\ section \in {"general", "video", "drives", "adapters"} =>
       allClassGuids = << >> /\ result = << >> /\ iIdx = 0
  /\ section = "classes" => Collecting
  /\ section \in {"listing", "devices"} => Listing
  /\ section = "listing" => OfClass
  /\ section = "devices" => class > Len(allClassGuids)
ReportInv ==
  /\ failed \in BOOLEAN
  /\ stayed \subseteq present /\ present \subseteq Report!Devices
  /\ ~failed => NoCallFailed

(* The sections before the devices                                         *)
LEMMA ReportBefore ==
  ASSUME ReportInv, IsFiniteSet(Report!Devices),
         \/ Report!ShowUptime \/ Report!GetVideoInformation \/ Report!GetVolumeInformation
         \/ Report!GetConnectionInformation \/ (\E d \in Drives : Report!PlugDrive(d))
         \/ UNCHANGED Report!sysVars
  PROVE  ReportInv'
<1> USE DEF ReportInv, NoCallFailed
<1>1. CASE Report!ShowUptime \/ Report!GetVideoInformation \/ Report!GetVolumeInformation
           \/ \E d \in Drives : Report!PlugDrive(d)
  <2>1. /\ section \in {"general", "video", "drives", "adapters"}
        /\ section' \in {"general", "video", "drives", "adapters"}
        /\ UNCHANGED <<failed, stayed, present, allClassGuids, result, iIdx>>
    BY <1>1 DEF Report!ShowUptime, Report!GetVideoInformation, Report!GetVolumeInformation,
                Report!PlugDrive, Report!listVars
  <2> QED BY <2>1 DEF AllDifferent
<1>2. CASE Report!GetConnectionInformation
  <2>1. /\ section = "adapters" /\ section' = "classes" /\ items' = Report!SetToSeq(Report!Devices)
        /\ UNCHANGED <<failed, stayed, present, allClassGuids, class, iIdx, did, result>>
    BY <1>2 DEF Report!GetConnectionInformation
  <2>2. Enumerates(Report!SetToSeq(Report!Devices), Report!Devices)
    BY SetEnumerated
  <2>3. Enumerates(items, Report!Devices)' /\ Len(items') \in Nat
    BY <2>1, <2>2, LenProperties DEF Enumerates
  <2>4. ~failed => Collecting'
    BY <2>1, <2>3 DEF Collecting
  <2> QED BY <2>1, <2>4 DEF AllDifferent
<1>3. CASE UNCHANGED Report!sysVars
  BY <1>3 DEF Report!sysVars, Report!listVars, AllDifferent, Collecting, Listing, OfClass, Read,
              Enumerates
<1> QED BY <1>1, <1>2, <1>3

(* A class that is not in the list yet is added to it.                     *)
LEMMA ReportCollects ==
  ASSUME ReportInv, Report!CollectClass
  PROVE  ReportInv'
<1>1. /\ section = "classes" /\ section' = "classes" /\ UNCHANGED <<present, stayed, items, result>>
      /\ iIdx < Len(items) /\ iIdx' = iIdx + 1
      /\ \/ did' = Report!Device(items[iIdx + 1]) /\ UNCHANGED failed
         \/ failed' = TRUE
      /\ allClassGuids' = IF Report!Contains(allClassGuids, did'.class) THEN allClassGuids
                          ELSE Append(allClassGuids, did'.class)
  BY DEF Report!CollectClass, Report!Enumerated
<1>2. failed' \in BOOLEAN /\ stayed' \subseteq present' /\ present' \subseteq Report!Devices
  BY <1>1 DEF ReportInv
<1>3. ASSUME ~failed' PROVE NoCallFailed'
  <2>1. NoCallFailed /\ Collecting /\ ~failed
    BY <1>1, <1>3 DEF ReportInv, NoCallFailed
  <2> DEFINE kind == Class(items[iIdx + 1])
             old == allClassGuids
  <2>2. iIdx \in Nat /\ items \in Seq(Report!Devices) /\ iIdx + 1 \in 1 .. Len(items)
        /\ items[iIdx + 1] \in Report!Devices /\ kind \in Classes
    BY <1>1, <2>1, ElementOfSeq, LenProperties DEF Collecting, Enumerates, Classes, Class
  <2>3. did'.class = kind
    BY <1>1, <1>3 DEF Report!Device, Class
  <2>4. old \in Seq(Classes) /\ AllDifferent(old) /\ Len(old) \in Nat
    BY <2>1, LenProperties DEF NoCallFailed
  <2> HIDE DEF kind
  <2>5. /\ allClassGuids' \in Seq(Classes) /\ AllDifferent(allClassGuids')
        /\ \E i \in 1 .. Len(allClassGuids') : allClassGuids'[i] = kind
        /\ Len(old) <= Len(allClassGuids') /\ Len(allClassGuids') \in Nat
        /\ \A i \in 1 .. Len(old) : allClassGuids'[i] = old[i]
    <3>1. CASE Report!Contains(old, kind)
      BY <1>1, <2>3, <2>4, <3>1 DEF Report!Contains
    <3>2. CASE ~Report!Contains(old, kind)
      <4>1. allClassGuids' = Append(old, kind)
        BY <1>1, <2>3, <3>2
      <4>2. /\ allClassGuids' \in Seq(Classes) /\ Len(allClassGuids') = Len(old) + 1
            /\ \A i \in 1 .. Len(old) : allClassGuids'[i] = old[i]
            /\ allClassGuids'[Len(old) + 1] = kind
        BY <2>2, <2>4, <4>1, AppendProperties
      <4>3. \A i \in 1 .. Len(old) : old[i] # kind
        BY <3>2 DEF Report!Contains
      <4> QED BY <2>4, <4>2, <4>3 DEF AllDifferent
    <3> QED BY <3>1, <3>2
  <2>6. \A k \in 1 .. iIdx' :
          \E i \in 1 .. Len(allClassGuids') : allClassGuids'[i] = Class(items'[k])
    <3> TAKE k \in 1 .. iIdx'
    <3>1. CASE k = iIdx + 1
      BY <1>1, <2>5, <3>1 DEF kind
    <3>2. CASE k # iIdx + 1
      <4>1. k \in 1 .. iIdx
        BY <1>1, <2>2, <3>2
      <4>2. PICK i \in 1 .. Len(old) : old[i] = Class(items[k])
        BY <2>1, <4>1 DEF Collecting
      <4> QED BY <1>1, <2>4, <2>5, <4>2
    <3> QED BY <3>1, <3>2
  <2>7. Collecting'
    <3>1. Enumerates(items, Report!Devices)'
      BY <1>1, <2>1 DEF Collecting, Enumerates
    <3>2. iIdx' \in 0 .. Len(items') /\ result' = << >>
      BY <1>1, <2>1, <2>2 DEF Collecting
    <3> QED BY <2>6, <3>1, <3>2 DEF Collecting, Class
  <2> QED BY <1>1, <2>1, <2>5, <2>7 DEF NoCallFailed, AllDifferent
<1> QED BY <1>2, <1>3 DEF ReportInv

(* The list of the next class: all before it have been read.               *)
LEMMA ReportOpens ==
  ASSUME ReportInv, IsFiniteSet(Report!Devices), Report!ClassesCollected \/ Report!NextClass
  PROVE  ReportInv'
<1>1. PICK n : /\ \/ section = "classes" /\ n = 1
                  \/ section = "listing" /\ n = class + 1
               /\ iIdx = Len(items) /\ Report!OpenClass(n)
  BY DEF Report!ClassesCollected, Report!NextClass
<1> DEFINE next == {d \in present : Class(d) = allClassGuids[n]}
<1>2. /\ class' = n /\ iIdx' = 0 /\ UNCHANGED <<present, stayed, allClassGuids, result, failed>>
      /\ \/ n > Len(allClassGuids) /\ section' = "devices" /\ items' = << >>
         \/ /\ ~(n > Len(allClassGuids)) /\ section' = "listing"
            /\ items' = Report!SetToSeq(next)
  BY <1>1 DEF Report!OpenClass, Class
<1> HIDE DEF next
<1>3. failed' \in BOOLEAN /\ stayed' \subseteq present' /\ present' \subseteq Report!Devices
  BY <1>2 DEF ReportInv
<1>4. ASSUME ~failed' PROVE NoCallFailed'
  <2>1. NoCallFailed /\ stayed \subseteq present /\ present \subseteq Report!Devices
    BY <1>2, <1>4 DEF ReportInv
  <2>2. Enumerates(Report!SetToSeq(next), next)
    <3>1. next \in SUBSET Report!Devices
      BY <2>1 DEF next
    <3>2. IsFiniteSet(next)
      BY <3>1, FS_Subset
    <3> QED BY <3>2, SetEnumerated
  <2>3. n \in Nat /\ n >= 1 /\ Len(allClassGuids) \in Nat
    BY <1>1, <2>1, LenProperties DEF NoCallFailed, Listing
  <2>4. items' \in Seq(Report!Devices) /\ AllDifferent(items') /\ Len(items') \in Nat
    <3>1. CASE items' = << >>
      BY <3>1 DEF AllDifferent
    <3>2. CASE items' = Report!SetToSeq(next)
      <4>1. items' \in Seq(next) /\ Len(items') \in Nat /\ AllDifferent(items')
        BY <2>2, <3>2, LenProperties DEF Enumerates, AllDifferent
      <4>2. \A i \in 1 .. Len(items') : items'[i] \in Report!Devices
        BY <2>1, <4>1, ElementOfSeq DEF next
      <4> QED BY <4>1, <4>2
    <3> QED BY <1>2, <3>1, <3>2
  <2>5. \A d \in Report!Devices : \E i \in 1 .. Len(allClassGuids) : allClassGuids[i] = Class(d)
    <3>1. CASE section = "classes"
      <4> TAKE d \in Report!Devices
      <4>1. PICK k \in 1 .. Len(items) : items[k] = d
        BY <2>1, <3>1 DEF NoCallFailed, Collecting, Enumerates
      <4> QED BY <1>1, <2>1, <3>1, <4>1 DEF NoCallFailed, Collecting
    <3>2. CASE section = "listing"
      BY <2>1, <3>2 DEF NoCallFailed, Listing
    <3> QED BY <1>1, <3>1, <3>2
  <2>6. \A d : Read(d)' <=> \E j \in 1 .. Len(allClassGuids) : j < n /\ allClassGuids[j] = Class(d)
    BY <1>2 DEF Read, Class
  <2>7. /\ AllDifferent(result)
        /\ \A i \in 1 .. Len(result) :
             \E d \in Report!Devices : result[i] = Report!Device(d) /\ Read(d)'
        /\ \A d \in stayed : Read(d)' => \E i \in 1 .. Len(result) : result[i] = Report!Device(d)
    <3>1. CASE section = "classes"
      <4>1. result = << >> /\ n = 1
        BY <1>1, <2>1, <3>1 DEF NoCallFailed, Collecting
      <4>2. \A d : ~Read(d)'
        BY <2>3, <2>6, <4>1
      <4> QED BY <4>1, <4>2 DEF AllDifferent
    <3>2. CASE section = "listing"
      <4>1. Listing /\ OfClass /\ n = class + 1 /\ class \in Nat /\ Len(items) \in Nat
        BY <1>1, <2>1, <3>2, LenProperties DEF NoCallFailed, Listing
      <4>2. ASSUME NEW d \in Report!Devices, Read(d) PROVE Read(d)'
        <5>1. CASE \E j \in 1 .. Len(allClassGuids) : j < class /\ allClassGuids[j] = Class(d)
          BY <2>3, <2>6, <4>1, <5>1
        <5>2. CASE \E i \in 1 .. iIdx : items[i] = d
          <6>1. Class(d) = allClassGuids[class] /\ class \in 1 .. Len(allClassGuids)
            BY <1>1, <4>1, <5>2 DEF OfClass
          <6> QED BY <2>3, <2>6, <4>1, <6>1
        <5> QED BY <4>2, <5>1, <5>2 DEF Read
      <4>3. ASSUME NEW d \in stayed, Read(d)' PROVE Read(d)
        <5>1. PICK j \in 1 .. Len(allClassGuids) : j < n /\ allClassGuids[j] = Class(d)
          BY <2>6, <4>3
        <5>2. CASE j < class
          BY <5>1, <5>2 DEF Read
        <5>3. CASE j = class
          BY <1>1, <4>1, <5>1, <5>3 DEF OfClass, Read
        <5> QED BY <2>3, <4>1, <5>1, <5>2, <5>3
      <4> QED BY <4>1, <4>2, <4>3 DEF Listing
    <3> QED BY <1>1, <3>1, <3>2
  <2>8. Listing'
    BY <1>2, <2>3, <2>4, <2>5, <2>7 DEF Listing, AllDifferent, Class
  <2>9. section' = "listing" => OfClass'
    <3> SUFFICES ASSUME section' = "listing" PROVE OfClass'
      OBVIOUS
    <3>1. items' = Report!SetToSeq(next) /\ n \in 1 .. Len(allClassGuids)
      BY <1>2, <2>3
    <3>2. \A i \in 1 .. Len(items') : items'[i] \in next
      BY <2>2, <3>1, ElementOfSeq DEF Enumerates
    <3>3. \A d \in next : \E i \in 1 .. Len(items') : items'[i] = d
      BY <2>2, <3>1 DEF Enumerates
    <3>4. \A d \in stayed : Class(d) = allClassGuids[n] => d \in next
      BY <2>1 DEF next
    <3>5. \A d \in next : Class(d) = allClassGuids[n]
      BY DEF next
    <3> QED BY <1>2, <3>1, <3>2, <3>3, <3>4, <3>5 DEF OfClass, Class
  <2>10. /\ section' \in {"listing", "devices"}
         /\ section' = "devices" => class' > Len(allClassGuids')
    BY <1>2
  <2> QED BY <1>2, <2>1, <2>8, <2>9, <2>10 DEF NoCallFailed, AllDifferent
<1> QED BY <1>3, <1>4 DEF ReportInv

(* A device that is listed has been read neither in this class nor in one  *)
(* before it.                                                              *)
LEMMA ReportLists ==
  ASSUME ReportInv, Report!ListDevice
  PROVE  ReportInv'
<1>1. /\ section = "listing" /\ section' = "listing"
      /\ UNCHANGED <<present, stayed, items, allClassGuids, class>>
      /\ iIdx < Len(items) /\ iIdx' = iIdx + 1
      /\ \/ did' = Report!Device(items[iIdx + 1]) /\ UNCHANGED failed
         \/ failed' = TRUE
      /\ result' = Append(result, did')
  BY DEF Report!ListDevice, Report!Enumerated
<1>2. failed' \in BOOLEAN /\ stayed' \subseteq present' /\ present' \subseteq Report!Devices
  BY <1>1 DEF ReportInv
<1>3. ASSUME ~failed' PROVE NoCallFailed'
  <2>1. NoCallFailed /\ Listing /\ OfClass
    BY <1>1, <1>3 DEF ReportInv, NoCallFailed
  <2>2. stayed \subseteq Report!Devices
    BY DEF ReportInv
  <2> DEFINE new == items[iIdx + 1]
             listed == {Report!Device(d) : d \in Report!Devices}
  <2>3. iIdx \in Nat /\ iIdx + 1 \in 1 .. Len(items) /\ new \in Report!Devices /\ class \in Nat
        /\ Len(allClassGuids) \in Nat
    BY <1>1, <2>1, ElementOfSeq, LenProperties DEF Listing, NoCallFailed
  <2>4. result \in Seq(listed) /\ Len(result) \in Nat /\ Report!Device(new) \in listed
    BY <2>1, <2>3, LenProperties DEF NoCallFailed
  <2>5. \A d, x : Report!Device(d) = Report!Device(x) => d = x
    BY DEF Report!Device
  <2>6. ~Read(new)
    <3>1. ASSUME NEW j \in 1 .. Len(allClassGuids), j < class, allClassGuids[j] = Class(new)
          PROVE  FALSE
      <4>1. allClassGuids[j] = allClassGuids[class] /\ class \in 1 .. Len(allClassGuids)
        BY <2>1, <2>3, <3>1 DEF OfClass
      <4> QED BY <2>1, <2>3, <3>1, <4>1 DEF NoCallFailed, AllDifferent
    <3>2. ASSUME NEW i \in 1 .. iIdx, items[i] = new PROVE FALSE
      <4>1. i \in 1 .. Len(items) /\ i # iIdx + 1
        BY <1>1, <2>1, <2>3 DEF Listing
      <4> QED BY <2>1, <2>3, <3>2, <4>1 DEF Listing, AllDifferent
    <3> QED BY <3>1, <3>2 DEF Read
  <2>7. \A d : Read(d)' <=> Read(d) \/ d = new
    <3>1. \A d : (\E i \in 1 .. iIdx' : items[i] = d)
                   <=> (\E i \in 1 .. iIdx : items[i] = d) \/ d = new
      BY <1>1, <2>3
    <3> QED BY <1>1, <3>1 DEF Read, Class
  <2> HIDE DEF new, listed
  <2>8. result' = Append(result, Report!Device(new))
    BY <1>1, <1>3 DEF new
  <2>9. /\ result' \in Seq(listed) /\ Len(result') = Len(result) + 1
        /\ \A i \in 1 .. Len(result) : result'[i] = result[i]
        /\ result'[Len(result) + 1] = Report!Device(new)
    BY <2>4, <2>8, AppendProperties
  <2>10. \A i \in 1 .. Len(result) : result[i] # Report!Device(new)
    BY <2>1, <2>5, <2>6 DEF Listing
  <2>11. AllDifferent(result')
    <3>1. AllDifferent(result)
      BY <2>1 DEF Listing
    <3>2. \A i \in 1 .. Len(result') : i \in 1 .. Len(result) \/ i = Len(result) + 1
      BY <2>4, <2>9
    <3>3. \A i \in 1 .. Len(result') : i \in 1 .. Len(result) =>
                                        result'[i] = result[i] /\ result'[i] # Report!Device(new)
      BY <2>9, <2>10
    <3> QED BY <2>9, <3>1, <3>2, <3>3, Zenon DEF AllDifferent
  <2>12. \A i \in 1 .. Len(result') :
           \E d \in Report!Devices : result'[i] = Report!Device(d) /\ Read(d)'
    <3> TAKE i \in 1 .. Len(result')
    <3>1. CASE i = Len(result) + 1
      BY <2>3, <2>7, <2>9, <3>1
    <3>2. CASE i # Len(result) + 1
      <4>1. i \in 1 .. Len(result)
        BY <2>4, <2>9, <3>2
      <4> QED BY <2>1, <2>7, <2>9, <4>1 DEF Listing
    <3> QED BY <3>1, <3>2
  <2>13. \A d \in stayed : Read(d)' => \E i \in 1 .. Len(result') : result'[i] = Report!Device(d)
    <3> SUFFICES ASSUME NEW d \in stayed, Read(d)'
                 PROVE  \E i \in 1 .. Len(result') : result'[i] = Report!Device(d)
      OBVIOUS
    <3>1. CASE d = new
      BY <2>4, <2>9, <3>1
    <3>2. CASE Read(d)
      <4>1. PICK i \in 1 .. Len(result) : result[i] = Report!Device(d)
        BY <2>1, <3>2 DEF Listing
      <4> QED BY <2>4, <2>9, <4>1
    <3> QED BY <2>7, <3>1, <3>2
  <2>14. Listing'
    <3>1. /\ items' \in Seq(Report!Devices) /\ AllDifferent(items)' /\ class' \in Nat
          /\ \A d \in Report!Devices :
               \E i \in 1 .. Len(allClassGuids') : allClassGuids'[i] = Class(d)
      BY <1>1, <2>1 DEF Listing, AllDifferent
    <3>2. iIdx' \in 0 .. Len(items')
      BY <1>1, <2>3
    <3>3. AllDifferent(result)'
      BY <2>11 DEF AllDifferent
    <3>4. \A d \in stayed' : Read(d)' => \E i \in 1 .. Len(result') : result'[i] = Report!Device(d)
      BY <1>1, <2>13
    <3> QED BY <2>12, <3>1, <3>2, <3>3, <3>4 DEF Listing, Class, Report!Device
  <2>15. OfClass'
    BY <1>1, <2>1 DEF OfClass, Class
  <2> QED BY <1>1, <2>1, <2>9, <2>14, <2>15 DEF NoCallFailed, AllDifferent, listed
<1> QED BY <1>2, <1>3 DEF ReportInv

(* Nobody who has gone is one of those that were there all the time.       *)
LEMMA ReportPlugs ==
  ASSUME ReportInv, NEW d \in Report!Devices, Report!PlugDevice(d)
  PROVE  ReportInv'
<1>1. /\ section = "listing" /\ present' = Report!SymDiff(present, {d}) /\ stayed' = stayed \ {d}
      /\ UNCHANGED <<section, allClassGuids, class, items, iIdx, did, result, failed>>
  BY DEF Report!PlugDevice, Report!listVars
<1>2. stayed' \subseteq present' /\ present' \subseteq Report!Devices /\ stayed' \subseteq stayed
  BY <1>1 DEF ReportInv, Report!SymDiff
<1>3. \A x : Read(x)' <=> Read(x)
  BY <1>1 DEF Read, Class
<1>4. Listing => Listing'
  BY <1>1, <1>2, <1>3 DEF Listing, AllDifferent, Class
<1>5. OfClass => OfClass'
  BY <1>1, <1>2 DEF OfClass, Class
<1>6. NoCallFailed => NoCallFailed'
  BY <1>1, <1>4, <1>5 DEF NoCallFailed, AllDifferent
<1> QED BY <1>1, <1>2, <1>6 DEF ReportInv

(* SystemInformation: a device that is there all the time is listed, once, *)
(* whatever is plugged in or out meanwhile, and no other is listed than    *)
(* Windows knows, as long as no call fails.                                *)
THEOREM EveryDeviceListed ==
  ASSUME IsFiniteSet(Report!Devices)
  PROVE  Report!Spec => []Report!DevicesListed
<1>1. Report!Init => ReportInv
  <2> SUFFICES ASSUME Report!Init PROVE ReportInv
    OBVIOUS
  <2>1. /\ present \subseteq Report!Devices /\ stayed = present /\ section = "general"
        /\ allClassGuids = << >> /\ iIdx = 0 /\ result = << >> /\ failed = FALSE
    BY DEF Report!Init
  <2>2. \A S : << >> \in Seq(S)
    OBVIOUS
  <2>3. AllDifferent(<< >>)
    BY DEF AllDifferent
  <2>4. NoCallFailed
    BY <2>1, <2>2, <2>3 DEF NoCallFailed
  <2> QED BY <2>1, <2>4 DEF ReportInv
<1>2. ReportInv /\ [Report!Next]_(Report!sysVars) => ReportInv'
  BY ReportBefore, ReportCollects, ReportOpens, ReportLists, ReportPlugs DEF Report!Next
<1>3. ReportInv => Report!DevicesListed
  <2> SUFFICES ASSUME ReportInv, section = "devices", ~failed
               PROVE  /\ \A d \in stayed : Report!Cardinality(Report!Listed(d)) = 1
                      /\ \A i \in DOMAIN result : result[i].id \in Report!Devices
    BY DEF Report!DevicesListed
  <2>1. NoCallFailed /\ Listing /\ class > Len(allClassGuids)
    BY DEF ReportInv, NoCallFailed
  <2>2. result \in Seq({Report!Device(d) : d \in Report!Devices}) /\ Len(result) \in Nat
        /\ DOMAIN result = 1 .. Len(result) /\ Len(allClassGuids) \in Nat /\ class \in Nat
    BY <2>1, LenProperties DEF NoCallFailed, Listing
  <2>3. ASSUME NEW d \in stayed PROVE Report!Cardinality(Report!Listed(d)) = 1
    <3>1. d \in Report!Devices
      BY DEF ReportInv
    <3>2. Read(d)
      BY <2>1, <2>2, <3>1 DEF Listing, Read
    <3>3. PICK i \in 1 .. Len(result) : result[i] = Report!Device(d)
      BY <2>1, <3>2 DEF Listing
    <3>4. Report!Listed(d) = {i}
      BY <2>1, <2>2, <3>3 DEF Report!Listed, Listing, AllDifferent
    <3> QED BY <3>4, FS_Singleton, SameCount
  <2>4. ASSUME NEW i \in DOMAIN result PROVE result[i].id \in Report!Devices
    BY <2>1, <2>2 DEF Listing, Report!Device
  <2> QED BY <2>3, <2>4
<1> QED BY <1>1, <1>2, <1>3, PTL DEF Report!Spec
=============================================================================
