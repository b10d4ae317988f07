------------------------- MODULE ReaderWriterServer -------------------------
(***************************************************************************)
(* ReaderWriterServer and ReaderWriterClient: writer threads change a      *)
(* message under a slim lock; for each client that opens the named pipe an *)
(* instance thread sleeps on condread and sends the message after each     *)
(* wake-up.  An instance thread bears the name of its client.              *)
(***************************************************************************)
EXTENDS Integers, Sequences, SlimLock

CONSTANTS Clients, Writers, Main, Manager,
          ExitText,        \* what the server sends last, unlike any number
          MsgNums,         \* message is an integer modulo MsgNums
          PipeSize,        \* how many messages the buffer of a pipe holds
          MaxSpurious      \* bound on the spurious wake-ups of a behaviour

Threads == Clients \cup Writers \cup {Main, Manager}

VARIABLES crs,             \* the owner of the critical section of the writers
          message, isDone,
          pc,
          spurious,        \* spurious wake-ups so far
          visitor,         \* who opened the pipe main has created last
          free,            \* whether that pipe is there and nobody opened it
          client,          \* what each client process is doing
          channel,         \* what was written to a pipe and not yet read
          closed,          \* the pipes whose server end has been closed
          hasty            \* whether a writer came before the initialization

pipes == <<visitor, free, client, channel, closed>>
section == <<crs, hasty>>
news == <<message, spurious>>
vars == <<lock, condread, section, news, isDone, pc, pipes>>

At(t, label) == pc[t] = label
GoTo(t, label) == pc' = [pc EXCEPT ![t] = label]
Step(t, from, to) == At(t, from) /\ GoTo(t, to)

Uninitialized == "uninitialized"
Corrupt == "corrupt"
-----------------------------------------------------------------------------
(* main starts the timer and the writers before this.                      *)
InitializeSection ==
  /\ Step(Main, "initialize", "loop")
  /\ crs' = Nobody
  /\ UNCHANGED <<lock, condread, hasty, news, isDone, pipes>>

(* while (isDone != true), in main and in the threads                      *)
LoopTest(t, next, last) ==
  /\ At(t, "loop")
  /\ GoTo(t, IF isDone THEN last ELSE next)
  /\ UNCHANGED <<lock, condread, section, news, isDone, pipes>>

CreateNamedPipe ==
  /\ Step(Main, "create", "connect")
  /\ free' = TRUE /\ visitor' = Nobody
  /\ UNCHANGED <<lock, condread, section, news, isDone, client,
                 channel, closed>>

(* ConnectNamedPipe reports a failure when the client has been faster: the *)
(* pipe is closed and the client with it.                                  *)
TurnAway ==
  /\ Step(Main, "connect", "loop")
  /\ visitor # Nobody
  /\ closed' = closed \cup {visitor} /\ visitor' = Nobody
  /\ UNCHANGED <<lock, condread, section, news, isDone, free, client,
                 channel>>

ConnectNamedPipe ==
  /\ Step(Main, "connect", "connecting")
  /\ visitor = Nobody
  /\ UNCHANGED <<lock, condread, section, news, isDone, pipes>>

(* The client has come: its instance thread is created.                    *)
CreateInstance ==
  /\ At(Main, "connecting") /\ visitor # Nobody
  /\ pc' = [pc EXCEPT ![Main] = "loop", ![visitor] = "loop"]
  /\ visitor' = Nobody
  /\ UNCHANGED <<lock, condread, section, news, isDone, free, client,
                 channel, closed>>

(* main waits for its three service threads only.                          *)
Join ==
  /\ \A t \in Writers \cup {Manager} : At(t, "finished")
  /\ Step(Main, "join", "getch")
  /\ UNCHANGED <<lock, condread, section, news, isDone, pipes>>

(* A key is pressed: exit(0) ends the instance threads where they are.     *)
Exit ==
  /\ At(Main, "getch")
  /\ pc' = [t \in Threads |-> "finished"]
  /\ closed' = {c \in Clients : client[c] # "start"}
  /\ exclusive' = Nobody /\ shared' = {} /\ condread' = {}
  /\ UNCHANGED <<section, news, isDone, visitor, free, client, channel>>

MainThread == \/ InitializeSection \/ LoopTest(Main, "create", "join")
              \/ CreateNamedPipe \/ TurnAway \/ ConnectNamedPipe
              \/ CreateInstance \/ Join
-----------------------------------------------------------------------------
ReaderAcquire(c) ==
  /\ AcquireSRWLockShared(c)
  /\ Step(c, "acquire", "sleep")
  /\ UNCHANGED <<section, news, isDone, pipes>>

ReaderSleep(c) ==
  /\ Sleep(c)
  /\ Step(c, "sleep", "asleep")
  /\ UNCHANGED <<section, news, isDone, pipes>>

ReaderWake(c) ==
  /\ c \notin condread
  /\ AcquireSRWLockShared(c)
  /\ Step(c, "asleep", "read")
  /\ UNCHANGED <<section, news, isDone, pipes>>

(* WriteFile puts the text into the pipe, waiting for room, and fails when *)
(* the client has closed its end.                                          *)
WriteFile(c, text) ==
  /\ client[c] # "gone" /\ Len(channel[c]) < PipeSize
  /\ channel' = [channel EXCEPT ![c] = Append(@, text)]

Send(c) ==
  /\ Step(c, "read", "release")
  /\ WriteFile(c, message)
  /\ UNCHANGED <<lock, condread, section, news, isDone, visitor, free, client,
                 closed>>

(* break: the lock is not released.                                        *)
SendFails(c) ==
  /\ Step(c, "read", "goodbye")
  /\ client[c] = "gone"
  /\ UNCHANGED <<lock, condread, section, news, isDone, pipes>>

ReaderRelease(c) ==
  /\ ReleaseSRWLockShared(c)
  /\ Step(c, "release", "loop")
  /\ UNCHANGED <<section, news, isDone, pipes>>

Goodbye(c) ==
  /\ Step(c, "goodbye", "flush")
  /\ \/ WriteFile(c, ExitText)
     \/ client[c] = "gone" /\ UNCHANGED channel
  /\ UNCHANGED <<lock, condread, section, news, isDone, visitor, free,
                 client, closed>>

(* FlushFileBuffers waits until the client has read everything.            *)
Disconnect(c) ==
  /\ client[c] = "gone" \/ channel[c] = <<>>
  /\ Step(c, "flush", "finished")
  /\ channel' = [channel EXCEPT ![c] = <<>>]
  /\ closed' = closed \cup {c}
  /\ UNCHANGED <<lock, condread, section, news, isDone, visitor, free,
                 client>>

InstanceThread(c) ==
  \/ LoopTest(c, "acquire", "goodbye") \/ ReaderAcquire(c) \/ ReaderSleep(c)
  \/ ReaderWake(c) \/ Send(c) \/ SendFails(c) \/ ReaderRelease(c)
  \/ Goodbye(c) \/ Disconnect(c)

SpuriousWake(c) ==
  /\ c \in condread
  /\ spurious < MaxSpurious /\ spurious' = spurious + 1
  /\ condread' = condread \ {c}
  /\ UNCHANGED <<lock, section, message, isDone, pc, pipes>>
-----------------------------------------------------------------------------
(* Mutant: the section is not entered.                                     *)
EnterSectionNot(w) ==
  /\ Step(w, "enter", "acquire")
  /\ UNCHANGED <<lock, condread, section, news, isDone, pipes>>

(* A section not initialized yet, or corrupt, lets the thread in or lets it*)
(* wait for ever.                                                          *)
EnterSection(w) ==
  /\ At(w, "enter")
  /\ \/ crs = Nobody /\ crs' = w /\ GoTo(w, "acquire") /\ UNCHANGED hasty
     \/ /\ crs \in {Uninitialized, Corrupt}
        /\ \E next \in {"acquire", "hung"} : GoTo(w, next)
        /\ hasty' = TRUE /\ UNCHANGED crs
  /\ UNCHANGED <<lock, condread, news, isDone, pipes>>

WriterAcquire(w) ==
  /\ AcquireSRWLockExclusive(w)
  /\ Step(w, "acquire", "write")
  /\ UNCHANGED <<section, news, isDone, pipes>>

WriteMessage(w) ==
  /\ Step(w, "write", "wake")
  /\ message' = (message + 1) % MsgNums
  /\ UNCHANGED <<lock, condread, section, spurious, isDone, pipes>>

WriterWakesAll(w) ==
  /\ WakeAllConditionVariable
  /\ Step(w, "wake", "release")
  /\ UNCHANGED <<section, news, isDone, pipes>>

WriterRelease(w) ==
  /\ ReleaseSRWLockExclusive
  /\ Step(w, "release", "leave")
  /\ UNCHANGED <<section, news, isDone, pipes>>

(* A section left by a thread that does not own it is free or corrupt.     *)
LeaveSection(w) ==
  /\ Step(w, "leave", "loop")
  /\ crs' \in CASE crs = w -> {Nobody}
                [] crs \in {Uninitialized, Corrupt} -> {crs}
                [] OTHER -> {Nobody, Corrupt}
  /\ UNCHANGED <<lock, condread, hasty, news, isDone, pipes>>

ThreadWriter(w) ==
  \/ LoopTest(w, "enter", "finished") \/ EnterSection(w) \/ WriterAcquire(w)
  \/ WriteMessage(w) \/ WriterWakesAll(w) \/ WriterRelease(w) \/ LeaveSection(w)

TimeManager ==
  /\ Step(Manager, "loop", "finished")
  /\ isDone' = TRUE
  /\ UNCHANGED <<lock, condread, section, news, pipes>>
-----------------------------------------------------------------------------
(* The client opens the pipe if there is one nobody has opened ...         *)
ClientOpens(c) ==
  /\ client[c] = "start" /\ free
  /\ client' = [client EXCEPT ![c] = "reading"]
  /\ visitor' = c /\ free' = FALSE
  /\ UNCHANGED <<lock, condread, section, news, isDone, pc, channel,
                 closed>>

(* ... and ends when there is none at all, or none for twenty seconds.     *)
ClientGivesUp(c) ==
  /\ client[c] = "start" /\ ~free
  /\ client' = [client EXCEPT ![c] = "gone"]
  /\ UNCHANGED <<lock, condread, section, news, isDone, pc, visitor,
                 free, channel, closed>>

(* ReadFile returns all that is in the pipe, of which the client looks at  *)
(* the first text only; it ends on "exit" and when the pipe is broken.     *)
ClientReads(c) ==
  /\ client[c] = "reading"
  /\ channel[c] # <<>> \/ c \in closed
  /\ client' = [client EXCEPT ![c] =
                  IF channel[c] = <<>> \/ Head(channel[c]) = ExitText THEN "gone" ELSE @]
  /\ channel' = [channel EXCEPT ![c] = <<>>]
  /\ UNCHANGED <<lock, condread, section, news, isDone, pc, visitor,
                 free, closed>>

(* Its window is closed.                                                   *)
ClientKilled(c) ==
  /\ client[c] = "reading"
  /\ client' = [client EXCEPT ![c] = "gone"]
  /\ UNCHANGED <<lock, condread, section, news, isDone, pc, visitor,
                 free, channel, closed>>

Client(c) == ClientOpens(c) \/ ClientGivesUp(c) \/ ClientReads(c) \/ ClientKilled(c)
-----------------------------------------------------------------------------
Init ==
  /\ exclusive = Nobody /\ shared = {} /\ condread = {}
  /\ crs = Uninitialized /\ hasty = FALSE
  /\ message = 0 /\ spurious = 0
  /\ isDone = FALSE
  /\ pc = [t \in Threads |-> IF t = Main THEN "initialize"
                             ELSE IF t \in Clients THEN "none" ELSE "loop"]
  /\ visitor = Nobody /\ free = FALSE
  /\ client = [c \in Clients |-> "start"]
  /\ channel = [c \in Clients |-> <<>>]
  /\ closed = {}

Next == \/ \E c \in Clients : InstanceThread(c) \/ SpuriousWake(c) \/ Client(c)
        \/ \E w \in Writers : ThreadWriter(w)
        \/ MainThread \/ Exit \/ TimeManager

Spec == Init /\ [][Next]_vars

(* Threads that can run do, and a client reads what it is sent.  Nothing is*)
(* assumed of the timer, the operator, and clients that have not come.     *)
Fairness == /\ \A c \in Clients : WF_vars(InstanceThread(c)) /\ WF_vars(ClientReads(c))
            /\ \A w \in Writers : WF_vars(ThreadWriter(w))
            /\ WF_vars(MainThread)
-----------------------------------------------------------------------------
Inside == {"acquire", "write", "wake", "release", "leave"}

TypeOK ==
  /\ exclusive \in Writers \cup {Nobody}
  /\ shared \subseteq Clients /\ condread \subseteq Clients
  /\ crs \in Writers \cup {Nobody, Uninitialized, Corrupt} /\ hasty \in BOOLEAN
  /\ message \in 0 .. MsgNums - 1 /\ isDone \in BOOLEAN
  /\ spurious \in 0 .. MaxSpurious
  /\ DOMAIN pc = Threads
  /\ visitor \in Clients \cup {Nobody} /\ free \in BOOLEAN
  /\ client \in [Clients -> {"start", "reading", "gone"}]
  /\ \A c \in Clients : Len(channel[c]) <= PipeSize
  /\ closed \subseteq Clients

(* A lock kept by an instance thread whose WriteFile failed.               *)
Kept(c) == c \in shared /\ pc[c] \in {"goodbye", "flush", "finished"}

(* The critical section keeps the writers apart if none of them came before*)
(* its initialization; the slim lock keeps the readers out in any case, and*)
(* is kept only by a thread whose client has gone.                         *)
Exclusion ==
  /\ ~hasty => \A v, w \in Writers : pc[v] \in Inside /\ pc[w] \in Inside => v = w
  /\ \A w \in Writers : pc[w] \in {"write", "wake", "release"} =>
       /\ \A v \in Writers \ {w} : pc[v] \notin {"write", "wake", "release"}
       /\ \A c \in Clients : ~At(c, "read")
  /\ \A c \in Clients : Kept(c) => client[c] = "gone"

(* What may keep a writer from its work, or a thread from its end.         *)
Excused == hasty \/ \E c \in Clients : Kept(c)
Held(t) == \/ t = Main \/ At(t, "none") \/ t \in condread
           \/ t \in Writers /\ Excused

(* Until the shutdown the writers get the lock and wake whoever sleeps, but*)
(* for a section entered too early or a lock that is kept.                 *)
SleepersWoken ==
  \A c \in Clients :
    (c \in condread /\ ~isDone) ~> (c \notin condread \/ isDone \/ Excused)

(* After isDone every thread ends or is held up in a known place.          *)
OnlyHeldRemain == isDone ~> [](\A t \in Threads : At(t, "finished") \/ Held(t))
=============================================================================
