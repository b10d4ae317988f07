# Specifications of the SPbPU system-programming labs

The repository holds the programs of a system-programming course: small Win32
programs about threads and their synchronization, inter-process communication,
exceptions and system information, with a copy of htop beside them (`top`).
This project models them in TLA+, checks the models with TLC and proves most of
their safety properties, for every number of threads, clients or philosophers,
with TLAPS.

Paths such as `Mutex/main.cpp` are relative to
`src/src/SynchronizationPrimitives`, `NamedPipeServer/main.cpp` and the like to
`src/src/InterProcessCommunication`, `htop.c` and the like to `src/src/top`; the
reports are in `src/reports`. `PROJECT.json` ties every definition to the lines
it translates, lists the hazards of the code at their lines, and gives for every
property mutants of the code that break it.

## 1. Inventory

### Threads and their synchronization (`SynchronizationPrimitives`, "lab 3")

| Component | State it keeps | Operations | Correct when |
|---|---|---|---|
| **FIFOQueue** (`Mutex/utils.h`) | `data[]`, `readindex`, `writeindex`, `full`, `size` | store, advance `writeindex`, set `full`; clear `full`, take, advance `readindex`; free all slots | it is a bounded FIFO queue; each string is freed once |
| **Mutex, Event, Semaphore, CriticalSection** (producers and consumers under one primitive) | the queue, the primitive, `isDone`, threads, handles | reader and writer loops, manager, `main`: create suspended, resume, join, clean up | threads exclude each other, clean-up comes after the last thread, the shutdown completes |
| **ConditionVariable** (producers and consumers that sleep) | the same, a critical section, `condread`, `condwrite` | the same with sleeps and wake-ups; `main` waits 5 s | no wake-up is lost; clean-up after the last thread |
| **ThreadsReaderWriter**, **ProcessWriter / ProcessReader** (one writer, N readers, events) | five events, `countread`, `countready`, shared memory, `isDone` | reader round, writer round, manager, join | each reader reads each message once, the writer waits for all; shutdown completes |
| **NoMemProcessWriter / NoMemProcessReader** | events only, a counter local to the writer | report ready, report read, count the reports, change the phase | the same |
| **DiningPhilosophersProblem** | `philosopher_state[]`, one critical section per philosopher | `take_forks`, `put_forks`, `think`, `wait` | neighbours never eat together, no deadlock |
| **OptimalReaderWriter** (slim lock and condition variable) | the lock, `condread`, shared memory, `isDone` | reader loop, writer loop, manager, join | no reading during a writing, each message read once by each reader |
| **ReaderWriterServer / Client** | the lock, `condread`, a critical section of the writers, a message, instances of a named pipe | accept a client, serve it, write, shut down | a message reaches all connected readers; writers get the lock however clients come and go |
| **FullReaderWriterServer / Client** (chat) | list of clients, its section, sockets | join, leave, `sendToAll`; the client's two threads | the list is the connected clients; everybody gets every text |
| **NetReaderWriterServer / Client** | the same list, threads that send numbers | accept, `sendToAll` | one order of texts for all |
| **Configuration, timer, Logger** (`*/utils.cpp`, `*/Logger.cpp`) | configuration file, a named waitable timer, log file | `SetConfig`, `WaitForTimer`, log | each program ends after its `ttl`, or on command |

### Inter-process communication (`InterProcessCommunication`, "lab 2")

| Component | State | Operations | Correct when |
|---|---|---|---|
| **NamedPipeServer / Client**, network versions | instances of the pipe, one thread each | connect, ask, answer, `exit` | each question is answered, or the client learns that nobody will |
| **WinSockServer, CompletionPortServer, WinSockClient** | connections, operations under way, the completion queue, a pool of workers | accept, receive, send back, QUIT, errors | each client gets back what it sent, in order |
| **AnonymousPipeServer / Client** | two pipes and the inherited handles | start the client, ask, answer, end | both processes end, each answer is that to its question |
| **SharedMemoryServer / Client** | a block of memory, a named mutex | create, write, open, read | the client reads whole texts |
| **MailslotServer / Client** | the slot | count, read, number, write | each message is shown once, with its number |
| **Signals** | none | print the signal | |

### Programs that run alone

| Component | State | Operations | Correct when |
|---|---|---|---|
| **ExceptionsProcessing** | guarded blocks, the log in its buffer, the event log | raise, filter, unwind, `goto`, `__leave`, terminate | what is raised is caught once and in the log when the process is gone |
| **SystemInformation** | what was asked of Windows so far | one section after the other | what is printed is what there was |
| **top: process list** | vector and hash table of processes, the tree, counters | scan of /proc, sort, build the tree | list, table and counters agree with each other and with the system |
| **top: main screen** | rows, selection, following, filter, search, tags | keys, refresh, dialogs, signals | the process chosen is the one that gets the signal |
| **top: settings** | settings files, meters, columns, panels | the pages of the setup screen, read and write | what is set is there in the next session |
| top: meters, trace and open files | lines of the screen | draw, start a program | output |

**How they interact.** Threads of one program share the queue or the block of
memory, the primitives, and the flag `isDone`, which is read without any of
them. `main` creates the threads suspended, resumes them and waits for them; the
manager waits for a timer or, with `ttl < 0`, for the operator, and raises
`isDone` (and an exit event in the event programs). Programs interact through
named kernel objects: events, mutexes and shared memory (writer and reader
processes), pipes, mailslot, sockets, and, without meaning to, the timer, which
has the same name in all programs. `top` interacts with the system: processes
begin and end during a scan and while a dialog is open.

**What is hard.** Queue operations made of five statements under a primitive
that excludes only by the way it is used; the `full` flag of the ring; wake-ups
that nobody hears; a round of N readers with two counters and five events; a
shutdown in the middle of any of it; a clean-up that frees what threads may still
use; a client that stops reading, goes, or never gives its name, while a lock or
a section is held for it; sections that are initialized after the threads that
enter them; completions that are told apart by a counter; state that is read
before something changes it (the row of a process, the number of messages in a
mailslot); settings that are written over the old ones. `PROJECT.json`,
"hazards", lists 40 of these at their lines, with the properties that would catch
them going wrong, or, where the code does go wrong and the properties except it,
with a note that says so.

## 2. Modules

```
CircularQueue <--EXTENDS-- BoundedQueue, CondVarQueue, QueueLemmas
Fifo <--refines-- BoundedQueue <--- BoundedQueueProofs (EXTENDS QueueLemmas)
Fifo <--refines-- CondVarQueue <--- CondVarProofs (EXTENDS QueueLemmas)

Broadcast <--refines-- EventReaderWriter
     ^                        ^ EXTENDS
     +------refines----- MCReaderWriters --INSTANCE--> NoMemReaderWriter
                              ^ EXTENDS
                         EventProofs

DiningPhilosophers <--- DiningProofs

SlimLock <--EXTENDS-- OptimalReaderWriter
     ^                        ^ EXTENDS
     |                    MCSlimLock --INSTANCE--> ReaderWriterServer
     |                        ^ EXTENDS                |
     |                    SlimLockProofs               |
     +-----------------EXTENDS-------------------------+

SendToAll <--EXTENDS-- ChatServer <--EXTENDS-- MCNetwork --INSTANCE--> NetServer
                                                  ^ EXTENDS
                                              NetworkProofs

EchoSockets <--EXTENDS-- MCPrograms <--EXTENDS-- ProgramsProofs
                             |
                             +--INSTANCE--> NamedPipes, AnonymousPipes,
                                            SharedMemory, Mailslot, SharedTimer
ProgramsProofs --INSTANCE--> SystemInformation
MCTools    EXTENDS ProcessTable; INSTANCEs ProcessTree, TopScreen, SetupScreen
           (all over Containers), StructuredExceptions, SystemInformation
```

A thread is a label in `pc`, and an action is what the thread does between two
points at which another one can interfere. A definition keeps the name of the
call or variable it stands for. Programs that are the same but for a primitive or
a step are one module with a variable (`program`, `network`, `port`, `name`)
that is chosen in Init and never changes. The `MC` modules put programs that
answer the same question side by side: `program` (or `tool`) says which one runs,
the variables of the others stay as they are, and a property is the conjunction
of what is claimed of each. Definitions whose comment says "Mutant" are plausible
bugs of the same code: each is put in the place of the definition below it to see
that a property notices it.

**CircularQueue** is `struct FIFOQueue` and each statement on it. A string is the
pair of its writer and its number (modulo `MsgNums`, larger than the queue, so
that two messages of a writer in it never look the same). `Garbage` is what
`new _TCHAR*[n]` leaves in a slot. **BoundedQueue** is the four programs with one
primitive: `MutexRelease` and `LeaveSection` do nothing for a thread that is not
the owner, `EventSet` and `SemaphoreRelease` let anybody in. `heap` is the set of
strings `_wcsdup` allocated and nobody freed. **CondVarQueue** splits
`SleepConditionVariableCS` into leaving the section asleep and, once woken,
entering it again and testing again; `SpuriousWake` wakes a sleeper nobody
signalled, `JoinTimeout` is the end of the five seconds. **Fifo** is what both
promise. The refinement mapping `Contents` is the interesting part: the reader
clears `full` first, takes the slot second and moves `readindex` last, so between
those steps indices and flag do not say what is in the queue, and `Contents`
takes into account where the thread inside stands.

**EventReaderWriter** has the five events, both counters and one action per
statement of the round, for the threads and for the processes (which count
`countready` down from what the writer adds under `changeCount`, and loop for
ever). `WaitExitOr` is `WaitForMultipleObjects` on {exit, event}: it returns the
lower index and leaves an auto-reset event set. `times` and `got` are history.
**NoMemReaderWriter** replaces the counters by reports: `canChangeCount` and
`changeCount` hand one token round, the writer counts and changes the phase with
the N-th report. **Broadcast** is what the three promise: the writer writes when
all have read, each reader reads each message exactly once.

**DiningPhilosophers**: a philosopher enters its own section, tries those of its
neighbours in random order, looks at their state in between, and eats when
neither eats. The labels are the four nested ways out of `take_forks`.

**SlimLock** is the SRW lock and `condread`, external. **OptimalReaderWriter** is
the reader and the writer loop on them; `unread` and `early` (woken by nobody)
are history. **ReaderWriterServer** adds the critical section of
the writers (`crs`), which a premature entry makes meaningless (`hasty`), the pipe of
each client with room for `PipeSize` messages, clients that come, read, end or are
killed, and the way out after a failed `WriteFile` that leaves the lock shared for
ever.

**SendToAll** is the function and the list of both servers: the walk through the
list inside the section, a send that takes everything or a part, and the pointer
that stays moved. **ChatServer** adds the threads that receive, the name that is
asked for first, leaving, and the two threads of a client. **NetServer** adds the
threads that send numbers and the section that is initialized after they start.

**EchoSockets** has, beside the servers, the system's part of an asynchronous
operation: it is started, completes, waits in the queue of the port, is taken by
a worker. The welcome, the blank answer to its completion, the worker that
returns after QUIT or a failed call, and the end of the server when the welcome
cannot be sent (`exit(10)`) are the code's. A connection is reset when its client
is killed or closes with something unread. A worker that has started a receive
still prints the socket and the buffer (`CompletionPortServer/main.cpp:291`);
`telling` are the workers that have yet to do so, and `Tells` may end the process
when another one has freed both in the meantime. **NamedPipes** limits the instances to `Limit`
in the network version and ends the server when one more is asked for.
**AnonymousPipes** follows the four handles by who holds them: a reader sees the
end of file when the last writing end is closed. **SharedMemory** copies a text
in two parts so that a torn one can be seen. **Mailslot** numbers a message from
a count taken earlier. **SharedTimer** is `SetConfig`, what it refuses, and
`WaitForTimer`: one timer for all programs that run, set anew by each, in words of
`2 * Half` numbers.

**Containers** is `Vector.c` as a sequence with indices from 0 and `Hashtable.c`
as buckets of keys. **ProcessTable** is `ProcessList_scan`: one step per entry of
/proc, with processes and threads that begin, end, and pass on their pid between
any two of them; a process that is found gone at an early or a late point of its
reading; the counters. **ProcessTree** is `ProcessList_sort` and
`ProcessList_buildTree`, with the bits of an indent. **TopScreen** is the loop of
`htop.c` and the rows of the panel, with the refresh while a dialog is open; a
name is as many times one letter as `nameLength` says. `hidden` are the processes
that a scan or the building of the tree hides; the tree is on or off at any
refresh. A refresh with the selection on row -1 (End on an empty panel) stops at
the assert of `Panel.c:269`. **SetupScreen** is the
settings' file, its two predecessors, the pages on meters, columns and the rest,
and two sessions one after the other. **StructuredExceptions** is one machine
that raises, searches and unwinds, and eleven programs as tables of their blocks.
**SystemInformation** is one step per call that asks Windows for one more item,
with drives and devices that come and go between them.

### Abstractions

- "The manager raises isDone" can happen at any time, except in SharedTimer,
  which is about that time.
- `CreateMutex`, `CreateEvent` and `CreateSemaphore` with the name `L""` are taken
  to create unnamed objects.
- Failed Create calls and allocations, which end a program with `exit`, are left
  out where nobody else waits for it; so are log files (except where a property
  is about them) and the sleeps between two rounds.
- A wait on a closed handle fails at once and the code ignores that. A deleted
  critical section is taken to behave the same way, the mildest outcome; one
  entered before its initialization may let anybody in, or be lost.
- After `delete[]` no step of a thread is modelled; whether threads can still
  run then is the question `CleanupAfterJoin` asks.
- `isDone` is a plain `bool`; a read sees the last write. Every loop calls
  functions of other units, so the read is not hoisted.
- What the C code of top does to memory it does not own (an index of -1, a
  process already freed) ends the model in a state called "undefined".
- In top a process is its pid, leader, parent and whether it is a thread of the
  kernel; a zombie is one that is still listed by the system. Zombie threads, which
  the scan counts as tasks and not as threads, are left out. Columns and their
  formatting are not modelled. On the main screen a pid keeps its name when another
  process gets it.
- Settings are read line by line; that `Settings_read` cuts a line after 2048
  bytes is left out, as no session of the model has lines that long.
- Clients of `ReaderWriterServer` read what they are sent unless they are killed:
  while one does not, its thread holds the lock and nothing moves.

## 3. Runs

| Run | Bounds | Shows |
|---|---|---|
| `bounded_queue` | 1 reader, 2 writers, 2 slots, 3 numbers, all four primitives | `MutualExclusion`; `ImplementsFifo`; `HeapIsQueue`, `FreesOnlyStrings`: each string is freed once, and nothing else but what `new[]` left; `ShutdownCompletes` |
| `cond_var_queue` | 2 readers, 1 writer, 2 slots, 1 spurious wake-up | `NoLostWakeup`, `ImplementsFifo`, `QueueMoves`: a full queue is read and an empty one written |
| `threads_reader_writer` | 3 readers, 3 numbers, all three event programs | `OneAtATime`, `NoReadDuringWrite`, `CounterIsExact`, `ImplementsBroadcast`, `MessagesFlow`: the next message always comes; `OnlyHeldRemain`: after exit all end but readers in a wait that does not listen to it |
| `optimal_reader_writer` | 2 readers; a server with 1 client and 2 writers; 1 spurious wake-up | `NoReadDuringWrite`, `ServerExclusion`, `NoMessageTwice`, `EverySleeperWoken`, `OnlyHeldRemain` |
| `dining` | 3 philosophers | `SectionsHeld`, `NeighboursDoNotEat`, `BothForks`, `NoHoldAndWait`, `StateGuarded`, `ForksPutBack` |
| `network` | 2 clients, 2 sending threads, room for 1 text in a socket | `ListServed`: the list is whoever is served, and nothing freed is sent to; `OneAtATime`: one order for all; `ChatGoesOn`: a text goes out unless a client that has given no name stops reading |
| `programs` | 2 clients, 2 workers, 2 texts of all clients together, 2 instances of the pipe, ttl of 1, 4 and 6 seconds of 3 ticks in a word of 20 | `EchoesMatch`; `OneHand`: one hand at a time moves a connection; `OneWorkerEach`: a client costs the pool one worker at most; `ReadWhole`, `WaitersGoOn`: whoever waits for a partner that lives, or for a timer nobody has taken, goes on, and not before its time |
| `tools` | 3 pids that are born up to 3 times; trees of 4; 2 rows, one of which may be hidden; 2 kinds of meters, 4 columns; 3 devices | `ProcessesListed`, `ChosenIsMeant`, `SettingsLast`, `ReportsTrue` |

Four runs state what a comment or a report says of the program and show a
behaviour of the code that contradicts it (`PROJECT.json`, "findings"):

| Run | Claim | What the code does |
|---|---|---|
| `cond_var_timeout` | `main` waits for all threads (`ConditionVariable/main.cpp:52`) | it waits 5 s, ignores the result and deletes section and queue |
| `threads_shutdown` | the programs end by timer or command (`lab3.tex:239`) | readers that leave on exit before they have read the message leave one that has read it behind `allReadEvent`, and `main` with it |
| `optimal_lost` | each message is read by each reader (`lab3.tex:585`) | a message announced while a reader is not asleep is never read by it |
| `chat_each_client` | each client receives each message (`lab3.tex:672`) | after a send that did not take the whole text the next client is sent the rest only |

The properties of the composed runs are conjunctions, and their exceptions are
part of what they say: each is a known way in which the code gives up the rule,
named at its line. `ServerExclusion` and `EverySleeperWoken` except a section
entered before `ReaderWriterServer/main.cpp:68` has initialized it, and a lock
kept after line 157; `Net!OneAtATime` the same of `NetReaderWriterServer`;
`ReadWhole` a client that asked for the mutex before the server had made it
(`SharedMemoryClient/main.cpp:23`), a server killed in the middle of a copy, and
numbers counted too early (`MailslotClient/main.cpp:56`); `WaitersGoOn` a client
of a killed anonymous pipe server a pool without workers, and a server that has ended; `ListIsTable` the
switching off of thread names; `CountersMatch` a pid given away during the scan;
`TreeDrawn` the first process, shown even when hidden; `TreeInOrder` the inverted
order, which puts the children of other roots in front of the whole list;
`SignalReachesChosen` a process that is gone or another that is followed from
before; `SettingsKept` a full disk, a click on a column's title, and more columns
than fields; `RowsMatch` a side without meters; `LogKept` and `CaughtOnce` the
floating point exception that comes after its block; `UptimeShown` 49.7 days.

Seen while modelling, without a run of its own:

- `Event/main.cpp:40` calls the event "manual reset" and creates an auto-reset
  one (a manual-reset event would not exclude).
- With more than `MAXIMUM_WAIT_OBJECTS` threads the wait of `main` fails at once
  and the queue is freed under running threads (the hypothesis of the lemma
  `JoinedFirst`, and of what is proved of the queue).
- A worker of CompletionPortServer prints the socket and the buffer of a
  connection (main.cpp:291) after it has handed it on to whoever takes the next
  completion, which may have freed them; a client that is gone before its welcome
  is sent ends the server (main.cpp:177).
- The slots of the queue are not initialized: a program that ends before the
  writers have gone round the ring frees what was there (`Mutex/main.cpp:59`).
- Messages may be unread when ConditionVariable ends, although `lab3.tex:454` says
  that all are processed; a reader of OptimalReaderWriter asleep when the writer
  ends is never woken.
- From `ttl` 215 on `-1 * sec * 10000000` overflows: the program ends too early or
  at once. Programs that run together have one timer, and it ends only one.
- The report on exceptions (`53501_3_MartynovSA_lab1.tex:524`) says that the filter
  function returns CONTINUE_SEARCH only for a division by zero or an overflow of
  floating point; the code returns it for all others and handles these two;
  `NestedException/main.cpp:63` reports the internal handler from the external
  one; several programs report a division as an overflow in the event log.
- In top: the help speaks of tagged processes, and a tagged process that is
  hidden gets no signal (`htop.c:128`); `End` on an empty panel selects row -1,
  and the next refresh fails an assertion (`Panel.c:269`); a search from row 0 that
  matches nothing does not end (`htop.c:528`); a legacy settings file is read again
  if the first rewrite failed.
- SystemInformation prints no adapter when there are two or more.

### Why the bounds are enough

Two slots are the smallest ring in which the indices can be equal (empty or
full), differ, and wrap; one thread of a kind and two of the other give the
contention within and between the kinds, and the proofs cover the other numbers.
Message numbers wrap, so the runs are of unbounded length. A round tells first,
middle and last reader apart, so three readers show each. At a table of three
all are neighbours of all, and the proof covers the larger ones. Two clients are
one that is served and one that holds it up; two workers are one that returns and
the last one. Three pids are a process, its thread, and another one that comes
in between; three births are a pid given away twice. A tree of four has roots
with children of different depth, and siblings before and behind. Two sessions
are one that writes the settings and one that reads them. `Half` = 10 and `Second`
= 3 give one `ttl` that fits, one that becomes a shorter time and one that
becomes a date that has passed. A spurious wake-up needs to come once.

### Fairness

`WF` of each thread: a thread that can run is run by the scheduler. The timer need
not fire and the operator need not type: only a `SetExit` that follows `RaiseDone`
must come (in `bounded_queue` the manager is fair, where it decides nothing: the
property starts at `isDone`). The five seconds of ConditionVariable need not end:
otherwise the clean-up alone would make the liveness properties true. Users,
clients that connect, leave or are killed, and processes that begin or end are not
fair; a client's thread that reads what it is sent is. In `programs` the
system's part of an operation that was started is fair, and so is the clock.
Nothing is assumed about who of several waiting threads gets a primitive, and
spurious wake-ups need not come. There is one strong fairness, `SF(PutEnter)` in
DiningPhilosophers: the neighbours of an eating philosopher enter its section only
by `TryEnterCriticalSection`, leave it at once, and sleep 50 ms or more before the
next try, so a philosopher that waits in `put_forks` gets in. That a hungry
philosopher eats at last is not claimed: the program gives no such guarantee.

In the composed modules fairness of a disjunction over programs is fairness of
each: `program` never changes, so only one of the disjuncts is ever enabled.

`CHECK_DEADLOCK FALSE` stands where the system may stop: with everything finished,
hung in the way a finding or an exception above describes, or (`tools`) at the end
of a program that runs once. The queue modules have a `Finished` step instead, so
that any other stop is reported as a deadlock.

## 4. Proofs

All theorems hold for any number of threads, readers, clients or philosophers and
any size of the queue. They rest on the named assumptions of the modules, which
TLC evaluates in every run:

| Module | Assumption |
|---|---|
| CircularQueue | what `SetConfig` lets through: a queue of at least one slot; message numbers modulo more than the slots; nothing that is no string is one |
| BoundedQueue, CondVarQueue | finitely many readers and writers (in BoundedQueue at least one of each, exit code 500), the threads differ, "nobody" is no thread; spurious wake-ups have a bound |
| EventReaderWriter | at least one reader, the writer and the manager are two and no readers, message numbers modulo more than two |
| DiningPhilosophers | at least three philosophers, "nobody" is none |
| OptimalReaderWriter, MCSlimLock | at least one reader; readers, writers, clients and the other threads differ; `PipeSize` is a number |
| MCNetwork | the threads of the clients are named after them, the others differ; `Room` and the bounds on texts are numbers, 0 included |
| EchoSockets | the number of workers and the bound on texts are numbers, 0 included |
| MCPrograms | there is a message to ask and a text to read; the two processes of the shared memory are two and "nobody" is neither; a `ttl` is a positive number (`SetConfig` has the manager wait for the operator otherwise), and so are the ticks of a second and half of the words |

### The queue

**QueueLemmas** is about the ring and knows no thread. `RingSeq(d, b, n)` is the
sequence of the `n` slots from `b` on, around the end of the array. `RingTail`,
`RingAppend` and `RingKeeps` say what clearing, filling and overwriting a slot do
to it, and from them follow the facts both queue programs need, one for each
statement of the source: clearing `full`, taking the slot, moving `readindex`,
storing, and moving `writeindex` with or without setting `full`
(`AdvanceWriteKeeps`, `AdvanceReadKeeps`). The remainder of a division is a
question the prover cannot take; `Wrap` replaces it once and for all by a
subtraction. `Numbered` is why two strings in the queue differ: the `k`-th string
from the end is at most `k` numbers old, so with more numbers than slots the next
number of a writer is none of those in the queue (`NumberedPut`).

**BoundedQueueProofs** (`TypeCorrect`, `Exclusion`, `RefinesFifo`, `NoLeak`,
`FreesStrings`). `MutualExclusion` is not inductive: nothing in it says
that the primitive is not free while somebody is inside. The invariant is
`TypeOK /\ SyncType /\ Guarded`. `SyncType` says what the primitive may hold in
each program (without it a semaphore could be "owned"). `Guarded` says that until
main closes the primitive the thread inside owns it (`OwnerInside`) or no unit is
free while somebody is inside (`FreeIsEmpty`), and that at most one is inside
(`AtMostOne`). `AcquireSync` and `ReleaseSync` reduce the four primitives to that
one fact.
The lemma `JoinedFirst` adds that main cleans up after all threads: a finished
thread stays finished. It assumes `Cardinality(Threads) <= MaxWaitObjects`, and so
do the three theorems that build on it. The assumption cannot be dropped: with more threads the wait of `main`
fails, the queue is freed under running threads, and the statements are false.
`RefinesFifo` is the refinement of Fifo. Because at most one thread is inside,
`Contents` depends only on the label of that thread (`ReaderView`, `WriterView`),
and each statement becomes one of the ring's lemmas: the reader's clearing of `full`
and the writer's storing leave a gap between the indices and the truth, and the
steps that follow close it without changing `Contents`. `NoLeak` and
`FreesStrings` need the ring's invariant `RingInv`, no part of which is inductive
without the others: what is in a slot is in the queue (a cleared slot holds `NULL`),
no string is in two slots, no two strings in the queue are the same, and what is
allocated is what is in the queue.

**CondVarProofs** (`TypeCorrect`, `RefinesFifo`, `WakesArrive`) needs no bound on
threads: what it says of the queue ends with the clean-up that comes too early
(the finding of `cond_var_timeout`). `Lock` says that the section is owned by
whoever is in it; a sleeper has left it, and a spurious wake-up only makes it
enter again. `WakesArrive` is about counting. Until `isDone` nobody has finished,
so whoever does not sleep on a condition is awake, and the property says that
these are at least as many as the strings (or free slots) announced to them
(`AwokenIs`). A reader that takes a string makes one announced string fewer and
one free slot that it has not announced yet (`TakeAnnounces`); it announces it by
waking a writer, if one sleeps, so that one more is awake (`ReaderAnnounces`), and
if none sleeps there is nothing to show. Who falls asleep has found the queue
empty, or full, under the section, when nothing was unannounced (`ReaderSleeps`).

### Rounds of one writer and N readers

**EventProofs** (`CountersAreGuarded`, `NobodyReadsDuringAWriting`,
`CountreadCountsTheUnread`, `EventsImplementBroadcast`), for the threads and the
processes at once. None of these is inductive, because which labels the readers
can be at, what the events are and what the counters mean all hang together. The
invariant says that every state is in one of six phases of a round: `Gathering`,
`Closing`, `Called`, `Writing`, `Reading`, `Opening`, each of which fixes the
events, the counters, the writer's label and the labels of all readers. `Locked`
says that changeCount is a lock. The two arguments of the proof that a test would
hardly find are about cardinalities. `CountReadyKeeps`: as many have been counted
as have come at most, so that when the N-th is counted all the others have passed
and wait, and the boundary can be closed (an inequality, because a reader may
finish without having been counted; then the phase never ends, which is the
finding). `CountReadKeeps`: countread is the number of unread readers, so that
the one that counts it down to 0 is the last, all others are outside, and both
events can be changed without a race. `EventsImplementBroadcast` follows from the
phases step by step: the writer writes only in `Writing`, when all have read, and
a reader reads only in `Reading`, when it has not.

The second part of the module is about the programs without shared memory
(`OneReportAtATime`, `NobodyReadsWhileWriting`, `ReportsImplementBroadcast`), whose
events stand in the places of those of the others, as in MCReaderWriters.
The invariant has three parts that hold each other up. `Token`: canChangeCount,
changeCount, a reader that reports and a writer that counts exclude each other, so
that a `SetEvent` never finds its event set. `AllCounted`: the counter and the
report under way give the number of readers whose state is not the writer's;
`LastIsAll` concludes that the N-th report leaves nobody who has not reported.
`Preparing`, `TurnToRead`, `ReadingOn`, `TurnToPrepare`: what the two manual reset
events, the states and the labels can be. `ReportsOnce` needs the phases (who
reports has not reported yet), and the phases need `LastIsAll` for their turn.

The last four theorems (`OneCountsAtATime`, `CountersAreExact`,
`NobodyReadsDuringAnyWriting`, `AllImplementBroadcast`) state the properties of
the run `threads_reader_writer` for all three programs, from the two invariants
and from the fact that only one program runs.

**SlimLockProofs** (`OptimalTypes`, `ReadersKeptOut`, `NothingTwice`,
`ServerExcludes`). In OptimalReaderWriter `LockHeld` says who holds the lock from
the labels. `WokenHasNews` says that a reader past its sleep has a message to read
unless it was woken by nobody; it is inductive because a message makes everybody's
memory new before the wake-up, and a reader that reads must sleep again before it
reads again. In ReaderWriterServer labels and lock agree in one direction only: an
instance thread that ends after a failed write keeps the lock shared for ever.
`ServerLock` therefore says that whoever is in the lock holds it, and that a
holder is in it or on its way out with its client gone; `Newcomers` that a client
not let in yet has no such thread left. `Section` says that the writers' section
has one owner unless a writer was `hasty`, which the property excepts.

### Philosophers

**DiningProofs** (`SectionsAlwaysHeld`, `NeighboursNeverEat`,
`TakeForksTakesBoth`, `NoCircularWait`, `StateIsGuarded`).
`SectionsHeld` is the heart: who owns which section follows from the labels, so
two philosophers are never both past the entry of one section. `FirstClear` is
the fact the code relies on without saying so: after a philosopher has looked at
its first neighbour, that neighbour cannot begin to eat, because its section is
kept until the second one has been looked at. TLC checks `NoHoldAndWait` with
ENABLED, which the prover cannot reason about; what is proved instead is that
whoever owns a section is not waiting in EnterCriticalSection itself, so no ring
of waiting philosophers can close.

### The servers that send to all

**NetworkProofs** (`ServesTheListed`, `SendsInOneOrder`), for the chat and for
the server of numbers at once. `OneOrder` compares what any two sockets have got,
as sequences, and is not inductive: it does not say why the next text comes at
the end for the second client, too. The argument is about the thread that walks:
it owns the section from its first send to its last, so the list does not change
under it and nobody else sends; and the invariant says of its text (`Latest`)
that it is the last one wherever it has arrived, and has not arrived where the
walk still goes. When it arrives there, it is behind everything both have got
(`NextGets`, `OrderKept`). When a walk begins, its text is in no socket
(`WayBegins`), which needs that no text is sent twice. For the server of numbers
that is the count of its thread (`Numbered`). In the chat it is the longest part of
the proof: `Coming` are the texts a client's thread may still come to send, from what
its user may still type, what is on its way up, and where the thread is;
`Fresh` says that none of them is in a socket. `WordsUp` says that the name comes
first, QUIT last, and no line twice.
`ServesTheListed` needs that the list is injective, so that `RemoveFirst`, which
removes one place, removes the client (`InRemoved`; the source's `list::remove`
removes every place, and with the list injective there is only one), and that a
client is added and removed only by its own thread. Where the section was entered
before it existed (`hasty`) there is no order, and the property says so.

### The programs that talk through the system

**ProgramsProofs** (`EveryEchoMatches`, `OneHandPerConnection`,
`OneWorkerForEachClient`, `EverythingReadWhole`, `NoTimerIsEarly`,
`EveryDeviceListed`), for any number of clients, workers, texts and messages, and
words of any size. A step of all programs is a step of one
and a stutter of the others (`StepsOfAll`), so the invariant is the conjunction of
one for each.

The longest is that of the sockets. `OneHand` says that two workers never handle
completions of one client (one that only prints may be late, and is no hand); it is
inductive only with what the code never says: a completion in
the queue, a completion in the hands of a worker, and an operation under way
exclude each other for each connection (`QueueAlone`, `BusyAlone`, `Apart`,
`HandOf`), because an operation is started only by whoever holds the last
completion of its client, and a completion comes only from an operation. A worker
that has closed a socket has nothing left of it in the queue.
`OneWorkerEach` is about how a worker is lost: by QUIT, or by a call or a completion
that fails on a connection that was reset, and after any of these the connection
has no operation and no completion left, so that it costs no second one
(`Unhandled`; `WorkersInv` says that no more workers have returned than there are such
clients).
`EchoIsStream` says that what a client was sent begins what it has sent, which is
no longer true after a step if the server's hand is forgotten: `StreamInv` says
that what was sent back, followed by what the server holds (`InHand`) and by what is on
its way up, is all the client has sent, as long as it is there; when it is gone
nothing is sent to it any more and only the prefix is left (`Beginning`). A
receive moves texts from the way into the hand, a send from the hand to the
client, and neither changes the whole (`Regrouped`, `TextAppended`). What is in
the hand depends on `BytesRecv` in CompletionPortServer: it says whether the
buffer has still to be sent or has been.

`RedirectedInv`: there is one number under way between the two processes, in one of
three places, and it is the one the client waits for. `MemoryInv`: whoever copies
or reads owns the mutex, so the halves differ only while the server is between
them or was killed there; a client that has no handle of the mutex owns nothing.
`SlotInv`: what was shown, followed by what is in the slot, is all that was
written; a count is too low by at most the messages that came after it. `TimerInv`:
what a program has waited and what remains on its timer make its whole time, as
long as it has the timer for itself and the time fits into the word (`AloneWaits`).

The last part, `EveryDeviceListed`, is about SystemInformation alone (`DevicesListed`
of its own specification, for any finite set of devices). It lists the devices class
by class, from lists that are taken at different times while devices come and go.
`ReportInv` says what has been read (`Read`): the classes before the one it is at, and
of that one the entries before `iIdx`; what was read and is still there is in the
list, and nothing is in it that was not read. A new entry has been read neither in
another class, because no class is in the list of classes twice, nor in this one,
because Windows lists no device twice.

### Only model-checked

- Liveness under fairness, and `NoHoldAndWait` with its ENABLED: out of the
  prover's reach.
- The tools (`ProcessesListed`, `ChosenIsMeant`, `SettingsLast`, `ReportsTrue`), but
  for `DevicesListed`.
  ProcessTree and the quicksort of Containers are recursive operators, which the
  prover does not take in any module that MCTools reaches. Moving them away would
  not be enough: the scan, the rows of the main screen and the fields of the settings
  filter and order their lists with `SelectSeq` and `SetToSortSeq`, and the prover
  knows nothing of `SelectSeq` and `SortSeq`, not even that they give sequences.
  The exception programs have no constants, so TLC visits all there is.

The number of message numbers, texts and spurious wake-ups is a bound of the
models and stays one in the theorems, which hold for every value of it.

## 5. Not modelled, and why

- `Template`: the skeleton the other programs were copied from, without
  synchronization. `Signals`: prints which signal it has got.
- `Logger`: formatting and output. The parts a property is about (the buffer of
  the log of the exception programs) are in StructuredExceptions.
- SystemInformation's numbers that go from one call of the system to the output.
- top's drawing, colours, columns and their formatting, the meters' arithmetic,
  the screens that show the output of a started program (trace, open files): one
  pass from input to output without state that outlives it.
- Reports and logs: prose and records of runs; quoted where a finding needs them.

## 6. Plan

1. The shares of processor time in `ProcessList_scan` (differences of counters
   that may go backwards), and the trace screen with its child process.
2. The safety of ProcessTable (`ListIsTable`, `NoneMissed`, `CountersMatch`) for any
   set of pids, once filtering a list can be reasoned about.
