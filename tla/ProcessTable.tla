---------------------------- MODULE ProcessTable ----------------------------
(***************************************************************************)
(* The processes top knows of: ProcessList_scan of ProcessList.c, which    *)
(* reads /proc entry by entry while processes and threads come and go, and *)
(* the vector and the table it keeps them in.                              *)
(***************************************************************************)
EXTENDS Containers

CONSTANTS Pids,          \* the pids of the system
          MaxBirths       \* bound: how often a pid is given away

ASSUME PidsAssumption == Pids \subseteq Nat \ {0} /\ MaxBirths \in Nat \ {0}

Absent == [absent |-> TRUE]

VARIABLES kernel, lives,             \* what runs; how often a pid was given away
          processes, processTable,   \* the list, and the table by pid
          object,                    \* the Process of a pid in them
          hideKernelThreads, hideUserlandThreads, showThreadNames, showingThreadNames,
          totalTasks, userlandThreads, kernelThreads,
          entries, tasks, step,      \* the directories that are read
          freed,                     \* deleted, and still in the list
          through, met, again        \* who lived all through the scan, or a part; met twice

settings == <<hideKernelThreads, hideUserlandThreads, showThreadNames>>
counters == <<totalTasks, userlandThreads, kernelThreads>>
listVars == <<processes, processTable, object, freed>>
tableVars == <<kernel, lives, listVars, settings, showingThreadNames, counters,
               entries, tasks, step, through, met, again>>

Alive == {p \in Pids : kernel[p] # Absent}
Group(p) == {q \in Alive : kernel[q].leader = kernel[p].leader}
SumLives == FoldFunction(LAMBDA a, b : a + b, 0, lives)
Listed == Range(processes)
Ascending(pids) == SetToSortSeq(pids, <)
-----------------------------------------------------------------------------
(* The system: fork and clone, and the end of a thread or of a process     *)
(* with all its threads.                                                   *)
Birth(p, leader, kthread) ==
  /\ step # "undefined" /\ p \notin Alive /\ SumLives < MaxBirths
  /\ \/ leader = p
     \/ leader \in Alive /\ kernel[leader].leader = leader
        /\ ~kernel[leader].kthread /\ ~kthread
  /\ kernel' = [kernel EXCEPT ![p] = [leader |-> leader, kthread |-> kthread]]
  /\ lives' = [lives EXCEPT ![p] = @ + 1]
  /\ met' = met \cup {p}
  /\ UNCHANGED <<listVars, settings, showingThreadNames, counters, entries, tasks, step,
                 through, again>>

Ended(p) == IF kernel[p].leader = p THEN Group(p) ELSE {p}
Without(dead) == [q \in Pids |-> IF q \in dead THEN Absent ELSE kernel[q]]

Death(p) ==
  /\ step # "undefined" /\ p \in Alive
  /\ kernel' = Without(Ended(p)) /\ through' = through \ Ended(p)
  /\ UNCHANGED <<lives, listVars, settings, showingThreadNames, counters, entries, tasks,
                 step, met, again>>
-----------------------------------------------------------------------------
(* Process_new: the group is 0 until the stat file has been read.          *)
Process_new(p, parent) ==
  [tgid |-> parent, pgrp |-> 0, show |-> TRUE, updated |-> FALSE, old |-> FALSE]

Process_isKernelThread(o) == o.pgrp = 0
Process_isUserlandThread(p, o) == p # o.tgid

Hidden(p, o) == \/ hideKernelThreads /\ Process_isKernelThread(o)
                \/ hideUserlandThreads /\ Process_isUserlandThread(p, o)

ProcessList_add(p, o) ==
  /\ processes' = Vector_add(processes, p)
  /\ processTable' = Hashtable_put(processTable, p)
  /\ object' = [object EXCEPT ![p] = o]

(* Mutant: the process is taken from the list only.                        *)
ListRemoveOnly(p) ==
  /\ processTable' = processTable
  /\ processes' = LET idx == Vector_indexOf(processes, LAMBDA q : q = p)
                  IN IF idx >= 0 THEN Vector_take(processes, idx) ELSE processes
  /\ object' = [object EXCEPT ![p] = Absent]

ProcessList_remove(p) ==
  /\ processTable' = Hashtable_remove(processTable, p)
  /\ processes' = LET idx == Vector_indexOf(processes, LAMBDA q : q = p)
                  IN IF idx >= 0 THEN Vector_take(processes, idx) ELSE processes
  /\ object' = [object EXCEPT ![p] = Absent]

(* The settings are changed by keys between two scans.  The list of the    *)
(* entries of /proc comes from one getdents.                               *)
ScanStart ==
  /\ step = "idle" /\ step' = "leaders"
  /\ hideKernelThreads' \in BOOLEAN /\ hideUserlandThreads' \in BOOLEAN
  /\ showThreadNames' \in BOOLEAN
  /\ object' = [p \in Pids |-> IF p \in Listed THEN [object[p] EXCEPT !.updated = FALSE]
                               ELSE object[p]]
  /\ totalTasks' = 0 /\ userlandThreads' = 0 /\ kernelThreads' = 0
  /\ entries' = Ascending({p \in Alive : kernel[p].leader = p})
  /\ through' = Alive /\ met' = Alive /\ again' = FALSE
  /\ UNCHANGED <<kernel, lives, processes, processTable, freed, tasks, showingThreadNames>>

(* The task directory of an entry lists every thread of its group, the     *)
(* entry itself is skipped; that of a dead one cannot be opened.           *)
OpenTasks ==
  /\ step = "leaders" /\ entries # << >> /\ step' = "tasks"
  /\ tasks' = Ascending(IF Head(entries) \in Alive THEN Group(Head(entries)) \ {Head(entries)}
                        ELSE {})
  /\ UNCHANGED <<kernel, lives, listVars, settings, showingThreadNames, counters, entries,
                 through, met, again>>
-----------------------------------------------------------------------------
Existing(p) == Hashtable_get(processTable, p)

(* `show' is set before the stat file is read: it goes by the group that   *)
(* was read in the scan before.                                            *)
Read(p, parent) ==
  LET o == IF Existing(p) THEN object[p] ELSE Process_new(p, parent)
  IN [o EXCEPT !.show = ~Hidden(p, o), !.pgrp = IF kernel[p].kthread THEN 0 ELSE 1,
               !.updated = TRUE, !.old = Existing(p)]

ReadWhole(p, parent) ==
  LET o == Read(p, parent) IN
  /\ p \in Alive
  /\ IF Existing(p) THEN /\ object' = [object EXCEPT ![p] = o]
                         /\ UNCHANGED <<processes, processTable>>
     ELSE ProcessList_add(p, o)
  /\ again' = (again \/ (Existing(p) /\ object[p].updated))
  /\ totalTasks' = totalTasks + 1
  /\ kernelThreads' = kernelThreads + (IF Process_isKernelThread(o) THEN 1 ELSE 0)
  /\ userlandThreads' = userlandThreads
       + (IF ~Process_isKernelThread(o) /\ Process_isUserlandThread(p, o) THEN 1 ELSE 0)
  /\ UNCHANGED <<kernel, lives, through, freed>>

(* One of the files cannot be read, the process is gone: that it goes      *)
(* between two files is its end before the first, for all that is kept.    *)
ReadFails(p) ==
  /\ p \notin Alive
  /\ IF Existing(p) THEN ProcessList_remove(p) ELSE UNCHANGED <<processes, processTable, object>>
  /\ again' = (again \/ (Existing(p) /\ object[p].updated))
  /\ UNCHANGED <<kernel, lives, through, counters, freed>>

(* ... when the command line of a new thread is read once more, because    *)
(* the names of threads are no longer to be shown: it is in the list by    *)
(* then, and is deleted as if it were not.                                 *)
ReadFailsLate(p, parent) ==
  /\ p \in Alive /\ kernel' = Without(Ended(p)) /\ through' = through \ Ended(p)
  /\ ~Existing(p) /\ showingThreadNames /\ ~showThreadNames
  /\ LET o == Read(p, parent)
     IN ~Process_isKernelThread(o) /\ Process_isUserlandThread(p, o) /\ ProcessList_add(p, o)
  /\ freed' = freed \cup {p}
  /\ UNCHANGED <<lives, counters, again>>

(* What is read into a Process that has been freed is undefined.           *)
ReadFreed(p) == p \in freed /\ step' = "undefined"
                /\ UNCHANGED <<kernel, lives, listVars, counters, through, again>>

ReadEntry(p, parent) ==
  /\ \/ step' # "undefined" /\ p \notin freed
        /\ (ReadWhole(p, parent) \/ ReadFails(p) \/ ReadFailsLate(p, parent))
     \/ ReadFreed(p)
  /\ UNCHANGED <<settings, showingThreadNames, met>>

ReadTask ==
  /\ step = "tasks" /\ tasks # << >> /\ step' \in {"tasks", "undefined"}
  /\ ReadEntry(Head(tasks), Head(entries))
  /\ tasks' = Tail(tasks) /\ UNCHANGED entries

ReadLeader ==
  /\ step = "tasks" /\ tasks = << >> /\ step' \in {"leaders", "undefined"}
  /\ ReadEntry(Head(entries), Head(entries))
  /\ entries' = Tail(entries) /\ UNCHANGED tasks

(* From the last one to the first, what was not updated is removed.        *)
ScanEnd ==
  /\ step = "leaders" /\ entries = << >>
  /\ showingThreadNames' = showThreadNames
  /\ IF freed # {} THEN step' = "undefined" /\ UNCHANGED <<processes, processTable, object>>
     ELSE LET gone == {p \in Listed : ~object[p].updated} IN
          /\ step' = "idle"
          /\ processes' = SelectSeq(processes, LAMBDA p : p \notin gone)
          /\ processTable' = FoldLeft(Hashtable_remove, processTable,
                                      Reverse(SelectSeq(processes, LAMBDA p : p \in gone)))
          /\ object' = [p \in Pids |-> IF p \in gone THEN Absent ELSE object[p]]
  /\ UNCHANGED <<kernel, lives, settings, counters, entries, tasks, freed, through, met, again>>
-----------------------------------------------------------------------------
Init ==
  /\ kernel = [p \in Pids |-> IF p = Min(Pids) THEN [leader |-> p, kthread |-> FALSE]
                              ELSE Absent]
  /\ lives = [p \in Pids |-> IF p = Min(Pids) THEN 1 ELSE 0]
  /\ processes = << >> /\ processTable = Hashtable_new(2)
  /\ object = [p \in Pids |-> Absent]
  /\ hideKernelThreads = FALSE /\ hideUserlandThreads = FALSE
  /\ showThreadNames = FALSE /\ showingThreadNames = FALSE
  /\ totalTasks = 0 /\ userlandThreads = 0 /\ kernelThreads = 0
  /\ entries = << >> /\ tasks = << >> /\ step = "idle" /\ freed = {}
  /\ through = {} /\ met = Alive /\ again = FALSE

Scan == ScanStart \/ OpenTasks \/ ReadTask \/ ReadLeader \/ ScanEnd

Next == \/ Scan
        \/ \E p, leader \in Pids, kthread \in BOOLEAN : Birth(p, leader, kthread)
        \/ \E p \in Pids : Death(p)

Spec == Init /\ [][Next]_tableVars
-----------------------------------------------------------------------------
TypeOK ==
  /\ \A p \in Pids : kernel[p] = Absent \/ kernel[p].leader \in Alive
  /\ lives \in [Pids -> 0 .. MaxBirths]
  /\ processes \in Seq(Pids) /\ DOMAIN processTable = 0 .. 1
  /\ totalTasks \in Nat /\ userlandThreads + kernelThreads <= totalTasks
  /\ step \in {"idle", "leaders", "tasks", "undefined"}

(* The list and the table hold the same processes, each once and in its    *)
(* bucket, and what a Process_delete has freed is in neither, unless the   *)
(* names of threads are being switched off.                                *)
ListIsTable ==
  LET keys == Hashtable_foreach(processTable) IN
  /\ IsInjective(processes) /\ IsInjective(keys) /\ Range(keys) = Listed
  /\ \A p \in Listed : Contains(Bucket(processTable, p), p) /\ object[p] # Absent
  /\ \A p \in Pids \ Listed : object[p] = Absent
  /\ freed # {} => showingThreadNames \/ step = "undefined"

(* A scan misses nobody who lives all through it, and leaves nobody in the *)
(* list who was dead before it.                                            *)
NoneMissed == step = "idle" => through \subseteq Listed /\ Listed \subseteq met

(* After a scan the counters are those of the list, unless a pid was given *)
(* away during the scan and was read as a thread and as a process.         *)
CountersMatch ==
  step = "idle" /\ ~again =>
    LET Count(P(_)) == Cardinality({p \in Listed : P(p)}) IN
    /\ totalTasks = Len(processes)
    /\ kernelThreads = Count(LAMBDA p : Process_isKernelThread(object[p]))
    /\ userlandThreads = Count(LAMBDA p : ~Process_isKernelThread(object[p])
                                          /\ Process_isUserlandThread(p, object[p]))

(* After a scan a process is shown unless it is hidden by the settings; a  *)
(* new one counts as a thread of the kernel until it is read again.        *)
ShownRight ==
  step = "idle" =>
    \A p \in {q \in Listed : lives[q] = 1} :
                       /\ object[p].old => object[p].show = ~Hidden(p, object[p])
                      /\ ~object[p].old => hideKernelThreads = ~object[p].show
                                           \/ hideUserlandThreads

(* Until a pid is given away again, a process is listed under its leader.  *)
TgidRight ==
  (\A p \in Pids : lives[p] <= 1) =>
     \A p \in Listed \cap Alive : object[p].tgid = kernel[p].leader
=============================================================================
