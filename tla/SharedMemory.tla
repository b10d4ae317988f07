---------------------------- MODULE SharedMemory ----------------------------
(***************************************************************************)
(* SharedMemoryServer writes texts to a shared block of memory and         *)
(* SharedMemoryClient reads them, both under a mutex, for which the client *)
(* asks by name before it asks for the memory.  Either may be killed.      *)
(***************************************************************************)
EXTENDS Integers

CONSTANTS Texts,           \* the texts are 0 .. Texts - 1
          Readings,        \* how often the client reads
          Server, Client, Nobody

Processes == {Server, Client}

VARIABLES made,            \* what the server has created, in its order
          mutex,           \* its owner
          handle,          \* whether the client's OpenMutex found the mutex
          memory,          \* a text has two halves that are copied in turn
          torn,            \* whether a process died in the middle of a copy
          seen,            \* the halves the client has read
          readings, pc

vars == <<made, mutex, handle, memory, torn, seen, readings, pc>>

Goes(p, from, to) == pc[p] = from /\ pc' = [pc EXCEPT ![p] = to]
-----------------------------------------------------------------------------
(* CreateMutex, then CreateFileMapping and MapViewOfFile.                  *)
CreateMutex ==
  /\ Goes(Server, "start", "map") /\ made' = {"mutex"}
  /\ UNCHANGED <<mutex, handle, memory, torn, seen, readings>>

CreateMapping ==
  /\ Goes(Server, "map", "wait") /\ made' = made \cup {"memory"}
  /\ UNCHANGED <<mutex, handle, memory, torn, seen, readings>>

(* Mutant: nobody waits for the mutex.                                     *)
WaitForMutexNot(p, next) ==
  /\ Goes(p, "wait", next)
  /\ UNCHANGED <<made, mutex, handle, memory, torn, seen, readings>>

(* A mutex whose owner has died is free again.  Without a handle the wait  *)
(* fails and the client goes on.                                           *)
WaitForMutex(p, next) ==
  /\ Goes(p, "wait", next)
  /\ \/ mutex = Nobody /\ mutex' = p
     \/ p = Client /\ ~handle /\ UNCHANGED mutex
  /\ UNCHANGED <<made, handle, memory, torn, seen, readings>>

CopyFirst ==
  /\ Goes(Server, "copy", "second")
  /\ \E text \in 0 .. Texts - 1 : memory' = <<text, memory[2]>>
  /\ UNCHANGED <<made, mutex, handle, torn, seen, readings>>

CopySecond ==
  /\ Goes(Server, "second", "release")
  /\ memory' = <<memory[1], memory[1]>> /\ torn' = FALSE
  /\ UNCHANGED <<made, mutex, handle, seen, readings>>

ReleaseMutex(p, next) ==
  /\ Goes(p, "release", next)
  /\ mutex' = IF mutex = p THEN Nobody ELSE mutex
  /\ UNCHANGED <<made, handle, memory, torn>>

ServerReleases == ReleaseMutex(Server, "wait") /\ UNCHANGED <<seen, readings>>

ServerProcess == \/ CreateMutex \/ CreateMapping \/ WaitForMutex(Server, "copy")
                 \/ CopyFirst \/ CopySecond \/ ServerReleases
-----------------------------------------------------------------------------
(* The client goes on when there is no mutex ...                           *)
OpenMutex ==
  /\ Goes(Client, "start", "map") /\ handle' = ("mutex" \in made)
  /\ UNCHANGED <<made, mutex, memory, torn, seen, readings>>

(* ... and ends when there is no memory.                                   *)
OpenMapping ==
  /\ Goes(Client, "map", IF "memory" \in made THEN "wait" ELSE "ended")
  /\ UNCHANGED <<made, mutex, handle, memory, torn, seen, readings>>

ReadFirst ==
  /\ Goes(Client, "read", "second") /\ seen' = <<memory[1], memory[1]>>
  /\ UNCHANGED <<made, mutex, handle, memory, torn, readings>>

ReadSecond ==
  /\ Goes(Client, "second", "release") /\ seen' = <<seen[1], memory[2]>>
  /\ UNCHANGED <<made, mutex, handle, memory, torn, readings>>

ClientReleases ==
  /\ ReleaseMutex(Client, IF readings + 1 = Readings THEN "ended" ELSE "wait")
  /\ readings' = readings + 1 /\ seen' = <<0, 0>>

ClientProcess == \/ OpenMutex \/ OpenMapping \/ WaitForMutex(Client, "read")
                 \/ ReadFirst \/ ReadSecond \/ ClientReleases

(* The mutex and the memory stay as long as one process has handles.       *)
Killed(p) ==
  /\ pc[p] # "ended" /\ pc' = [pc EXCEPT ![p] = "ended"]
  /\ mutex' = IF mutex = p THEN Nobody ELSE mutex
  /\ torn' = (torn \/ (p = Server /\ pc[p] = "second"))
  /\ made' = IF p = Server /\ pc[Client] \in {"start", "ended"} THEN {}
             ELSE IF p = Server /\ pc[Client] = "map"
             THEN IF handle THEN made \ {"memory"} ELSE {} ELSE made
  /\ UNCHANGED <<handle, memory, seen, readings>>
-----------------------------------------------------------------------------
Init == /\ made = {} /\ mutex = Nobody /\ handle = FALSE
        /\ memory = <<0, 0>> /\ torn = FALSE /\ seen = <<0, 0>> /\ readings = 0
        /\ pc = [p \in Processes |-> "start"]

Next == ServerProcess \/ ClientProcess \/ \E p \in Processes : Killed(p)

Spec == Init /\ [][Next]_vars
-----------------------------------------------------------------------------
TypeOK ==
  /\ made \subseteq {"mutex", "memory"}
  /\ mutex \in Processes \cup {Nobody} /\ handle \in BOOLEAN
  /\ memory \in (0 .. Texts - 1) \X (0 .. Texts - 1)
  /\ seen \in (0 .. Texts - 1) \X (0 .. Texts - 1)
  /\ torn \in BOOLEAN /\ readings \in 0 .. Readings
  /\ pc \in [Processes -> {"start", "map", "wait", "copy", "read", "second",
                           "release", "ended"}]

(* The client reads whole texts, but in two cases: the server was killed in*)
(* the middle of a copy, which leaves the mutex to the client, or the      *)
(* client asked for the mutex before the server had created it, and for the*)
(* memory after that (SharedMemoryClient/main.cpp:23).                     *)
WholeTexts == seen[1] = seen[2] \/ torn \/ ~handle
=============================================================================
