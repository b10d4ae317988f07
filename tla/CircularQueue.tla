--------------------------- MODULE CircularQueue ---------------------------
(***************************************************************************)
(* struct FIFOQueue, the circular buffer of the producer/consumer programs *)
(* of src/src/SynchronizationPrimitives, and the statements their threads  *)
(* execute on it.  Each operator here is one statement or condition; the   *)
(* modules that extend this one say which thread executes it, and when.    *)
(***************************************************************************)
EXTENDS Integers, Sequences

CONSTANTS Readers, Writers,   \* the identifiers of the worker threads
          Size,               \* config.sizeOfQueue
          MsgNums,            \* msgnum is an integer modulo MsgNums
          NULL,               \* the null pointer
          Garbage             \* what new[] leaves in a slot

Slots == 0 .. Size - 1
Messages == Writers \X (0 .. MsgNums - 1)
Contained == Messages \cup {NULL, Garbage}

ASSUME SizeAssumption == Size \in Nat \ {0}      \* SetConfig: exit(502)
ASSUME MessageAssumption == /\ MsgNums \in Nat /\ MsgNums > Size
                            /\ NULL \notin Messages /\ Garbage \notin Messages
                            /\ NULL # Garbage

VARIABLES data, readindex, writeindex, full,    \* struct FIFOQueue
          msgnum,      \* a local variable of each writer
          printed      \* the string each reader printed last

queue == <<data, readindex, writeindex, full>>
io == <<msgnum, printed>>

(* Mutant: the index does not wrap around.                                 *)
SuccNoWrap(i) == i + 1
Succ(i) == (i + 1) % Size

(* new[] does not initialize the slots.                                    *)
QueueInit == /\ data \in [Slots -> {NULL, Garbage}]
             /\ readindex = 0 /\ writeindex = 0 /\ full = 0
             /\ msgnum = [w \in Writers |-> 0]
             /\ printed = [r \in Readers |-> NULL]

HasData == readindex # writeindex \/ full = 1
HasRoom == readindex # writeindex \/ full # 1

ClearFull == full' = 0 /\ UNCHANGED <<data, readindex, writeindex, io>>

(* Mutant: the slot keeps the pointer to the string that was freed.        *)
TakeStringKeep(r) == /\ printed' = [printed EXCEPT ![r] = data[readindex]]
                     /\ UNCHANGED <<queue, msgnum>>

(* The string at readindex is printed and freed, and the slot cleared.     *)
TakeString(r) == /\ printed' = [printed EXCEPT ![r] = data[readindex]]
                 /\ data' = [data EXCEPT ![readindex] = NULL]
                 /\ UNCHANGED <<readindex, writeindex, full, msgnum>>

AdvanceRead == /\ readindex' = Succ(readindex)
               /\ UNCHANGED <<data, writeindex, full, io>>

(* The writer puts a copy of its next message at writeindex.               *)
StoreString(w) == /\ data' = [data EXCEPT ![writeindex] = <<w, msgnum[w]>>]
                  /\ msgnum' = [msgnum EXCEPT ![w] = (@ + 1) % MsgNums]
                  /\ UNCHANGED <<readindex, writeindex, full, printed>>

(* Mutant: a full queue is not noticed.                                    *)
AdvanceWriteNoFull == /\ writeindex' = Succ(writeindex)
                      /\ full' = 0
                      /\ UNCHANGED <<data, readindex, io>>

(* writeindex moves, and full says whether it has met readindex.           *)
AdvanceWrite == /\ writeindex' = Succ(writeindex)
                /\ full' = IF writeindex' = readindex THEN 1 ELSE 0
                /\ UNCHANGED <<data, readindex, io>>
-----------------------------------------------------------------------------
QueueTypeOK == /\ data \in [Slots -> Contained]
               /\ readindex \in Slots /\ writeindex \in Slots
               /\ full \in {0, 1}
               /\ msgnum \in [Writers -> 0 .. MsgNums - 1]
               /\ printed \in [Readers -> Contained]

(* The queue as a sequence.  `cleared': a reader has cleared full and has  *)
(* not moved readindex yet; `taken': it has also taken the string at       *)
(* readindex; `stored': a writer has stored a string and has not moved     *)
(* writeindex yet.                                                         *)
Count(cleared) == IF readindex # writeindex THEN (writeindex - readindex) % Size
                  ELSE IF full = 1 \/ cleared THEN Size ELSE 0

QueueAsSeq(cleared, taken, stored) ==
  LET skip == IF taken THEN 1 ELSE 0
      more == IF stored THEN 1 ELSE 0
  IN  [i \in 1 .. Count(cleared) + more - skip |->
         data[(readindex + skip + i - 1) % Size]]
=============================================================================
