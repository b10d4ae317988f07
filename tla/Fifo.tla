-------------------------------- MODULE Fifo --------------------------------
(***************************************************************************)
(* What the producer/consumer programs of SynchronizationPrimitives        *)
(* promise: one queue of at most Size messages, every writer numbers its   *)
(* messages one after another, and every message that leaves the queue is  *)
(* the oldest one, given to exactly one reader.                            *)
(***************************************************************************)
EXTENDS Naturals, Sequences

CONSTANTS Readers, Writers, Size, MsgNums, NULL

VARIABLES buf,      \* the messages in the queue, oldest first
          msgnum,   \* number of the next message of each writer
          printed   \* the last message each reader printed

vars == <<buf, msgnum, printed>>

Init == /\ buf = <<>>
        /\ msgnum = [w \in Writers |-> 0]
        /\ printed = [r \in Readers |-> NULL]

Put(w) == /\ Len(buf) < Size
          /\ buf' = Append(buf, <<w, msgnum[w]>>)
          /\ msgnum' = [msgnum EXCEPT ![w] = (@ + 1) % MsgNums]
          /\ UNCHANGED printed

Get(r) == /\ buf # <<>>
          /\ printed' = [printed EXCEPT ![r] = Head(buf)]
          /\ buf' = Tail(buf)
          /\ UNCHANGED msgnum

Next == \/ \E w \in Writers : Put(w)
        \/ \E r \in Readers : Get(r)

Spec == Init /\ [][Next]_vars
=============================================================================
