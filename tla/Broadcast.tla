------------------------------ MODULE Broadcast ------------------------------
(***************************************************************************)
(* The task the one-writer programs set themselves (lab3.tex: "one writer  *)
(* and N readers"): the writer puts one message after another into one     *)
(* shared cell, each reader reads each message exactly once, and the       *)
(* writer waits until all of them have read it.  Message numbers and the   *)
(* number of reads are counted modulo MsgNums.                             *)
(***************************************************************************)
EXTENDS Naturals

CONSTANTS Readers, MsgNums

VARIABLES msg,      \* the message in the cell, 0 before the first one
          times,    \* how many messages each reader has read
          got       \* the last message each reader read

vars == <<msg, times, got>>

Init == /\ msg = 0
        /\ times = [r \in Readers |-> 0]
        /\ got = [r \in Readers |-> 0]

Write == /\ \A r \in Readers : times[r] = msg
         /\ msg' = (msg + 1) % MsgNums
         /\ UNCHANGED <<times, got>>

Read(r) == /\ times[r] # msg
           /\ times' = [times EXCEPT ![r] = (@ + 1) % MsgNums]
           /\ got' = [got EXCEPT ![r] = msg]
           /\ UNCHANGED msg

Next == Write \/ \E r \in Readers : Read(r)

Spec == Init /\ [][Next]_vars
=============================================================================
