------------------------------ MODULE SlimLock ------------------------------
(***************************************************************************)
(* The slim reader/writer lock and the condition variable condread that    *)
(* OptimalReaderWriter and ReaderWriterServer use together, seen from      *)
(* their threads: SRW locks promise no order among the waiting threads.    *)
(***************************************************************************)
CONSTANT Nobody          \* the exclusive owner of a lock that has none

VARIABLES exclusive,     \* who holds the lock alone
          shared,        \* who holds it together
          condread       \* who sleeps on the condition variable

lock == <<exclusive, shared>>

AcquireSRWLockExclusive(t) ==
  /\ exclusive = Nobody /\ shared = {}
  /\ exclusive' = t /\ UNCHANGED <<shared, condread>>

ReleaseSRWLockExclusive ==
  exclusive' = Nobody /\ UNCHANGED <<shared, condread>>

AcquireSRWLockShared(t) ==
  /\ exclusive = Nobody
  /\ shared' = shared \cup {t} /\ UNCHANGED <<exclusive, condread>>

ReleaseSRWLockShared(t) ==
  shared' = shared \ {t} /\ UNCHANGED <<exclusive, condread>>

(* SleepConditionVariableSRW falls asleep and lets the lock go in one step;*)
(* it returns when it has been woken and has got the lock again.           *)
Sleep(t) == /\ condread' = condread \cup {t}
            /\ shared' = shared \ {t} /\ UNCHANGED exclusive

WakeAllConditionVariable == condread' = {} /\ UNCHANGED lock
=============================================================================
