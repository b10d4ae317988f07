----------------------------- MODULE SharedTimer -----------------------------
(***************************************************************************)
(* How the programs of SynchronizationPrimitives come to their end: the    *)
(* configuration says after how many seconds, or that the operator says so.*)
(* The timer has a name, the same in all of the programs: those that run at*)
(* the same time have one timer, which each of them sets anew and which    *)
(* wakes one of them.  A unit of time is a tick, of which a second has     *)
(* Second; -1 * sec * 10000000 is computed in 32 bits, here in words that  *)
(* hold 2 * Half numbers.                                                  *)
(***************************************************************************)
EXTENDS Integers

CONSTANTS Running,                   \* the programs that are started
          Ttls,                      \* the times their configurations may ask for
          Second, Half

VARIABLES phase, ttl,                \* what a program does, its configuration
          holders, remaining, signaled, \* the timer: who has it open, the ticks
                                     \*   to its end (Unset if it is not running)
          alone,                     \* nobody else has set the timer while it waited
          waited                     \* for how long it has waited, up to Half ticks

vars == <<phase, ttl, holders, remaining, signaled, alone, waited>>

Unset == -1
Stage(p, from, to) == phase[p] = from /\ phase' = [phase EXCEPT ![p] = to]
Waiting == {p \in Running : phase[p] = "wait"}
-----------------------------------------------------------------------------
(* SetConfig exits when any of the numbers is out of its range; a negative *)
(* ttl asks for the operator's command.                                    *)
SetConfig(p) ==
  \E sec \in Ttls \cup {-1, 0}, inRange \in BOOLEAN :
    /\ Stage(p, "config", CASE ~inRange \/ sec = 0 -> "refused"
                            [] inRange /\ sec < 0 -> "command"
                            [] inRange /\ sec > 0 -> "create")
    /\ ttl' = [ttl EXCEPT ![p] = sec]
    /\ UNCHANGED <<holders, remaining, signaled, alone, waited>>

SetDefaultConfig(p) ==
  /\ Stage(p, "config", "create")
  /\ ttl' = [ttl EXCEPT ![p] = 3]
  /\ UNCHANGED <<holders, remaining, signaled, alone, waited>>

OperatorCommand(p) ==
  /\ Stage(p, "command", "done")
  /\ UNCHANGED <<ttl, holders, remaining, signaled, alone, waited>>

(* The timer there is under the name, or a new one                         *)
CreateWaitableTimer(p) ==
  /\ Stage(p, "create", "set")
  /\ holders' = holders \cup {p}
  /\ UNCHANGED <<ttl, remaining, signaled, alone, waited>>

Word(n) == ((n + Half) % (2 * Half)) - Half

(* Mutant: the sign is left out.                                           *)
EndTimeDate(sec) == Word(sec * Second)

(* Below 0 the time from now; otherwise a date, and one that has passed.   *)
EndTime(sec) == Word(-1 * sec * Second)

SetWaitableTimer(p) ==
  /\ Stage(p, "set", "wait")
  /\ remaining' = IF EndTime(ttl[p]) < 0 THEN -EndTime(ttl[p]) ELSE 0
  /\ signaled' = FALSE
  /\ alone' = [q \in Running |-> IF q = p THEN Waiting = {}
                                 ELSE alone[q] /\ q \notin Waiting]
  /\ waited' = [waited EXCEPT ![p] = 0]
  /\ UNCHANGED <<ttl, holders>>

(* A synchronization timer: the wait that succeeds resets it.              *)
WaitForTimer(p) ==
  /\ signaled /\ Stage(p, "wait", "close")
  /\ signaled' = FALSE
  /\ UNCHANGED <<ttl, holders, remaining, alone, waited>>

CloseTimer(p) ==
  /\ Stage(p, "close", "done")
  /\ holders' = holders \ {p}
  /\ remaining' = IF holders' = {} THEN Unset ELSE remaining
  /\ signaled' = (signaled /\ holders' # {})
  /\ UNCHANGED <<ttl, alone, waited>>

TimeManager(p) == \/ OperatorCommand(p) \/ CreateWaitableTimer(p) \/ SetWaitableTimer(p)
                  \/ WaitForTimer(p) \/ CloseTimer(p)

Expires ==
  /\ remaining = 0 /\ remaining' = Unset /\ signaled' = TRUE
  /\ UNCHANGED <<phase, ttl, holders, alone, waited>>

(* The system may be late, never early.                                    *)
Tick ==
  /\ remaining' = IF remaining > 0 THEN remaining - 1 ELSE remaining
  /\ waited' = [p \in Running |-> IF p \in Waiting /\ waited[p] < Half
                                  THEN waited[p] + 1 ELSE waited[p]]
  /\ UNCHANGED <<phase, ttl, holders, signaled, alone>>
-----------------------------------------------------------------------------
Init == /\ phase = [p \in Running |-> "config"] /\ ttl = [p \in Running |-> 0]
        /\ holders = {} /\ remaining = Unset /\ signaled = FALSE
        /\ alone = [p \in Running |-> TRUE] /\ waited = [p \in Running |-> 0]

Next == \/ \E p \in Running : \/ SetConfig(p) \/ SetDefaultConfig(p)
                              \/ TimeManager(p)
        \/ Expires \/ Tick

(* The operator is not forced to say anything.                             *)
Goes(p) == TimeManager(p) /\ phase[p] # "command"

Fairness == /\ \A p \in Running : WF_vars(Goes(p))
            /\ WF_vars(Expires) /\ WF_vars(Tick)

Spec == Init /\ [][Next]_vars /\ Fairness
-----------------------------------------------------------------------------
TypeOK ==
  /\ phase \in [Running -> {"config", "refused", "command", "create", "set", "wait",
                            "close", "done"}]
  /\ ttl \in [Running -> Ttls \cup {-1, 0, 3}]
  /\ holders \subseteq Running /\ remaining \in Unset .. Half /\ signaled \in BOOLEAN
  /\ alone \in [Running -> BOOLEAN] /\ waited \in [Running -> 0 .. Half]
  /\ Waiting \subseteq holders

(* A program that has the timer for itself does not end before its time,   *)
(* if that fits into the word (utils.cpp:14: up to 214 seconds).           *)
NeverEarly ==
  \A p \in Running :
    phase[p] = "close" /\ alone[p] /\ ttl[p] * Second <= Half => waited[p] >= ttl[p] * Second

(* A program that nobody took the timer from ends, whatever its ttl.       *)
Pending(p) == phase[p] \in {"create", "set", "wait", "close"} /\ alone[p]
ComesToItsEnd == \A p \in Running : []<>~Pending(p)
=============================================================================
