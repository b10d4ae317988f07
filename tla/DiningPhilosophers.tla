------------------------- MODULE DiningPhilosophers -------------------------
(***************************************************************************)
(* src/src/SynchronizationPrimitives/DiningPhilosophersProblem: no object  *)
(* stands for a fork.  Each philosopher has a state and a critical section *)
(* that guards it; to eat, a philosopher enters its own section, then      *)
(* tries those of its two neighbours in a random order and starts to eat   *)
(* when neither of them is eating.                                         *)
(***************************************************************************)
EXTENDS Integers

CONSTANTS N,            \* philosophers at the table (5 in the program)
          Nobody        \* owner of a free critical section

Philosophers == 0 .. N - 1

ASSUME TableAssumption == N \in Nat /\ N >= 3
ASSUME NobodyAssumption == Nobody \notin Philosophers

VARIABLES philosopher_state,
          crs,          \* the owner of each critical section
          hand,         \* the hand each philosopher tries first
          pc

vars == <<philosopher_state, crs, hand, pc>>

Left(i)  == (i + N - 1) % N
Right(i) == (i + 1) % N

Hands == {"left", "right"}
First(i)  == IF hand[i] = "left" THEN Left(i) ELSE Right(i)
Second(i) == IF hand[i] = "left" THEN Right(i) ELSE Left(i)

Eating(i) == philosopher_state[i] = "eating"
-----------------------------------------------------------------------------
Step(i, from, to) == pc[i] = from /\ pc' = [pc EXCEPT ![i] = to]

(* EnterCriticalSection waits for the owner to leave, TryEnter... does not. *)
Enter(i, s)  == crs[s] = Nobody /\ crs' = [crs EXCEPT ![s] = i]
TryEnter(i, s, from, entered, failed) ==
  /\ pc[i] = from
  /\ \/ Enter(i, s) /\ pc' = [pc EXCEPT ![i] = entered]
     \/ crs[s] # Nobody /\ UNCHANGED crs /\ pc' = [pc EXCEPT ![i] = failed]
Leave(s) == crs' = [crs EXCEPT ![s] = Nobody]

(* think(), and the loop of take_forks after wait(): a hand is chosen.     *)
ChooseHand(i) ==
  /\ \E h \in Hands : hand' = [hand EXCEPT ![i] = h]
  /\ Step(i, "choose", "enter")
  /\ UNCHANGED <<philosopher_state, crs>>

EnterOwn(i) ==
  /\ Enter(i, i)
  /\ Step(i, "enter", "hungry")
  /\ UNCHANGED <<philosopher_state, hand>>

BecomeHungry(i) ==
  /\ philosopher_state' = [philosopher_state EXCEPT ![i] = "hungry"]
  /\ Step(i, "hungry", "try first")
  /\ UNCHANGED <<crs, hand>>

(* Mutant: the first neighbour's section is entered, not tried.            *)
EnterFirst(i) ==
  /\ Enter(i, First(i))
  /\ Step(i, "try first", "look first")
  /\ UNCHANGED <<philosopher_state, hand>>

TryFirst(i) ==
  /\ TryEnter(i, First(i), "try first", "look first", "leave own")
  /\ UNCHANGED <<philosopher_state, hand>>

(* Mutant: the first section is not left when its owner is eating.         *)
LookFirstKeep(i) ==
  /\ Step(i, "look first",
          IF Eating(First(i)) THEN "leave own" ELSE "try second")
  /\ UNCHANGED <<philosopher_state, crs, hand>>

LookFirst(i) ==
  /\ Step(i, "look first",
          IF Eating(First(i)) THEN "leave first" ELSE "try second")
  /\ UNCHANGED <<philosopher_state, crs, hand>>

TrySecond(i) ==
  /\ TryEnter(i, Second(i), "try second", "look second", "leave first")
  /\ UNCHANGED <<philosopher_state, hand>>

(* Mutant: the second neighbour's state is not looked at.                  *)
LookSecondNot(i) ==
  /\ Step(i, "look second", "leave second")
  /\ philosopher_state' = [philosopher_state EXCEPT ![i] = "eating"]
  /\ UNCHANGED <<crs, hand>>

LookSecond(i) ==
  /\ Step(i, "look second", "leave second")
  /\ philosopher_state' = IF Eating(Second(i)) THEN philosopher_state
                          ELSE [philosopher_state EXCEPT ![i] = "eating"]
  /\ UNCHANGED <<crs, hand>>

LeaveSecond(i) ==
  /\ Leave(Second(i))
  /\ Step(i, "leave second", "leave first")
  /\ UNCHANGED <<philosopher_state, hand>>

LeaveFirst(i) ==
  /\ Leave(First(i))
  /\ Step(i, "leave first", "leave own")
  /\ UNCHANGED <<philosopher_state, hand>>

(* Mutant: take_forks returns after one try.                               *)
LeaveOwnDone(i) ==
  /\ Leave(i)
  /\ Step(i, "leave own", "eat")
  /\ UNCHANGED <<philosopher_state, hand>>

(* `done' was set together with the state: an eating philosopher returns   *)
(* from take_forks, another one waits and tries again.                     *)
LeaveOwn(i) ==
  /\ Leave(i)
  /\ Step(i, "leave own", IF Eating(i) THEN "eat" ELSE "choose")
  /\ UNCHANGED <<philosopher_state, hand>>

take_forks(i) ==
  \/ ChooseHand(i) \/ EnterOwn(i) \/ BecomeHungry(i)
  \/ TryFirst(i) \/ LookFirst(i) \/ TrySecond(i) \/ LookSecond(i)
  \/ LeaveSecond(i) \/ LeaveFirst(i) \/ LeaveOwn(i)

(* Mutant: put_forks does not enter the section.                           *)
PutEnterNot(i) ==
  /\ Step(i, "eat", "put")
  /\ UNCHANGED <<philosopher_state, crs, hand>>

PutEnter(i) ==
  /\ Enter(i, i)
  /\ Step(i, "eat", "put")
  /\ UNCHANGED <<philosopher_state, hand>>

PutState(i) ==
  /\ philosopher_state' = [philosopher_state EXCEPT ![i] = "thinking"]
  /\ Step(i, "put", "put leave")
  /\ UNCHANGED <<crs, hand>>

PutLeave(i) ==
  /\ Leave(i)
  /\ Step(i, "put leave", "choose")
  /\ UNCHANGED <<philosopher_state, hand>>

put_forks(i) == PutEnter(i) \/ PutState(i) \/ PutLeave(i)

Philosopher(i) == take_forks(i) \/ put_forks(i)
-----------------------------------------------------------------------------
Init ==
  /\ philosopher_state = [i \in Philosophers |-> "thinking"]
  /\ crs = [i \in Philosophers |-> Nobody]
  /\ hand \in [Philosophers -> Hands]
  /\ pc = [i \in Philosophers |-> "choose"]

Next == \E i \in Philosophers : Philosopher(i)

Spec == Init /\ [][Next]_vars

(* Every philosopher runs.  Between two tries a neighbour sleeps for at    *)
(* least 50 ms outside all sections, so a thread that waits in put_forks'  *)
(* EnterCriticalSection, which the leaving thread wakes, gets its section  *)
(* at last: strong fairness of that step.                                  *)
Fairness == \A i \in Philosophers : /\ WF_vars(Philosopher(i))
                                    /\ SF_vars(PutEnter(i))

FairSpec == Spec /\ Fairness
-----------------------------------------------------------------------------
OwnHeld    == {"hungry", "try first", "look first", "try second",
               "look second", "leave second", "leave first", "leave own",
               "put", "put leave"}
FirstHeld  == {"look first", "try second", "look second", "leave second",
               "leave first"}
SecondHeld == {"look second", "leave second"}
Labels     == OwnHeld \cup {"choose", "enter", "eat"}

(* Types of all variables.                                                 *)
TypeOK ==
  /\ philosopher_state \in [Philosophers -> {"thinking", "hungry", "eating"}]
  /\ crs \in [Philosophers -> Philosophers \cup {Nobody}]
  /\ hand \in [Philosophers -> Hands]
  /\ pc \in [Philosophers -> Labels]

Held(i, s) == \/ s = i /\ pc[i] \in OwnHeld
              \/ s = First(i) /\ pc[i] \in FirstHeld
              \/ s = Second(i) /\ pc[i] \in SecondHeld

(* Every section that is entered is left again on every path: who owns     *)
(* what follows from where each philosopher is in take_forks or put_forks. *)
SectionsHeld ==
  /\ TypeOK
  /\ \A i, s \in Philosophers : crs[s] = i <=> Held(i, s)

(* The property the program is for: two neighbours, who share a fork,      *)
(* never eat at the same time.                                             *)
NeighboursDoNotEat ==
  \A i \in Philosophers : Eating(i) => ~Eating(Left(i)) /\ ~Eating(Right(i))

(* "Either both forks or blocked" (main.cpp:48): whoever returns from      *)
(* take_forks and eats has both forks, and holds no section while eating.  *)
BothForks ==
  \A i \in Philosophers :
    pc[i] = "eat" => /\ Eating(i)
                     /\ ~Eating(Left(i)) /\ ~Eating(Right(i))
                     /\ \A s \in Philosophers : crs[s] # i

(* No hold and wait, hence no deadlock: a philosopher that cannot move     *)
(* holds no section, whatever hands they choose.                           *)
NoHoldAndWait ==
  \A i \in Philosophers :
    ~ENABLED Philosopher(i) => \A s \in Philosophers : crs[s] # i

(* A philosopher's state is changed by itself and only under its own       *)
(* section, so that a neighbour that holds the section can rely on it.     *)
StateGuarded ==
  [][\A i \in Philosophers :
       philosopher_state'[i] # philosopher_state[i] => crs[i] = i]_vars

(* Forks that were taken are put back.                                     *)
ForksPutBack == \A i \in Philosophers : Eating(i) ~> ~Eating(i)
=============================================================================
