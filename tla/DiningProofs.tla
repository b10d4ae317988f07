---------------------------- MODULE DiningProofs ----------------------------
(***************************************************************************)
(* Proofs about DiningPhilosophers, for every number N >= 3 of             *)
(* philosophers.  The inductive invariant Inv says who owns which section  *)
(* (SectionsHeld), that a philosopher that holds a neighbour's section and *)
(* has seen it not eating can rely on that (FirstClear), and from which    *)
(* labels somebody eats (EatingAt).                                        *)
(***************************************************************************)
EXTENDS DiningPhilosophers, TLAPS

(* A neighbour whose state has been looked at under its section does not   *)
(* start to eat before the section is left.                                *)
FirstClear ==
  \A i \in Philosophers :
    pc[i] \in {"try second", "look second"} => ~Eating(First(i))

(* Eating lasts from the end of a successful take_forks to put_forks.      *)
EatingAt ==
  \A i \in Philosophers :
    /\ Eating(i) => pc[i] \in {"leave second", "leave first", "leave own",
                               "eat", "put"}
    /\ pc[i] \in {"eat", "put"} => Eating(i)

Inv == SectionsHeld /\ FirstClear /\ EatingAt /\ NeighboursDoNotEat
-----------------------------------------------------------------------------
LEMMA ModOnce ==
  ASSUME NEW n \in Nat, n > 0, NEW a \in Nat, a < 2 * n
  PROVE  a % n = IF a < n THEN a ELSE a - n
<1>1. a = n * (a \div n) + (a % n) /\ a % n \in 0 .. n - 1 /\ a \div n \in Nat
  BY SMT
<1>2. CASE a \div n = 0
  BY <1>1, <1>2, SMT
<1>3. CASE a \div n = 1
  BY <1>1, <1>3, SMT
<1>4. CASE a \div n >= 2
  <2>1. n * (a \div n) >= 2 * n
    BY <1>1, <1>4, SMT
  <2> QED BY <2>1, <1>1, SMT
<1> QED BY <1>1, <1>2, <1>3, <1>4, SMT

(* The table is round: the arithmetic of LEFT and RIGHT.                   *)
LEMMA Neighbours ==
  ASSUME NEW i \in Philosophers
  PROVE  /\ Left(i)  = (IF i = 0 THEN N - 1 ELSE i - 1)
         /\ Right(i) = (IF i = N - 1 THEN 0 ELSE i + 1)
BY ModOnce, TableAssumption DEF Left, Right, Philosophers

LEMMA Seats ==
  ASSUME NEW i \in Philosophers
  PROVE  /\ First(i) \in Philosophers /\ Second(i) \in Philosophers
         /\ First(i) # i /\ Second(i) # i /\ First(i) # Second(i)
         /\ {First(i), Second(i)} = {Left(i), Right(i)}
BY Neighbours, TableAssumption DEF First, Second, Philosophers

(* With three or more at the table, whose neighbour i is, is a neighbour.  *)
LEMMA Mutual ==
  ASSUME NEW i \in Philosophers, NEW j \in Philosophers
  PROVE  /\ Left(j) = i => j = Right(i)
         /\ Right(j) = i => j = Left(i)
BY Neighbours, TableAssumption DEF Philosophers

(* A section has one owner: who holds it keeps every other one out of it.  *)
LEMMA OneOwner ==
  ASSUME SectionsHeld, NEW i \in Philosophers, NEW j \in Philosophers,
         NEW s \in Philosophers, Held(i, s), Held(j, s)
  PROVE  i = j
BY DEF SectionsHeld
-----------------------------------------------------------------------------
(* Everybody thinks and no section is owned at the start.                  *)
LEMMA InitInv == Init => Inv
<1> SUFFICES ASSUME Init PROVE Inv
  OBVIOUS
<1>1. TypeOK
  BY DEF Init, TypeOK, Labels, OwnHeld
<1>2. SectionsHeld
  BY <1>1, NobodyAssumption
  DEF Init, SectionsHeld, Held, OwnHeld, FirstHeld, SecondHeld
<1>3. FirstClear /\ EatingAt
  BY Seats DEF Init, FirstClear, EatingAt, Eating
<1>4. NeighboursDoNotEat
  BY DEF Init, NeighboursDoNotEat, Eating
<1> QED BY <1>2, <1>3, <1>4 DEF Inv

(* A step of p does not change what the others hold.                       *)
LEMMA Others ==
  ASSUME TypeOK, NEW p \in Philosophers, NEW l, pc' = [pc EXCEPT ![p] = l],
         hand' = hand \/ \E h \in Hands : hand' = [hand EXCEPT ![p] = h],
         NEW j \in Philosophers, j # p, NEW s \in Philosophers
  PROVE  Held(j, s)' <=> Held(j, s)
<1>1. pc'[j] = pc[j] /\ hand'[j] = hand[j]
  BY DEF TypeOK
<1> QED BY <1>1 DEF Held, First, Second

(* What p itself holds is a matter of its label.                           *)
LEMMA Itself ==
  ASSUME TypeOK, NEW p \in Philosophers, NEW l, pc' = [pc EXCEPT ![p] = l],
         hand' = hand, NEW s \in Philosophers
  PROVE  Held(p, s)' <=> \/ s = p /\ l \in OwnHeld
                         \/ s = First(p) /\ l \in FirstHeld
                         \/ s = Second(p) /\ l \in SecondHeld
<1>1. pc'[p] = l
  BY DEF TypeOK
<1> QED BY <1>1 DEF Held, First, Second

(* Types are kept by each step.                                            *)
LEMMA TypeStep ==
  ASSUME TypeOK, NEW p \in Philosophers, Philosopher(p)
  PROVE  TypeOK'
<1> USE DEF TypeOK, Labels, OwnHeld, Hands, Step
<1>1. CASE ChooseHand(p) \/ BecomeHungry(p) \/ LookFirst(p) \/ PutState(p)
  BY <1>1 DEF ChooseHand, BecomeHungry, LookFirst, PutState
<1>2. CASE EnterOwn(p) \/ PutEnter(p)
  BY <1>2 DEF EnterOwn, PutEnter, Enter
<1>3. CASE TryFirst(p) \/ TrySecond(p)
  BY <1>3 DEF TryFirst, TrySecond, TryEnter, Enter
<1>4. CASE LookSecond(p)
  BY <1>4 DEF LookSecond
<1>5. CASE LeaveSecond(p) \/ LeaveFirst(p)
  BY <1>5 DEF LeaveSecond, LeaveFirst, Leave
<1>6. CASE LeaveOwn(p) \/ PutLeave(p)
  BY <1>6 DEF LeaveOwn, PutLeave, Leave
<1> QED
  BY <1>1, <1>2, <1>3, <1>4, <1>5, <1>6
  DEF Philosopher, take_forks, put_forks

(* Three ways to keep owners and labels in step.                           *)
(* p holds what it held,                                                       *)
LEMMA OwnershipKept ==
  ASSUME SectionsHeld, NEW p \in Philosophers,
         \A j, t \in Philosophers : j # p => (Held(j, t)' <=> Held(j, t)),
         crs' = crs,
         \A t \in Philosophers : Held(p, t)' <=> Held(p, t)
  PROVE  \A i, t \in Philosophers : crs'[t] = i <=> Held(i, t)'
<1> SUFFICES ASSUME NEW i \in Philosophers, NEW t \in Philosophers
             PROVE  crs'[t] = i <=> Held(i, t)'
  OBVIOUS
<1>1. crs \in [Philosophers -> Philosophers \cup {Nobody}]
  BY DEF SectionsHeld, TypeOK
<1>2. crs[t] = i <=> Held(i, t)
  BY DEF SectionsHeld
<1>3. crs[t] = p <=> Held(p, t)
  BY DEF SectionsHeld
<1> QED BY <1>1, <1>2, <1>3, NobodyAssumption

(* it enters the section s, which is free,                                  *)
LEMMA OwnershipEnter ==
  ASSUME SectionsHeld, NEW p \in Philosophers, NEW s \in Philosophers,
         \A j, t \in Philosophers : j # p => (Held(j, t)' <=> Held(j, t)),
         crs[s] = Nobody, crs' = [crs EXCEPT ![s] = p],
         \A t \in Philosophers : Held(p, t)' <=> (Held(p, t) \/ t = s)
  PROVE  \A i, t \in Philosophers : crs'[t] = i <=> Held(i, t)'
<1> SUFFICES ASSUME NEW i \in Philosophers, NEW t \in Philosophers
             PROVE  crs'[t] = i <=> Held(i, t)'
  OBVIOUS
<1>1. crs \in [Philosophers -> Philosophers \cup {Nobody}]
  BY DEF SectionsHeld, TypeOK
<1>2. crs[t] = i <=> Held(i, t)
  BY DEF SectionsHeld
<1>3. crs[t] = p <=> Held(p, t)
  BY DEF SectionsHeld
<1> QED BY <1>1, <1>2, <1>3, NobodyAssumption

(* or it leaves the section s, which it held.                               *)
LEMMA OwnershipLeave ==
  ASSUME SectionsHeld, NEW p \in Philosophers, NEW s \in Philosophers,
         \A j, t \in Philosophers : j # p => (Held(j, t)' <=> Held(j, t)),
         Held(p, s), crs' = [crs EXCEPT ![s] = Nobody],
         \A t \in Philosophers : Held(p, t)' <=> (Held(p, t) /\ t # s)
  PROVE  \A i, t \in Philosophers : crs'[t] = i <=> Held(i, t)'
<1> SUFFICES ASSUME NEW i \in Philosophers, NEW t \in Philosophers
             PROVE  crs'[t] = i <=> Held(i, t)'
  OBVIOUS
<1>1. crs \in [Philosophers -> Philosophers \cup {Nobody}]
  BY DEF SectionsHeld, TypeOK
<1>2. crs[t] = i <=> Held(i, t)
  BY DEF SectionsHeld
<1>3. crs[t] = p <=> Held(p, t)
  BY DEF SectionsHeld
<1> QED BY <1>1, <1>2, <1>3, NobodyAssumption

(* Ownership follows the labels: a section is entered when nobody has it   *)
(* and left at the label that says so.                                     *)
LEMMA SectionsStep ==
  ASSUME SectionsHeld, NEW p \in Philosophers, Philosopher(p)
  PROVE  SectionsHeld'
<1>t. TypeOK
  BY DEF SectionsHeld
<1>s. /\ First(p) \in Philosophers /\ Second(p) \in Philosophers
      /\ First(p) # p /\ Second(p) # p /\ First(p) # Second(p)
  BY Seats
<1>c. \A t \in Philosophers : crs[t] = p <=> Held(p, t)
  BY DEF SectionsHeld
<1>o. ASSUME NEW l, pc' = [pc EXCEPT ![p] = l],
             hand' = hand \/ \E h \in Hands : hand' = [hand EXCEPT ![p] = h]
      PROVE  \A j, t \in Philosophers : j # p => (Held(j, t)' <=> Held(j, t))
  BY <1>t, <1>o, Others
<1>i. ASSUME NEW l, pc' = [pc EXCEPT ![p] = l], hand' = hand
      PROVE  \A t \in Philosophers :
               Held(p, t)' <=> \/ t = p /\ l \in OwnHeld
                               \/ t = First(p) /\ l \in FirstHeld
                               \/ t = Second(p) /\ l \in SecondHeld
  BY <1>t, <1>i, Itself
<1> DEFINE Owners == \A i, t \in Philosophers : crs'[t] = i <=> Held(i, t)'
<1> SUFFICES Owners
  BY <1>t, TypeStep DEF SectionsHeld
<1>1. CASE ChooseHand(p)
  <2>1. pc' = [pc EXCEPT ![p] = "enter"] /\ crs' = crs
    BY <1>1 DEF ChooseHand, Step
  <2>2. \A t \in Philosophers : ~Held(p, t)
    BY <1>1 DEF ChooseHand, Step, Held, OwnHeld, FirstHeld, SecondHeld
  <2>3. \A t \in Philosophers : ~Held(p, t)'
    BY <2>1, <1>t DEF TypeOK, Held, OwnHeld, FirstHeld, SecondHeld
  <2> QED BY <2>1, <2>2, <2>3, <1>1, <1>o, OwnershipKept DEF ChooseHand
<1>2. CASE EnterOwn(p)
  <2>1. pc[p] = "enter" /\ pc' = [pc EXCEPT ![p] = "hungry"] /\ hand' = hand
        /\ crs[p] = Nobody /\ crs' = [crs EXCEPT ![p] = p]
    BY <1>2 DEF EnterOwn, Step, Enter
  <2>2. \A t \in Philosophers : Held(p, t)' <=> (Held(p, t) \/ t = p)
    BY <2>1, <1>i DEF Held, OwnHeld, FirstHeld, SecondHeld
  <2> QED BY <2>1, <2>2, <1>o, <1>s, OwnershipEnter
<1>3. CASE BecomeHungry(p)
  <2>1. /\ pc[p] = "hungry" /\ pc' = [pc EXCEPT ![p] = "try first"]
        /\ hand' = hand /\ crs' = crs
    BY <1>3 DEF BecomeHungry, Step
  <2>2. \A t \in Philosophers : Held(p, t)' <=> Held(p, t)
    BY <2>1, <1>i DEF Held, OwnHeld, FirstHeld, SecondHeld
  <2> QED BY <2>1, <2>2, <1>o, OwnershipKept
<1>4. CASE TryFirst(p)
  <2>1. CASE /\ pc[p] = "try first" /\ pc' = [pc EXCEPT ![p] = "look first"]
             /\ hand' = hand
             /\ crs[First(p)] = Nobody /\ crs' = [crs EXCEPT ![First(p)] = p]
    <3>1. \A t \in Philosophers : Held(p, t)' <=> (Held(p, t) \/ t = First(p))
      BY <2>1, <1>i DEF Held, OwnHeld, FirstHeld, SecondHeld
    <3> QED BY <2>1, <3>1, <1>o, <1>s, OwnershipEnter
  <2>2. CASE /\ pc[p] = "try first" /\ pc' = [pc EXCEPT ![p] = "leave own"]
             /\ hand' = hand /\ crs' = crs
    <3>1. \A t \in Philosophers : Held(p, t)' <=> Held(p, t)
      BY <2>2, <1>i DEF Held, OwnHeld, FirstHeld, SecondHeld
    <3> QED BY <2>2, <3>1, <1>o, OwnershipKept
  <2> QED BY <2>1, <2>2, <1>4 DEF TryFirst, TryEnter, Enter
<1>5. CASE LookFirst(p)
  <2>1. /\ pc[p] = "look first" /\ pc' = [pc EXCEPT ![p] = IF Eating(First(p))
                                                THEN "leave first"
                                                ELSE "try second"]
        /\ hand' = hand /\ crs' = crs
    BY <1>5 DEF LookFirst, Step
  <2>2. \A t \in Philosophers : Held(p, t)' <=> Held(p, t)
    BY <2>1, <1>i DEF Held, OwnHeld, FirstHeld, SecondHeld
  <2> QED BY <2>1, <2>2, <1>o, OwnershipKept
<1>6. CASE TrySecond(p)
  <2>1. CASE /\ pc[p] = "try second" /\ pc' = [pc EXCEPT ![p] = "look second"]
             /\ hand' = hand
             /\ crs[Second(p)] = Nobody /\ crs' = [crs EXCEPT ![Second(p)] = p]
    <3>1. \A t \in Philosophers : Held(p, t)' <=> (Held(p, t) \/ t = Second(p))
      BY <2>1, <1>i DEF Held, OwnHeld, FirstHeld, SecondHeld
    <3> QED BY <2>1, <3>1, <1>o, <1>s, OwnershipEnter
  <2>2. CASE /\ pc[p] = "try second" /\ pc' = [pc EXCEPT ![p] = "leave first"]
             /\ hand' = hand /\ crs' = crs
    <3>1. \A t \in Philosophers : Held(p, t)' <=> Held(p, t)
      BY <2>2, <1>i DEF Held, OwnHeld, FirstHeld, SecondHeld
    <3> QED BY <2>2, <3>1, <1>o, OwnershipKept
  <2> QED BY <2>1, <2>2, <1>6 DEF TrySecond, TryEnter, Enter
<1>7. CASE LookSecond(p)
  <2>1. /\ pc[p] = "look second" /\ pc' = [pc EXCEPT ![p] = "leave second"]
        /\ hand' = hand /\ crs' = crs
    BY <1>7 DEF LookSecond, Step
  <2>2. \A t \in Philosophers : Held(p, t)' <=> Held(p, t)
    BY <2>1, <1>i DEF Held, OwnHeld, FirstHeld, SecondHeld
  <2> QED BY <2>1, <2>2, <1>o, OwnershipKept
<1>8. CASE LeaveSecond(p)
  <2>1. /\ pc[p] = "leave second" /\ pc' = [pc EXCEPT ![p] = "leave first"]
        /\ hand' = hand /\ crs' = [crs EXCEPT ![Second(p)] = Nobody]
    BY <1>8 DEF LeaveSecond, Step, Leave
  <2>2. Held(p, Second(p))
    BY <2>1, <1>s DEF Held, OwnHeld, FirstHeld, SecondHeld
  <2>3. \A t \in Philosophers : Held(p, t)' <=> (Held(p, t) /\ t # Second(p))
    BY <2>1, <1>i, <1>s DEF Held, OwnHeld, FirstHeld, SecondHeld
  <2>4. \A j, t \in Philosophers : j # p => (Held(j, t)' <=> Held(j, t))
    BY <2>1, <1>o
  <2> QED BY <2>1, <2>2, <2>3, <2>4, <1>s, OwnershipLeave
<1>9. CASE LeaveFirst(p)
  <2>1. /\ pc[p] = "leave first" /\ pc' = [pc EXCEPT ![p] = "leave own"]
        /\ hand' = hand /\ crs' = [crs EXCEPT ![First(p)] = Nobody]
    BY <1>9 DEF LeaveFirst, Step, Leave
  <2>2. Held(p, First(p))
    BY <2>1, <1>s DEF Held, OwnHeld, FirstHeld, SecondHeld
  <2>3. \A t \in Philosophers : Held(p, t)' <=> (Held(p, t) /\ t # First(p))
    BY <2>1, <1>i, <1>s DEF Held, OwnHeld, FirstHeld, SecondHeld
  <2>4. \A j, t \in Philosophers : j # p => (Held(j, t)' <=> Held(j, t))
    BY <2>1, <1>o
  <2> QED BY <2>1, <2>2, <2>3, <2>4, <1>s, OwnershipLeave
<1>10. CASE LeaveOwn(p)
  <2>1. /\ pc[p] = "leave own" /\ pc' = [pc EXCEPT ![p] = IF Eating(p) THEN "eat" ELSE "choose"]
        /\ hand' = hand /\ crs' = [crs EXCEPT ![p] = Nobody]
    BY <1>10 DEF LeaveOwn, Step, Leave
  <2>2. Held(p, p)
    BY <2>1, <1>s DEF Held, OwnHeld, FirstHeld, SecondHeld
  <2>3. \A t \in Philosophers : Held(p, t)' <=> (Held(p, t) /\ t # p)
    <3>1. \A t \in Philosophers : Held(p, t) => t = p
      BY <2>1 DEF Held, FirstHeld, SecondHeld
    <3>2. \A t \in Philosophers : ~Held(p, t)'
      BY <2>1, <1>t DEF TypeOK, Held, OwnHeld, FirstHeld, SecondHeld
    <3> QED BY <3>1, <3>2
  <2>4. \A j, t \in Philosophers : j # p => (Held(j, t)' <=> Held(j, t))
    BY <2>1, <1>o
  <2>5. crs' = [crs EXCEPT ![p] = Nobody]
    BY <2>1
  <2> QED BY <2>2, <2>3, <2>4, <2>5, OwnershipLeave, Zenon
<1>11. CASE PutEnter(p)
  <2>1. pc[p] = "eat" /\ pc' = [pc EXCEPT ![p] = "put"] /\ hand' = hand
        /\ crs[p] = Nobody /\ crs' = [crs EXCEPT ![p] = p]
    BY <1>11 DEF PutEnter, Step, Enter
  <2>2. \A t \in Philosophers : Held(p, t)' <=> (Held(p, t) \/ t = p)
    BY <2>1, <1>i DEF Held, OwnHeld, FirstHeld, SecondHeld
  <2> QED BY <2>1, <2>2, <1>o, <1>s, OwnershipEnter
<1>12. CASE PutState(p)
  <2>1. /\ pc[p] = "put" /\ pc' = [pc EXCEPT ![p] = "put leave"]
        /\ hand' = hand /\ crs' = crs
    BY <1>12 DEF PutState, Step
  <2>2. \A t \in Philosophers : Held(p, t)' <=> Held(p, t)
    BY <2>1, <1>i DEF Held, OwnHeld, FirstHeld, SecondHeld
  <2> QED BY <2>1, <2>2, <1>o, OwnershipKept
<1>13. CASE PutLeave(p)
  <2>1. /\ pc[p] = "put leave" /\ pc' = [pc EXCEPT ![p] = "choose"]
        /\ hand' = hand /\ crs' = [crs EXCEPT ![p] = Nobody]
    BY <1>13 DEF PutLeave, Step, Leave
  <2>2. Held(p, p)
    BY <2>1, <1>s DEF Held, OwnHeld, FirstHeld, SecondHeld
  <2>3. \A t \in Philosophers : Held(p, t)' <=> (Held(p, t) /\ t # p)
    <3>1. \A t \in Philosophers : Held(p, t) => t = p
      BY <2>1 DEF Held, FirstHeld, SecondHeld
    <3>2. \A t \in Philosophers : ~Held(p, t)'
      BY <2>1, <1>t DEF TypeOK, Held, OwnHeld, FirstHeld, SecondHeld
    <3> QED BY <3>1, <3>2
  <2>4. \A j, t \in Philosophers : j # p => (Held(j, t)' <=> Held(j, t))
    BY <2>1, <1>o
  <2>5. crs' = [crs EXCEPT ![p] = Nobody]
    BY <2>1
  <2> QED BY <2>2, <2>3, <2>4, <2>5, OwnershipLeave, Zenon
<1> QED
  BY <1>1, <1>2, <1>3, <1>4, <1>5, <1>6, <1>7, <1>8, <1>9, <1>10, <1>11,
     <1>12, <1>13 DEF Philosopher, take_forks, put_forks

(* A step of p changes no state but p's own.                               *)
LEMMA StateStep ==
  ASSUME TypeOK, NEW p \in Philosophers, Philosopher(p)
  PROVE  \/ philosopher_state' = philosopher_state
         \/ /\ pc[p] = "hungry"
            /\ philosopher_state' = [philosopher_state EXCEPT ![p] = "hungry"]
         \/ /\ pc[p] = "put"
            /\ philosopher_state' = [philosopher_state EXCEPT ![p] = "thinking"]
         \/ /\ pc[p] = "look second" /\ ~Eating(Second(p))
            /\ pc' = [pc EXCEPT ![p] = "leave second"]
            /\ philosopher_state' = [philosopher_state EXCEPT ![p] = "eating"]
BY DEF Philosopher, take_forks, put_forks, ChooseHand, EnterOwn, BecomeHungry,
   TryFirst, LookFirst, TrySecond, LookSecond, LeaveSecond, LeaveFirst,
   LeaveOwn, PutEnter, PutState, PutLeave, TryEnter, Step

(* Where p goes, as far as eating and the neighbour it has looked at are   *)
(* concerned.                                                              *)
LEMMA LabelStep ==
  ASSUME TypeOK, NEW p \in Philosophers, Philosopher(p)
  PROVE  /\ \A j \in Philosophers : j # p => pc'[j] = pc[j] /\ hand'[j] = hand[j]
         /\ pc'[p] = "try second" =>
              pc[p] = "look first" /\ hand' = hand /\ ~Eating(First(p))
         /\ pc'[p] = "look second" => pc[p] = "try second" /\ hand' = hand
         /\ pc'[p] \in {"eat", "put"} =>
              /\ philosopher_state' = philosopher_state
              /\ Eating(p)  \/ pc[p] = "eat"
         /\ pc[p] \in {"leave second", "leave first", "leave own", "eat"} =>
              /\ philosopher_state' = philosopher_state
              /\ \/ pc'[p] \in {"leave first", "leave own", "eat", "put"}
                 \/ ~Eating(p)
BY DEF TypeOK, Philosopher, take_forks, put_forks, ChooseHand, EnterOwn,
   BecomeHungry, TryFirst, LookFirst, TrySecond, LookSecond, LeaveSecond,
   LeaveFirst, LeaveOwn, PutEnter, PutState, PutLeave, TryEnter, Step

(* Only a philosopher at "look second" starts to eat; it holds its own     *)
(* section then, so nobody else relies on its not eating.                  *)
LEMMA FirstClearStep ==
  ASSUME Inv, NEW p \in Philosophers, Philosopher(p)
  PROVE  FirstClear'
<1> SUFFICES ASSUME NEW i \in Philosophers,
                    pc'[i] \in {"try second", "look second"}
             PROVE  ~Eating(First(i))'
  BY DEF FirstClear
<1>t. TypeOK /\ SectionsHeld
  BY DEF Inv, SectionsHeld
<1>1. First(i)' = First(i)
  BY <1>t, LabelStep DEF First
<1>2. First(i) \in Philosophers
  BY Seats
<1>3. ~Eating(First(i))
  BY <1>t, LabelStep DEF Inv, FirstClear
<1>4. philosopher_state'[First(i)] # "eating"
  <2>1. CASE /\ pc[p] = "look second" /\ pc' = [pc EXCEPT ![p] = "leave second"]
             /\ philosopher_state' = [philosopher_state EXCEPT ![p] = "eating"]
    <3>1. i # p /\ pc[i] \in {"try second", "look second"}
      BY <2>1, <1>t DEF TypeOK
    <3>2. Held(p, p)
      BY <2>1 DEF Held, OwnHeld
    <3>3. Held(i, First(i))
      BY <3>1 DEF Held, FirstHeld
    <3>4. First(i) # p
      BY <3>1, <3>2, <3>3, <1>t, <1>2, OneOwner
    <3> QED BY <2>1, <3>4, <1>2, <1>3, <1>t DEF TypeOK, Eating
  <2>2. CASE \/ philosopher_state' = philosopher_state
             \/ philosopher_state' = [philosopher_state EXCEPT ![p] = "hungry"]
             \/ philosopher_state' = [philosopher_state EXCEPT ![p] = "thinking"]
    BY <2>2, <1>2, <1>3, <1>t DEF TypeOK, Eating
  <2> QED BY <2>1, <2>2, <1>t, StateStep
<1> QED BY <1>1, <1>4 DEF Eating

LEMMA EatingAtStep ==
  ASSUME Inv, NEW p \in Philosophers, Philosopher(p)
  PROVE  EatingAt'
<1>t. TypeOK
  BY DEF Inv, SectionsHeld
<1> SUFFICES ASSUME NEW i \in Philosophers
             PROVE  /\ Eating(i)' => pc'[i] \in {"leave second", "leave first",
                                                "leave own", "eat", "put"}
                    /\ pc'[i] \in {"eat", "put"} => Eating(i)'
  BY DEF EatingAt
<1>1. CASE i # p
  <2>1. philosopher_state'[i] = philosopher_state[i]
    <3>1. \A v : philosopher_state' = [philosopher_state EXCEPT ![p] = v]
                 => philosopher_state'[i] = philosopher_state[i]
      BY <1>1, <1>t DEF TypeOK
    <3> QED BY <3>1, <1>t, StateStep
  <2>2. pc'[i] = pc[i]
    BY <1>1, <1>t, LabelStep
  <2> QED BY <2>1, <2>2 DEF Inv, EatingAt, Eating
<1>2. CASE i = p
  <2>1. Eating(p)' => pc'[p] \in {"leave second", "leave first", "leave own",
                                 "eat", "put"}
    <3> SUFFICES ASSUME Eating(p)'
                 PROVE  pc'[p] \in {"leave second", "leave first",
                                    "leave own", "eat", "put"}
      OBVIOUS
    <3>1. CASE philosopher_state' = philosopher_state
      <4>1. Eating(p)
        BY <3>1 DEF Eating
      <4>2. CASE pc[p] = "put"
        <5>1. PutState(p)
          BY <4>2 DEF Philosopher, take_forks, put_forks, ChooseHand, EnterOwn,
                      BecomeHungry, TryFirst, LookFirst, TrySecond, LookSecond,
                      LeaveSecond, LeaveFirst, LeaveOwn, PutEnter, PutLeave,
                      TryEnter, Step
        <5> QED BY <5>1, <3>1, <4>1, <1>t DEF PutState, Eating, TypeOK
      <4>3. CASE pc[p] \in {"leave second", "leave first", "leave own", "eat"}
        BY <4>1, <4>3, <1>t, LabelStep
      <4> QED BY <4>1, <4>2, <4>3 DEF Inv, EatingAt
    <3>2. CASE \/ philosopher_state' = [philosopher_state EXCEPT ![p] = "hungry"]
               \/ philosopher_state' = [philosopher_state EXCEPT ![p] = "thinking"]
      BY <3>2, <1>t DEF TypeOK, Eating
    <3>3. CASE pc' = [pc EXCEPT ![p] = "leave second"]
      BY <3>3, <1>t DEF TypeOK
    <3> QED BY <3>1, <3>2, <3>3, <1>t, StateStep
  <2>2. pc'[p] \in {"eat", "put"} => Eating(p)'
    BY <1>t, LabelStep DEF Inv, EatingAt, Eating
  <2> QED BY <1>2, <2>1, <2>2
<1> QED BY <1>1, <1>2

(* When p starts to eat it has seen that neither neighbour is eating: the  *)
(* second one just now, the first one before, and FirstClear keeps that.   *)
LEMMA NeighboursStep ==
  ASSUME Inv, NEW p \in Philosophers, Philosopher(p)
  PROVE  NeighboursDoNotEat'
<1>t. TypeOK
  BY DEF Inv, SectionsHeld
<1>n. \A i \in Philosophers : Left(i) \in Philosophers /\ Right(i) \in Philosophers
                             /\ Left(i) # i /\ Right(i) # i
  BY Seats
<1> SUFFICES ASSUME NEW i \in Philosophers, Eating(i)'
             PROVE  ~Eating(Left(i))' /\ ~Eating(Right(i))'
  BY DEF NeighboursDoNotEat
<1>1. CASE /\ pc[p] = "look second" /\ ~Eating(Second(p))
           /\ philosopher_state' = [philosopher_state EXCEPT ![p] = "eating"]
  <2>1. ~Eating(First(p))
    BY <1>1 DEF Inv, FirstClear
  <2>2. ~Eating(Left(p)) /\ ~Eating(Right(p))
    BY <1>1, <2>1, Seats
  <2>3. CASE i = p
    BY <1>1, <2>2, <2>3, <1>n, <1>t DEF TypeOK, Eating
  <2>4. CASE i # p
    <3>1. Eating(i)
      BY <1>1, <2>4, <1>t DEF TypeOK, Eating
    <3>2. Left(i) # p /\ Right(i) # p
      BY <3>1, <2>2, Mutual
    <3> QED BY <1>1, <3>1, <3>2, <1>n, <1>t
            DEF Inv, NeighboursDoNotEat, TypeOK, Eating
  <2> QED BY <2>3, <2>4
<1>2. CASE \/ philosopher_state' = philosopher_state
           \/ philosopher_state' = [philosopher_state EXCEPT ![p] = "hungry"]
           \/ philosopher_state' = [philosopher_state EXCEPT ![p] = "thinking"]
  BY <1>2, <1>n, <1>t DEF Inv, NeighboursDoNotEat, TypeOK, Eating
<1> QED BY <1>1, <1>2, <1>t, StateStep

LEMMA NextInv == Inv /\ [Next]_vars => Inv'
<1> SUFFICES ASSUME Inv, [Next]_vars PROVE Inv'
  OBVIOUS
<1>1. CASE \E p \in Philosophers : Philosopher(p)
  <2> PICK p \in Philosophers : Philosopher(p)
    BY <1>1
  <2>1. SectionsHeld'
    BY SectionsStep DEF Inv
  <2> QED BY <2>1, FirstClearStep, EatingAtStep, NeighboursStep DEF Inv
<1>2. CASE UNCHANGED vars
  <2>1. TypeOK'
    BY <1>2 DEF vars, Inv, SectionsHeld, TypeOK
  <2>2. \A i, s \in Philosophers : Held(i, s)' <=> Held(i, s)
    BY <1>2 DEF vars, Held, First, Second
  <2>3. SectionsHeld'
    BY <1>2, <2>1, <2>2 DEF vars, Inv, SectionsHeld
  <2>4. FirstClear'
    BY <1>2 DEF vars, Inv, FirstClear, First, Eating
  <2>5. EatingAt' /\ NeighboursDoNotEat'
    BY <1>2 DEF vars, Inv, EatingAt, NeighboursDoNotEat, Eating
  <2> QED BY <2>3, <2>4, <2>5 DEF Inv
<1> QED BY <1>1, <1>2 DEF Next

(* The inductive invariant holds in every reachable state.                 *)
THEOREM InvAlways == Spec => []Inv
BY InitInv, NextInv, PTL DEF Spec
-----------------------------------------------------------------------------
(* A critical section is left on every path that entered it, and belongs   *)
(* to exactly the philosopher whose label says so.                         *)
THEOREM SectionsAlwaysHeld == Spec => []SectionsHeld
<1>1. Inv => SectionsHeld
  BY DEF Inv
<1> QED BY <1>1, InvAlways, PTL

(* Neighbours never eat at the same time.                                  *)
THEOREM NeighboursNeverEat == Spec => []NeighboursDoNotEat
<1>1. Inv => NeighboursDoNotEat
  BY DEF Inv
<1> QED BY <1>1, InvAlways, PTL

(* take_forks returns with both forks and without a section.               *)
THEOREM TakeForksTakesBoth == Spec => []BothForks
<1>1. Inv => BothForks
  BY DEF Inv, EatingAt, NeighboursDoNotEat, BothForks, SectionsHeld, Held,
         OwnHeld, FirstHeld, SecondHeld
<1> QED BY <1>1, InvAlways, PTL

(* EnterCriticalSection, the only call that blocks, is made at "enter" and *)
(* "eat"; a philosopher there holds no section, so the owner it waits for  *)
(* is never waiting itself.                                                *)
Waits(i) == pc[i] \in {"enter", "eat"} /\ crs[i] # Nobody

OwnersDoNotWait ==
  \A i \in Philosophers : Waits(i) => crs[i] \in Philosophers /\ ~Waits(crs[i])

(* No deadlock: nobody waits for a philosopher that waits.                 *)
THEOREM NoCircularWait == Spec => []OwnersDoNotWait
<1>1. Inv => OwnersDoNotWait
  <2> SUFFICES ASSUME Inv, NEW i \in Philosophers, Waits(i)
               PROVE  crs[i] \in Philosophers /\ ~Waits(crs[i])
    BY DEF OwnersDoNotWait
  <2>1. crs[i] \in Philosophers
    BY DEF Waits, Inv, SectionsHeld, TypeOK
  <2>2. Held(crs[i], i)
    BY <2>1 DEF Inv, SectionsHeld
  <2> QED BY <2>1, <2>2 DEF Waits, Held, OwnHeld, FirstHeld, SecondHeld
<1> QED BY <1>1, InvAlways, PTL

(* A philosopher's state changes only while its own section is held by it. *)
THEOREM StateIsGuarded == Spec => StateGuarded
<1>1. Inv /\ [Next]_vars =>
        [\A i \in Philosophers :
           philosopher_state'[i] # philosopher_state[i] => crs[i] = i]_vars
  <2> SUFFICES ASSUME Inv, NEW p \in Philosophers, Philosopher(p),
                      NEW i \in Philosophers,
                      philosopher_state'[i] # philosopher_state[i]
               PROVE  crs[i] = i
    BY DEF Next
  <2>t. TypeOK /\ SectionsHeld
    BY DEF Inv, SectionsHeld
  <2>1. i = p /\ pc[p] \in {"hungry", "put", "look second"}
    <3>1. \/ philosopher_state' = philosopher_state
          \/ /\ pc[p] \in {"hungry", "put", "look second"}
             /\ \E state : philosopher_state' = [philosopher_state EXCEPT ![p] = state]
      BY <2>t, StateStep
    <3>2. philosopher_state \in [Philosophers -> {"thinking", "hungry", "eating"}]
      BY <2>t DEF TypeOK
    <3> QED BY <3>1, <3>2
  <2>2. pc[p] \in OwnHeld
    BY <2>1 DEF OwnHeld
  <2>3. Held(p, p)
    BY <2>2 DEF Held
  <2> QED BY <2>1, <2>3, <2>t DEF SectionsHeld
<1> QED BY <1>1, InvAlways, PTL DEF Spec, StateGuarded
=============================================================================
