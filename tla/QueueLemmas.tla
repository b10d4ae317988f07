---------------------------- MODULE QueueLemmas ----------------------------
(***************************************************************************)
(* Lemmas about the circular buffer of CircularQueue, for the proofs of    *)
(* BoundedQueue and CondVarQueue: what each statement does to the sequence *)
(* of messages that QueueAsSeq reads off the buffer, and what the numbers  *)
(* of the messages say of one another.                                     *)
(***************************************************************************)
EXTENDS CircularQueue, SequenceTheorems, TLAPS

(* % Size without a division, for an index that is past the end once.      *)
Wrapped(a) == IF a < Size THEN a ELSE a - Size

(* An index of at most two rounds.                                         *)
LEMMA Wrap ==
  ASSUME NEW a \in 0 .. 2 * Size - 1
  PROVE  a % Size = Wrapped(a)
<1>1. Size \in Nat /\ Size > 0
  BY SizeAssumption
<1>2. CASE a < Size
  BY <1>1, <1>2 DEF Wrapped
<1>3. CASE a >= Size
  <2>1. a - Size \in 0 .. Size - 1
    BY <1>1, <1>3
  <2>2. a % Size = (a - Size) % Size
    BY <1>1, <1>3
  <2> QED BY <1>1, <1>3, <2>1, <2>2 DEF Wrapped
<1> QED BY <1>2, <1>3, <1>1

(* A negative distance, as writeindex - readindex may be.                  *)
LEMMA WrapBelow ==
  ASSUME NEW a \in 1 - Size .. -1
  PROVE  a % Size = a + Size
<1>1. Size \in Nat /\ Size > 0
  BY SizeAssumption
<1>2. a + Size \in 0 .. Size - 1
  BY <1>1
<1>3. a % Size = (a + Size) % Size
  BY <1>1
<1> QED BY <1>1, <1>2, <1>3

(* The n slots of d from b on, around the end of the array.                *)
RingSeq(d, b, n) == [i \in 1 .. n |-> d[(b + i - 1) % Size]]

(* It is a sequence of n elements of the array, in the order of the slots. *)
IsRing(q, S, d, b, n) ==
  /\ q \in Seq(S) /\ Len(q) = n
  /\ \A i \in 1 .. n : q[i] = d[Wrapped(b + i - 1)]

(* ... which is one whenever it is taken from within the array.            *)
LEMMA RingIsSeq ==
  ASSUME NEW S, NEW d \in [Slots -> S], NEW b \in 0 .. Size, NEW n \in 0 .. Size
  PROVE  IsRing(RingSeq(d, b, n), S, d, b, n)
<1> DEFINE ring == RingSeq(d, b, n)
<1>0. Size \in Nat \ {0}
  BY SizeAssumption
<1>1. \A i \in 1 .. n : /\ (b + i - 1) % Size = Wrapped(b + i - 1)
                        /\ Wrapped(b + i - 1) \in Slots
  <2> TAKE i \in 1 .. n
  <2>1. b + i - 1 \in 0 .. 2 * Size - 1
    BY <1>0
  <2>2. (b + i - 1) % Size = Wrapped(b + i - 1)
    BY <2>1, Wrap, Zenon
  <2>3. Wrapped(b + i - 1) \in Slots
    BY <1>0, <2>1 DEF Wrapped, Slots
  <2> QED BY <2>2, <2>3
<1>2. \A i \in 1 .. n : ring[i] = d[Wrapped(b + i - 1)]
  BY <1>1 DEF RingSeq
<1>3. ring \in [1 .. n -> S]
  BY <1>1 DEF RingSeq
<1>4. ring \in Seq(S)
  <2>1. n \in Nat
    BY <1>0
  <2> QED BY <1>3, <2>1, SeqDef
<1>5. Len(ring) = n
  <2> HIDE DEF ring
  <2>1. DOMAIN ring = 1 .. n /\ n \in Nat
    BY <1>3, <1>0
  <2>2. DOMAIN ring = 1 .. Len(ring) /\ Len(ring) \in Nat
    BY <1>4, LenProperties
  <2> QED BY <2>1, <2>2
<1> QED BY <1>1, <1>2, <1>4, <1>5 DEF IsRing

(* Starting at Succ(b) or one past b is the same.                          *)
LEMMA RingAround ==
  ASSUME NEW S, NEW d \in [Slots -> S], NEW b \in Slots, NEW n \in 0 .. Size
  PROVE  RingSeq(d, b + 1, n) = RingSeq(d, Succ(b), n)
<1>0. Size \in Nat \ {0} /\ Succ(b) = Wrapped(b + 1)
  BY SizeAssumption, Wrap DEF Slots, Succ
<1>1. CASE b + 1 < Size
  BY <1>0, <1>1 DEF Wrapped, Slots
<1>2. CASE b + 1 = Size
  <2>1. Succ(b) = 0
    BY <1>0, <1>2 DEF Wrapped
  <2>2. \A i \in 1 .. n : (b + 1 + i - 1) % Size = (0 + i - 1) % Size
    <3> TAKE i \in 1 .. n
    <3>1. b + 1 + i - 1 \in 0 .. 2 * Size - 1 /\ 0 + i - 1 \in 0 .. 2 * Size - 1
      BY <1>0, <1>2
    <3>2. Wrapped(b + 1 + i - 1) = Wrapped(0 + i - 1)
      BY <1>0, <1>2 DEF Wrapped
    <3> QED BY <3>1, <3>2, Wrap
  <2> QED BY <2>1, <2>2 DEF RingSeq
<1> QED BY <1>0, <1>1, <1>2 DEF Slots

(* Without its first slot.                                                 *)
LEMMA RingTail ==
  ASSUME NEW S, NEW d \in [Slots -> S], NEW b \in Slots, NEW n \in 1 .. Size
  PROVE  /\ RingSeq(d, b, n) # <<>> /\ Head(RingSeq(d, b, n)) = d[b]
         /\ Tail(RingSeq(d, b, n)) = RingSeq(d, b + 1, n - 1)
<1> DEFINE ring == RingSeq(d, b, n)
           rest == RingSeq(d, b + 1, n - 1)
<1>0. Size \in Nat \ {0}
  BY SizeAssumption
<1>b. b \in 0 .. Size
  BY <1>0 DEF Slots
<1>c. b + 1 \in 0 .. Size
  BY <1>0 DEF Slots
<1>n. n \in 0 .. Size
  BY <1>0
<1>m. n - 1 \in 0 .. Size
  BY <1>0
<1>1. /\ ring \in Seq(S) /\ Len(ring) = n
      /\ \A i \in 1 .. n : ring[i] = d[Wrapped(b + i - 1)]
  <2>1. IsRing(RingSeq(d, b, n), S, d, b, n)
    BY <1>b, <1>n, RingIsSeq, Zenon
  <2> QED BY <2>1 DEF IsRing
<1>2. /\ rest \in Seq(S) /\ Len(rest) = n - 1
      /\ \A i \in 1 .. n - 1 : rest[i] = d[Wrapped(b + 1 + i - 1)]
  <2>1. IsRing(RingSeq(d, b + 1, n - 1), S, d, b + 1, n - 1)
    BY <1>c, <1>m, RingIsSeq, Zenon
  <2> QED BY <2>1 DEF IsRing
<1> HIDE DEF ring, rest
<1>3. ring # <<>>
  BY <1>1, <1>0, EmptySeq
<1>4. Head(ring) = d[b]
  <2>1. Head(ring) = ring[1]
    BY <1>1, <1>3
  <2>2. Wrapped(b + 1 - 1) = b
    BY <1>0 DEF Wrapped, Slots
  <2> QED BY <2>1, <2>2, <1>1, <1>0
<1>5. /\ Tail(ring) \in Seq(S) /\ Len(Tail(ring)) = n - 1
      /\ \A i \in 1 .. n - 1 : Tail(ring)[i] = ring[i + 1]
  BY <1>1, <1>3, HeadTailProperties
<1>6. \A i \in 1 .. n - 1 : Tail(ring)[i] = rest[i]
  <2> TAKE i \in 1 .. n - 1
  <2>1. i + 1 \in 1 .. n /\ b + (i + 1) - 1 = b + 1 + i - 1
    BY <1>0, <1>b
  <2> QED BY <2>1, <1>1, <1>2, <1>5
<1>7. Tail(ring) = rest
  BY <1>2, <1>5, <1>6, SeqEqual
<1> QED BY <1>3, <1>4, <1>7 DEF ring, rest

(* The slot in front of the ring may be overwritten.                       *)
LEMMA RingKeeps ==
  ASSUME NEW S, NEW d \in [Slots -> S], NEW b \in Slots, NEW n \in 0 .. Size - 1,
         NEW v
  PROVE  RingSeq([d EXCEPT ![b] = v], b + 1, n) = RingSeq(d, b + 1, n)
<1>0. Size \in Nat \ {0}
  BY SizeAssumption
<1>1. ASSUME NEW i \in 1 .. n
      PROVE  (b + 1 + i - 1) % Size \in Slots \ {b}
  <2>1. b + 1 + i - 1 \in 0 .. 2 * Size - 1
    BY <1>0 DEF Slots
  <2> QED BY <2>1, <1>0, Wrap DEF Wrapped, Slots
<1> QED BY <1>1 DEF RingSeq

(* Append under a name of its own, which the SMT backend does not expand.  *)
Appended(q, v) == Append(q, v)

(* One slot more at the end, with v written into it.                       *)
LEMMA RingAppend ==
  ASSUME NEW S, NEW d \in [Slots -> S], NEW b \in Slots, NEW n \in 0 .. Size - 1,
         NEW v \in S, NEW e \in [Slots -> S], e[Wrapped(b + n)] = v,
         \A j \in Slots : j # Wrapped(b + n) => e[j] = d[j]
  PROVE  RingSeq(e, b, n + 1) = Appended(RingSeq(d, b, n), v)
<1> DEFINE ring == RingSeq(d, b, n)
           more == RingSeq(e, b, n + 1)
           longer == Append(ring, v)
<1>0. Size \in Nat \ {0} /\ Wrapped(b + n) \in Slots
  BY SizeAssumption DEF Slots, Wrapped
<1>b. b \in 0 .. Size
  BY <1>0 DEF Slots
<1>n. n \in 0 .. Size
  BY <1>0
<1>m. n + 1 \in 0 .. Size
  BY <1>0
<1>1. /\ e[Wrapped(b + n)] = v
      /\ \A j \in Slots : j # Wrapped(b + n) => e[j] = d[j]
  OBVIOUS
<1>2. /\ ring \in Seq(S) /\ Len(ring) = n
      /\ \A i \in 1 .. n : ring[i] = d[Wrapped(b + i - 1)]
  <2>1. IsRing(RingSeq(d, b, n), S, d, b, n)
    BY <1>b, <1>n, RingIsSeq, Zenon
  <2> QED BY <2>1 DEF IsRing
<1>3. /\ more \in Seq(S) /\ Len(more) = n + 1
      /\ \A i \in 1 .. n + 1 : more[i] = e[Wrapped(b + i - 1)]
  <2>1. IsRing(RingSeq(e, b, n + 1), S, e, b, n + 1)
    BY <1>b, <1>m, RingIsSeq, Zenon
  <2> QED BY <2>1 DEF IsRing
<1> HIDE DEF ring, more
<1>4. /\ longer \in Seq(S) /\ Len(longer) = n + 1
      /\ \A i \in 1 .. n : longer[i] = ring[i]
      /\ longer[n + 1] = v
  BY <1>2, AppendProperties
<1> HIDE DEF longer
<1>5. \A i \in 1 .. n + 1 : more[i] = longer[i]
  <2> TAKE i \in 1 .. n + 1
  <2>1. CASE i = n + 1
    BY <2>1, <1>0, <1>1, <1>3, <1>4
  <2>2. CASE i \in 1 .. n
    <3>1. Wrapped(b + i - 1) # Wrapped(b + n)
      BY <2>2, <1>0 DEF Wrapped, Slots
    <3>2. Wrapped(b + i - 1) \in Slots /\ ring[i] = d[Wrapped(b + i - 1)]
      BY <2>2, <1>0, <1>2 DEF Wrapped, Slots
    <3>3. e[Wrapped(b + i - 1)] = d[Wrapped(b + i - 1)]
      BY <1>1, <3>1, <3>2
    <3>4. more[i] = e[Wrapped(b + i - 1)]
      BY <1>3
    <3>5. longer[i] = ring[i]
      BY <2>2, <1>4
    <3> QED BY <3>2, <3>3, <3>4, <3>5
  <2> QED BY <2>1, <2>2, <1>0
<1>6. more = longer
  BY <1>3, <1>4, <1>5, SeqEqual
<1> QED BY <1>6 DEF more, ring, longer, Appended
-----------------------------------------------------------------------------
(* Count, of any indices.                                                  *)
Number(r, w, isFull) == IF r # w THEN (w - r) % Size ELSE IF isFull THEN Size ELSE 0

(* ... as a difference that the arithmetic of the provers can take.        *)
LEMMA NumberIs ==
  ASSUME NEW r \in Slots, NEW w \in Slots, NEW isFull \in BOOLEAN
  PROVE  /\ r < w => Number(r, w, isFull) = w - r
         /\ w < r => Number(r, w, isFull) = w - r + Size
         /\ w = r => Number(r, w, isFull) = IF isFull THEN Size ELSE 0
         /\ Number(r, w, isFull) \in 0 .. Size
<1>0. Size \in Nat \ {0} /\ r \in 0 .. Size - 1 /\ w \in 0 .. Size - 1
  BY SizeAssumption DEF Slots
<1>1. CASE r < w
  <2>1. w - r \in 0 .. 2 * Size - 1
    BY <1>0, <1>1
  <2>2. (w - r) % Size = w - r
    BY <1>0, <1>1, <2>1, Wrap DEF Wrapped
  <2> QED BY <1>0, <1>1, <2>2 DEF Number
<1>2. CASE w < r
  <2>1. w - r \in 1 - Size .. -1
    BY <1>0, <1>2
  <2>2. (w - r) % Size = w - r + Size
    BY <2>1, WrapBelow
  <2> QED BY <1>0, <1>2, <2>2 DEF Number
<1>3. CASE w = r
  BY <1>0, <1>3 DEF Number
<1> QED BY <1>0, <1>1, <1>2, <1>3

(* QueueAsSeq is a ring that begins at readindex or one past it.           *)
LEMMA SeqIsRing ==
  ASSUME NEW c \in BOOLEAN, NEW t \in BOOLEAN, NEW s \in BOOLEAN
  PROVE  QueueAsSeq(c, t, s) =
           RingSeq(data, readindex + (IF t THEN 1 ELSE 0),
                   Number(readindex, writeindex, full = 1 \/ c)
                     + (IF s THEN 1 ELSE 0) - (IF t THEN 1 ELSE 0))
BY DEF QueueAsSeq, RingSeq, Number, Count

(* The next index.                                                         *)
LEMMA SuccIs == \A i \in Slots : Succ(i) = Wrapped(i + 1) /\ Succ(i) \in Slots
<1> SUFFICES ASSUME NEW i \in Slots PROVE Succ(i) = Wrapped(i + 1) /\ Succ(i) \in Slots
  OBVIOUS
<1>0. Size \in Nat \ {0} /\ i + 1 \in 0 .. 2 * Size - 1
  BY SizeAssumption DEF Slots
<1>1. (i + 1) % Size = Wrapped(i + 1)
  BY <1>0, Wrap
<1> QED BY <1>0, <1>1 DEF Succ, Wrapped, Slots

(* A reader that clears full leaves the messages as they are ...           *)
LEMMA ClearKeeps ==
  ASSUME QueueTypeOK, HasData, ClearFull
  PROVE  QueueAsSeq(TRUE, FALSE, FALSE)' = QueueAsSeq(FALSE, FALSE, FALSE)
BY DEF HasData, ClearFull, QueueAsSeq, Count

(* ... one that takes the string at readindex takes the oldest message ... *)
LEMMA TakeIsGet ==
  ASSUME QueueTypeOK, full = 0, NEW r \in Readers, TakeString(r)
  PROVE  /\ QueueAsSeq(TRUE, FALSE, FALSE) # <<>>
         /\ Head(QueueAsSeq(TRUE, FALSE, FALSE)) = data[readindex]
         /\ QueueAsSeq(TRUE, TRUE, FALSE)' = Tail(QueueAsSeq(TRUE, FALSE, FALSE))
<1> DEFINE n == Number(readindex, writeindex, TRUE)
<1>r. readindex \in Slots /\ readindex \in 0 .. Size - 1
  BY DEF QueueTypeOK, Slots
<1>w. writeindex \in Slots /\ writeindex \in 0 .. Size - 1
  BY DEF QueueTypeOK, Slots
<1>0. /\ Size \in Nat \ {0} /\ readindex \in Slots /\ writeindex \in Slots
      /\ data \in [Slots -> Contained]
  BY SizeAssumption DEF QueueTypeOK
<1>n. /\ readindex < writeindex => n = writeindex - readindex
      /\ writeindex < readindex => n = writeindex - readindex + Size
      /\ writeindex = readindex => n = IF TRUE THEN Size ELSE 0
  BY <1>r, <1>w, NumberIs, Zenon
<1> HIDE DEF n
<1>1. n \in 1 .. Size
  BY <1>0, <1>n, <1>r, <1>w
<1>2. QueueAsSeq(TRUE, FALSE, FALSE) = RingSeq(data, readindex, n)
  <2>1. readindex + 0 = readindex /\ n + 0 - 0 = n
    BY <1>0, <1>1 DEF Slots
  <2>2. QueueAsSeq(TRUE, FALSE, FALSE) = RingSeq(data, readindex + 0, n + 0 - 0)
    BY DEF QueueAsSeq, RingSeq, Number, Count, n
  <2> QED BY <2>1, <2>2
<1>3. QueueAsSeq(TRUE, TRUE, FALSE)' = RingSeq(data', readindex + 1, n - 1)
  <2>1. n + 0 - 1 = n - 1
    BY <1>1, <1>0
  <2>2. QueueAsSeq(TRUE, TRUE, FALSE)' = RingSeq(data', readindex + 1, n + 0 - 1)
    BY DEF QueueAsSeq, RingSeq, Number, Count, n, TakeString
  <2> QED BY <2>1, <2>2
<1>4. data' = [data EXCEPT ![readindex] = NULL] /\ n - 1 \in 0 .. Size - 1
  BY <1>0, <1>1 DEF TakeString
<1>5. RingSeq(data', readindex + 1, n - 1) = RingSeq(data, readindex + 1, n - 1)
  <2>1. readindex \in Slots
    BY <1>0
  <2>2. data \in [Slots -> Contained]
    BY <1>0
  <2>3. n - 1 \in 0 .. Size - 1
    BY <1>4
  <2>4. RingSeq([data EXCEPT ![readindex] = NULL], readindex + 1, n - 1)
          = RingSeq(data, readindex + 1, n - 1)
    BY <2>1, <2>2, <2>3, RingKeeps, Zenon
  <2> QED BY <2>4, <1>4, Zenon
<1>6. /\ RingSeq(data, readindex, n) # <<>>
      /\ Head(RingSeq(data, readindex, n)) = data[readindex]
      /\ Tail(RingSeq(data, readindex, n)) = RingSeq(data, readindex + 1, n - 1)
  <2>1. readindex \in Slots
    BY <1>0
  <2>2. data \in [Slots -> Contained]
    BY <1>0
  <2> QED BY <2>1, <2>2, <1>1, RingTail, Zenon
<1> QED BY <1>2, <1>3, <1>5, <1>6

(* ... and moving readindex over the empty slot changes nothing.           *)
LEMMA AdvanceReadKeeps ==
  ASSUME QueueTypeOK, full = 0, AdvanceRead
  PROVE  QueueAsSeq(FALSE, FALSE, FALSE)' = QueueAsSeq(TRUE, TRUE, FALSE)
<1> DEFINE n == Number(readindex, writeindex, TRUE)
<1>r. readindex \in Slots /\ readindex \in 0 .. Size - 1
  BY DEF QueueTypeOK, Slots
<1>w. writeindex \in Slots /\ writeindex \in 0 .. Size - 1
  BY DEF QueueTypeOK, Slots
<1>0. /\ Size \in Nat \ {0} /\ readindex \in Slots /\ writeindex \in Slots
      /\ data \in [Slots -> Contained]
  BY SizeAssumption DEF QueueTypeOK
<1>n. /\ readindex < writeindex => n = writeindex - readindex
      /\ writeindex < readindex => n = writeindex - readindex + Size
      /\ writeindex = readindex => n = IF TRUE THEN Size ELSE 0
  BY <1>r, <1>w, NumberIs, Zenon
<1> HIDE DEF n
<1>1. n \in 1 .. Size
  BY <1>0, <1>n, <1>r, <1>w
<1>2. Number(Succ(readindex), writeindex, FALSE) = n - 1
  <2> DEFINE s == Succ(readindex)
             m == Number(s, writeindex, FALSE)
  <2>1. s \in Slots /\ s \in 0 .. Size - 1 /\ s = Wrapped(readindex + 1)
    BY <1>r, SuccIs DEF Slots
  <2> HIDE DEF s
  <2>2. /\ s < writeindex => m = writeindex - s
        /\ writeindex < s => m = writeindex - s + Size
        /\ writeindex = s => m = IF FALSE THEN Size ELSE 0
    BY <2>1, <1>w, NumberIs, Zenon
  <2> HIDE DEF m
  <2>3. m = n - 1
    BY <1>0, <1>r, <1>w, <1>n, <2>1, <2>2 DEF Wrapped
  <2> QED BY <2>3 DEF s, m
<1>3. QueueAsSeq(TRUE, TRUE, FALSE) = RingSeq(data, readindex + 1, n - 1)
  <2>1. n + 0 - 1 = n - 1
    BY <1>1, <1>0
  <2>2. QueueAsSeq(TRUE, TRUE, FALSE) = RingSeq(data, readindex + 1, n + 0 - 1)
    BY DEF QueueAsSeq, RingSeq, Number, Count, n
  <2> QED BY <2>1, <2>2
<1>4. QueueAsSeq(FALSE, FALSE, FALSE)' = RingSeq(data, Succ(readindex), n - 1)
  <2>1. Succ(readindex) + 0 = Succ(readindex) /\ n - 1 + 0 - 0 = n - 1
    BY <1>0, <1>1, SuccIs DEF Slots
  <2>2. QueueAsSeq(FALSE, FALSE, FALSE)'
          = RingSeq(data, Succ(readindex) + 0,
                    Number(Succ(readindex), writeindex, FALSE) + 0 - 0)
    BY DEF QueueAsSeq, RingSeq, Number, Count, AdvanceRead
  <2> QED BY <2>1, <2>2, <1>2
<1>5. n - 1 \in 0 .. Size
  BY <1>0, <1>1
<1> QED BY <1>0, <1>3, <1>4, <1>5, RingAround

(* A writer with room stores behind the last message ...                   *)
LEMMA StoreIsPut ==
  ASSUME QueueTypeOK, HasRoom, NEW w \in Writers, StoreString(w)
  PROVE  /\ Len(QueueAsSeq(FALSE, FALSE, FALSE)) < Size
         /\ QueueAsSeq(FALSE, FALSE, TRUE)'
              = Append(QueueAsSeq(FALSE, FALSE, FALSE), <<w, msgnum[w]>>)
<1> DEFINE n == Number(readindex, writeindex, FALSE)
<1>r. readindex \in Slots /\ readindex \in 0 .. Size - 1
  BY DEF QueueTypeOK, Slots
<1>w. writeindex \in Slots /\ writeindex \in 0 .. Size - 1
  BY DEF QueueTypeOK, Slots
<1>0. /\ Size \in Nat \ {0} /\ readindex \in Slots /\ writeindex \in Slots
      /\ data \in [Slots -> Contained]
  BY SizeAssumption DEF QueueTypeOK
<1>n. /\ readindex < writeindex => n = writeindex - readindex
      /\ writeindex < readindex => n = writeindex - readindex + Size
      /\ writeindex = readindex => n = IF FALSE THEN Size ELSE 0
  BY <1>r, <1>w, NumberIs, Zenon
<1> HIDE DEF n
<1>1. n \in 0 .. Size - 1 /\ writeindex = Wrapped(readindex + n)
  BY <1>0, <1>n, <1>r, <1>w DEF Wrapped
<1>2. QueueAsSeq(FALSE, FALSE, FALSE) = RingSeq(data, readindex, n)
  <2>1. readindex + 0 = readindex /\ n + 0 - 0 = n
    BY <1>0, <1>1 DEF Slots
  <2>2. QueueAsSeq(FALSE, FALSE, FALSE) = RingSeq(data, readindex + 0, n + 0 - 0)
    BY DEF QueueAsSeq, RingSeq, Number, Count, n, HasRoom
  <2> QED BY <2>1, <2>2
<1>3. QueueAsSeq(FALSE, FALSE, TRUE)' = RingSeq(data', readindex, n + 1)
  <2>1. readindex + 0 = readindex /\ n + 1 - 0 = n + 1
    BY <1>0, <1>1 DEF Slots
  <2>2. QueueAsSeq(FALSE, FALSE, TRUE)' = RingSeq(data', readindex + 0, n + 1 - 0)
    BY DEF QueueAsSeq, RingSeq, Number, Count, n, HasRoom, StoreString
  <2> QED BY <2>1, <2>2
<1> DEFINE v == <<w, msgnum[w]>>
<1>4. v \in Contained /\ data' = [data EXCEPT ![writeindex] = v]
  BY DEF QueueTypeOK, Contained, Messages, StoreString
<1> HIDE DEF v
<1> DEFINE e == [data EXCEPT ![writeindex] = v]
<1>5. data' = e
  BY <1>4
<1>6. e \in [Slots -> Contained]
  BY <1>0, <1>4
<1>7. RingSeq(e, readindex, n + 1) = Appended(RingSeq(data, readindex, n), v)
  <2>1. data \in [Slots -> Contained]
    BY <1>0
  <2>2. n \in 0 .. Size - 1
    BY <1>1
  <2>4. e[Wrapped(readindex + n)] = v
    BY <1>0, <1>1
  <2>5. \A j \in Slots : j # Wrapped(readindex + n) => e[j] = data[j]
    BY <1>0, <1>1
  <2>6. v \in Contained
    BY <1>4
  <2>7. readindex \in Slots
    BY <1>0
  <2> HIDE DEF e
  <2> QED BY <2>1, <2>2, <2>4, <2>5, <2>6, <2>7, <1>6, RingAppend
<1>8. Len(RingSeq(data, readindex, n)) = n /\ n < Size
  <2>1. readindex \in 0 .. Size
    BY <1>0 DEF Slots
  <2>2. n \in 0 .. Size
    BY <1>0, <1>1
  <2>3. data \in [Slots -> Contained]
    BY <1>0
  <2>4. IsRing(RingSeq(data, readindex, n), Contained, data, readindex, n)
    BY <2>1, <2>2, <2>3, RingIsSeq, Zenon
  <2>5. Len(RingSeq(data, readindex, n)) = n
    BY <2>4, Zenon DEF IsRing
  <2> QED BY <2>5, <1>0, <1>1
<1> QED BY <1>2, <1>3, <1>5, <1>7, <1>8, Zenon DEF v, Appended

(* ... and moving writeindex, with full set when they meet, keeps it there.*)
LEMMA AdvanceWriteKeeps ==
  ASSUME QueueTypeOK, HasRoom, AdvanceWrite
  PROVE  QueueAsSeq(FALSE, FALSE, FALSE)' = QueueAsSeq(FALSE, FALSE, TRUE)
<1> DEFINE n == Number(readindex, writeindex, FALSE)
<1>r. readindex \in Slots /\ readindex \in 0 .. Size - 1
  BY DEF QueueTypeOK, Slots
<1>w. writeindex \in Slots /\ writeindex \in 0 .. Size - 1
  BY DEF QueueTypeOK, Slots
<1>0. Size \in Nat \ {0} /\ readindex \in Slots /\ writeindex \in Slots
  BY SizeAssumption DEF QueueTypeOK
<1>n. /\ readindex < writeindex => n = writeindex - readindex
      /\ writeindex < readindex => n = writeindex - readindex + Size
      /\ writeindex = readindex => n = IF FALSE THEN Size ELSE 0
  BY <1>r, <1>w, NumberIs, Zenon
<1> HIDE DEF n
<1>1. n \in 0 .. Size - 1
  BY <1>0, <1>n, <1>r, <1>w
<1>2. Number(readindex, Succ(writeindex), Succ(writeindex) = readindex) = n + 1
  <2> DEFINE s == Succ(writeindex)
             met == s = readindex
             m == Number(readindex, s, met)
  <2>1. s \in Slots /\ s \in 0 .. Size - 1 /\ s = Wrapped(writeindex + 1)
    BY <1>w, SuccIs DEF Slots
  <2> HIDE DEF s
  <2>2. /\ readindex < s => m = s - readindex
        /\ s < readindex => m = s - readindex + Size
        /\ s = readindex => m = IF met THEN Size ELSE 0
    BY <2>1, <1>r, NumberIs, Zenon
  <2> HIDE DEF m
  <2>3. m = n + 1
    BY <1>0, <1>r, <1>w, <1>n, <2>1, <2>2 DEF Wrapped
  <2> QED BY <2>3 DEF s, m
<1>3. QueueAsSeq(FALSE, FALSE, TRUE) = RingSeq(data, readindex + 0, n + 1 - 0)
  BY DEF QueueAsSeq, RingSeq, Number, Count, n, HasRoom
<1>4. QueueAsSeq(FALSE, FALSE, FALSE)'
        = RingSeq(data, readindex + 0,
                  Number(readindex, Succ(writeindex), Succ(writeindex) = readindex) + 0 - 0)
  BY DEF QueueAsSeq, RingSeq, Number, Count, AdvanceWrite
<1>5. n + 1 - 0 = n + 1 + 0 - 0
  BY <1>0, <1>1
<1> QED BY <1>2, <1>3, <1>4, <1>5
-----------------------------------------------------------------------------
(* At every statement the queue is a sequence of at most Size slots.       *)
LEMMA QueueIsSeq ==
  ASSUME QueueTypeOK, NEW c \in BOOLEAN, NEW t \in BOOLEAN, NEW s \in BOOLEAN,
         t => c, c => full = 0, s => HasRoom /\ ~c
  PROVE  /\ QueueAsSeq(c, t, s) \in Seq(Contained)
         /\ Len(QueueAsSeq(c, t, s)) \in 0 .. Size
         /\ \A k \in 1 .. Len(QueueAsSeq(c, t, s)) :
              \E i \in Slots : QueueAsSeq(c, t, s)[k] = data[i]
<1> DEFINE isFull == full = 1 \/ c
           n == Number(readindex, writeindex, isFull)
           skip == IF t THEN 1 ELSE 0
           more == IF s THEN 1 ELSE 0
           b == readindex + skip
           m == n + more - skip
<1>0. /\ Size \in Nat \ {0} /\ readindex \in 0 .. Size - 1
      /\ writeindex \in 0 .. Size - 1 /\ full \in {0, 1}
  BY SizeAssumption DEF QueueTypeOK, Slots
<1>d. data \in [Slots -> Contained]
  BY DEF QueueTypeOK
<1>r. readindex \in Slots
  BY DEF QueueTypeOK
<1>w. writeindex \in Slots
  BY DEF QueueTypeOK
<1>f. isFull \in BOOLEAN
  OBVIOUS
<1>1. QueueAsSeq(c, t, s) = RingSeq(data, b, m)
  BY SeqIsRing
<1>h. s => (readindex # writeindex \/ ~isFull)
  BY <1>0 DEF HasRoom
<1>g. t => isFull
  OBVIOUS
<1> HIDE DEF isFull
<1>n. /\ readindex < writeindex => n = writeindex - readindex
      /\ writeindex < readindex => n = writeindex - readindex + Size
      /\ writeindex = readindex => n = IF isFull THEN Size ELSE 0
  BY <1>r, <1>w, <1>f, NumberIs, Zenon
<1> HIDE DEF n
<1>b. b \in 0 .. Size
  BY <1>0
<1>m. m \in 0 .. Size
  <2>1. n \in 0 .. Size
    BY <1>0, <1>n
  <2>2. t => n >= 1
    BY <1>0, <1>n, <1>g
  <2>3. s => n < Size
    BY <1>0, <1>n, <1>h
  <2> QED BY <2>1, <2>2, <2>3, <1>0
<1> HIDE DEF b, m
<1>2. /\ RingSeq(data, b, m) \in Seq(Contained) /\ Len(RingSeq(data, b, m)) = m
      /\ \A i \in 1 .. m : RingSeq(data, b, m)[i] = data[Wrapped(b + i - 1)]
  <2>1. IsRing(RingSeq(data, b, m), Contained, data, b, m)
    BY <1>d, <1>b, <1>m, RingIsSeq, Zenon
  <2> QED BY <2>1 DEF IsRing
<1>3. \A i \in 1 .. m : Wrapped(b + i - 1) \in Slots
  BY <1>0, <1>b, <1>m DEF Wrapped, Slots
<1> QED BY <1>1, <1>2, <1>3, <1>m

(* Before the threads start it is empty.                                   *)
LEMMA EmptyAtFirst ==
  ASSUME QueueTypeOK, QueueInit PROVE QueueAsSeq(FALSE, FALSE, FALSE) = <<>>
<1> DEFINE q == QueueAsSeq(FALSE, FALSE, FALSE)
           n == Len(q)
<1>1. DOMAIN q = 1 .. 0
  BY DEF QueueAsSeq, Count, QueueInit
<1>2. q \in Seq(Contained)
  BY QueueIsSeq
<1> HIDE DEF q
<1>3. 1 .. n = 1 .. 0 /\ n \in Nat
  BY <1>1, <1>2, LenProperties
<1> HIDE DEF n
<1>4. n = 0
  BY <1>3
<1> QED BY <1>2, <1>4, EmptySeq DEF q, n

(* What the two tests see: no message, or no free slot.                    *)
LEMMA TestsAreExact ==
  ASSUME QueueTypeOK
  PROVE  /\ ~HasData => Len(QueueAsSeq(FALSE, FALSE, FALSE)) = 0
         /\ ~HasRoom => Len(QueueAsSeq(FALSE, FALSE, FALSE)) = Size
<1> DEFINE q == QueueAsSeq(FALSE, FALSE, FALSE)
           n == Len(q)
<1>1. DOMAIN q = 1 .. Count(FALSE)
  <2> DEFINE c == Count(FALSE)
  <2>1. c \in Int
    BY SizeAssumption DEF Count, QueueTypeOK, Slots
  <2>2. DOMAIN q = 1 .. c + 0 - 0
    BY DEF QueueAsSeq
  <2> HIDE DEF c, q
  <2>3. c + 0 - 0 = c
    BY <2>1
  <2>4. DOMAIN q = 1 .. c
    BY <2>2, <2>3
  <2> QED BY <2>4 DEF c
<1>2. q \in Seq(Contained)
  BY QueueIsSeq
<1> HIDE DEF q
<1>3. 1 .. n = 1 .. Count(FALSE) /\ n \in Nat
  BY <1>1, <1>2, LenProperties
<1> HIDE DEF n
<1>4. ~HasData => Count(FALSE) = 0
  BY DEF HasData, Count
<1>5. ~HasRoom => Count(FALSE) = Size
  BY DEF HasRoom, Count
<1>6. \A m \in Nat : 1 .. n = 1 .. m => n = m
  BY <1>3
<1> QED BY <1>3, <1>4, <1>5, <1>6, SizeAssumption DEF q, n

(* The messages in a sequence, and that none is in it twice.               *)
InQueue(q) == {q[i] : i \in DOMAIN q}
Distinct(q) == \A i, j \in DOMAIN q : q[i] = q[j] => i = j

(* Put adds one message ...                                                *)
LEMMA AppendIn ==
  ASSUME NEW S, NEW q \in Seq(S), NEW v \in S
  PROVE  /\ InQueue(Append(q, v)) = InQueue(q) \cup {v}
         /\ Distinct(q) /\ v \notin InQueue(q) => Distinct(Append(q, v))
<1> DEFINE p == Append(q, v)
           n == Len(q)
<1>1. /\ p \in Seq(S) /\ Len(p) = n + 1 /\ p[n + 1] = v
      /\ \A i \in 1 .. n : p[i] = q[i]
  BY AppendProperties
<1>2. DOMAIN p = 1 .. n + 1 /\ DOMAIN q = 1 .. n /\ n \in Nat
  BY <1>1, LenProperties
<1> HIDE DEF p, n
<1>3. InQueue(p) = InQueue(q) \cup {v}
  BY <1>1, <1>2 DEF InQueue
<1>4. ASSUME Distinct(q), v \notin InQueue(q) PROVE Distinct(p)
  <2> SUFFICES ASSUME NEW i \in 1 .. n + 1, NEW j \in 1 .. n + 1, p[i] = p[j]
               PROVE  i = j
    BY <1>2 DEF Distinct
  <2>1. CASE i = n + 1 /\ j = n + 1
    BY <2>1
  <2>2. CASE i = n + 1 /\ j \in 1 .. n
    BY <2>2, <1>1, <1>2, <1>4 DEF InQueue
  <2>3. CASE j = n + 1 /\ i \in 1 .. n
    BY <2>3, <1>1, <1>2, <1>4 DEF InQueue
  <2>4. CASE i \in 1 .. n /\ j \in 1 .. n
    BY <2>4, <1>1, <1>2, <1>4 DEF Distinct
  <2> QED BY <2>1, <2>2, <2>3, <2>4, <1>2
<1> QED BY <1>3, <1>4 DEF p

(* ... and Get removes the first, wholly if it was there once.             *)
LEMMA TailIn ==
  ASSUME NEW S, NEW q \in Seq(S), q # <<>>, Distinct(q)
  PROVE  /\ InQueue(Tail(q)) = InQueue(q) \ {Head(q)}
         /\ Distinct(Tail(q))
<1> DEFINE p == Tail(q)
           n == Len(q)
           h == Head(q)
<1>1. /\ p \in Seq(S) /\ Len(p) = n - 1
      /\ \A i \in 1 .. n - 1 : p[i] = q[i + 1]
  BY HeadTailProperties
<1>2. n \in Nat \ {0}
  BY EmptySeq, LenProperties
<1>3. h = q[1]
  OBVIOUS
<1>4. DOMAIN p = 1 .. n - 1 /\ DOMAIN q = 1 .. n
  BY <1>1, LenProperties
<1> HIDE DEF p, n, h
<1>5. InQueue(p) \subseteq InQueue(q) \ {h}
  <2> SUFFICES ASSUME NEW i \in 1 .. n - 1
               PROVE  p[i] \in InQueue(q) /\ p[i] # h
    BY <1>4 DEF InQueue
  <2>1. i + 1 \in 1 .. n /\ 1 \in 1 .. n /\ i + 1 # 1
    BY <1>2
  <2> QED BY <2>1, <1>1, <1>3, <1>4 DEF InQueue, Distinct
<1>6. InQueue(q) \ {h} \subseteq InQueue(p)
  <2> SUFFICES ASSUME NEW j \in 1 .. n, q[j] # h PROVE q[j] \in InQueue(p)
    BY <1>4 DEF InQueue
  <2>1. j - 1 \in 1 .. n - 1 /\ (j - 1) + 1 = j
    BY <1>2, <1>3
  <2>2. p[j - 1] = q[j]
    BY <2>1, <1>1
  <2> QED BY <2>1, <2>2, <1>4 DEF InQueue
<1>7. Distinct(p)
  <2> SUFFICES ASSUME NEW i \in 1 .. n - 1, NEW j \in 1 .. n - 1, p[i] = p[j]
               PROVE  i = j
    BY <1>4 DEF Distinct
  <2>1. i + 1 \in 1 .. n /\ j + 1 \in 1 .. n /\ q[i + 1] = q[j + 1]
    BY <1>1, <1>2
  <2> QED BY <2>1, <1>4 DEF Distinct
<1> QED BY <1>5, <1>6, <1>7 DEF p, h
-----------------------------------------------------------------------------
(* How many messages its writer has numbered since (and with) m, when the  *)
(* numbers are modulo MsgNums.                                             *)
Age(nums, m) == IF nums[m[1]] > m[2] THEN nums[m[1]] - m[2]
                ELSE nums[m[1]] - m[2] + MsgNums

(* No message is older than the messages behind it allow: the numbers of   *)
(* those in the queue have not come round.                                 *)
Numbered(q, nums) ==
  \A i \in 1 .. Len(q) : q[i] \in Messages /\ Age(nums, q[i]) <= Len(q) - i + 1

(* As MsgNums is above Size, the next message is not one in the queue.     *)
LEMMA NumberedPut ==
  ASSUME NEW q \in Seq(Contained), Len(q) < Size,
         NEW nums \in [Writers -> 0 .. MsgNums - 1], NEW w \in Writers,
         Numbered(q, nums)
  PROVE  /\ <<w, nums[w]>> \notin InQueue(q)
         /\ Numbered(Append(q, <<w, nums[w]>>),
                     [nums EXCEPT ![w] = (@ + 1) % MsgNums])
<1> DEFINE v == <<w, nums[w]>>
           next == [nums EXCEPT ![w] = (@ + 1) % MsgNums]
           p == Append(q, v)
           n == Len(q)
<1>0. /\ MsgNums \in Nat /\ Size \in Nat /\ MsgNums > Size /\ n \in Nat
      /\ n < Size /\ nums[w] \in 0 .. MsgNums - 1
  BY SizeAssumption, MessageAssumption, LenProperties
<1>v. v \in Messages /\ v \in Contained /\ v[1] = w /\ v[2] = nums[w]
  BY DEF Messages, Contained
<1>1. /\ Len(p) = n + 1 /\ p[n + 1] = v
      /\ \A i \in 1 .. n : p[i] = q[i]
  BY <1>v, AppendProperties
<1>2. DOMAIN q = 1 .. n
  BY LenProperties
<1>3. \A i \in 1 .. n : q[i] \in Messages /\ Age(nums, q[i]) <= n - i + 1
  BY DEF Numbered
<1>4. /\ \A u \in Writers : u # w => next[u] = nums[u]
      /\ next[w] = IF nums[w] + 1 = MsgNums THEN 0 ELSE nums[w] + 1
  <2> DEFINE k == nums[w] + 1
  <2>1. k \in 1 .. MsgNums
    BY <1>0
  <2> HIDE DEF k
  <2>2. MsgNums % MsgNums = 0
    BY <1>0
  <2>3. ASSUME k # MsgNums PROVE k % MsgNums = k
    BY <2>1, <2>3, <1>0
  <2>4. k % MsgNums = IF k = MsgNums THEN 0 ELSE k
    BY <2>1, <2>2, <2>3, <1>0
  <2> QED BY <2>4 DEF k
<1> HIDE DEF p, n, v, next
<1>5. Age(nums, v) = MsgNums
  BY <1>0, <1>v DEF Age
<1>6. Age(next, v) = 1
  BY <1>0, <1>v, <1>4 DEF Age
<1>7. v \notin InQueue(q)
  <2> SUFFICES ASSUME NEW i \in 1 .. n, q[i] = v PROVE FALSE
    BY <1>2 DEF InQueue
  <2>1. Age(nums, v) <= n - i + 1
    BY <1>3
  <2> QED BY <2>1, <1>5, <1>0
<1>8. ASSUME NEW i \in 1 .. n
      PROVE  Age(next, q[i]) <= (n + 1) - i + 1
  <2> DEFINE m == q[i]
  <2>1. m \in Messages /\ Age(nums, m) <= n - i + 1
    BY <1>3
  <2> HIDE DEF m
  <2>2. m[1] \in Writers /\ m[2] \in 0 .. MsgNums - 1
    BY <2>1 DEF Messages
  <2>3. CASE m[1] # w
    <3>1. Age(next, m) = Age(nums, m) /\ Age(nums, m) \in Int
      BY <2>2, <2>3, <1>0, <1>4 DEF Age
    <3> QED BY <3>1, <2>1, <1>0 DEF m
  <2>4. CASE m[1] = w
    <3> DEFINE a == nums[w]
               b == m[2]
               c == next[w]
    <3>1. /\ a \in 0 .. MsgNums - 1 /\ b \in 0 .. MsgNums - 1
          /\ c = IF a + 1 = MsgNums THEN 0 ELSE a + 1
      BY <1>0, <1>4, <2>2
    <3>2. /\ Age(nums, m) = IF a > b THEN a - b ELSE a - b + MsgNums
          /\ Age(next, m) = IF c > b THEN c - b ELSE c - b + MsgNums
      BY <2>4 DEF Age
    <3> HIDE DEF a, b, c
    <3>3. Age(nums, m) < MsgNums => Age(next, m) = Age(nums, m) + 1
      BY <1>0, <3>1, <3>2
    <3>4. Age(nums, m) \in Int
      BY <1>0, <3>1, <3>2
    <3> QED BY <2>1, <3>3, <3>4, <1>0 DEF m
  <2> QED BY <2>3, <2>4 DEF m
<1>9. Numbered(p, next)
  <2> SUFFICES ASSUME NEW i \in 1 .. n + 1
               PROVE  p[i] \in Messages /\ Age(next, p[i]) <= (n + 1) - i + 1
    BY <1>1 DEF Numbered
  <2>1. CASE i = n + 1
    BY <2>1, <1>0, <1>1, <1>v, <1>6
  <2>2. CASE i \in 1 .. n
    BY <2>2, <1>1, <1>3, <1>8
  <2> QED BY <2>1, <2>2, <1>0
<1> QED BY <1>7, <1>9 DEF v, p, next

(* Taking the oldest message makes none older.                             *)
LEMMA NumberedGet ==
  ASSUME NEW q \in Seq(Contained), q # <<>>, NEW nums, Numbered(q, nums)
  PROVE  Numbered(Tail(q), nums)
<1> DEFINE p == Tail(q)
           n == Len(q)
<1>1. /\ Len(p) = n - 1
      /\ \A i \in 1 .. n - 1 : p[i] = q[i + 1]
  BY HeadTailProperties
<1>2. n \in Nat \ {0}
  BY EmptySeq, LenProperties
<1>3. \A i \in 1 .. n : q[i] \in Messages /\ Age(nums, q[i]) <= n - i + 1
  BY DEF Numbered
<1> HIDE DEF p, n
<1>4. ASSUME NEW i \in 1 .. n - 1
      PROVE  p[i] \in Messages /\ Age(nums, p[i]) <= (n - 1) - i + 1
  <2>1. i + 1 \in 1 .. n /\ n - (i + 1) + 1 = (n - 1) - i + 1
    BY <1>2
  <2> QED BY <2>1, <1>1, <1>3
<1> QED BY <1>1, <1>4 DEF Numbered, p
-----------------------------------------------------------------------------
(* The types after each statement: of a cleared flag ...                   *)
LEMMA ClearFullType == QueueTypeOK /\ ClearFull => QueueTypeOK'
BY DEF QueueTypeOK, ClearFull, io, Slots, Contained, Messages

(* ... of a taken string ...                                               *)
LEMMA TakeStringType ==
  ASSUME QueueTypeOK, NEW r \in Readers, TakeString(r) PROVE QueueTypeOK'
BY DEF QueueTypeOK, TakeString, Contained

(* ... of a moved readindex ...                                            *)
LEMMA AdvanceReadType == QueueTypeOK /\ AdvanceRead => QueueTypeOK'
BY SuccIs DEF QueueTypeOK, AdvanceRead, io

(* ... of a moved writeindex ...                                           *)
LEMMA AdvanceWriteType == QueueTypeOK /\ AdvanceWrite => QueueTypeOK'
BY SuccIs DEF QueueTypeOK, AdvanceWrite, io

(* ... of a stored string ...                                              *)
LEMMA StoreStringType ==
  ASSUME QueueTypeOK, NEW w \in Writers, StoreString(w)
  PROVE  QueueTypeOK' /\ <<w, msgnum[w]>> \in Messages
<1>1. <<w, msgnum[w]>> \in Messages
  BY DEF QueueTypeOK, Messages
<1>2. (msgnum[w] + 1) % MsgNums \in 0 .. MsgNums - 1
  BY SizeAssumption, MessageAssumption DEF QueueTypeOK
<1> QED BY <1>1, <1>2 DEF QueueTypeOK, StoreString, Contained

(* ... and of a step that leaves the queue alone.                          *)
LEMMA QueueUnchanged == QueueTypeOK /\ UNCHANGED <<queue, io>> => QueueTypeOK'
BY DEF QueueTypeOK, queue, io
=============================================================================
