---------------------------- MODULE NetworkProofs ----------------------------
(***************************************************************************)
(* The two servers that use sendToAll, for any number of clients and       *)
(* threads.  That all clients are sent the texts in one order rests on two *)
(* things: while a thread goes through the list its text is the last one in*)
(* every socket that got it, and a text is sent once, because it has not   *)
(* been in any socket when the thread enters the section.                  *)
(***************************************************************************)
EXTENDS MCNetwork, SequenceTheorems, TLAPS

-----------------------------------------------------------------------------
(* Sequences: what is in them, and what is where.                          *)
LEMMA InSeq ==
  ASSUME NEW S, NEW s \in Seq(S)
  PROVE  /\ ToSet(s) \subseteq S /\ ToSet(s) = {s[i] : i \in 1 .. Len(s)}
         /\ Len(s) \in Nat /\ DOMAIN s = 1 .. Len(s)
BY LenProperties, ElementOfSeq DEF ToSet

(* t is s with one element more at its end.                                *)
Longer(t, s, e) == /\ Len(t) = Len(s) + 1 /\ t[Len(s) + 1] = e
                   /\ \A i \in 1 .. Len(s) : t[i] = s[i]

(* Append gives such a sequence.                                           *)
LEMMA AppendIsLonger ==
  ASSUME NEW S, NEW s \in Seq(S), NEW e \in S
  PROVE  Append(s, e) \in Seq(S) /\ Longer(Append(s, e), s, e)
BY AppendProperties DEF Longer

(* What is in it, and which order is new: that of the new element.         *)
LEMMA InLonger ==
  ASSUME NEW S, NEW s \in Seq(S), NEW t \in Seq(S), NEW e, Longer(t, s, e)
  PROVE  /\ ToSet(t) = ToSet(s) \cup {e}
         /\ IsInjective(s) /\ e \notin ToSet(s) => IsInjective(t)
         /\ \A x, y : Before(t, x, y) => Before(s, x, y) \/ (y = e /\ x \in ToSet(s))
<1>1. /\ ToSet(s) = {s[i] : i \in 1 .. Len(s)} /\ DOMAIN s = 1 .. Len(s) /\ Len(s) \in Nat
      /\ ToSet(t) = {t[i] : i \in 1 .. Len(t)} /\ DOMAIN t = 1 .. Len(t)
  BY InSeq
<1>2. ToSet(t) = ToSet(s) \cup {e}
  BY <1>1 DEF Longer
<1>3. ASSUME IsInjective(s), e \notin ToSet(s) PROVE IsInjective(t)
  BY <1>1, <1>3 DEF Longer, IsInjective
<1>4. ASSUME NEW x, NEW y, Before(t, x, y) PROVE Before(s, x, y) \/ (y = e /\ x \in ToSet(s))
  BY <1>1, <1>4 DEF Longer, Before
<1> QED BY <1>2, <1>3, <1>4

(* The rest of a sequence, from which its head and maybe more is taken.    *)
LEMMA InRest ==
  ASSUME NEW S, NEW s \in Seq(S), NEW n \in 1 .. Len(s)
  PROVE  /\ SubSeq(s, n + 1, Len(s)) \in Seq(S)
         /\ ToSet(SubSeq(s, n + 1, Len(s))) \subseteq ToSet(s)
         /\ IsInjective(s) => /\ IsInjective(SubSeq(s, n + 1, Len(s)))
                              /\ s[1] \notin ToSet(SubSeq(s, n + 1, Len(s)))
<1> DEFINE t == SubSeq(s, n + 1, Len(s))
<1>1. /\ ToSet(s) = {s[i] : i \in 1 .. Len(s)} /\ DOMAIN s = 1 .. Len(s) /\ Len(s) \in Nat
      /\ \A i \in 1 .. Len(s) : s[i] \in S
  BY InSeq, ElementOfSeq
<1>a. n + 1 \in Int /\ Len(s) \in Int /\ \A i \in n + 1 .. Len(s) : s[i] \in S
  BY <1>1
<1>2. /\ t \in Seq(S) /\ Len(t) = IF n + 1 <= Len(s) THEN Len(s) - (n + 1) + 1 ELSE 0
      /\ \A i \in 1 .. Len(s) - (n + 1) + 1 : t[i] = s[(n + 1) + i - 1]
  BY <1>a, SubSeqProperties
<1> HIDE DEF t
<1>3. ToSet(t) = {t[i] : i \in 1 .. Len(t)} /\ DOMAIN t = 1 .. Len(t)
  BY <1>2, InSeq
<1>4. Len(t) = Len(s) - n /\ \A i \in 1 .. Len(t) : t[i] = s[n + i] /\ n + i \in 2 .. Len(s)
  <2>1. Len(s) - (n + 1) + 1 = Len(s) - n /\ Len(s) - n \in Nat
    BY <1>1
  <2>2. Len(t) = Len(s) - n
    <3>1. CASE n + 1 <= Len(s)
      BY <1>2, <2>1, <3>1
    <3>2. CASE n = Len(s)
      <4>1. ~(n + 1 <= Len(s)) /\ Len(s) - n = 0
        BY <1>1, <3>2
      <4>2. Len(t) = IF n + 1 <= Len(s) THEN Len(s) - (n + 1) + 1 ELSE 0
        BY <1>2
      <4>3. Len(t) = 0
        BY <4>1, <4>2, Zenon
      <4> QED BY <4>1, <4>3
    <3>3. Len(s) \in Nat
      BY <1>1
    <3>4. n + 1 <= Len(s) \/ n = Len(s)
      BY <3>3
    <3> QED BY <3>1, <3>2, <3>4
  <2>3. ASSUME NEW i \in 1 .. Len(t) PROVE t[i] = s[n + i] /\ n + i \in 2 .. Len(s)
    <3>1. (n + 1) + i - 1 = n + i /\ n + i \in 2 .. Len(s)
      BY <1>1, <2>2
    <3> QED BY <1>2, <2>1, <2>2, <3>1
  <2> QED BY <2>2, <2>3
<1>5. ToSet(t) \subseteq ToSet(s)
  BY <1>1, <1>3, <1>4
<1>6. ASSUME IsInjective(s) PROVE IsInjective(t) /\ s[1] \notin ToSet(t)
  <2>1. ASSUME NEW i \in 1 .. Len(t), NEW j \in 1 .. Len(t), t[i] = t[j] PROVE i = j
    <3>1. n + i = n + j
      <4>1. n + i \in DOMAIN s /\ n + j \in DOMAIN s /\ s[n + i] = s[n + j]
        BY <1>1, <1>4, <2>1
      <4> QED BY <1>6, <4>1 DEF IsInjective
    <3> QED BY <3>1, <1>1
  <2>2. \A i \in 1 .. Len(t) : t[i] # s[1]
    <3> SUFFICES ASSUME NEW i \in 1 .. Len(t), t[i] = s[1] PROVE FALSE
      OBVIOUS
    <3>1. n + i \in DOMAIN s /\ 1 \in DOMAIN s /\ s[n + i] = s[1] /\ n + i # 1
      BY <1>1, <1>4
    <3> QED BY <1>6, <3>1 DEF IsInjective
  <2> QED BY <1>1, <1>3, <1>4, <2>1, <2>2 DEF IsInjective
<1> QED BY <1>2, <1>5, <1>6 DEF t

(* The same of the tail, which takes one element.                          *)
LEMMA InTail ==
  ASSUME NEW S, NEW s \in Seq(S), s # <<>>
  PROVE  /\ Head(s) = s[1] /\ Head(s) \in ToSet(s) /\ Head(s) \in S
         /\ Tail(s) \in Seq(S) /\ ToSet(Tail(s)) \subseteq ToSet(s)
         /\ IsInjective(s) => IsInjective(Tail(s)) /\ Head(s) \notin ToSet(Tail(s))
<1>1. Len(s) \in Nat \ {0}
  BY EmptySeq
<1>2. 1 \in 1 .. Len(s)
  BY <1>1
<1>3. Tail(s) = SubSeq(s, 1 + 1, Len(s))
  BY TailIsSubSeq
<1>4. Head(s) = s[1]
  BY <1>1
<1>5. s[1] \in ToSet(s) /\ s[1] \in S
  BY <1>2, InSeq
<1>6. /\ SubSeq(s, 1 + 1, Len(s)) \in Seq(S)
      /\ ToSet(SubSeq(s, 1 + 1, Len(s))) \subseteq ToSet(s)
      /\ IsInjective(s) => /\ IsInjective(SubSeq(s, 1 + 1, Len(s)))
                           /\ s[1] \notin ToSet(SubSeq(s, 1 + 1, Len(s)))
  BY <1>2, InRest, Zenon
<1> QED BY <1>3, <1>4, <1>5, <1>6, Zenon

(* What push_front puts into a list.                                       *)
LEMMA InPushed ==
  ASSUME NEW S, NEW s \in Seq(S), NEW c \in S
  PROVE  LET t == <<c>> \o s
         IN  /\ t \in Seq(S) /\ ToSet(t) = ToSet(s) \cup {c}
             /\ IsInjective(s) /\ c \notin ToSet(s) => IsInjective(t)
<1> DEFINE t == <<c>> \o s
<1>0. <<c>> \in Seq(S) /\ Len(<<c>>) = 1 /\ <<c>>[1] = c
  OBVIOUS
<1>1. /\ t \in Seq(S) /\ Len(t) = 1 + Len(s)
      /\ \A i \in 1 .. 1 + Len(s) : t[i] = IF i <= 1 THEN <<c>>[i] ELSE s[i - 1]
  BY <1>0, ConcatProperties
<1>2. ToSet(s) = {s[i] : i \in 1 .. Len(s)} /\ DOMAIN s = 1 .. Len(s) /\ Len(s) \in Nat
  BY InSeq
<1> HIDE DEF t
<1>3. ToSet(t) = {t[i] : i \in 1 .. Len(t)} /\ DOMAIN t = 1 .. Len(t)
  BY <1>1, InSeq
<1>4. t[1] = c /\ \A i \in 1 .. Len(s) : t[i + 1] = s[i]
  BY <1>0, <1>1, <1>2
<1>5. ToSet(t) = ToSet(s) \cup {c}
  <2>1. \A i \in 1 .. Len(t) : i = 1 \/ i - 1 \in 1 .. Len(s)
    BY <1>1, <1>2
  <2>2. ToSet(t) \subseteq ToSet(s) \cup {c}
    BY <1>1, <1>2, <1>3, <1>4, <2>1
  <2>3. \A i \in 1 .. Len(s) : i + 1 \in 1 .. Len(t)
    BY <1>1, <1>2
  <2>4. 1 \in 1 .. Len(t)
    BY <1>1, <1>2
  <2> QED BY <1>2, <1>3, <1>4, <2>2, <2>3, <2>4
<1>6. ASSUME IsInjective(s), c \notin ToSet(s) PROVE IsInjective(t)
  <2>1. \A i \in 1 .. Len(t) : i # 1 => i - 1 \in 1 .. Len(s) /\ t[i] = s[i - 1]
    BY <1>1, <1>2
  <2>2. \A i, j \in 1 .. Len(t) : t[i] = t[j] /\ i # 1 /\ j # 1 => i - 1 = j - 1
    BY <1>2, <1>6, <2>1 DEF IsInjective
  <2>3. \A i \in 1 .. Len(t) : i # 1 => t[i] # c
    BY <1>2, <1>6, <2>1
  <2> QED BY <1>3, <1>4, <2>2, <2>3, <1>1, <1>2 DEF IsInjective
<1> QED BY <1>1, <1>5, <1>6 DEF t

(* What remove takes out of a list that holds each element once.           *)
LEMMA InRemoved ==
  ASSUME NEW S, NEW s \in Seq(S), IsInjective(s), NEW c
  PROVE  LET t == RemoveFirst(s, c)
         IN  t \in Seq(S) /\ ToSet(t) = ToSet(s) \ {c} /\ IsInjective(t)
<1>1. ToSet(s) = {s[i] : i \in 1 .. Len(s)} /\ DOMAIN s = 1 .. Len(s) /\ Len(s) \in Nat
  BY InSeq
<1>2. CASE c \notin ToSet(s)
  <2>1. RemoveFirst(s, c) = s
    BY <1>1, <1>2 DEF RemoveFirst
  <2> QED BY <1>2, <2>1
<1>3. CASE c \in ToSet(s)
  <2>1. PICK k \in 1 .. Len(s) : s[k] = c
    BY <1>1, <1>3
  <2>2. {i \in 1 .. Len(s) : s[i] = c} = {k}
    BY <1>1, <2>1 DEF IsInjective
  <2>3. Min({k}) = k
    BY DEF Min
  <2>4. RemoveFirst(s, c) = RemoveAt(s, k)
    BY <2>1, <2>2, <2>3 DEF RemoveFirst, SelectInSeq
  <2> DEFINE a == SubSeq(s, 1, k - 1)
             b == SubSeq(s, k + 1, Len(s))
             t == a \o b
  <2>5. a \in Seq(S) /\ Len(a) = k - 1 /\ \A i \in 1 .. k - 1 : a[i] = s[i]
    <3>1. 1 \in Int /\ k - 1 \in Int /\ \A i \in 1 .. k - 1 : s[i] \in S
      BY <1>1, ElementOfSeq
    <3>2. /\ a \in Seq(S) /\ Len(a) = IF 1 <= k - 1 THEN (k - 1) - 1 + 1 ELSE 0
          /\ \A i \in 1 .. (k - 1) - 1 + 1 : a[i] = s[1 + i - 1]
      BY <3>1, SubSeqProperties
    <3> HIDE DEF a
    <3> QED BY <3>2
  <2>6. b \in Seq(S) /\ Len(b) = Len(s) - k /\ \A i \in 1 .. Len(s) - k : b[i] = s[k + i]
    <3>1. k + 1 \in Int /\ Len(s) \in Int /\ \A i \in k + 1 .. Len(s) : s[i] \in S
      BY <1>1, ElementOfSeq
    <3>2. /\ b \in Seq(S) /\ Len(b) = IF k + 1 <= Len(s) THEN Len(s) - (k + 1) + 1 ELSE 0
          /\ \A i \in 1 .. Len(s) - (k + 1) + 1 : b[i] = s[(k + 1) + i - 1]
      BY <3>1, SubSeqProperties
    <3> HIDE DEF b
    <3>3. Len(s) - (k + 1) + 1 = Len(s) - k /\ Len(s) - k \in Nat
      BY <1>1
    <3>4. Len(b) = Len(s) - k
      <4>1. CASE k + 1 <= Len(s)
        BY <3>2, <3>3, <4>1
      <4>2. CASE k = Len(s)
        <5>1. ~(k + 1 <= Len(s)) /\ Len(s) - k = 0
          BY <1>1, <4>2
        <5>2. Len(b) = IF k + 1 <= Len(s) THEN Len(s) - (k + 1) + 1 ELSE 0
          BY <3>2
        <5>3. Len(b) = 0
          BY <5>1, <5>2, Zenon
        <5> QED BY <5>1, <5>3
      <4>3. Len(s) \in Nat
        BY <1>1
      <4>4. k + 1 <= Len(s) \/ k = Len(s)
        BY <4>3
      <4> QED BY <4>1, <4>2, <4>4
    <3>5. \A i \in 1 .. Len(s) - k : (k + 1) + i - 1 = k + i
      OBVIOUS
    <3> QED BY <3>2, <3>3, <3>4, <3>5
  <2> HIDE DEF a, b
  <2>7. /\ t \in Seq(S) /\ Len(t) = Len(a) + Len(b)
        /\ \A i \in 1 .. Len(a) + Len(b) : t[i] = IF i <= Len(a) THEN a[i] ELSE b[i - Len(a)]
    BY <2>5, <2>6, ConcatProperties
  <2> HIDE DEF t
  <2>8. Len(t) = Len(s) - 1 /\ Len(t) \in Nat
        /\ \A i \in 1 .. Len(t) : t[i] = IF i < k THEN s[i] ELSE s[i + 1]
    <3>1. Len(t) = Len(s) - 1 /\ Len(t) \in Nat
      BY <1>1, <2>5, <2>6, <2>7
    <3>2. ASSUME NEW i \in 1 .. Len(t) PROVE t[i] = IF i < k THEN s[i] ELSE s[i + 1]
      <4>1. CASE i < k
        BY <1>1, <2>5, <2>6, <2>7, <3>1, <4>1
      <4>2. CASE i >= k
        <5>1. i - Len(a) \in 1 .. Len(s) - k /\ k + (i - Len(a)) = i + 1 /\ ~(i <= Len(a))
          BY <1>1, <2>5, <3>1, <4>2
        <5>2. t[i] = b[i - Len(a)]
          BY <1>1, <2>6, <2>5, <2>7, <3>1, <5>1
        <5>3. b[i - Len(a)] = s[i + 1]
          BY <2>6, <5>1
        <5> QED BY <4>2, <5>2, <5>3
      <4> QED BY <4>1, <4>2
    <3> QED BY <3>1, <3>2
  <2>9. ToSet(t) = {t[i] : i \in 1 .. Len(t)} /\ DOMAIN t = 1 .. Len(t)
    BY <2>7, InSeq
  <2> DEFINE from(i) == IF i < k THEN i ELSE i + 1
  <2>10. \A i \in 1 .. Len(t) : from(i) \in 1 .. Len(s) /\ from(i) # k /\ t[i] = s[from(i)]
    BY <1>1, <2>8
  <2>11. \A i \in 1 .. Len(s) : i # k => \E j \in 1 .. Len(t) : from(j) = i
    <3> TAKE i \in 1 .. Len(s)
    <3> HAVE i # k
    <3>1. CASE i < k
      <4>1. i \in 1 .. Len(t) /\ from(i) = i
        BY <1>1, <2>8, <3>1
      <4> QED BY <4>1
    <3>2. CASE i > k
      <4>1. i - 1 \in 1 .. Len(t) /\ from(i - 1) = i
        BY <1>1, <2>8, <3>2
      <4> QED BY <4>1
    <3> QED BY <3>1, <3>2
  <2>12. \A i, j \in 1 .. Len(t) : from(i) = from(j) => i = j
    BY <1>1, <2>8
  <2> HIDE DEF from
  <2>13. \A i \in 1 .. Len(s) : s[i] = c => i = k
    BY <1>1, <2>1 DEF IsInjective
  <2>14. ToSet(t) = ToSet(s) \ {c}
    <3>1. ToSet(t) \subseteq ToSet(s) \ {c}
      BY <1>1, <2>9, <2>10, <2>13
    <3>2. ASSUME NEW x \in ToSet(s), x # c PROVE x \in ToSet(t)
      <4>1. PICK i \in 1 .. Len(s) : s[i] = x
        BY <1>1
      <4>2. PICK j \in 1 .. Len(t) : from(j) = i
        BY <2>1, <2>11, <3>2, <4>1
      <4> QED BY <2>9, <2>10, <4>1, <4>2
    <3> QED BY <3>1, <3>2
  <2>15. IsInjective(t)
    <3> SUFFICES ASSUME NEW i \in 1 .. Len(t), NEW j \in 1 .. Len(t), t[i] = t[j] PROVE i = j
      BY <2>9 DEF IsInjective
    <3>1. from(i) = from(j)
      BY <1>1, <2>10 DEF IsInjective
    <3> QED BY <2>12, <3>1
  <2>16. RemoveFirst(s, c) = t
    BY <2>4 DEF RemoveAt, t, a, b
  <2> QED BY <2>7, <2>14, <2>15, <2>16
<1> QED BY <1>2, <1>3
-----------------------------------------------------------------------------
(* What a thread of S carries into the sockets, its texts being in T.      *)
Carried(S, T) ==
  /\ clients \in Seq(Clients) /\ online \subseteq Clients
  /\ text \in [S -> T] /\ cursor \in [S -> Seq(Clients)] /\ whole \in [S -> BOOLEAN]
  /\ got \in [Clients -> Seq(T)] /\ read \in [Clients -> Nat]
  /\ \A c \in Clients : read[c] <= Len(got[c]) /\ Len(got[c]) - read[c] <= Room

(* No socket has got x.                                                    *)
New(x) == \A d \in Clients : x \notin ToSet(got[d])

(* The text of t is the last one where it has arrived, and has not arrived *)
(* where t still goes.                                                     *)
Latest(t) ==
  /\ \A d \in Clients : \A i \in 1 .. Len(got[d]) : got[d][i] = text[t] => i = Len(got[d])
  /\ \A d \in ToSet(cursor[t]) : text[t] \notin ToSet(got[d])
OnItsWay(t) == IsInjective(cursor[t]) /\ (text[t] # Garbage => Latest(t))

(* A socket gets one text more, of those that t carries, or none.          *)
Delivered(d, t) ==
  \/ UNCHANGED got
  \/ \E e \in {text[t], Garbage} : /\ Longer(got'[d], got[d], e)
                                   /\ \A c \in Clients \ {d} : got'[c] = got[c]

(* One step of sendToAll: one socket gets something, the cursor moves on.  *)
LEMMA NextGets ==
  ASSUME NEW S, NEW T, Carried(S, T), Garbage \in T, NEW t \in S, SendToNext(t)
  PROVE  /\ Carried(S, T)' /\ Head(cursor[t]) \in Clients /\ cursor[t] # <<>>
         /\ Delivered(Head(cursor[t]), t)
         /\ UNCHANGED <<section, clients, text, online>> /\ cursor'[t] = Tail(cursor[t])
         /\ \A s \in S \ {t} : cursor'[s] = cursor[s]
<1>1. cursor[t] \in Seq(Clients) /\ cursor[t] # <<>> /\ text[t] \in T
  BY DEF Carried, SendToNext
<1>2. Head(cursor[t]) \in Clients /\ Tail(cursor[t]) \in Seq(Clients)
  BY <1>1, InTail
<1> DEFINE d == Head(cursor[t])
           rest == Tail(cursor[t])
<1> HIDE DEF d, rest
<1>3. cursor' = [cursor EXCEPT ![t] = rest] /\ UNCHANGED <<section, clients, text, read, online>>
  BY DEF SendToNext, rest, list
<1>4. SendTo(d, t) \/ SendToGone(d, t)
  BY DEF SendToNext, d
<1>5. /\ whole' \in [S -> BOOLEAN] /\ got' \in [Clients -> Seq(T)]
      /\ \A c \in Clients : read[c] <= Len(got'[c]) /\ Len(got'[c]) - read[c] <= Room
      /\ Delivered(d, t)
  <2>1. CASE SendTo(d, t)
    <3> DEFINE e == IF whole[t] THEN text[t] ELSE Garbage
    <3>1. e \in T /\ e \in {text[t], Garbage}
      BY <1>1
    <3> HIDE DEF e
    <3>2. got[d] \in Seq(T) /\ d \in Clients
      BY <1>2 DEF Carried, d
    <3> DEFINE longer == Append(got[d], e)
    <3>3. longer \in Seq(T) /\ Longer(longer, got[d], e)
      BY <3>1, <3>2, AppendIsLonger
    <3>4. got' = [got EXCEPT ![d] = longer] /\ UNCHANGED whole /\ Len(got[d]) - read[d] < Room
      BY <2>1 DEF SendTo, e
    <3> HIDE DEF longer
    <3>5. got'[d] = longer /\ \A c \in Clients \ {d} : got'[c] = got[c]
      BY <3>2, <3>4 DEF Carried
    <3>6. Len(got[d]) \in Nat /\ read[d] \in Nat /\ Len(longer) = Len(got[d]) + 1
      BY <3>2, <3>3, InSeq DEF Longer, Carried
    <3>7. read[d] <= Len(longer) /\ Len(longer) - read[d] <= Room
      BY <3>2, <3>4, <3>6, BoundAssumption DEF Carried
    <3> QED BY <3>1, <3>3, <3>4, <3>5, <3>7 DEF Carried, Delivered
  <2>2. CASE SendToGone(d, t)
    BY <2>2 DEF SendToGone, Carried, Delivered
  <2> QED BY <1>4, <2>1, <2>2
<1>6. Carried(S, T)'
  BY <1>2, <1>3, <1>5 DEF Carried, rest
<1>7. cursor'[t] = rest /\ \A s \in S \ {t} : cursor'[s] = cursor[s]
  BY <1>3 DEF Carried
<1> QED BY <1>1, <1>2, <1>3, <1>5, <1>6, <1>7 DEF d, rest

(* What a delivery puts into a socket is the text or garbage.              *)
LEMMA OnlyThat ==
  ASSUME NEW S, NEW T, Carried(S, T), Carried(S, T)', NEW d \in Clients, NEW t, Delivered(d, t),
         NEW c \in Clients, NEW x \in ToSet(got'[c])
  PROVE  x \in ToSet(got[c]) \cup {text[t], Garbage}
<1>1. got[c] \in Seq(T) /\ got'[c] \in Seq(T)
  BY DEF Carried
<1>2. CASE got'[c] = got[c]
  BY <1>2
<1>3. CASE \E e \in {text[t], Garbage} : Longer(got'[c], got[c], e)
  BY <1>1, <1>3, InLonger
<1> QED BY <1>2, <1>3 DEF Delivered

(* A text that is not the one sent stays new.                              *)
LEMMA StillNew ==
  ASSUME NEW S, NEW T, Carried(S, T), Carried(S, T)', NEW d \in Clients, NEW t, Delivered(d, t),
         NEW x, New(x), x # text[t], x # Garbage
  PROVE  New(x)'
BY OnlyThat DEF New

(* The order of two texts in a socket was there before, or the second one  *)
(* has just arrived.                                                       *)
LEMMA OrderWas ==
  ASSUME NEW S, NEW T, Carried(S, T), Carried(S, T)', NEW d \in Clients, NEW t, Delivered(d, t),
         NEW c \in Clients, NEW x, NEW y, y # Garbage, Before(got'[c], x, y)
  PROVE  \/ Before(got[c], x, y)
         \/ c = d /\ y = text[t] /\ x \in ToSet(got[c])
<1>1. got[c] \in Seq(T) /\ got'[c] \in Seq(T)
  BY DEF Carried
<1>2. CASE got'[c] = got[c]
  BY <1>2
<1>3. CASE c = d /\ \E e \in {text[t], Garbage} : Longer(got'[c], got[c], e)
  BY <1>1, <1>3, InLonger
<1> QED BY <1>2, <1>3 DEF Delivered

(* Nothing comes after the latest text.                                    *)
LEMMA NoneAfterLatest ==
  ASSUME NEW S, NEW T, Carried(S, T), NEW t, Latest(t), NEW c \in Clients, NEW y
  PROVE  ~Before(got[c], text[t], y)
<1>1. Len(got[c]) \in Nat
  BY InSeq DEF Carried
<1> QED BY <1>1 DEF Latest, Before

(* So a delivery keeps the order in which all clients get the texts.       *)
LEMMA OrderKept ==
  ASSUME NEW S, NEW T, Carried(S, T), Carried(S, T)', NEW d \in Clients, NEW t, Delivered(d, t),
         OneOrder, text[t] # Garbage => Latest(t)
  PROVE  OneOrder'
<1> SUFFICES ASSUME NEW b \in Clients, NEW c \in Clients, NEW x, NEW y,
                    x # Garbage, y # Garbage, x # y,
                    Before(got'[b], x, y), Before(got'[c], y, x)
             PROVE  FALSE
  <2>1. ASSUME NEW b \in Clients, NEW c \in Clients,
               NEW x \in ToSet(got'[b]), NEW y \in ToSet(got'[b]),
               x # Garbage, y # Garbage, x # y
        PROVE  ~(Before(got'[b], x, y) /\ Before(got'[c], y, x))
    BY <2>1
  <2> QED BY <2>1 DEF OneOrder
<1>1. \/ Before(got[b], x, y)
      \/ b = d /\ y = text[t] /\ x \in ToSet(got[b])
  BY OrderWas
<1>2. \/ Before(got[c], y, x)
      \/ c = d /\ x = text[t] /\ y \in ToSet(got[c])
  BY OrderWas
<1>3. CASE Before(got[b], x, y) /\ Before(got[c], y, x)
  <2>1. x \in ToSet(got[b]) /\ y \in ToSet(got[b])
    <3>1. got[b] \in Seq(T)
      BY DEF Carried
    <3>2. ToSet(got[b]) = {got[b][i] : i \in 1 .. Len(got[b])}
      BY <3>1, InSeq
    <3>3. PICK i \in 1 .. Len(got[b]), j \in 1 .. Len(got[b]) : got[b][i] = x /\ got[b][j] = y
      BY <1>3, Zenon DEF Before
    <3> QED BY <3>2, <3>3
  <2> QED BY <1>3, <2>1 DEF OneOrder
<1>4. ASSUME y = text[t] PROVE FALSE
  <2>1. ~Before(got[c], y, x)
    BY <1>4, NoneAfterLatest
  <2> QED BY <1>2, <1>4, <2>1
<1>5. ASSUME x = text[t] PROVE FALSE
  <2>1. ~Before(got[b], x, y)
    BY <1>5, NoneAfterLatest
  <2> QED BY <1>1, <1>5, <2>1
<1> QED BY <1>1, <1>2, <1>3, <1>4, <1>5

(* A thread that has sent to the next one has to send to the others.       *)
LEMMA WayKept ==
  ASSUME NEW S, NEW T, Carried(S, T), Garbage \in T, NEW t \in S, SendToNext(t), OnItsWay(t)
  PROVE  OnItsWay(t)'
<1> DEFINE d == Head(cursor[t])
<1>1. /\ Carried(S, T)' /\ d \in Clients /\ cursor[t] # <<>> /\ Delivered(d, t)
      /\ text' = text /\ cursor'[t] = Tail(cursor[t])
  BY NextGets
<1>2. cursor[t] \in Seq(Clients)
  BY DEF Carried
<1>3. /\ d \in ToSet(cursor[t]) /\ ToSet(Tail(cursor[t])) \subseteq ToSet(cursor[t])
      /\ ToSet(cursor[t]) \subseteq Clients
      /\ IsInjective(Tail(cursor[t])) /\ d \notin ToSet(Tail(cursor[t]))
  BY <1>1, <1>2, InTail, InSeq DEF OnItsWay
<1> HIDE DEF d
<1>4. ASSUME text[t] # Garbage PROVE Latest(t)'
  <2>1. Latest(t)
    BY <1>4 DEF OnItsWay
  <2>2. ASSUME NEW c \in Clients, NEW i \in 1 .. Len(got'[c]), got'[c][i] = text[t]
        PROVE  i = Len(got'[c])
    <3>1. CASE got'[c] = got[c]
      BY <2>1, <2>2, <3>1 DEF Latest
    <3>2. ASSUME NEW e, c = d, Longer(got'[c], got[c], e) PROVE i = Len(got'[c])
      <4>1. text[t] \notin ToSet(got[c])
        BY <1>3, <2>1, <3>2 DEF Latest
      <4>2. Len(got[c]) \in Nat /\ ToSet(got[c]) = {got[c][j] : j \in 1 .. Len(got[c])}
        BY InSeq DEF Carried
      <4> QED BY <2>2, <3>2, <4>1, <4>2 DEF Longer
    <3> QED BY <1>1, <3>1, <3>2 DEF Delivered
  <2>3. ASSUME NEW c \in ToSet(cursor'[t]) PROVE text[t] \notin ToSet(got'[c])
    <3>1. c \in ToSet(cursor[t]) /\ c \in Clients /\ c # d
      BY <1>1, <1>3, <2>3
    <3>2. got'[c] = got[c]
      BY <1>1, <3>1 DEF Delivered
    <3> QED BY <2>1, <3>1, <3>2 DEF Latest
  <2> QED BY <1>1, <2>2, <2>3 DEF Latest
<1> QED BY <1>1, <1>3, <1>4 DEF OnItsWay

(* A thread starts with a text nobody has got.                             *)
LEMMA WayBegins ==
  ASSUME NEW S, NEW T, Carried(S, T), IsInjective(clients), NEW t \in S,
         text[t] = Garbage \/ New(text[t]),
         BeginList(t), UNCHANGED <<text, got>>
  PROVE  OnItsWay(t)'
<1>1. cursor'[t] = clients
  BY DEF BeginList, Carried
<1>2. ToSet(clients) \subseteq Clients
  BY InSeq DEF Carried
<1>3. ASSUME New(text[t]) PROVE Latest(t)'
  <2>1. \A d \in Clients : ToSet(got[d]) = {got[d][i] : i \in 1 .. Len(got[d])}
    BY InSeq DEF Carried
  <2> QED BY <1>1, <1>2, <1>3, <2>1 DEF New, Latest
<1> QED BY <1>1, <1>3 DEF OnItsWay

(* What a thread does with the list of clients keeps the types.            *)
LEMMA CarriedKept ==
  ASSUME NEW S, NEW T, Carried(S, T), Garbage \in T
  PROVE  /\ \A t \in S : BeginList(t) /\ UNCHANGED <<clients, text, sockets>> => Carried(S, T)'
         /\ \A t \in S : EndList(t) /\ UNCHANGED <<clients, sockets>> => Carried(S, T)'
         /\ \A c \in Clients : Receive(c) => Carried(S, T)'
<1>1. ASSUME NEW t \in S, BeginList(t), UNCHANGED <<clients, text, sockets>> PROVE Carried(S, T)'
  BY <1>1 DEF Carried, BeginList, sockets
<1>2. ASSUME NEW t \in S, EndList(t), UNCHANGED <<clients, sockets>> PROVE Carried(S, T)'
  BY <1>2 DEF Carried, EndList, sockets
<1>3. ASSUME NEW c \in Clients, Receive(c) PROVE Carried(S, T)'
  <2>1. PICK n \in 1 .. Len(got[c]) - read[c] : read' = [read EXCEPT ![c] = read[c] + n]
    BY <1>3 DEF Receive
  <2>2. Len(got[c]) \in Nat /\ read[c] \in Nat /\ Room \in Nat
    BY InSeq, BoundAssumption DEF Carried
  <2>3. /\ read[c] + n \in Nat /\ read[c] + n <= Len(got[c])
        /\ Len(got[c]) - read[c] <= Room => Len(got[c]) - (read[c] + n) <= Room
    BY <2>2
  <2>4. UNCHANGED <<clients, online, text, cursor, whole, got>>
    BY <1>3 DEF Receive, list, sending
  <2> DEFINE more == read[c] + n
  <2> HIDE DEF more
  <2>5. read' = [read EXCEPT ![c] = more] /\ more \in Nat /\ more <= Len(got[c])
        /\ Len(got[c]) - more <= Room
    BY <2>1, <2>3 DEF more, Carried
  <2> QED BY <2>4, <2>5 DEF Carried
<1> QED BY <1>1, <1>2, <1>3
-----------------------------------------------------------------------------
(* The chat.  The texts differ, and each names its client.                 *)
LEMMA Different ==
  ASSUME NEW c
  PROVE  /\ Name(c) # Quit(c) /\ Joined(c) # Left(c)
         /\ Joined(c)[2] = c /\ Left(c)[2] = c
         /\ \A n : /\ Message(c, n) \notin {Name(c), Quit(c), Joined(c), Left(c)}
                   /\ Message(c, n)[2] = c
                   /\ \A m : Message(c, n) = Message(c, m) => n = m
BY DEF Name, Quit, Joined, Left, Message

(* The texts are of the type.                                              *)
LEMMA AllTexts ==
  ASSUME NEW c \in Clients
  PROVE  /\ Garbage \in Texts /\ Joined(c) \in Texts /\ Left(c) \in Texts
         /\ \A n \in 1 .. MaxTyped : Message(c, n) \in Texts
BY DEF Texts

(* What the client c may send up.                                          *)
WordsOf(c) == {Name(c), Quit(c)} \cup {Message(c, n) : n \in 1 .. MaxTyped}
Words == UNION {WordsOf(c) : c \in Clients}

ChatTypes ==
  /\ Carried(Clients, Texts) /\ section \in Clients \cup {Nobody}
  /\ user \in [Clients -> {"start", "naming", "chatting", "gone"}]
  /\ typed \in 0 .. MaxTyped
  /\ pc \in [Clients -> {"none", "add", "name", "recv", "enter", "send", "remove",
                         "closed", "failed"}]
  /\ up \in [Clients -> Seq(Words)]
  /\ \A c \in Clients : ToSet(up[c]) \subseteq WordsOf(c)

(* The name comes first and is received first, QUIT is said when the user  *)
(* goes, and no text is sent up twice.                                     *)
WordsUp(c) ==
  /\ user[c] = "start" => pc[c] = "none"
  /\ user[c] = "naming" => pc[c] \in {"add", "name"} /\ c \in online
  /\ user[c] \in {"start", "naming"} => up[c] = <<>>
  /\ IsInjective(up[c])
  /\ Name(c) \in ToSet(up[c]) => pc[c] \in {"add", "name"} /\ Head(up[c]) = Name(c)
  /\ Quit(c) \in ToSet(up[c]) => user[c] = "gone"
  /\ \A n \in 1 .. MaxTyped : Message(c, n) \in ToSet(up[c]) => n <= typed

(* The texts of c that its thread may still come to send.                  *)
Coming(c, x) ==
  \/ x = Joined(c) /\ pc[c] \in {"none", "add", "name"}
  \/ x = Left(c) /\ (user[c] # "gone" \/ Quit(c) \in ToSet(up[c]))
  \/ \E n \in 1 .. MaxTyped : x = Message(c, n) /\ (n > typed \/ x \in ToSet(up[c]))

(* None of them has been sent, and the one about to be sent has not been.  *)
Fresh(c) ==
  /\ text[c] # Garbage => text[c][2] = c
  /\ \A x : Coming(c, x) /\ x # Garbage => x # text[c] /\ New(x)
  /\ pc[c] = "enter" => text[c] = Garbage \/ New(text[c])

InSection(c) == pc[c] = "send" => section = c /\ OnItsWay(c)

ChatInv ==
  /\ ChatTypes /\ ListedWhileServed /\ OneOrder
  /\ \A c \in Clients : WordsUp(c) /\ Fresh(c) /\ InSection(c)

ChatStep(c) == Accept(c) \/ ClientThread(c) \/ Process(c)

(* What a thread receives first is its own; the rest is still to come.     *)
LEMMA Received ==
  ASSUME ChatTypes, NEW c \in Clients, NEW what, Recv(c, what)
  PROVE  /\ up[c] # <<>> /\ what = Head(up[c]) /\ what \in ToSet(up[c]) /\ what \in WordsOf(c)
         /\ up' \in [Clients -> Seq(Words)] /\ ToSet(up'[c]) \subseteq ToSet(up[c])
         /\ IsInjective(up[c]) => IsInjective(up'[c]) /\ what \notin ToSet(up'[c])
         /\ \A d \in Clients \ {c} : up'[d] = up[d]
<1>1. up[c] \in Seq(Words) /\ up[c] # <<>> /\ what = Head(up[c])
  BY DEF ChatTypes, Recv
<1>2. what = up[c][1] /\ what \in ToSet(up[c]) /\ what \in WordsOf(c)
  BY <1>1, InTail DEF ChatTypes
<1>3. PICK n \in 1 .. Len(up[c]) : up' = [up EXCEPT ![c] = SubSeq(up[c], n + 1, Len(up[c]))]
  BY DEF Recv
<1> DEFINE rest == SubSeq(up[c], n + 1, Len(up[c]))
<1>4. /\ rest \in Seq(Words) /\ ToSet(rest) \subseteq ToSet(up[c])
      /\ IsInjective(up[c]) => IsInjective(rest) /\ up[c][1] \notin ToSet(rest)
  BY <1>1, InRest, Zenon
<1>5. up' = [up EXCEPT ![c] = rest]
  BY <1>3
<1> HIDE DEF rest
<1>6. up' \in [Clients -> Seq(Words)] /\ up'[c] = rest /\ \A d \in Clients \ {c} : up'[d] = up[d]
  BY <1>4, <1>5 DEF ChatTypes
<1> QED BY <1>1, <1>2, <1>4, <1>6

(* What is sent up comes after the rest.                                   *)
LEMMA SentUp ==
  ASSUME ChatTypes, NEW c \in Clients, NEW what \in WordsOf(c), SendUp(c, what)
  PROVE  /\ up' \in [Clients -> Seq(Words)] /\ ToSet(up'[c]) = ToSet(up[c]) \cup {what}
         /\ IsInjective(up[c]) /\ what \notin ToSet(up[c]) => IsInjective(up'[c])
         /\ Head(up'[c]) = IF up[c] = <<>> THEN what ELSE Head(up[c])
         /\ \A d \in Clients \ {c} : up'[d] = up[d]
<1>1. up[c] \in Seq(Words) /\ what \in Words
  BY DEF ChatTypes, Words
<1> DEFINE more == Append(up[c], what)
<1>2. more \in Seq(Words) /\ Longer(more, up[c], what)
  BY <1>1, AppendIsLonger
<1>3. up' = [up EXCEPT ![c] = more]
  BY DEF SendUp
<1> HIDE DEF more
<1>4. up' \in [Clients -> Seq(Words)] /\ up'[c] = more /\ \A d \in Clients \ {c} : up'[d] = up[d]
  BY <1>2, <1>3 DEF ChatTypes
<1>5. /\ ToSet(more) = ToSet(up[c]) \cup {what}
      /\ IsInjective(up[c]) /\ what \notin ToSet(up[c]) => IsInjective(more)
  BY <1>1, <1>2, InLonger
<1>6. Head(more) = IF up[c] = <<>> THEN what ELSE Head(up[c])
  <2>1. Len(up[c]) \in Nat /\ Len(more) = Len(up[c]) + 1
    BY <1>1, <1>2, InSeq DEF Longer
  <2>2. Head(more) = more[1]
    BY <1>2, <2>1
  <2>3. CASE up[c] = <<>>
    <3>1. Len(up[c]) = 0
      BY <2>3
    <3> QED BY <1>2, <2>2, <2>3, <3>1 DEF Longer
  <2>4. CASE up[c] # <<>>
    <3>1. Len(up[c]) # 0 /\ Head(up[c]) = up[c][1]
      BY <1>1, <2>4, EmptySeq
    <3>2. 1 \in 1 .. Len(up[c])
      BY <2>1, <3>1
    <3>3. more[1] = up[c][1]
      BY <1>2, <3>2 DEF Longer
    <3> QED BY <2>2, <2>4, <3>1, <3>3
  <2> QED BY <2>3, <2>4
<1> QED BY <1>4, <1>5, <1>6
(* The section is left free by the thread that owns it.                    *)
LEMMA LeftFree ==
  ASSUME NEW c \in Clients, section = c, LeaveSection(c)
  PROVE  section' = Nobody
BY NamesAssumption DEF LeaveSection, Uninitialized, Corrupt

(* The types, for each action of the chat.                                 *)
LEMMA ChatTypesKept ==
  ASSUME ChatTypes, ListedWhileServed, NEW c \in Clients, WordsUp(c), InSection(c), ChatStep(c)
  PROVE  ChatTypes'
<1> USE NamesAssumption
<1>0. /\ Carried(Clients, Texts) /\ Garbage \in Texts /\ typed \in Nat /\ MaxTyped \in Nat
      /\ pc[c] = "send" => section = c
  BY AllTexts, BoundAssumption DEF ChatTypes, InSection
<1>1. CASE Accept(c)
  <2>1. Carried(Clients, Texts)'
    BY <1>1 DEF Accept, Carried, list, sending, ChatTypes
  <2> QED BY <1>1, <2>1 DEF Accept, Goes, ChatTypes, list
<1>2. ASSUME NEW what \in WordsOf(c), SendUp(c, what), UNCHANGED <<list, sending, got, read, pc>>,
             online' \subseteq online, typed' \in 0 .. MaxTyped,
             user' \in [Clients -> {"start", "naming", "chatting", "gone"}]
      PROVE  ChatTypes'
  <2>1. Carried(Clients, Texts)'
    BY <1>2 DEF Carried, list, sending, ChatTypes
  <2>2. /\ up' \in [Clients -> Seq(Words)] /\ ToSet(up'[c]) = ToSet(up[c]) \cup {what}
        /\ \A d \in Clients \ {c} : up'[d] = up[d]
    BY <1>2, SentUp
  <2>3. \A d \in Clients : ToSet(up'[d]) \subseteq WordsOf(d)
    <3>1. ToSet(up[c]) \subseteq WordsOf(c) /\ what \in WordsOf(c)
      BY <1>2 DEF ChatTypes
    <3>2. ToSet(up'[c]) \subseteq WordsOf(c)
      BY <2>2, <3>1
    <3>3. ASSUME NEW d \in Clients, d # c PROVE ToSet(up'[d]) \subseteq WordsOf(d)
      <4>1. up'[d] = up[d] /\ ToSet(up[d]) \subseteq WordsOf(d)
        BY <2>2, <3>3 DEF ChatTypes
      <4> QED BY <4>1
    <3> QED BY <3>2, <3>3, Zenon
  <2>4. section' = section /\ pc' = pc
    BY <1>2 DEF list
  <2> QED BY <1>2, <2>1, <2>2, <2>3, <2>4, Zenon DEF ChatTypes
<1>3. CASE SendName(c)
  <2>1. Name(c) \in WordsOf(c)
    BY DEF WordsOf
  <2> QED BY <1>2, <1>3, <2>1 DEF SendName, sockets, ChatTypes
<1>4. CASE TypeMessage(c)
  <2>1. typed + 1 \in 1 .. MaxTyped
    BY <1>0, <1>4 DEF TypeMessage
  <2>2. Message(c, typed + 1) \in WordsOf(c)
    BY <2>1 DEF WordsOf
  <2>3. typed' \in 0 .. MaxTyped
    BY <1>0, <1>4, <2>1 DEF TypeMessage
  <2>4. user' \in [Clients -> {"start", "naming", "chatting", "gone"}]
    BY <1>4 DEF TypeMessage, ChatTypes
  <2>5. /\ SendUp(c, Message(c, typed + 1)) /\ online' \subseteq online
        /\ UNCHANGED <<list, sending, got, read, pc>>
    BY <1>4 DEF TypeMessage, sockets
  <2> QED BY <1>2, <2>2, <2>3, <2>4, <2>5
<1>5. CASE TypeQuit(c)
  <2>1. Quit(c) \in WordsOf(c)
    BY DEF WordsOf
  <2> QED BY <1>2, <1>5, <2>1 DEF TypeQuit, ChatTypes
<1>6. CASE Killed(c)
  <2>1. Carried(Clients, Texts)'
    BY <1>6 DEF Killed, Carried, list, sending, ChatTypes
  <2> QED BY <1>6, <2>1 DEF Killed, ChatTypes, list
<1>7. CASE aReader(c)
  <2>1. Carried(Clients, Texts)'
    BY <1>0, <1>7, CarriedKept DEF aReader
  <2> QED BY <1>7, <2>1 DEF aReader, Receive, ChatTypes, list, process
<1>8. CASE Add(c)
  <2>1. clients \in Seq(Clients)
    BY DEF ChatTypes, Carried
  <2>2. <<c>> \o clients \in Seq(Clients)
    BY <2>1, InPushed
  <2>3. Carried(Clients, Texts)'
    BY <1>8, <2>2 DEF Add, PushFront, Carried, sending, sockets, ChatTypes
  <2> QED BY <1>8, <2>3 DEF Add, Goes, ChatTypes, process
<1>9. ASSUME NEW x \in Texts, NEW what, Recv(c, what), text' = [text EXCEPT ![c] = x],
             Goes(c, "name", "enter") \/ Goes(c, "recv", "enter"),
             UNCHANGED <<list, cursor, whole, sockets, user, typed>>
      PROVE  ChatTypes'
  <2>1. Carried(Clients, Texts)'
    BY <1>9 DEF Carried, list, sockets, ChatTypes
  <2>2. /\ up' \in [Clients -> Seq(Words)] /\ ToSet(up'[c]) \subseteq ToSet(up[c])
        /\ \A d \in Clients \ {c} : up'[d] = up[d]
    BY <1>9, Received
  <2> QED BY <1>9, <2>1, <2>2 DEF ChatTypes, list, Goes
<1>10. CASE RecvName(c)
  <2>1. PICK what : Recv(c, what)
    BY <1>10 DEF RecvName
  <2>2. Joined(c) \in Texts
    BY AllTexts
  <2> QED BY <1>9, <1>10, <2>1, <2>2 DEF RecvName
<1>11. CASE RecvNameFails(c)
  <2>1. Carried(Clients, Texts)'
    BY <1>11 DEF RecvNameFails, Carried, list, sending, sockets, ChatTypes
  <2> QED BY <1>11, <2>1 DEF RecvNameFails, Goes, ChatTypes, process, list
<1>12. CASE RecvMessage(c)
  <2>1. PICK what : Recv(c, what) /\ text' = [text EXCEPT ![c] = IF what = Quit(c) THEN Left(c) ELSE what]
    BY <1>12 DEF RecvMessage
  <2>2. what \in WordsOf(c) /\ what \in ToSet(up[c])
    BY <2>1, Received
  <2>3. what # Name(c)
    BY <1>12, <2>2 DEF WordsUp, RecvMessage, Goes
  <2>4. (IF what = Quit(c) THEN Left(c) ELSE what) \in Texts
    BY <2>2, <2>3, AllTexts DEF WordsOf
  <2> QED BY <1>9, <1>12, <2>1, <2>4 DEF RecvMessage
<1>13. CASE EnterSendToAll(c)
  <2>1. Carried(Clients, Texts)'
    BY <1>0, <1>13, CarriedKept DEF EnterSendToAll
  <2> QED BY <1>13, <2>1 DEF EnterSendToAll, EnterSection, Goes, ChatTypes, process
<1>14. CASE SendNext(c)
  <2>1. Carried(Clients, Texts)' /\ section' = section
    BY <1>0, <1>14, NextGets DEF SendNext
  <2> QED BY <1>14, <2>1 DEF SendNext, ChatTypes, process
<1>15. CASE LeaveSendToAll(c)
  <2>1. Carried(Clients, Texts)'
    BY <1>0, <1>15, CarriedKept DEF LeaveSendToAll
  <2>2. section' = Nobody
    BY <1>0, <1>15, LeftFree DEF LeaveSendToAll, Goes
  <2> QED BY <1>15, <2>1, <2>2 DEF LeaveSendToAll, Goes, ChatTypes, process
<1>16. CASE RemoveClient(c)
  <2>1. clients \in Seq(Clients) /\ IsInjective(clients)
    BY DEF ChatTypes, Carried, ListedWhileServed
  <2>2. RemoveFirst(clients, c) \in Seq(Clients)
    BY <2>1, InRemoved
  <2>3. Carried(Clients, Texts)'
    BY <1>16, <2>2 DEF RemoveClient, Carried, sending, sockets, ChatTypes
  <2> QED BY <1>16, <2>3 DEF RemoveClient, Goes, ChatTypes, process
<1> QED BY <1>1, <1>3, <1>4, <1>5, <1>6, <1>7, <1>8, <1>10, <1>11, <1>12, <1>13, <1>14, <1>15, <1>16
        DEF ChatStep, ClientThread, Process
(* A step that one client or its thread takes is nothing to the others.    *)
LEMMA OthersStay ==
  ASSUME ChatTypes, NEW c \in Clients, ChatStep(c), NEW d \in Clients \ {c}
  PROVE  /\ user'[d] = user[d] /\ pc'[d] = pc[d] /\ up'[d] = up[d]
         /\ text'[d] = text[d] /\ cursor'[d] = cursor[d] /\ (d \in online' <=> d \in online)
<1> USE NamesAssumption DEF Goes
<1>1. CASE Accept(c)
  BY <1>1 DEF Accept, list, sending, ChatTypes
<1>2. CASE SendName(c) \/ TypeMessage(c) \/ TypeQuit(c)
  <2>1. up'[d] = up[d]
    BY <1>2 DEF SendName, TypeMessage, TypeQuit, SendUp, ChatTypes
  <2> QED BY <1>2, <2>1 DEF SendName, TypeMessage, TypeQuit, list, sending, sockets, ChatTypes
<1>3. CASE Killed(c)
  BY <1>3 DEF Killed, list, sending, ChatTypes
<1>4. CASE aReader(c)
  BY <1>4 DEF aReader, Receive, sending, process
<1>5. CASE Add(c) \/ RecvNameFails(c) \/ RemoveClient(c)
  BY <1>5 DEF Add, RecvNameFails, RemoveClient, sending, sockets, process, ChatTypes
<1>6. CASE RecvName(c) \/ RecvMessage(c)
  <2>1. PICK what : Recv(c, what)
    BY <1>6 DEF RecvName, RecvMessage
  <2>2. up'[d] = up[d]
    BY <2>1, Received
  <2> QED BY <1>6, <2>2 DEF RecvName, RecvMessage, sockets, ChatTypes, Carried
<1>7. CASE EnterSendToAll(c)
  BY <1>7 DEF EnterSendToAll, BeginList, sockets, process, ChatTypes, Carried
<1>8. CASE SendNext(c)
  BY <1>8 DEF SendNext, SendToNext, process, ChatTypes, Carried
<1>9. CASE LeaveSendToAll(c)
  BY <1>9 DEF LeaveSendToAll, EndList, sockets, process, ChatTypes, Carried
<1> QED BY <1>1, <1>2, <1>3, <1>4, <1>5, <1>6, <1>7, <1>8, <1>9 DEF ChatStep, ClientThread, Process

(* The list: who is in it, and whom a thread still has before it.          *)
LEMMA ListKept ==
  ASSUME ChatTypes, ListedWhileServed, NEW c \in Clients, ChatStep(c),
         \A d \in Clients : InSection(d)
  PROVE  ListedWhileServed'
<1> USE NamesAssumption DEF Goes
<1>0. clients \in Seq(Clients) /\ \A d \in Clients : pc[d] = "send" => section = d
  BY DEF ChatTypes, Carried, InSection
<1>1. ASSUME UNCHANGED <<clients, cursor>>,
             pc'[c] \notin {"none", "add", "closed"} <=> pc[c] \notin {"none", "add", "closed"},
             pc'[c] = "send" => pc[c] = "send"
      PROVE  ListedWhileServed'
  BY <1>1, OthersStay DEF ListedWhileServed
<1>2. CASE Accept(c)
  BY <1>1, <1>2 DEF Accept, list, sending, ChatTypes
<1>3. CASE Process(c)
  BY <1>1, <1>3 DEF Process, SendName, TypeMessage, TypeQuit, Killed, aReader, Receive, list, sending
<1>4. CASE RecvName(c) \/ RecvMessage(c) \/ RecvNameFails(c)
  BY <1>1, <1>4 DEF RecvName, RecvMessage, RecvNameFails, list, sending, ChatTypes
<1>5. CASE LeaveSendToAll(c)
  BY <1>1, <1>5 DEF LeaveSendToAll, EndList, ChatTypes
<1>6. CASE Add(c)
  <2>1. c \notin ToSet(clients) /\ \A d \in Clients : pc'[d] # "send"
    BY <1>0, <1>6, OthersStay DEF Add, ListedWhileServed, ChatTypes
  <2>2. clients' = <<c>> \o clients
    BY <1>6 DEF Add, PushFront
  <2>3. ToSet(clients') = ToSet(clients) \cup {c} /\ IsInjective(clients')
    BY <1>0, <2>1, <2>2, InPushed DEF ListedWhileServed
  <2>4. pc[c] = "add" /\ pc'[c] = "name"
    BY <1>6 DEF Add, ChatTypes
  <2> QED BY <2>1, <2>3, <2>4, OthersStay DEF ListedWhileServed
<1>7. CASE RemoveClient(c)
  <2>1. \A d \in Clients : pc'[d] # "send"
    BY <1>0, <1>7, OthersStay DEF RemoveClient, ChatTypes
  <2>2. clients' = RemoveFirst(clients, c) /\ IsInjective(clients)
    BY <1>7 DEF RemoveClient, ListedWhileServed
  <2>3. ToSet(clients') = ToSet(clients) \ {c} /\ IsInjective(clients')
    BY <1>0, <2>2, InRemoved
  <2>4. pc[c] = "remove" /\ pc'[c] = "closed"
    BY <1>7 DEF RemoveClient, ChatTypes
  <2> QED BY <2>1, <2>3, <2>4, OthersStay DEF ListedWhileServed
<1>8. CASE EnterSendToAll(c)
  <2>1. clients' = clients /\ cursor'[c] = clients /\ pc[c] = "enter" /\ pc'[c] = "send"
    BY <1>8 DEF EnterSendToAll, BeginList, ChatTypes, Carried
  <2> QED BY <2>1, OthersStay DEF ListedWhileServed
<1>9. CASE SendNext(c)
  <2>1. pc' = pc /\ clients' = clients /\ cursor'[c] = Tail(cursor[c]) /\ cursor[c] # <<>>
        /\ cursor[c] \in Seq(Clients)
    BY <1>9 DEF SendNext, SendToNext, list, process, ChatTypes, Carried
  <2>2. ToSet(cursor'[c]) \subseteq ToSet(cursor[c])
    BY <2>1, InTail
  <2> QED BY <2>1, <2>2, OthersStay DEF ListedWhileServed
<1> QED BY <1>2, <1>3, <1>4, <1>5, <1>6, <1>7, <1>8, <1>9 DEF ChatStep, ClientThread
(* What is on its way to the server.                                       *)
LEMMA WordsKept ==
  ASSUME ChatTypes, NEW c \in Clients, ChatStep(c), NEW d \in Clients, WordsUp(d)
  PROVE  WordsUp(d)' /\ typed \in Nat /\ typed' \in Nat /\ typed' >= typed
<1> USE NamesAssumption DEF Goes
<1>a. typed \in Nat
  BY BoundAssumption DEF ChatTypes
<1>0. typed' = typed \/ typed' = typed + 1
  BY DEF ChatStep, ClientThread, Process, Accept, SendName, TypeMessage, TypeQuit, Killed, aReader,
     Add, RecvName, RecvNameFails, RecvMessage, EnterSendToAll, SendNext, LeaveSendToAll,
     RemoveClient, process
<1>b. typed' \in Nat /\ typed' >= typed
  BY <1>a, <1>0
<1> SUFFICES WordsUp(d)'
  BY <1>a, <1>b
<1>1. CASE d # c
  <2>1. /\ user'[d] = user[d] /\ pc'[d] = pc[d] /\ up'[d] = up[d]
        /\ (d \in online' <=> d \in online)
    BY <1>1, OthersStay
  <2>2. \A n \in 1 .. MaxTyped : n <= typed => n <= typed'
    BY <1>a, <1>b
  <2> QED BY <1>a, <1>b, <2>1, <2>2, Zenon DEF WordsUp
<1>2. ToSet(<<>>) = {} /\ IsInjective(<<>>)
  BY DEF ToSet, IsInjective
<1>3. ASSUME up'[c] = up[c], typed' = typed, d = c,
             user'[c] = user[c],
             c \in online => c \in online',
             \/ pc'[c] = pc[c]
             \/ pc[c] = "add" /\ pc'[c] = "name"
             \/ /\ pc[c] \notin {"none", "add"} /\ pc'[c] \notin {"none", "add", "name"}
                /\ pc[c] = "name" => c \notin online /\ up[c] = <<>>
      PROVE  WordsUp(d)'
  BY <1>2, <1>3 DEF WordsUp
<1>4. CASE d = c /\ Accept(c)
  BY <1>2, <1>4 DEF Accept, WordsUp, ChatTypes
<1>5. CASE d = c /\ SendName(c)
  <2>1. Name(c) \in WordsOf(c) /\ SendUp(c, Name(c)) /\ up[c] = <<>>
    BY <1>5 DEF SendName, WordsOf, WordsUp
  <2>2. ToSet(up'[c]) = {Name(c)} /\ IsInjective(up'[c]) /\ Head(up'[c]) = Name(c)
    BY <1>2, <2>1, SentUp
  <2>3. user'[c] = "chatting" /\ pc'[c] = pc[c] /\ pc[c] \in {"add", "name"}
    BY <1>5 DEF SendName, WordsUp, ChatTypes
  <2> QED BY <1>5, <2>2, <2>3, Different DEF WordsUp
<1>6. CASE d = c /\ TypeMessage(c)
  <2>1. typed' = typed + 1 /\ typed + 1 \in 1 .. MaxTyped /\ UNCHANGED <<user, pc>>
        /\ user[c] = "chatting"
    BY <1>a, <1>6, BoundAssumption DEF TypeMessage
  <2>2. Message(c, typed + 1) \in WordsOf(c) /\ Message(c, typed + 1) \notin ToSet(up[c])
    <3>1. ~(typed + 1 <= typed)
      BY <1>a
    <3> QED BY <1>6, <2>1, <3>1 DEF WordsOf, WordsUp
  <2>3. SendUp(c, Message(c, typed + 1))
    BY <1>6 DEF TypeMessage
  <2>4. /\ ToSet(up'[c]) = ToSet(up[c]) \cup {Message(c, typed + 1)} /\ IsInjective(up'[c])
        /\ Head(up'[c]) = IF up[c] = <<>> THEN Message(c, typed + 1) ELSE Head(up[c])
    BY <1>6, <2>2, <2>3, SentUp DEF WordsUp
  <2>5. Name(c) \in ToSet(up'[c]) => pc[c] \in {"add", "name"} /\ Head(up'[c]) = Name(c)
    <3>1. SUFFICES ASSUME Name(c) \in ToSet(up'[c])
                   PROVE  pc[c] \in {"add", "name"} /\ Head(up'[c]) = Name(c)
      OBVIOUS
    <3>2. Name(c) \in ToSet(up[c])
      BY <2>4, <3>1, Different
    <3>3. up[c] # <<>>
      BY <1>2, <3>2
    <3> QED BY <1>6, <2>4, <3>2, <3>3 DEF WordsUp
  <2>6. \A n \in 1 .. MaxTyped : Message(c, n) \in ToSet(up'[c]) => n <= typed'
    <3> TAKE n \in 1 .. MaxTyped
    <3> HAVE Message(c, n) \in ToSet(up'[c])
    <3>1. CASE Message(c, n) \in ToSet(up[c])
      BY <1>a, <1>6, <2>1, <3>1 DEF WordsUp
    <3>2. CASE Message(c, n) = Message(c, typed + 1)
      <4>1. n = typed + 1
        BY <3>2, Different
      <4> QED BY <1>a, <2>1, <4>1
    <3> QED BY <2>4, <3>1, <3>2
  <2>7. Quit(c) \notin ToSet(up'[c])
    BY <1>6, <2>1, <2>4, Different DEF WordsUp
  <2> QED BY <1>6, <2>1, <2>4, <2>5, <2>6, <2>7 DEF WordsUp
<1>7. CASE d = c /\ TypeQuit(c)
  <2>1. Quit(c) \in WordsOf(c) /\ SendUp(c, Quit(c)) /\ Quit(c) \notin ToSet(up[c])
        /\ user'[c] = "gone" /\ pc' = pc /\ typed' = typed
    BY <1>7 DEF TypeQuit, WordsOf, WordsUp, ChatTypes
  <2>2. /\ ToSet(up'[c]) = ToSet(up[c]) \cup {Quit(c)} /\ IsInjective(up'[c])
        /\ Head(up'[c]) = IF up[c] = <<>> THEN Quit(c) ELSE Head(up[c])
    BY <1>7, <2>1, SentUp DEF WordsUp
  <2>3. Name(c) \in ToSet(up'[c]) => Name(c) \in ToSet(up[c]) /\ up[c] # <<>>
    BY <1>2, <2>2, Different
  <2>4. \A n \in 1 .. MaxTyped : Message(c, n) \in ToSet(up'[c]) => Message(c, n) \in ToSet(up[c])
    BY <2>2, Different
  <2> QED BY <1>7, <2>1, <2>2, <2>3, <2>4 DEF WordsUp
<1>8. CASE d = c /\ Killed(c)
  BY <1>8 DEF Killed, WordsUp, ChatTypes
<1>9. CASE d = c /\ aReader(c)
  BY <1>3, <1>9 DEF aReader, Receive, process
<1>10. CASE d = c /\ (Add(c) \/ RecvNameFails(c) \/ RemoveClient(c))
  BY <1>3, <1>10 DEF Add, RecvNameFails, RemoveClient, sockets, process, ChatTypes
<1>11. CASE d = c /\ (RecvName(c) \/ RecvMessage(c))
  <2>1. PICK what : Recv(c, what)
    BY <1>11 DEF RecvName, RecvMessage
  <2>2. /\ up[c] # <<>> /\ what = Head(up[c]) /\ ToSet(up'[c]) \subseteq ToSet(up[c])
        /\ IsInjective(up'[c]) /\ what \notin ToSet(up'[c])
    BY <1>11, <2>1, Received DEF WordsUp
  <2>3. Name(c) \notin ToSet(up'[c])
    BY <1>11, <2>2 DEF WordsUp
  <2>4. user' = user /\ typed' = typed /\ user[c] \notin {"start", "naming"}
    BY <1>11, <2>2 DEF RecvName, RecvMessage, WordsUp
  <2> QED BY <1>11, <2>2, <2>3, <2>4 DEF WordsUp
<1>12. CASE d = c /\ (EnterSendToAll(c) \/ LeaveSendToAll(c))
  BY <1>3, <1>12 DEF EnterSendToAll, LeaveSendToAll, sockets, process, ChatTypes
<1>13. CASE d = c /\ SendNext(c)
  BY <1>3, <1>13 DEF SendNext, SendToNext, process
<1> QED BY <1>1, <1>4, <1>5, <1>6, <1>7, <1>8, <1>9, <1>10, <1>11, <1>12, <1>13
        DEF ChatStep, ClientThread, Process
(* No text comes back that was sent, and all that come of a client name it.*)
LEMMA ComingKept ==
  ASSUME ChatTypes, NEW c \in Clients, WordsUp(c), ChatStep(c),
         NEW d \in Clients, NEW x, Coming(d, x)'
  PROVE  Coming(d, x)
<1> USE NamesAssumption DEF Goes
<1>0. typed \in Nat /\ typed' \in Nat /\ \A n \in 1 .. MaxTyped : n > typed' => n > typed
  <2>1. typed \in Nat /\ typed' \in Nat /\ typed' >= typed
    BY WordsKept
  <2> QED BY <2>1
<1>1. CASE d # c
  <2>1. user'[d] = user[d] /\ pc'[d] = pc[d] /\ up'[d] = up[d]
    BY <1>1, OthersStay
  <2> QED BY <1>0, <2>1 DEF Coming
<1>2. ASSUME d = c,
             pc'[c] \in {"none", "add", "name"} => pc[c] \in {"none", "add", "name"},
             user'[c] # "gone" => user[c] # "gone",
             \A w \in ToSet(up'[c]) :
               \/ w \in ToSet(up[c]) \/ w = Name(c)
               \/ w = Quit(c) /\ user[c] # "gone"
               \/ \E n \in 1 .. MaxTyped : w = Message(c, n) /\ n > typed
      PROVE  Coming(d, x)
  <2>1. CASE x = Joined(c) /\ pc'[c] \in {"none", "add", "name"}
    BY <1>2, <2>1 DEF Coming
  <2>2. CASE x = Left(c) /\ (user'[c] # "gone" \/ Quit(c) \in ToSet(up'[c]))
    <3>1. user[c] # "gone" \/ Quit(c) \in ToSet(up[c])
      BY <1>2, <2>2, Different
    <3> QED BY <1>2, <2>2, <3>1 DEF Coming
  <2>3. ASSUME NEW n \in 1 .. MaxTyped, x = Message(c, n), n > typed' \/ x \in ToSet(up'[c])
        PROVE  Coming(d, x)
    <3>1. n > typed \/ x \in ToSet(up[c])
      <4>1. CASE n > typed'
        BY <1>0, <4>1
      <4>2. CASE x \in ToSet(up'[c])
        BY <1>2, <2>3, <4>2, Different
      <4> QED BY <2>3, <4>1, <4>2
    <3> QED BY <1>2, <2>3, <3>1 DEF Coming
  <2> QED BY <1>2, <2>1, <2>2, <2>3 DEF Coming
<1>3. CASE d = c /\ Accept(c)
  BY <1>2, <1>3 DEF Accept, ChatTypes
<1>4. CASE d = c /\ (SendName(c) \/ TypeMessage(c) \/ TypeQuit(c))
  <2>1. ASSUME NEW what \in WordsOf(c), SendUp(c, what),
               \/ what = Name(c)
               \/ what = Quit(c) /\ user[c] # "gone"
               \/ \E n \in 1 .. MaxTyped : what = Message(c, n) /\ n > typed
        PROVE  Coming(d, x)
    <3>1. ToSet(up'[c]) = ToSet(up[c]) \cup {what}
      BY <2>1, SentUp
    <3>2. pc' = pc /\ (user'[c] # "gone" => user[c] # "gone")
      BY <1>4 DEF SendName, TypeMessage, TypeQuit, ChatTypes
    <3> QED BY <1>2, <1>4, <2>1, <3>1, <3>2
  <2>2. CASE SendName(c)
    BY <2>1, <2>2 DEF SendName, WordsOf
  <2>3. CASE TypeMessage(c)
    <3>1. typed + 1 \in 1 .. MaxTyped /\ typed + 1 > typed
      BY <1>0, <2>3, BoundAssumption DEF TypeMessage
    <3>2. Message(c, typed + 1) \in WordsOf(c)
      BY <3>1 DEF WordsOf
    <3> QED BY <2>1, <2>3, <3>1, <3>2 DEF TypeMessage
  <2>4. CASE TypeQuit(c)
    BY <2>1, <2>4 DEF TypeQuit, WordsOf
  <2> QED BY <1>4, <2>2, <2>3, <2>4
<1>5. CASE d = c /\ Killed(c)
  BY <1>2, <1>5 DEF Killed, ChatTypes
<1>6. CASE d = c /\ aReader(c)
  BY <1>2, <1>6 DEF aReader, process
<1>7. CASE d = c /\ (Add(c) \/ RecvNameFails(c) \/ RemoveClient(c))
  BY <1>2, <1>7 DEF Add, RecvNameFails, RemoveClient, process, ChatTypes
<1>8. CASE d = c /\ (RecvName(c) \/ RecvMessage(c))
  <2>1. PICK what : Recv(c, what)
    BY <1>8 DEF RecvName, RecvMessage
  <2>2. ToSet(up'[c]) \subseteq ToSet(up[c])
    BY <2>1, Received
  <2> QED BY <1>2, <1>8, <2>2 DEF RecvName, RecvMessage, ChatTypes
<1>9. CASE d = c /\ (EnterSendToAll(c) \/ LeaveSendToAll(c))
  BY <1>2, <1>9 DEF EnterSendToAll, LeaveSendToAll, process, ChatTypes
<1>10. CASE d = c /\ SendNext(c)
  BY <1>2, <1>10 DEF SendNext, process
<1> QED BY <1>1, <1>3, <1>4, <1>5, <1>6, <1>7, <1>8, <1>9, <1>10 DEF ChatStep, ClientThread, Process

(* What comes of a client names it.                                        *)
LEMMA ComingNames ==
  ASSUME NEW c, NEW x, Coming(c, x)
  PROVE  x[2] = c
BY Different DEF Coming

(* What a thread receives becomes its text: it was to come and no more is. *)
LEMMA ReceivedCame ==
  ASSUME ChatTypes, NEW c \in Clients, WordsUp(c), RecvName(c) \/ RecvMessage(c)
  PROVE  \E y : /\ text' = [text EXCEPT ![c] = y] /\ y[2] = c
                /\ Coming(c, y) /\ ~Coming(c, y)'
<1> USE DEF Goes
<1>0. typed \in Nat
  BY BoundAssumption DEF ChatTypes
<1>1. CASE RecvName(c)
  <2>1. text' = [text EXCEPT ![c] = Joined(c)] /\ pc[c] = "name" /\ pc'[c] = "enter"
    BY <1>1 DEF RecvName, ChatTypes
  <2>2. Coming(c, Joined(c)) /\ ~Coming(c, Joined(c))'
    BY <2>1, Different DEF Coming
  <2> QED BY <2>1, <2>2, Different, Zenon
<1>2. CASE RecvMessage(c)
  <2>1. PICK what : /\ Recv(c, what)
                    /\ text' = [text EXCEPT ![c] = IF what = Quit(c) THEN Left(c) ELSE what]
    BY <1>2 DEF RecvMessage
  <2>2. /\ what \in ToSet(up[c]) /\ what \in WordsOf(c) /\ what \notin ToSet(up'[c])
    BY <2>1, Received DEF WordsUp
  <2>3. what # Name(c) /\ user' = user /\ typed' = typed
    BY <1>2, <2>2 DEF WordsUp, RecvMessage
  <2>4. CASE what = Quit(c)
    <3>1. text' = [text EXCEPT ![c] = Left(c)] /\ user'[c] = "gone"
      BY <2>1, <2>2, <2>3, <2>4 DEF WordsUp
    <3>2. Coming(c, Left(c)) /\ ~Coming(c, Left(c))'
      BY <2>2, <2>4, <3>1, Different DEF Coming
    <3> QED BY <3>1, <3>2, Different, Zenon
  <2>5. ASSUME NEW n \in 1 .. MaxTyped, what = Message(c, n)
        PROVE  \E y : /\ text' = [text EXCEPT ![c] = y] /\ y[2] = c
                      /\ Coming(c, y) /\ ~Coming(c, y)'
    <3>1. text' = [text EXCEPT ![c] = what] /\ what[2] = c
      BY <2>1, <2>5, Different
    <3>2. n <= typed'
      BY <2>2, <2>3, <2>5 DEF WordsUp
    <3>3. Coming(c, what)
      BY <2>2, <2>5 DEF Coming
    <3>4. ~Coming(c, what)'
      <4>1. ~(n > typed')
        BY <1>0, <2>3, <3>2
      <4> QED BY <2>2, <2>5, <4>1, Different DEF Coming
    <3> QED BY <3>1, <3>3, <3>4, Zenon
  <2> QED BY <2>2, <2>3, <2>4, <2>5, Zenon DEF WordsOf
<1> QED BY <1>1, <1>2

(* A sender puts only its own text into a socket, so those of the others   *)
(* stay new, and a text that was received does not come again.             *)
LEMMA FreshKept ==
  ASSUME ChatTypes, ChatTypes', NEW c \in Clients, ChatStep(c),
         \A d \in Clients : WordsUp(d) /\ Fresh(d), NEW d \in Clients
  PROVE  Fresh(d)'
<1> USE NamesAssumption DEF Goes
<1>0. /\ Carried(Clients, Texts) /\ Carried(Clients, Texts)' /\ Garbage \in Texts
      /\ \A x : Coming(d, x)' => Coming(d, x) /\ x[2] = d
  BY AllTexts, ComingKept, ComingNames DEF ChatTypes
<1>1. ASSUME UNCHANGED <<text, got>>, pc'[c] = "enter" => pc[c] = "enter"
      PROVE  Fresh(d)'
  BY <1>0, <1>1, OthersStay DEF Fresh, New
<1>2. CASE Accept(c)
  BY <1>1, <1>2 DEF Accept, sending, ChatTypes
<1>3. CASE Process(c)
  BY <1>1, <1>3 DEF Process, SendName, TypeMessage, TypeQuit, Killed, aReader, Receive, sending, sockets
<1>4. CASE Add(c) \/ RecvNameFails(c) \/ RemoveClient(c)
  BY <1>1, <1>4 DEF Add, RecvNameFails, RemoveClient, sending, sockets, ChatTypes
<1>5. CASE EnterSendToAll(c)
  BY <1>1, <1>5 DEF EnterSendToAll, sockets, ChatTypes
<1>6. CASE LeaveSendToAll(c)
  <2>1. text' = [text EXCEPT ![c] = Garbage] /\ got' = got /\ pc'[c] # "enter"
    BY <1>6 DEF LeaveSendToAll, EndList, sockets, ChatTypes
  <2>2. d # c => text'[d] = text[d] /\ pc'[d] = pc[d]
    BY OthersStay
  <2>3. text'[c] = Garbage
    BY <1>0, <2>1 DEF Carried
  <2> QED BY <1>0, <2>1, <2>2, <2>3 DEF Fresh, New
<1>7. CASE RecvName(c) \/ RecvMessage(c)
  <2>1. PICK y : /\ text' = [text EXCEPT ![c] = y] /\ y[2] = c
                 /\ Coming(c, y) /\ ~Coming(c, y)'
    BY <1>7, ReceivedCame
  <2>2. got' = got
    BY <1>7 DEF RecvName, RecvMessage, sockets
  <2>3. d # c => text'[d] = text[d] /\ pc'[d] = pc[d]
    BY OthersStay
  <2>4. text'[c] = y
    BY <1>0, <2>1 DEF Carried
  <2>5. CASE d # c
    BY <1>0, <2>2, <2>3, <2>5 DEF Fresh, New
  <2>6. CASE d = c
    BY <1>0, <2>1, <2>2, <2>4, <2>6 DEF Fresh, New
  <2> QED BY <2>5, <2>6
<1>8. CASE SendNext(c)
  <2>1. /\ Delivered(Head(cursor[c]), c) /\ Head(cursor[c]) \in Clients /\ text' = text
        /\ pc' = pc /\ pc[c] = "send"
    BY <1>0, <1>8, NextGets DEF SendNext
  <2> DEFINE e == Head(cursor[c])
  <2> HIDE DEF e
  <2>2. Delivered(e, c) /\ e \in Clients
    BY <2>1 DEF e
  <2>3. \A x : New(x) /\ x # text[c] /\ x # Garbage => New(x)'
    BY <1>0, <2>2, StillNew
  <2>4. text[c] # Garbage => text[c][2] = c
    BY DEF Fresh
  <2>5. ASSUME NEW x, Coming(d, x)', x # Garbage PROVE x # text[d] /\ New(x)'
    <3>1. Coming(d, x) /\ x[2] = d /\ x # text[d] /\ New(x)
      BY <1>0, <2>5 DEF Fresh
    <3>2. x # text[c]
      BY <2>4, <2>5, <3>1
    <3> QED BY <2>3, <2>5, <3>1, <3>2
  <2>6. ASSUME pc[d] = "enter", text[d] # Garbage PROVE New(text[d])'
    <3>1. d # c /\ text[d][2] = d /\ New(text[d])
      BY <2>1, <2>6 DEF Fresh
    <3>2. text[d] # text[c]
      BY <2>4, <2>6, <3>1
    <3>3. \A x : x = text[d] => New(x)'
      BY <2>3, <2>6, <3>1, <3>2
    <3>4. text'[d] = text[d]
      BY <2>1
    <3> QED BY <3>3, <3>4
  <2>7. text'[d] # Garbage => text'[d][2] = d
    BY <2>1 DEF Fresh
  <2> QED BY <2>1, <2>5, <2>6, <2>7 DEF Fresh
<1> QED BY <1>2, <1>3, <1>4, <1>5, <1>6, <1>7, <1>8 DEF ChatStep, ClientThread
(* Whoever goes through the list owns the section.                         *)
LEMMA SectionKept ==
  ASSUME ChatTypes, NEW c \in Clients, ChatStep(c), IsInjective(clients), Fresh(c),
         \A d \in Clients : InSection(d), NEW d \in Clients
  PROVE  InSection(d)'
<1> USE NamesAssumption DEF Goes
<1>0. Carried(Clients, Texts) /\ Garbage \in Texts
  BY AllTexts DEF ChatTypes
<1>1. ASSUME UNCHANGED <<section, got, cursor>>,
             pc'[c] = "send" => pc[c] = "send" /\ text'[c] = text[c]
      PROVE  InSection(d)'
  BY <1>1, OthersStay DEF InSection, OnItsWay, Latest
<1>2. CASE Accept(c)
  BY <1>1, <1>2 DEF Accept, list, sending, ChatTypes
<1>3. CASE Process(c)
  BY <1>1, <1>3 DEF Process, SendName, TypeMessage, TypeQuit, Killed, aReader, Receive, list,
     sending, sockets
<1>4. CASE Add(c) \/ RecvNameFails(c) \/ RemoveClient(c)
  BY <1>1, <1>4 DEF Add, RecvNameFails, RemoveClient, list, sending, sockets, ChatTypes
<1>5. CASE RecvName(c) \/ RecvMessage(c)
  BY <1>1, <1>5 DEF RecvName, RecvMessage, list, sockets, ChatTypes
<1>6. CASE EnterSendToAll(c)
  <2>1. /\ section = Nobody /\ section' = c /\ BeginList(c) /\ UNCHANGED <<text, got>>
        /\ pc[c] = "enter"
    BY <1>6 DEF EnterSendToAll, EnterSection, sockets
  <2>2. d # c => pc'[d] = pc[d]
    BY OthersStay
  <2>3. CASE d # c
    BY <2>1, <2>2, <2>3 DEF InSection
  <2>4. CASE d = c
    <3>1. text[c] = Garbage \/ New(text[c])
      BY <2>1 DEF Fresh
    <3>2. OnItsWay(c)'
      BY <1>0, <2>1, <3>1, WayBegins
    <3> QED BY <2>1, <2>4, <3>2 DEF InSection
  <2> QED BY <2>3, <2>4
<1>7. CASE SendNext(c)
  <2>1. pc' = pc /\ pc[c] = "send" /\ SendToNext(c) /\ section' = section
    BY <1>7 DEF SendNext, SendToNext, list
  <2>2. section = c /\ OnItsWay(c)
    BY <2>1 DEF InSection
  <2>3. OnItsWay(c)'
    BY <1>0, <2>1, <2>2, WayKept
  <2> QED BY <2>1, <2>2, <2>3 DEF InSection
<1>8. CASE LeaveSendToAll(c)
  <2>1. pc[c] = "send" /\ pc'[c] # "send" /\ section = c
    BY <1>8 DEF LeaveSendToAll, InSection, ChatTypes
  <2>2. d # c => pc'[d] = pc[d]
    BY OthersStay
  <2> QED BY <2>1, <2>2 DEF InSection
<1> QED BY <1>2, <1>3, <1>4, <1>5, <1>6, <1>7, <1>8 DEF ChatStep, ClientThread

(* Only a delivery touches the order, and its text is the latest.          *)
LEMMA ChatOrderKept ==
  ASSUME ChatTypes, ChatTypes', NEW c \in Clients, ChatStep(c), InSection(c), OneOrder
  PROVE  OneOrder'
<1>0. Carried(Clients, Texts) /\ Carried(Clients, Texts)' /\ Garbage \in Texts
  BY AllTexts DEF ChatTypes
<1>1. CASE SendNext(c)
  <2>1. OnItsWay(c)
    BY <1>1 DEF SendNext, InSection
  <2>2. Head(cursor[c]) \in Clients /\ Delivered(Head(cursor[c]), c)
    BY <1>0, <1>1, NextGets, NamesAssumption DEF SendNext
  <2> DEFINE e == Head(cursor[c])
  <2> HIDE DEF e
  <2>3. e \in Clients /\ Delivered(e, c)
    BY <2>2 DEF e
  <2> QED BY <1>0, <2>1, <2>3, OrderKept DEF OnItsWay
<1>2. CASE ~SendNext(c)
  <2>1. got' = got
    BY <1>2 DEF ChatStep, ClientThread, Process, Accept, SendName, TypeMessage, TypeQuit, Killed,
       aReader, Receive, Add, RecvName, RecvNameFails, RecvMessage, EnterSendToAll, LeaveSendToAll,
       RemoveClient, sockets
  <2> QED BY <2>1 DEF OneOrder
<1> QED BY <1>1, <1>2

(* All of the invariant, for each action of the chat.                      *)
LEMMA ChatInvKept ==
  ASSUME ChatInv, NEW c \in Clients, ChatStep(c)
  PROVE  ChatInv'
<1>1. ChatTypes'
  BY ChatTypesKept DEF ChatInv
<1>2. ListedWhileServed'
  BY ListKept DEF ChatInv
<1>3. OneOrder'
  BY <1>1, ChatOrderKept DEF ChatInv
<1>4. ASSUME NEW d \in Clients PROVE WordsUp(d)' /\ Fresh(d)' /\ InSection(d)'
  <2>1. WordsUp(d)'
    BY WordsKept DEF ChatInv
  <2>2. Fresh(d)'
    BY <1>1, FreshKept DEF ChatInv
  <2>3. InSection(d)'
    BY SectionKept DEF ChatInv, ListedWhileServed
  <2> QED BY <2>1, <2>2, <2>3
<1> QED BY <1>1, <1>2, <1>3, <1>4 DEF ChatInv

(* The steps of nobody.                                                    *)
LEMMA ChatInvStays ==
  ASSUME ChatInv, UNCHANGED vars
  PROVE  ChatInv'
BY DEF ChatInv, vars, list, sending, sockets, process, ChatTypes, Carried, ListedWhileServed,
   OneOrder, WordsUp, Fresh, Coming, InSection, OnItsWay, Latest, New

(* The start.                                                              *)
LEMMA ChatInvStarts ==
  ASSUME Init
  PROVE  ChatInv
<1> USE NamesAssumption DEF Init, ListInit
<1>0. ToSet(<<>>) = {} /\ IsInjective(<<>>)
  BY DEF ToSet, IsInjective
<1>1. ChatTypes
  BY <1>0, AllTexts, BoundAssumption DEF ChatTypes, Carried
<1>2. ListedWhileServed
  BY <1>0 DEF ListedWhileServed
<1>3. OneOrder
  BY <1>0 DEF OneOrder
<1>4. \A d \in Clients : WordsUp(d) /\ Fresh(d) /\ InSection(d)
  BY <1>0 DEF WordsUp, Fresh, Coming, New, InSection
<1> QED BY <1>1, <1>2, <1>3, <1>4 DEF ChatInv-----------------------------------------------------------------------------
(* The network reader/writer server.  What it has in common with the chat  *)
(* means the same in it.                                                   *)
LEMMA Same ==
  /\ \A t : /\ Net!SendToNext(t) <=> SendToNext(t)
            /\ Net!BeginList(t) <=> BeginList(t)
            /\ Net!EndList(t) <=> EndList(t)
            /\ Net!EnterSection(t) <=> EnterSection(t)
            /\ Net!LeaveSection(t) <=> LeaveSection(t)
  /\ \A c : (Net!Receive(c) <=> Receive(c)) /\ (Net!PushFront(c) <=> PushFront(c))
  /\ \A s : Net!ToSet(s) = ToSet(s)
  /\ Net!OneOrder <=> OneOrder
  /\ Net!list = list /\ Net!sending = sending /\ Net!sockets = sockets
  /\ Net!Uninitialized = Uninitialized /\ Net!Corrupt = Corrupt
<1>1. Net!list = list /\ Net!sending = sending /\ Net!sockets = sockets
  BY DEF Net!list, list, Net!sending, sending, Net!sockets, sockets
<1>2. Net!Uninitialized = Uninitialized /\ Net!Corrupt = Corrupt
  BY DEF Net!Uninitialized, Uninitialized, Net!Corrupt, Corrupt
<1>3. ASSUME NEW t PROVE Net!SendToNext(t) <=> SendToNext(t)
  BY DEF Net!SendToNext, SendToNext, Net!SendTo, SendTo, Net!SendToGone, SendToGone, Net!list, list
<1>4. ASSUME NEW t PROVE /\ Net!BeginList(t) <=> BeginList(t)
                         /\ Net!EndList(t) <=> EndList(t)
                         /\ Net!EnterSection(t) <=> EnterSection(t)
                         /\ Net!LeaveSection(t) <=> LeaveSection(t)
  BY DEF Net!BeginList, BeginList, Net!EndList, EndList, Net!EnterSection, EnterSection,
     Net!LeaveSection, LeaveSection, Net!Uninitialized, Uninitialized, Net!Corrupt, Corrupt
<1>5. ASSUME NEW c PROVE (Net!Receive(c) <=> Receive(c)) /\ (Net!PushFront(c) <=> PushFront(c))
  BY DEF Net!Receive, Receive, Net!PushFront, PushFront, Net!list, list, Net!sending, sending
<1>6. ASSUME NEW s PROVE Net!ToSet(s) = ToSet(s)
  BY DEF Net!ToSet, ToSet
<1>7. Net!OneOrder <=> OneOrder
  BY DEF Net!OneOrder, OneOrder, Net!Before, Before, Net!ToSet, ToSet
<1> QED BY <1>1, <1>2, <1>3, <1>4, <1>5, <1>6, <1>7

NetSenders == Threads \cup {Main}
Number(t, n) == <<"number", t, n>>

NetTypes ==
  /\ Carried(NetSenders, Net!Texts) /\ section \in NetSenders \cup {Nobody, Uninitialized, Corrupt}
  /\ sent \in [Threads -> 0 .. MaxSent] /\ hasty \in BOOLEAN
  /\ visitor \in Clients \cup {Nobody}
  /\ spc \in [NetSenders -> {"initialize", "accept", "loop", "enter", "add", "send", "leave",
                             "hung"}]
  /\ spc[Main] \in {"initialize", "accept", "enter", "add", "leave", "hung"}
  /\ \A t \in Threads : spc[t] \in {"loop", "enter", "send", "hung"}

(* Whom main is about to add is not in the list yet.                       *)
Visits == /\ IsInjective(clients)
          /\ spc[Main] \in {"enter", "add"} => visitor \in Clients \ ToSet(clients)

(* The sockets hold numbers that were made, the last one of a thread only  *)
(* after it has entered the section.                                       *)
Numbered(t) ==
  /\ \A n : Number(t, n) # Garbage /\ ~New(Number(t, n)) => n <= sent[t]
  /\ spc[t] \in {"enter", "send"} => text[t] = Number(t, sent[t])
  /\ spc[t] = "enter" => text[t] = Garbage \/ New(text[t])

(* As long as nobody was hasty the section has one owner.                  *)
Excluded ==
  /\ spc[Main] = "initialize" => section = Uninitialized
  /\ spc[Main] \in {"add", "leave"} => section = Main
  /\ \A t \in Threads : spc[t] = "send" => section = t /\ OnItsWay(t)

NetInv ==
  /\ NetTypes /\ Visits /\ \A t \in Threads : Numbered(t)
  /\ ~hasty => Excluded /\ OneOrder

(* The steps of main and of the other threads of the server.               *)
MainStep == Net!MainThread \/ \E c \in Clients : Net!Accept(c)
ThreadStep(t) == Net!ClientThread(t)
ClientStep(c) == Net!ClientReads(c) \/ Net!ClientKilled(c)
NetStep == \/ MainStep \/ \E t \in Threads : ThreadStep(t)
           \/ \E c \in Clients : ClientStep(c)

(* The names of the threads, and of the states of a section, differ.       *)
LEMMA NetNames ==
  /\ Main \in NetSenders /\ Main \notin Threads /\ Net!Writers = Threads
  /\ \A t \in Threads : t \in NetSenders /\ t # Main
  /\ \A t \in NetSenders : t \notin {Nobody, Uninitialized, Corrupt}
  /\ Nobody \notin {Uninitialized, Corrupt} /\ Uninitialized # Corrupt
  /\ Garbage \in Net!Texts
  /\ \A t \in Threads, n \in 1 .. MaxSent : Number(t, n) \in Net!Texts
BY NamesAssumption DEF NetSenders, Net!Writers, Uninitialized, Corrupt, Net!Texts, Number

(* A section that its owner leaves is free.                                *)
LEMMA NetLeftFree ==
  ASSUME NEW t \in NetSenders, LeaveSection(t)
  PROVE  /\ section = t => section' = Nobody
         /\ section' \in {section, Nobody, Corrupt}
<1>1. CASE section = t
  BY <1>1, NetNames DEF LeaveSection
<1>2. CASE section \in {Uninitialized, Corrupt}
  BY <1>2, NetNames DEF LeaveSection
<1>3. CASE section # t /\ section \notin {Uninitialized, Corrupt}
  BY <1>3, NetNames DEF LeaveSection
<1> QED BY <1>1, <1>2, <1>3
(* What the steps leave alone.                                             *)
LEMMA MainStays ==
  ASSUME NetTypes, MainStep
  PROVE  /\ UNCHANGED <<text, cursor, whole, got, read, sent>>
         /\ \A t \in Threads : spc'[t] = spc[t]
         /\ online' \subseteq Clients /\ online \subseteq online'
<1> USE NetNames, Same DEF Net!Goes, Net!list, Net!sending, Net!sockets
<1>1. CASE \E c \in Clients : Net!Accept(c)
  BY <1>1 DEF Net!Accept, sending, NetTypes, Carried
<1>2. CASE Net!InitializeSection \/ Net!Add \/ Net!LeaveAfterAdd
  BY <1>2 DEF Net!InitializeSection, Net!Add, Net!LeaveAfterAdd, sending, sockets, NetTypes, Carried
<1>3. CASE Net!EnterToAdd
  BY <1>3 DEF Net!EnterToAdd, Net!Enter, sending, sockets, NetTypes, Carried
<1> QED BY <1>1, <1>2, <1>3 DEF MainStep, Net!MainThread

(* What the other threads of the server leave alone.                       *)
LEMMA ThreadStays ==
  ASSUME NetTypes, NEW t \in Threads, ThreadStep(t)
  PROVE  /\ UNCHANGED <<clients, visitor, online, read>>
         /\ spc' = [spc EXCEPT ![t] = spc'[t]]
         /\ \A s \in NetSenders \ {t} : text'[s] = text[s] /\ cursor'[s] = cursor[s]
         /\ \A s \in Threads \ {t} : sent'[s] = sent[s]
<1> USE NetNames, Same DEF Net!Goes, Net!list, Net!sending, Net!sockets
<1>1. CASE Net!MakeNumber(t)
  BY <1>1 DEF Net!MakeNumber, list, sockets, NetTypes, Carried
<1>2. CASE Net!EnterSendToAll(t)
  BY <1>2 DEF Net!EnterSendToAll, Net!Enter, BeginList, sockets, NetTypes, Carried
<1>3. CASE Net!SendNext(t)
  BY <1>3 DEF Net!SendNext, SendToNext, Net!thread, list, NetTypes, Carried
<1>4. CASE Net!LeaveSendToAll(t)
  <2>1. /\ EndList(t) /\ spc' = [spc EXCEPT ![t] = "loop"]
        /\ UNCHANGED <<clients, got, read, online, sent, visitor>>
    BY <1>4 DEF Net!LeaveSendToAll
  <2>2. cursor' = cursor /\ \A s \in NetSenders \ {t} : text'[s] = text[s]
    BY <2>1 DEF EndList, NetTypes, Carried
  <2>3. spc' = [spc EXCEPT ![t] = spc'[t]]
    BY <2>1 DEF NetTypes
  <2> QED BY <2>1, <2>2, <2>3
<1> QED BY <1>1, <1>2, <1>3, <1>4 DEF ThreadStep, Net!ClientThread

(* What the client processes leave alone: all that the server has.         *)
LEMMA ClientStays ==
  ASSUME NEW c \in Clients, ClientStep(c)
  PROVE  UNCHANGED <<section, clients, text, cursor, whole, got, sent, hasty, visitor, spc>>
BY Same DEF ClientStep, Net!ClientReads, Net!ClientKilled, Receive, Net!thread, Net!list, Net!sending,
   list, sending

(* The types, for each action of the server.                               *)
LEMMA NetTypesKept ==
  ASSUME NetTypes, Visits,
         \/ MainStep
         \/ \E t \in Threads : ThreadStep(t)
         \/ \E c \in Clients : ClientStep(c)
  PROVE  NetTypes'
<1> USE NetNames, Same DEF Net!Goes, Net!list, Net!sending, Net!sockets
<1>0. Carried(NetSenders, Net!Texts)
  BY DEF NetTypes
<1>1. CASE MainStep
  <2>0. clients \in Seq(Clients)
    BY <1>0 DEF Carried
  <2>1. CASE \E c \in Clients : Net!Accept(c)
    <3>1. Carried(NetSenders, Net!Texts)' /\ section' = section
      BY <1>0, <1>1, <2>1, MainStays DEF Net!Accept, list, Carried
    <3> QED BY <2>1, <3>1 DEF Net!Accept, NetTypes
  <2>2. CASE Net!InitializeSection
    <3>1. Carried(NetSenders, Net!Texts)'
      BY <1>0, <1>1, <2>2, MainStays DEF Net!InitializeSection, Carried
    <3> QED BY <2>2, <3>1 DEF Net!InitializeSection, NetTypes
  <2>3. CASE Net!EnterToAdd
    <3>1. Carried(NetSenders, Net!Texts)'
      BY <1>0, <1>1, <2>3, MainStays DEF Net!EnterToAdd, Carried
    <3>2. /\ UNCHANGED <<sent, visitor>> /\ section' \in {section, Main} /\ hasty' \in {hasty, TRUE}
          /\ \E next \in {"add", "hung"} : spc' = [spc EXCEPT ![Main] = next]
      BY <2>3 DEF Net!EnterToAdd, Net!Enter, EnterSection
    <3> QED BY <3>1, <3>2 DEF NetTypes
  <2>4. CASE Net!Add
    <3>1. visitor \in Clients /\ clients' = <<visitor>> \o clients
      BY <2>4 DEF Net!Add, PushFront, Visits
    <3>2. clients' \in Seq(Clients)
      BY <2>0, <3>1, InPushed
    <3>3. Carried(NetSenders, Net!Texts)'
      BY <1>0, <1>1, <2>4, <3>2, MainStays DEF Carried
    <3> QED BY <2>4, <3>3 DEF Net!Add, NetTypes
  <2>5. CASE Net!LeaveAfterAdd
    <3>1. Carried(NetSenders, Net!Texts)'
      BY <1>0, <1>1, <2>5, MainStays DEF Net!LeaveAfterAdd, Carried
    <3>2. section' \in {section, Nobody, Corrupt}
      BY <2>5, NetLeftFree DEF Net!LeaveAfterAdd
    <3> QED BY <2>5, <3>1, <3>2 DEF Net!LeaveAfterAdd, NetTypes
  <2> QED BY <1>1, <2>1, <2>2, <2>3, <2>4, <2>5 DEF MainStep, Net!MainThread
<1>2. ASSUME NEW t \in Threads, ThreadStep(t) PROVE NetTypes'
  <2>1. CASE Net!MakeNumber(t)
    <3>1. sent[t] \in Nat /\ sent[t] + 1 \in 1 .. MaxSent
      BY <2>1, BoundAssumption DEF Net!MakeNumber, NetTypes
    <3> DEFINE n == sent[t] + 1
    <3>2. n \in 1 .. MaxSent /\ sent' = [sent EXCEPT ![t] = n] /\ text' = [text EXCEPT ![t] = Number(t, n)]
      BY <2>1, <3>1 DEF Net!MakeNumber, Number
    <3> HIDE DEF n
    <3>3. Carried(NetSenders, Net!Texts)'
      <4>1. text' \in [NetSenders -> Net!Texts]
        BY <1>0, <3>2 DEF Carried
      <4> QED BY <1>0, <2>1, <4>1 DEF Net!MakeNumber, Carried
    <3>4. n \in 0 .. MaxSent
      BY <3>2
    <3> QED BY <2>1, <3>2, <3>3, <3>4 DEF Net!MakeNumber, list, NetTypes
  <2>2. CASE Net!EnterSendToAll(t)
    <3>1. Carried(NetSenders, Net!Texts)'
      BY <1>0, <2>2, CarriedKept DEF Net!EnterSendToAll, sockets
    <3> QED BY <2>2, <3>1 DEF Net!EnterSendToAll, Net!Enter, EnterSection, NetTypes
  <2>3. CASE Net!SendNext(t)
    <3>1. Carried(NetSenders, Net!Texts)' /\ section' = section
      BY <1>0, <2>3, NextGets DEF Net!SendNext
    <3> QED BY <2>3, <3>1 DEF Net!SendNext, Net!thread, NetTypes
  <2>4. CASE Net!LeaveSendToAll(t)
    <3>1. Carried(NetSenders, Net!Texts)'
      BY <1>0, <2>4, CarriedKept DEF Net!LeaveSendToAll, sockets
    <3>2. section' \in {section, Nobody, Corrupt}
      BY <2>4, NetLeftFree DEF Net!LeaveSendToAll
    <3> QED BY <2>4, <3>1, <3>2 DEF Net!LeaveSendToAll, NetTypes
  <2> QED BY <1>2, <2>1, <2>2, <2>3, <2>4 DEF ThreadStep, Net!ClientThread
<1>3. ASSUME NEW c \in Clients, ClientStep(c) PROVE NetTypes'
  <2>1. Carried(NetSenders, Net!Texts)'
    <3>1. CASE Net!ClientReads(c)
      BY <1>0, <3>1, CarriedKept DEF Net!ClientReads
    <3>2. CASE Net!ClientKilled(c)
      BY <1>0, <3>2 DEF Net!ClientKilled, list, sending, Carried
    <3> QED BY <1>3, <3>1, <3>2 DEF ClientStep
  <2> QED BY <1>3, <2>1, ClientStays DEF NetTypes
<1> QED BY <1>1, <1>2, <1>3
(* main takes on one visitor at a time, who is not in the list.            *)
LEMMA VisitsKept ==
  ASSUME NetTypes, Visits,
         \/ MainStep
         \/ \E t \in Threads : ThreadStep(t)
         \/ \E c \in Clients : ClientStep(c)
  PROVE  Visits'
<1> USE NetNames, Same DEF Net!Goes, Net!list
<1>1. ASSUME UNCHANGED <<clients, visitor>>, spc'[Main] \in {"enter", "add"} => spc[Main] \in {"enter", "add"}
      PROVE  Visits'
  BY <1>1 DEF Visits
<1>2. ASSUME NEW c \in Clients, Net!Accept(c) PROVE Visits'
  BY <1>2 DEF Net!Accept, Visits
<1>3. CASE Net!InitializeSection \/ Net!LeaveAfterAdd
  BY <1>1, <1>3 DEF Net!InitializeSection, Net!LeaveAfterAdd, NetTypes
<1>4. CASE Net!EnterToAdd
  BY <1>1, <1>4 DEF Net!EnterToAdd, Net!Enter
<1>5. CASE Net!Add
  <2>1. visitor \in Clients \ ToSet(clients) /\ clients' = <<visitor>> \o clients
    BY <1>5 DEF Net!Add, PushFront, Visits
  <2>2. clients \in Seq(Clients)
    BY DEF NetTypes, Carried
  <2>3. IsInjective(clients')
    BY <2>1, <2>2, InPushed DEF Visits
  <2> QED BY <1>5, <2>3 DEF Net!Add, Visits, NetTypes
<1>6. ASSUME NEW t \in Threads, ThreadStep(t) PROVE Visits'
  <2>1. UNCHANGED <<clients, visitor>> /\ spc' = [spc EXCEPT ![t] = spc'[t]]
    BY <1>6, ThreadStays
  <2>2. spc'[Main] = spc[Main]
    BY <2>1 DEF NetTypes
  <2> QED BY <1>1, <2>1, <2>2
<1>7. ASSUME NEW c \in Clients, ClientStep(c) PROVE Visits'
  BY <1>1, <1>7, ClientStays
<1> QED BY <1>2, <1>3, <1>4, <1>5, <1>6, <1>7 DEF MainStep, Net!MainThread

(* Two numbers of two threads are two texts.                               *)
LEMMA NumbersDiffer ==
  \A s, t, m, n : Number(s, m) = Number(t, n) => s = t /\ m = n
BY DEF Number

(* A thread counts on for each number, so the next one is new.             *)
LEMMA NumbersKept ==
  ASSUME NetTypes, NetTypes', \A t \in Threads : Numbered(t),
         \/ MainStep
         \/ \E t \in Threads : ThreadStep(t)
         \/ \E c \in Clients : ClientStep(c),
         NEW s \in Threads
  PROVE  Numbered(s)'
<1> USE NetNames, Same DEF Net!Goes
<1>1. ASSUME UNCHANGED <<got, sent>>, text'[s] = text[s], spc'[s] = spc[s]
      PROVE  Numbered(s)'
  BY <1>1 DEF Numbered, New
<1>2. CASE MainStep
  BY <1>1, <1>2, MainStays
<1>3. ASSUME NEW c \in Clients, ClientStep(c) PROVE Numbered(s)'
  <2>1. sent' = sent
    BY <1>3 DEF ClientStep, Net!ClientReads, Net!ClientKilled, Net!thread
  <2> QED BY <1>1, <1>3, <2>1, ClientStays
<1>4. ASSUME NEW t \in Threads, ThreadStep(t) PROVE Numbered(s)'
  <2>0. s # t => spc'[s] = spc[s] /\ text'[s] = text[s] /\ sent'[s] = sent[s]
    <3>1. spc' = [spc EXCEPT ![t] = spc'[t]]
      BY <1>4, ThreadStays
    <3>2. s # t => spc'[s] = spc[s]
      BY <3>1 DEF NetTypes
    <3> QED BY <1>4, <3>2, ThreadStays
  <2>1. CASE Net!MakeNumber(t)
    <3>1. /\ got' = got /\ sent[t] \in Nat /\ sent'[t] = sent[t] + 1 /\ spc'[t] = "enter"
          /\ text'[t] = Number(t, sent[t] + 1)
      BY <2>1 DEF Net!MakeNumber, Net!sockets, NetTypes, Carried, Number
    <3>2. CASE s # t
      BY <2>0, <3>1, <3>2 DEF Numbered, New
    <3>3. CASE s = t
      <4>1. \A n : Number(t, n) # Garbage /\ ~New(Number(t, n)) => n <= sent[t]
        BY DEF Numbered
      <4>2. ~(sent[t] + 1 <= sent[t])
        BY <3>1
      <4>3. Number(t, sent[t] + 1) = Garbage \/ New(Number(t, sent[t] + 1))
        BY <4>1, <4>2
      <4>4. \A n : Number(t, n) # Garbage /\ ~New(Number(t, n)) => n \in 0 .. sent[t]
        <5> TAKE n
        <5> HAVE Number(t, n) # Garbage /\ ~New(Number(t, n))
        <5>1. PICK c \in Clients : Number(t, n) \in ToSet(got[c])
          BY DEF New
        <5>2. ToSet(got[c]) \subseteq Net!Texts
          BY InSeq DEF NetTypes, Carried
        <5>3. n \in 1 .. MaxSent
          BY <5>1, <5>2 DEF Net!Texts, Number
        <5> QED BY <3>1, <4>1, <5>3
      <4>5. \A n : n \in 0 .. sent[t] => n <= sent[t] + 1
        BY <3>1
      <4>6. \A n : Number(t, n) # Garbage /\ ~New(Number(t, n))' => n <= sent'[t]
        BY <3>1, <4>4, <4>5 DEF New
      <4> QED BY <3>1, <3>3, <4>3, <4>6 DEF Numbered, New
    <3> QED BY <3>2, <3>3
  <2>2. CASE Net!EnterSendToAll(t)
    <3>1. UNCHANGED <<got, sent, text>> /\ spc[t] = "enter" /\ spc'[t] # "enter"
      BY <2>2 DEF Net!EnterSendToAll, Net!Enter, Net!sockets, NetTypes
    <3> QED BY <2>0, <3>1 DEF Numbered, New
  <2>3. CASE Net!SendNext(t)
    <3>1. spc[t] = "send" /\ spc' = spc /\ sent' = sent /\ SendToNext(t)
      BY <2>3 DEF Net!SendNext, Net!thread
    <3> DEFINE d == Head(cursor[t])
    <3>2. Delivered(d, t) /\ d \in Clients /\ text' = text
      BY <3>1, NextGets DEF NetTypes
    <3> HIDE DEF d
    <3>3. \A x : New(x) /\ x # text[t] /\ x # Garbage => New(x)'
      BY <3>2, StillNew DEF NetTypes
    <3>4. text[t] = Number(t, sent[t]) /\ sent[t] \in Nat
      BY <3>1 DEF Numbered, NetTypes
    <3>5. ASSUME NEW n, Number(s, n) # Garbage, ~New(Number(s, n))' PROVE n <= sent[s]
      <4>1. CASE Number(s, n) = text[t]
        <5>1. s = t /\ n = sent[t]
          BY <3>4, <4>1, NumbersDiffer
        <5> QED BY <3>4, <5>1
      <4>2. CASE Number(s, n) # text[t]
        <5>1. ~New(Number(s, n))
          <6>1. \A x : x = Number(s, n) /\ New(x) => New(x)'
            BY <3>3, <3>5, <4>2
          <6> QED BY <3>5, <6>1 DEF New, Number
        <5> QED BY <3>5, <5>1 DEF Numbered
      <4> QED BY <4>1, <4>2
    <3>6. ASSUME spc[s] = "enter", text[s] # Garbage PROVE New(text[s])'
      <4>1. s # t /\ text[s] = Number(s, sent[s]) /\ New(text[s])
        BY <3>1, <3>6 DEF Numbered
      <4>2. text[s] # text[t]
        BY <3>4, <4>1, NumbersDiffer
      <4>3. \A x : x = text[s] => New(x)'
        BY <3>3, <3>6, <4>1, <4>2
      <4>4. text'[s] = text[s]
        BY <3>2
      <4> QED BY <4>3, <4>4
    <3>7. \A n : Number(s, n)' = Number(s, n)
      BY DEF Number
    <3> QED BY <3>1, <3>2, <3>5, <3>6, <3>7 DEF Numbered
  <2>4. CASE Net!LeaveSendToAll(t)
    <3>1. UNCHANGED <<got, sent>> /\ spc'[t] = "loop"
      BY <2>4 DEF Net!LeaveSendToAll, Net!sockets, NetTypes
    <3> QED BY <2>0, <3>1 DEF Numbered, New
  <2> QED BY <1>4, <2>1, <2>2, <2>3, <2>4 DEF ThreadStep, Net!ClientThread
<1> QED BY <1>2, <1>3, <1>4
(* While nobody is hasty the section excludes main and the threads, and    *)
(* the order of the numbers stays one.                                     *)
LEMMA ExclusionKept ==
  ASSUME NetInv, NetTypes',
         \/ MainStep
         \/ \E t \in Threads : ThreadStep(t)
         \/ \E c \in Clients : ClientStep(c),
         ~hasty'
  PROVE  Excluded' /\ OneOrder'
<1> USE NetNames, Same DEF Net!Goes, Net!list, Net!sockets
<1>0. NetTypes /\ Carried(NetSenders, Net!Texts) /\ Carried(NetSenders, Net!Texts)' /\ Visits
  BY DEF NetInv, NetTypes
<1>1. ~hasty => Excluded /\ OneOrder
  BY DEF NetInv
<1>2. ASSUME got' = got, OneOrder PROVE OneOrder'
  BY <1>2 DEF OneOrder
<1>3. ASSUME UNCHANGED <<text, cursor, got>>, NEW t \in Threads, OnItsWay(t) PROVE OnItsWay(t)'
  BY <1>3 DEF OnItsWay, Latest
<1>4. CASE MainStep
  <2>0. UNCHANGED <<text, cursor, got>> /\ \A t \in Threads : spc'[t] = spc[t]
    BY <1>0, <1>4, MainStays
  <2>1. ASSUME Excluded, OneOrder,
               spc'[Main] = "initialize" => section' = Uninitialized,
               spc'[Main] \in {"add", "leave"} => section' = Main,
               section' = section \/ \A t \in Threads : spc[t] # "send"
        PROVE  Excluded' /\ OneOrder'
    BY <1>2, <1>3, <2>0, <2>1 DEF Excluded
  <2>2. ASSUME NEW c \in Clients, Net!Accept(c) PROVE Excluded' /\ OneOrder'
    BY <1>0, <1>1, <2>1, <2>2 DEF Net!Accept, Excluded, NetTypes
  <2>3. CASE Net!InitializeSection
    <3>1. ~hasty /\ spc[Main] = "initialize" /\ spc'[Main] = "accept"
      BY <1>0, <2>3 DEF Net!InitializeSection, NetTypes
    <3>2. \A t \in Threads : spc[t] # "send"
      BY <1>1, <3>1 DEF Excluded
    <3> QED BY <1>1, <2>1, <3>1, <3>2
  <2>4. CASE Net!EnterToAdd
    <3>1. ~hasty /\ section = Nobody /\ section' = Main /\ spc'[Main] = "add"
      BY <1>0, <2>4 DEF Net!EnterToAdd, Net!Enter, EnterSection, NetTypes
    <3>2. \A t \in Threads : spc[t] # "send"
      BY <1>1, <3>1 DEF Excluded
    <3> QED BY <1>1, <2>1, <3>1, <3>2
  <2>5. CASE Net!Add
    <3>1. ~hasty /\ section' = section /\ spc[Main] = "add" /\ spc'[Main] = "leave"
      BY <1>0, <2>5 DEF Net!Add, NetTypes
    <3> QED BY <1>1, <2>1, <3>1 DEF Excluded
  <2>6. CASE Net!LeaveAfterAdd
    <3>1. ~hasty /\ spc[Main] = "leave" /\ spc'[Main] = "accept"
      BY <1>0, <2>6 DEF Net!LeaveAfterAdd, NetTypes
    <3>2. \A t \in Threads : spc[t] # "send"
      BY <1>1, <3>1 DEF Excluded
    <3> QED BY <1>1, <2>1, <3>1, <3>2
  <2> QED BY <1>4, <2>2, <2>3, <2>4, <2>5, <2>6 DEF MainStep, Net!MainThread
<1>5. ASSUME NEW t \in Threads, ThreadStep(t) PROVE Excluded' /\ OneOrder'
  <2>0. /\ spc' = [spc EXCEPT ![t] = spc'[t]]
        /\ \A s \in Threads \ {t} : text'[s] = text[s] /\ cursor'[s] = cursor[s]
    BY <1>0, <1>5, ThreadStays
  <2>1. spc'[Main] = spc[Main] /\ \A s \in Threads \ {t} : spc'[s] = spc[s]
    BY <1>0, <2>0 DEF NetTypes
  <2>2. ASSUME got' = got, section' = section, spc'[t] # "send", ~hasty
        PROVE  Excluded' /\ OneOrder'
    <3>1. ASSUME NEW s \in Threads, spc'[s] = "send" PROVE section' = s /\ OnItsWay(s)'
      BY <1>1, <2>0, <2>1, <2>2, <3>1 DEF Excluded, OnItsWay, Latest
    <3> QED BY <1>1, <1>2, <2>1, <2>2, <3>1 DEF Excluded
  <2>3. CASE Net!MakeNumber(t)
    BY <1>0, <2>2, <2>3 DEF Net!MakeNumber, NetTypes
  <2>4. CASE Net!EnterSendToAll(t)
    <3>1. /\ ~hasty /\ section = Nobody /\ section' = t /\ BeginList(t) /\ UNCHANGED <<text, got>>
          /\ spc[t] = "enter"
      BY <1>0, <2>4 DEF Net!EnterSendToAll, Net!Enter, EnterSection, NetTypes
    <3>2. \A s \in Threads : spc[s] # "send"
      BY <1>1, <3>1 DEF Excluded
    <3>3. spc[Main] \notin {"initialize", "add", "leave"}
      BY <1>1, <3>1 DEF Excluded
    <3>4. text[t] = Garbage \/ New(text[t])
      BY <3>1 DEF NetInv, Numbered
    <3>5. OnItsWay(t)'
      BY <1>0, <3>1, <3>4, WayBegins DEF Visits
    <3> QED BY <1>1, <1>2, <2>1, <3>1, <3>2, <3>3, <3>5 DEF Excluded
  <2>5. CASE Net!SendNext(t)
    <3>1. /\ ~hasty /\ spc[t] = "send" /\ UNCHANGED <<spc, section>> /\ SendToNext(t)
      BY <2>5 DEF Net!SendNext, SendToNext, Net!thread, list
    <3>2. section = t /\ OnItsWay(t) /\ OneOrder
      BY <1>1, <3>1 DEF Excluded
    <3>3. \A s \in Threads : spc'[s] = "send" => s = t
      BY <1>1, <3>1, <3>2 DEF Excluded
    <3>4. OnItsWay(t)'
      BY <1>0, <3>1, <3>2, WayKept
    <3>5. Excluded'
      BY <1>1, <3>1, <3>2, <3>3, <3>4 DEF Excluded
    <3>6. OneOrder'
      <4> DEFINE e == Head(cursor[t])
      <4>1. e \in Clients /\ Delivered(e, t)
        BY <1>0, <3>1, NextGets
      <4> HIDE DEF e
      <4> QED BY <1>0, <3>2, <4>1, OrderKept DEF OnItsWay
    <3> QED BY <3>5, <3>6
  <2>6. CASE Net!LeaveSendToAll(t)
    <3>1. ~hasty /\ spc[t] = "send" /\ spc'[t] = "loop" /\ got' = got
      BY <1>0, <2>6 DEF Net!LeaveSendToAll, NetTypes
    <3>2. section = t
      BY <1>1, <3>1 DEF Excluded
    <3>3. spc'[Main] \notin {"initialize", "add", "leave"} /\ \A s \in Threads : spc'[s] # "send"
      BY <1>1, <2>1, <3>1, <3>2 DEF Excluded
    <3> QED BY <1>1, <1>2, <3>1, <3>3 DEF Excluded
  <2> QED BY <1>5, <2>3, <2>4, <2>5, <2>6 DEF ThreadStep, Net!ClientThread
<1>6. ASSUME NEW c \in Clients, ClientStep(c) PROVE Excluded' /\ OneOrder'
  <2>1. UNCHANGED <<section, text, cursor, got, hasty, spc>>
    BY <1>6, ClientStays
  <2> QED BY <1>1, <1>2, <1>3, <2>1 DEF Excluded
<1> QED BY <1>4, <1>5, <1>6

(* All of the invariant, for each action of the server.                    *)
LEMMA NetInvKept ==
  ASSUME NetInv,
         \/ MainStep
         \/ \E t \in Threads : ThreadStep(t)
         \/ \E c \in Clients : ClientStep(c)
  PROVE  NetInv'
<1>1. NetTypes /\ Visits /\ \A t \in Threads : Numbered(t)
  BY DEF NetInv
<1>2. NetTypes'
  BY <1>1, NetTypesKept
<1>3. Visits'
  BY <1>1, VisitsKept
<1>4. \A t \in Threads : Numbered(t)'
  BY <1>1, <1>2, NumbersKept
<1>5. ~hasty' => Excluded' /\ OneOrder'
  BY <1>2, ExclusionKept
<1> QED BY <1>2, <1>3, <1>4, <1>5 DEF NetInv
(* The steps of nobody.                                                    *)
LEMMA NetInvStays ==
  ASSUME NetInv, UNCHANGED <<vars, sent, hasty, visitor, spc>>
  PROVE  NetInv'
BY DEF NetInv, vars, list, sending, sockets, NetTypes, Carried, Visits, Numbered, New, Excluded,
   OnItsWay, Latest, OneOrder

(* The start.                                                              *)
LEMMA NetInvStarts ==
  ASSUME Net!Init
  PROVE  NetInv
<1> USE NetNames DEF Net!Init, Net!ListInit, Net!Uninitialized, NetSenders
<1>0. ToSet(<<>>) = {} /\ IsInjective(<<>>)
  BY DEF ToSet, IsInjective
<1>1. spc[Main] = "initialize" /\ \A t \in Threads : spc[t] = "loop"
  OBVIOUS
<1>2. NetTypes
  <2>1. Carried(NetSenders, Net!Texts)
    BY BoundAssumption DEF Carried
  <2>2. sent \in [Threads -> 0 .. MaxSent]
    BY BoundAssumption
  <2>3. /\ spc \in [NetSenders -> {"initialize", "accept", "loop", "enter", "add", "send", "leave",
                                   "hung"}]
        /\ section = Uninitialized /\ hasty = FALSE /\ visitor = Nobody
    BY DEF Uninitialized
  <2> QED BY <1>1, <2>1, <2>2, <2>3 DEF NetTypes
<1>3. Visits
  BY <1>0, <1>1 DEF Visits
<1>4. \A t \in Threads : Numbered(t)
  BY <1>0, <1>1 DEF Numbered, New
<1>5. Excluded /\ OneOrder
  BY <1>0, <1>1 DEF Excluded, OneOrder, Uninitialized
<1> QED BY <1>2, <1>3, <1>4, <1>5 DEF NetInv
-----------------------------------------------------------------------------
(* Both.  The types of what a program carries, in the form of the run.     *)
LEMMA CarriedTypes ==
  ASSUME NEW S, NEW T, Carried(S, T)
  PROVE  /\ \A c \in ToSet(clients) : c \in Clients
         /\ \A t \in S : text[t] \in T /\ ToSet(cursor[t]) \subseteq Clients
         /\ whole \in [S -> BOOLEAN] /\ online \subseteq Clients
         /\ \A c \in Clients : /\ ToSet(got[c]) \subseteq T /\ read[c] \in 0 .. Len(got[c])
                               /\ Len(got[c]) - read[c] <= Room
<1>1. ASSUME NEW c \in Clients
      PROVE  /\ ToSet(got[c]) \subseteq T /\ read[c] \in 0 .. Len(got[c])
             /\ Len(got[c]) - read[c] <= Room
  <2>1. ToSet(got[c]) \subseteq T /\ Len(got[c]) \in Nat
    BY InSeq DEF Carried
  <2> QED BY <2>1 DEF Carried
<1>2. ToSet(clients) \subseteq Clients
  BY InSeq DEF Carried
<1>3. ASSUME NEW t \in S PROVE text[t] \in T /\ ToSet(cursor[t]) \subseteq Clients
  BY InSeq DEF Carried
<1> QED BY <1>1, <1>2, <1>3 DEF Carried

(* The invariant of the chat gives its properties.                         *)
LEMMA ChatInvSays ==
  ASSUME ChatInv
  PROVE  TypeOK /\ ListedWhileServed /\ OneOrder
<1>1. ChatTypes
  BY DEF ChatInv
<1>2. ListTypeOK(Texts)
  BY <1>1, CarriedTypes, NamesAssumption DEF ChatTypes, ListTypeOK
<1> QED BY <1>1, <1>2 DEF ChatInv, ChatTypes, TypeOK

(* The invariant of the server gives its properties.                       *)
LEMMA NetInvSays ==
  ASSUME NetInv
  PROVE  Net!TypeOK /\ Net!OneAtATime
<1> USE NetNames, Same
<1>1. NetTypes
  BY DEF NetInv
<1>2. Net!ListTypeOK(Net!Texts)
  <2>1. Carried(NetSenders, Net!Texts)
    BY <1>1 DEF NetTypes
  <2> QED BY <1>1, <2>1, CarriedTypes DEF NetTypes, Net!ListTypeOK, NetSenders
<1>3. Net!TypeOK
  BY <1>1, <1>2 DEF NetTypes, Net!TypeOK, NetSenders
<1>4. ASSUME Excluded, NEW t \in Threads, NEW s \in NetSenders, spc[t] = "send", s # t
      PROVE  spc[s] \notin {"add", "send"}
  BY <1>1, <1>4 DEF Excluded, NetTypes, NetSenders
<1>5. Net!OneAtATime
  BY <1>4 DEF NetInv, Net!OneAtATime, NetSenders
<1> QED BY <1>3, <1>5

(* The one that runs, and nothing of the other.                            *)
MCInv == /\ program \in {"chat", "net"}
         /\ program = "chat" => ChatInv
         /\ program = "net" => NetInv

(* The invariant holds of whichever runs.                                  *)
LEMMA MCInvKept == MCSpec => []MCInv
<1>1. MCInit => MCInv
  BY ChatInvStarts, NetInvStarts DEF MCInit, MCInv
<1>2. MCInv /\ [MCNext]_mcvars => MCInv'
  <2> SUFFICES ASSUME MCInv, [MCNext]_mcvars PROVE MCInv'
    OBVIOUS
  <2>1. ASSUME NEW c \in Clients, InChat(Accept(c)) \/ InChat(ClientThread(c)) \/ InChat(Process(c))
        PROVE  MCInv'
    <3>1. program = "chat" /\ program' = "chat" /\ ChatStep(c)
      BY <2>1 DEF InChat, ChatStep
    <3> QED BY <3>1, ChatInvKept DEF MCInv
  <2>2. ASSUME NEW c \in Clients,
               InNet(Net!Accept(c)) \/ InNet(Net!ClientReads(c)) \/ InNet(Net!ClientKilled(c))
        PROVE  MCInv'
    <3>1. program = "net" /\ program' = "net" /\ (MainStep \/ ClientStep(c))
      BY <2>2 DEF InNet, MainStep, ClientStep
    <3> QED BY <3>1, NetInvKept DEF MCInv
  <2>3. CASE InNet(Net!MainThread)
    <3>1. program = "net" /\ program' = "net" /\ MainStep
      BY <2>3 DEF InNet, MainStep
    <3> QED BY <3>1, NetInvKept DEF MCInv
  <2>4. ASSUME NEW t \in Threads, InNet(Net!ClientThread(t)) PROVE MCInv'
    <3>1. program = "net" /\ program' = "net" /\ ThreadStep(t)
      BY <2>4 DEF InNet, ThreadStep
    <3> QED BY <3>1, NetInvKept DEF MCInv
  <2>5. CASE UNCHANGED mcvars
    BY <2>5, ChatInvStays, NetInvStays DEF MCInv, mcvars, netVars
  <2> QED BY <2>1, <2>2, <2>3, <2>4, <2>5 DEF MCNext
<1> QED BY <1>1, <1>2, PTL DEF MCSpec

(* In the chat a client is in the list from its joining to its leaving, and*)
(* a thread that goes through the list meets only clients that are in it;  *)
(* in both servers everybody in the list and in a cursor is a client.      *)
THEOREM ServesTheListed == MCSpec => []ListServed
<1>1. MCInv => ListServed
  BY ChatInvSays, NetInvSays DEF MCInv, ListServed
<1> QED BY <1>1, MCInvKept, PTL

(* All clients are sent the texts in one order, and the list does not      *)
(* change under a thread that goes through it, unless a thread entered the *)
(* section before main had initialized it.                                 *)
THEOREM SendsInOneOrder == MCSpec => []OneAtATime
<1>1. MCInv => OneAtATime
  BY ChatInvSays, NetInvSays DEF MCInv, OneAtATime
<1> QED BY <1>1, MCInvKept, PTL
=============================================================================
