---------------------------- MODULE LessonProofs ----------------------------
(***************************************************************************)
(* Proofs about the lessons of a workspace (module LessonStore).           *)
(*                                                                         *)
(* The theorems are about any number of processes, in any order, and any   *)
(* sets of lessons.  Between two transactions of an evolve stage the       *)
(* category at hand may have a replacement that is not linked yet, and     *)
(* what a process has read may be overtaken; what holds there all the same *)
(* is Session, the part of the invariant about each process at work.       *)
(***************************************************************************)
EXTENDS LessonStore, SequenceTheorems, FiniteSetTheorems, WellFoundedInduction, TLAPS

(* Which lesson stands for a category.                                     *)

\* The places a list gives to the live items of a category, and the item at the last.
Own(its, lst, c) == { n \in DOMAIN lst : its[lst[n]].heir = 0 /\ its[lst[n]].category = c }
LastOwn(its, lst, c, n) == n \in Own(its, lst, c) /\ \A m \in Own(its, lst, c) : m <= n
StandsIn(its, lst, c) == IF Own(its, lst, c) = {} THEN 0 ELSE lst[Max(Own(its, lst, c))]

LEMMA StandingIs == \A c : Standing(c) = StandsIn(items, listed, c)
BY DEF Standing, StandsIn, Own, Live

LEMMA StandingNext == ASSUME NEW c PROVE Standing(c)' = StandsIn(items', listed', c)
BY DEF Standing, StandsIn, Own, Live

\* Max of places in a list is the last of them.
LEMMA Largest ==
  ASSUME NEW n \in Nat, NEW S \in SUBSET (1..n), S # {}
  PROVE  Max(S) \in S /\ \A y \in S : y <= Max(S)
<1> DEFINE T == { n - y : y \in S }
<1>0. \A y \in S : y \in 1..n /\ n - y \in Nat
  OBVIOUS
<1>1. T \in SUBSET Nat /\ T # {}
  BY <1>0
<1>2. PICK x \in T : \A y \in T : ~(<< y, x >> \in OpToRel(<, Nat))
  <2> HIDE DEF T
  <2> QED BY <1>1, NatLessThanWellFounded, WFMin
<1>3. PICK z \in S : x = n - z
  BY <1>2
<1>4. \A y \in S : z >= y
  <2> SUFFICES ASSUME NEW y \in S PROVE z >= y
    OBVIOUS
  <2>1. n - y \in T /\ n - y \in Nat /\ x \in Nat /\ y \in Nat /\ z \in Nat
    BY <1>0, <1>3
  <2>2. ~(n - y < x)
    <3> HIDE DEF T
    <3> QED BY <1>2, <2>1, Zenon DEF OpToRel
  <2> QED BY <1>3, <2>1, <2>2
<1>5. \E v \in S : \A y \in S : v >= y
  BY <1>3, <1>4
<1>6. Max(S) \in S /\ \A y \in S : Max(S) >= y
  BY <1>5 DEF Max
<1> QED BY <1>6

\* Whichever item stands is at the last place of its category.
LEMMA StandsAtLast ==
  ASSUME NEW its, NEW lst \in Seq(Nat), NEW c
  PROVE  /\ Own(its, lst, c) = {} => StandsIn(its, lst, c) = 0
         /\ Own(its, lst, c) # {} => \E n : LastOwn(its, lst, c, n) /\ StandsIn(its, lst, c) = lst[n]
         /\ \A n : LastOwn(its, lst, c, n) => StandsIn(its, lst, c) = lst[n]
<1> DEFINE own == Own(its, lst, c)
           top == Max(own)
<1>0. DOMAIN lst = 1..Len(lst) /\ Len(lst) \in Nat
  OBVIOUS
<1>1. own \in SUBSET (1..Len(lst))
  BY <1>0 DEF Own
<1>2. own = {} => StandsIn(its, lst, c) = 0
  BY DEF StandsIn
<1>3. ASSUME own # {}
      PROVE  LastOwn(its, lst, c, top) /\ StandsIn(its, lst, c) = lst[top]
  <2>1. top \in own /\ \A m \in own : m <= top
    <3> HIDE DEF own
    <3> QED BY <1>0, <1>1, <1>3, Largest
  <2>2. StandsIn(its, lst, c) = lst[top]
    BY <1>3 DEF StandsIn
  <2> QED BY <2>1, <2>2 DEF LastOwn
<1>4. ASSUME NEW n, LastOwn(its, lst, c, n)
      PROVE  StandsIn(its, lst, c) = lst[n]
  <2>1. n \in own /\ \A m \in own : m <= n
    BY <1>4 DEF LastOwn
  <2>2. own # {}
    BY <2>1
  <2>3. top \in own /\ \A m \in own : m <= top
    BY <1>3, <2>2 DEF LastOwn
  <2>4. n \in Nat /\ top \in Nat
    <3> HIDE DEF own, top
    <3> QED BY <1>0, <1>1, <2>1, <2>3
  <2>5. n = top
    <3> HIDE DEF own, top
    <3> QED BY <2>1, <2>3, <2>4
  <2> QED BY <1>3, <2>2, <2>5
<1> QED BY <1>2, <1>3, <1>4

\* An item that stands is live and of its category.
LEMMA StandsForIt ==
  ASSUME NEW its, NEW lst \in Seq(1..Len(its)), NEW c, Len(its) \in Nat
  PROVE  LET s == StandsIn(its, lst, c)
         IN  /\ s \in 0..Len(its)
             /\ s # 0 => s \in 1..Len(its) /\ its[s].category = c /\ its[s].heir = 0
<1>0. lst \in Seq(Nat) /\ DOMAIN lst = 1..Len(lst) /\ \A n \in DOMAIN lst : lst[n] \in 1..Len(its)
  OBVIOUS
<1>1. CASE Own(its, lst, c) = {}
  BY <1>0, <1>1, StandsAtLast
<1>2. CASE Own(its, lst, c) # {}
  <2>1. PICK n : LastOwn(its, lst, c, n) /\ StandsIn(its, lst, c) = lst[n]
    BY <1>0, <1>2, StandsAtLast
  <2>2. n \in DOMAIN lst /\ its[lst[n]].heir = 0 /\ its[lst[n]].category = c
    BY <2>1 DEF LastOwn, Own
  <2> QED BY <1>0, <2>1, <2>2
<1> QED BY <1>1, <1>2

\* The places of a list l2 that is lst with e at place p.
Spliced(l2, lst, p, e) ==
  /\ l2 \in Seq(Nat) /\ Len(l2) = Len(lst) + 1
  /\ \A n \in 1..(Len(lst) + 1) : l2[n] = IF n < p THEN lst[n] ELSE IF n = p THEN e ELSE lst[n - 1]

LEMMA InsertIs ==
  ASSUME NEW lst \in Seq(Nat), NEW p \in 1..(Len(lst) + 1), NEW e \in Nat
  PROVE  Spliced(InsertAt(lst, p, e), lst, p, e)
<1> DEFINE head == SubSeq(lst, 1, p - 1)
           tail == SubSeq(lst, p, Len(lst))
           mid == head \o << e >>
<1>0. Len(lst) \in Nat /\ p \in Nat /\ \A n \in 1..Len(lst) : lst[n] \in Nat
  OBVIOUS
<1>1. head \in Seq(Nat) /\ Len(head) = p - 1 /\ \A n \in 1..(p - 1) : head[n] = lst[n]
  <2>1. 1 \in Int /\ p - 1 \in Int /\ \A i \in 1..(p - 1) : lst[i] \in Nat
    BY <1>0
  <2>2. /\ head \in Seq(Nat) /\ Len(head) = IF 1 <= p - 1 THEN (p - 1) - 1 + 1 ELSE 0
        /\ \A i \in 1..((p - 1) - 1 + 1) : head[i] = lst[1 + i - 1]
    BY <2>1, SubSeqProperties
  <2> HIDE DEF head
  <2> QED BY <1>0, <2>2
<1>2. tail \in Seq(Nat) /\ Len(tail) = Len(lst) - p + 1 /\ \A n \in 1..(Len(lst) - p + 1) : tail[n] = lst[p + n - 1]
  <2>1. p \in Int /\ Len(lst) \in Int /\ \A i \in p..Len(lst) : lst[i] \in Nat
    BY <1>0
  <2>2. /\ tail \in Seq(Nat) /\ Len(tail) = IF p <= Len(lst) THEN Len(lst) - p + 1 ELSE 0
        /\ \A i \in 1..(Len(lst) - p + 1) : tail[i] = lst[p + i - 1]
    BY <2>1, SubSeqProperties
  <2> HIDE DEF tail
  <2> QED BY <1>0, <2>2
<1>3. << e >> \in Seq(Nat) /\ Len(<< e >>) = 1 /\ << e >>[1] = e
  OBVIOUS
<1> HIDE DEF head, tail
<1>4. mid \in Seq(Nat) /\ Len(mid) = p /\ \A n \in 1..p : mid[n] = IF n < p THEN lst[n] ELSE e
  <2>1. /\ mid \in Seq(Nat) /\ Len(mid) = (p - 1) + 1
        /\ \A i \in 1..((p - 1) + 1) : mid[i] = IF i <= p - 1 THEN head[i] ELSE << e >>[i - (p - 1)]
    BY <1>1, <1>3, ConcatProperties
  <2> HIDE DEF mid
  <2>2. ASSUME NEW n \in 1..p PROVE mid[n] = IF n < p THEN lst[n] ELSE e
    <3>1. CASE n < p
      <4>1. mid[n] = head[n] /\ n \in 1..(p - 1)
        BY <1>0, <2>1, <3>1
      <4> QED BY <1>1, <3>1, <4>1
    <3>2. CASE n = p
      <4>1. mid[n] = << e >>[1]
        BY <1>0, <2>1, <3>2
      <4> QED BY <1>3, <3>2, <4>1
    <3> QED BY <1>0, <3>1, <3>2
  <2> QED BY <1>0, <2>1, <2>2
<1> HIDE DEF mid
<1>5. /\ mid \o tail \in Seq(Nat) /\ Len(mid \o tail) = Len(lst) + 1
      /\ \A i \in 1..(Len(lst) + 1) : (mid \o tail)[i] = IF i <= p THEN mid[i] ELSE tail[i - p]
  <2>1. /\ mid \o tail \in Seq(Nat) /\ Len(mid \o tail) = Len(mid) + Len(tail)
        /\ \A i \in 1..(Len(mid) + Len(tail)) :
             (mid \o tail)[i] = IF i <= Len(mid) THEN mid[i] ELSE tail[i - Len(mid)]
    BY <1>2, <1>4, ConcatProperties
  <2>2. Len(mid) + Len(tail) = Len(lst) + 1 /\ Len(mid) = p
    BY <1>0, <1>2, <1>4
  <2> QED BY <2>1, <2>2
<1>6. InsertAt(lst, p, e) = mid \o tail
  BY DEF InsertAt, mid, head, tail
<1> DEFINE l2 == InsertAt(lst, p, e)
<1>7. l2 \in Seq(Nat) /\ Len(l2) = Len(lst) + 1
  BY <1>0, <1>5, <1>6
<1>8. ASSUME NEW n \in 1..(Len(lst) + 1)
      PROVE  l2[n] = IF n < p THEN lst[n] ELSE IF n = p THEN e ELSE lst[n - 1]
  <2>1. l2[n] = IF n <= p THEN mid[n] ELSE tail[n - p]
    BY <1>0, <1>5, <1>6
  <2>2. CASE n <= p
    BY <1>0, <1>4, <2>1, <2>2
  <2>3. CASE n > p
    <3>1. n - p \in 1..(Len(lst) - p + 1) /\ p + (n - p) - 1 = n - 1
      BY <1>0, <2>3
    <3> QED BY <1>0, <1>2, <2>1, <2>3, <3>1
  <2> QED BY <1>0, <2>2, <2>3
<1> QED BY <1>7, <1>8 DEF Spliced

\* i2 is its with one more item, e.
OneMore(i2, its, e) == (\A i \in 1..Len(its) : i2[i] = its[i]) /\ i2[Len(its) + 1] = e

\* The new item e is listed after the others of its category.
ListedLast(its, lst, p, c) == \A n \in Own(its, lst, c) : n < p

\* Then it stands for its category in l2; no other category notices in any case.
NowStands(i2, l2, p, e, its, lst, c) ==
  /\ c # e.category => StandsIn(i2, l2, c) = StandsIn(its, lst, c)
  /\ c = e.category /\ ListedLast(its, lst, p, c) => StandsIn(i2, l2, c) = Len(its) + 1

\* A new item stands for its category when it is listed after the others of it, and no
\* other category notices.
LEMMA InsertStands ==
  ASSUME NEW its, Len(its) \in Nat, NEW lst \in Seq(1..Len(its)), NEW p \in 1..(Len(lst) + 1),
         NEW i2, NEW e, OneMore(i2, its, e), e.heir = 0, NEW c
  PROVE  NowStands(i2, InsertAt(lst, p, Len(its) + 1), p, e, its, lst, c)
<1> DEFINE l2 == InsertAt(lst, p, Len(its) + 1)
           Shift(n) == IF n < p THEN n ELSE n + 1
           len == Len(lst)
<1>1. /\ len \in Nat /\ p \in 1..(len + 1) /\ DOMAIN lst = 1..len /\ lst \in Seq(Nat)
      /\ \A n \in 1..len : lst[n] \in 1..Len(its)
  OBVIOUS
<1>b. (\A i \in 1..Len(its) : i2[i] = its[i]) /\ i2[Len(its) + 1] = e
  BY DEF OneMore
<1>2. /\ l2 \in Seq(Nat) /\ Len(l2) = len + 1
      /\ \A n \in 1..(len + 1) : l2[n] = IF n < p THEN lst[n] ELSE IF n = p THEN Len(its) + 1 ELSE lst[n - 1]
  <2>1. Len(its) + 1 \in Nat /\ p \in 1..(Len(lst) + 1) /\ lst \in Seq(Nat)
    BY <1>1
  <2>2. Spliced(l2, lst, p, Len(its) + 1)
    BY <2>1, InsertIs
  <2> QED BY <2>2 DEF Spliced
<1> HIDE DEF l2
<1>3. DOMAIN l2 = 1..(len + 1)
  BY <1>2
<1> HIDE DEF len
<1>a. \A n : LastOwn(i2, l2, c, n) => StandsIn(i2, l2, c) = l2[n]
  <2>1. l2 \in Seq(Nat)
    BY <1>2
  <2> QED BY <2>1, StandsAtLast, Zenon
<1>4. l2[p] = Len(its) + 1 /\ p \in DOMAIN l2
  BY <1>1, <1>2, <1>3
<1>5. ASSUME NEW n \in 1..len
      PROVE  Shift(n) \in DOMAIN l2 /\ l2[Shift(n)] = lst[n] /\ i2[lst[n]] = its[lst[n]]
  <2>0. i2[lst[n]] = its[lst[n]]
    BY <1>1, <1>b
  <2>1. CASE n < p
    BY <1>1, <1>2, <1>3, <2>0, <2>1
  <2>2. CASE ~(n < p)
    <3>1. n + 1 \in 1..(len + 1) /\ ~(n + 1 < p) /\ n + 1 # p /\ (n + 1) - 1 = n
      BY <1>1, <2>2
    <3> QED BY <1>1, <1>2, <1>3, <2>0, <2>2, <3>1
  <2> QED BY <2>1, <2>2
<1>6. ASSUME NEW m \in DOMAIN l2, m # p
      PROVE  \E n \in 1..len : m = Shift(n)
  <2>1. CASE m < p
    BY <1>1, <1>3, <2>1
  <2>2. CASE m > p
    <3>1. m - 1 \in 1..len /\ m = Shift(m - 1)
      BY <1>1, <1>3, <2>2
    <3> QED BY <3>1
  <2> QED BY <1>1, <1>3, <1>6, <2>1, <2>2
<1>7. ASSUME NEW n \in 1..len
      PROVE  n \in Own(its, lst, c) <=> Shift(n) \in Own(i2, l2, c)
  <2> HIDE DEF Shift
  <2> QED BY <1>1, <1>5 DEF Own
<1>8. Own(its, lst, c) \subseteq 1..len /\ Own(i2, l2, c) \subseteq DOMAIN l2
  BY <1>1 DEF Own
<1>9. ASSUME NEW n \in 1..len, NEW m \in 1..len, n <= m
      PROVE  Shift(n) <= Shift(m)
  BY <1>1, <1>9
<1>10. ASSUME c # e.category
       PROVE  StandsIn(i2, l2, c) = StandsIn(its, lst, c)
  <2>1. p \notin Own(i2, l2, c)
    BY <1>4, <1>b, <1>10 DEF Own
  <2> HIDE DEF Shift
  <2>2. CASE Own(its, lst, c) = {}
    <3>1. Own(i2, l2, c) = {}
      <4> SUFFICES ASSUME NEW m \in Own(i2, l2, c) PROVE FALSE
        OBVIOUS
      <4>1. PICK n \in 1..len : m = Shift(n)
        BY <1>6, <1>8, <2>1
      <4> QED BY <1>7, <2>2, <4>1
    <3>2. StandsIn(i2, l2, c) = 0
      BY <1>2, <3>1, StandsAtLast
    <3>3. StandsIn(its, lst, c) = 0
      BY <1>1, <2>2, StandsAtLast
    <3> QED BY <3>2, <3>3
  <2>3. CASE Own(its, lst, c) # {}
    <3>1. PICK n : LastOwn(its, lst, c, n) /\ StandsIn(its, lst, c) = lst[n]
      BY <1>1, <2>3, StandsAtLast
    <3>2. n \in 1..len /\ n \in Own(its, lst, c)
      BY <1>8, <3>1 DEF LastOwn
    <3>3. LastOwn(i2, l2, c, Shift(n))
      <4>1. Shift(n) \in Own(i2, l2, c)
        BY <1>7, <3>2
      <4>2. ASSUME NEW m \in Own(i2, l2, c) PROVE m <= Shift(n)
        <5>1. PICK k \in 1..len : m = Shift(k)
          BY <1>6, <1>8, <2>1
        <5>2. k \in Own(its, lst, c)
          BY <1>7, <5>1
        <5>3. k <= n
          BY <3>1, <5>2 DEF LastOwn
        <5> QED BY <1>9, <3>2, <5>1, <5>3
      <4> QED BY <4>1, <4>2 DEF LastOwn
    <3>4. StandsIn(i2, l2, c) = l2[Shift(n)]
      BY <1>a, <3>3
    <3> QED BY <1>5, <3>1, <3>2, <3>4
  <2> QED BY <2>2, <2>3
<1>11. ASSUME c = e.category, ListedLast(its, lst, p, c)
       PROVE  StandsIn(i2, l2, c) = Len(its) + 1
  <2>1. p \in Own(i2, l2, c)
    BY <1>4, <1>b, <1>11 DEF Own
  <2>2. ASSUME NEW m \in Own(i2, l2, c) PROVE m <= p
    <3>1. CASE m = p
      BY <1>1, <3>1
    <3>2. CASE m # p
      <4>1. PICK n \in 1..len : m = Shift(n)
        BY <1>6, <1>8, <3>2
      <4>2. n < p
        BY <1>7, <1>11, <4>1 DEF ListedLast
      <4> QED BY <1>1, <4>1, <4>2
    <3> QED BY <3>1, <3>2
  <2>3. LastOwn(i2, l2, c, p)
    BY <2>1, <2>2 DEF LastOwn
  <2>4. StandsIn(i2, l2, c) = l2[p]
    BY <1>a, <2>3
  <2> QED BY <1>4, <2>4
<1> QED BY <1>10, <1>11 DEF l2, NowStands

\* A list with one more item gives every item once.
LEMMA InsertLists ==
  ASSUME NEW k \in Nat, NEW lst \in Seq(1..k), IsInjective(lst), Len(lst) = k, NEW p \in 1..(k + 1)
  PROVE  LET l2 == InsertAt(lst, p, k + 1)
         IN  l2 \in Seq(1..(k + 1)) /\ IsInjective(l2) /\ Len(l2) = k + 1
<1> DEFINE l2 == InsertAt(lst, p, k + 1)
<1>1. /\ DOMAIN lst = 1..k /\ (\A n \in 1..k : lst[n] \in 1..k) /\ lst \in Seq(Nat) /\ k + 1 \in Nat
      /\ p \in 1..(Len(lst) + 1)
  OBVIOUS
<1>2. /\ l2 \in Seq(Nat) /\ Len(l2) = k + 1
      /\ \A n \in 1..(k + 1) : l2[n] = IF n < p THEN lst[n] ELSE IF n = p THEN k + 1 ELSE lst[n - 1]
  <2>1. Spliced(l2, lst, p, k + 1)
    BY <1>1, InsertIs
  <2> QED BY <2>1 DEF Spliced
<1> HIDE DEF l2
<1>3. DOMAIN l2 = 1..(k + 1)
  BY <1>2
<1>4. \A n \in 1..(k + 1) : l2[n] \in 1..(k + 1)
  <2> SUFFICES ASSUME NEW n \in 1..(k + 1) PROVE l2[n] \in 1..(k + 1)
    OBVIOUS
  <2>1. n < p => n \in 1..k
    OBVIOUS
  <2>2. n > p => n - 1 \in 1..k
    OBVIOUS
  <2> QED BY <1>1, <1>2, <2>1, <2>2
<1>5. l2 \in Seq(1..(k + 1))
  BY <1>2, <1>3, <1>4
<1>6. ASSUME NEW a \in 1..(k + 1), NEW b \in 1..(k + 1), l2[a] = l2[b], a < b
      PROVE  FALSE
  <2>0. \A n, m \in 1..k : lst[n] = lst[m] => n = m
    BY <1>1 DEF IsInjective
  <2>1. l2[a] = IF a < p THEN lst[a] ELSE IF a = p THEN k + 1 ELSE lst[a - 1]
    BY <1>2
  <2>2. l2[b] = IF b < p THEN lst[b] ELSE IF b = p THEN k + 1 ELSE lst[b - 1]
    BY <1>2
  <2>3. CASE b < p
    <3>1. a \in 1..k /\ b \in 1..k
      BY <1>6, <2>3
    <3>2. l2[b] = lst[b] /\ a < p
      BY <1>6, <2>2, <2>3
    <3>3. l2[a] = lst[a]
      BY <2>1, <3>2
    <3>4. a = b
      BY <1>6, <2>0, <3>1, <3>2, <3>3
    <3> QED BY <1>6, <3>4
  <2>4. CASE b = p
    <3>1. a \in 1..k /\ a < p
      BY <1>6, <2>4
    <3>2. lst[a] \in 1..k
      BY <1>1, <3>1
    <3>3. l2[a] = lst[a] /\ l2[b] = k + 1
      BY <2>1, <2>2, <2>4, <3>1
    <3>4. k + 1 \in 1..k
      BY <1>6, <3>2, <3>3
    <3> QED BY <3>4
  <2>5. CASE b > p
    <3>1. b - 1 \in 1..k
      BY <2>5
    <3>2. l2[b] = lst[b - 1] /\ lst[b - 1] \in 1..k
      BY <1>1, <2>2, <2>5, <3>1
    <3>3. CASE a < p
      <4>1. a \in 1..k /\ a # b - 1
        BY <2>5, <3>3
      <4> QED BY <1>6, <2>0, <2>1, <3>1, <3>2, <3>3, <4>1
    <3>4. CASE a = p
      <4>1. l2[a] = k + 1
        BY <2>1, <3>4
      <4>2. k + 1 \in 1..k
        BY <1>6, <3>2, <4>1
      <4> QED BY <4>2
    <3>5. CASE a > p
      <4>1. a - 1 \in 1..k /\ a - 1 # b - 1
        BY <1>6, <3>5
      <4>2. l2[a] = lst[a - 1]
        BY <2>1, <3>5
      <4> QED BY <1>6, <2>0, <3>1, <3>2, <4>1, <4>2
    <3> QED BY <3>3, <3>4, <3>5
  <2> QED BY <2>3, <2>4, <2>5
<1>7. IsInjective(l2)
  <2> SUFFICES ASSUME NEW a \in DOMAIN l2, NEW b \in DOMAIN l2, l2[a] = l2[b] PROVE a = b
    BY DEF IsInjective
  <2>1. ~(a < b) /\ ~(b < a)
    BY <1>3, <1>6
  <2> QED BY <1>3, <2>1
<1> QED BY <1>2, <1>5, <1>7 DEF l2

-----------------------------------------------------------------------------
(* The invariant.                                                          *)

Stored == items \in Seq(Item) /\ \A i \in DOMAIN items : items[i].heir \in 0..Len(items)
Listing == listed \in Seq(DOMAIN items) /\ IsInjective(listed) /\ Len(listed) = Len(items)
Held ==
  /\ pc \in [Runs -> { "new", "ready", "lesson", "adding", "linking", "evolved" }]
  /\ injected \in [Runs -> SUBSET DOMAIN items]
  /\ todo \in [Runs -> Seq(Lesson)]
  /\ read \in [Runs -> Seq(Item)]
  /\ seen \in [Runs -> [Categories -> Nat]] /\ fresh \in [Runs -> Nat]
  /\ evolves \in Nat /\ recorded \in [Runs -> SUBSET Categories]
  /\ since \in [Runs -> SUBSET Categories] /\ stale \subseteq Categories

\* An active lesson is the one that stands for its category.
Standings == \A i \in Active : items[i].category \notin stale => Standing(items[i].category) = i

\* A lesson that a run was shown still stands, or has been retired with its replacements.
Recalled(i) ==
  LET s == Standing(items[i].category)
  IN  s # 0 /\ (items[s].status = "retired" \/ (s = i /\ items[s].status = "active"))
Remembered == \A r \in Runs : \A i \in injected[r] : items[i].category \notin stale => Recalled(i)

\* What MissesAreCharged and RunRecordsKept ask of a category that a run merged.
Charge(r, c) ==
  LET s == Standing(c)
      shown == { i \in injected[r] : items[i].category = c }
  IN  /\ s # 0 /\ items[s].runs[r].missed # "none"
      /\ shown # {} => items[s].runs[r].missed = "yes" \/ items[s].status = "retired"
      /\ shown = {} => items[s].runs[r].missed = "no"
Charged == \A r \in Runs : \A c \in recorded[r] : c \notin stale => Charge(r, c)

\* What was read is there still, though it may have been written since.
Reading(r) ==
  /\ Len(read[r]) <= Len(items)
  /\ \A i \in DOMAIN read[r] : items[i].category = read[r][i].category
  /\ \A c \in Categories : /\ seen[r][c] \in 0..Len(read[r])
                           /\ seen[r][c] # 0 => read[r][seen[r][c]].category = c

\* A category that nobody wrote since is as it was read.
Current(r, c) ==
  /\ Standing(c) = seen[r][c]
  /\ seen[r][c] # 0 => items[seen[r][c]] = read[r][seen[r][c]]
  /\ \A i \in DOMAIN items : i > Len(read[r]) => items[i].category # c
AsRead(r) == \A c \in Categories : c \notin since[r] /\ c \notin stale => Current(r, c)

\* A correction that is under way.
Replacing(r) ==
  /\ pc[r] \in { "adding", "linking" } => todo[r] # <<>> /\ target(r) # 0 /\ Rewritten(r)
  /\ pc[r] = "linking" => fresh[r] \in DOMAIN items

\* The replacement, or a later one of it, stands already for the category and has the record.
Replaced(r) ==
  pc[r] = "linking" /\ lesson(r).category \notin stale =>
    Standing(lesson(r).category) # target(r) /\ Charge(r, lesson(r).category)

Session(r) == Reading(r) /\ AsRead(r) /\ Replacing(r) /\ Replaced(r)
Sessions == \A r \in Runs : Evolving(r) => Session(r)

LessonInv ==
  /\ Stored /\ Listing /\ Held
  /\ Standings /\ Remembered /\ Charged /\ Sessions

\* The item that stands for a category is a live one of it.
LEMMA StandingOf ==
  ASSUME Stored, Listing, NEW c
  PROVE  /\ Standing(c) \in 0..Len(items)
         /\ Standing(c) # 0 => /\ Standing(c) \in DOMAIN items
                               /\ items[Standing(c)].category = c /\ items[Standing(c)].heir = 0
<1>1. Len(items) \in Nat /\ DOMAIN items = 1..Len(items) /\ listed \in Seq(1..Len(items))
  BY DEF Stored, Listing
<1>2. Standing(c) = StandsIn(items, listed, c)
  BY StandingIs
<1> QED BY <1>1, <1>2, StandsForIt

(* What a step does to the categories.                                     *)

\* A category the step does not concern.
Same(c) == Standing(c)' = Standing(c) /\ (Standing(c) # 0 => items'[Standing(c)] = items[Standing(c)])

\* No lesson changes its category.
Grows == Len(items) <= Len(items') /\ \A i \in DOMAIN items : items'[i].category = items[i].category

\* The lesson that stands for the category takes run r's record, one step of its life at most.
Carries(r, c) ==
  LET s == Standing(c)
      new == items'[Standing(c)']
  IN  /\ Standing(c)' # 0 /\ (Standing(c)' = s \/ Standing(c)' > Len(items))
      /\ new.runs[r].missed = IF s # 0 /\ s \in injected[r] THEN "yes" ELSE "no"
      /\ s = 0 => new.status \in { "candidate", "active" }
      /\ s # 0 => /\ \A q \in Runs \ { r } : new.runs[q] = items[s].runs[q]
                  /\ items[s].status = "candidate" => new.status \in { "candidate", "active" }
                  /\ items[s].status = "retired" => new.status = "retired"
                  /\ items[s].status = "active" => new.status \in { "active", "retired" } /\ Standing(c)' = s

\* What was read of the category is old for every process at work.
Written(c) == \A q \in Runs : Evolving(q) => c \in since'[q]

\* One category at most is concerned, and where it is written everybody's read of it is old.
Elsewhere(c) == \A d : d # c => Same(d)
NewIn(c) == \A i \in DOMAIN items' : i \in DOMAIN items \/ items'[i].category = c
Touches(r, c) ==
  /\ Elsewhere(c) /\ NewIn(c) /\ stale \subseteq stale' /\ stale' \subseteq stale \union { c }
  /\ \/ c \in stale'
     \/ Same(c) /\ DOMAIN items' = DOMAIN items
     \/ Carries(r, c) /\ Written(c)

Moves ==
  \/ stale' = stale /\ \A d : Same(d)
  \/ \E r \in Runs : \E c \in Categories :
       /\ Elsewhere(c) /\ stale \subseteq stale' /\ stale' \subseteq stale \union { c }
       /\ c \in stale' \/ Same(c) \/ Carries(r, c)

\* No lesson becomes active but the one that stands for c.
Actives(c) == \A i \in Active' : i \in Active \/ (items'[i].category = c /\ (c \in stale' \/ i = Standing(c)'))

\* What was active for another category goes on standing for it.
LEMMA StandingsKept ==
  ASSUME LessonInv, Grows, NEW r \in Runs, NEW c, Touches(r, c), Actives(c)
  PROVE  Standings'
<1> SUFFICES ASSUME NEW i \in Active', (items[i].category \notin stale)'
             PROVE Standing(items[i].category)' = i
  BY DEF Standings
<1>1. PICK d : d = items'[i].category
  OBVIOUS
<1>2. Standing(items[i].category)' = Standing(d)' /\ d \notin stale' /\ d \notin stale
  BY <1>1 DEF Standing, Live, Touches
<1>3. CASE i \notin Active
  BY <1>1, <1>2, <1>3 DEF Actives
<1>4. CASE i \in Active
  <2>1. i \in DOMAIN items /\ items[i].status = "active"
    BY <1>4 DEF Active
  <2>2. d = items[i].category
    BY <1>1, <2>1 DEF Grows
  <2>3. Standing(d) = i
    BY <1>2, <1>4, <2>2 DEF LessonInv, Standings
  <2>4. i # 0
    BY <2>1 DEF LessonInv, Stored
  <2>5. Same(d) \/ (d = c /\ Carries(r, c))
    BY <1>2 DEF Touches, Elsewhere
  <2>6. CASE Same(d)
    BY <1>2, <2>3, <2>6 DEF Same
  <2>7. CASE d = c /\ Carries(r, c)
    BY <1>2, <2>1, <2>3, <2>4, <2>7 DEF Carries
  <2> QED BY <2>5, <2>6, <2>7
<1> QED BY <1>3, <1>4

\* The lesson that was shown still stands or has been retired.
LEMMA RecalledKept ==
  ASSUME LessonInv, NEW r, NEW d, NEW i \in DOMAIN items, d = items[i].category, Recalled(i), Grows,
         Same(d) \/ Carries(r, d)
  PROVE  Recalled(i)'
<1>1. d = items[i].category
  OBVIOUS
<1>2. items'[i].category = d
  BY <1>1 DEF Grows
<1>3. Standing(items[i].category)' = Standing(d)' /\ Standing(items[i].category) = Standing(d)
  BY <1>1, <1>2 DEF Standing, Live
<1>4. Standing(d) # 0 /\ (items[Standing(d)].status = "retired"
                          \/ (Standing(d) = i /\ items[Standing(d)].status = "active"))
  BY <1>1 DEF Recalled
<1>5. CASE Same(d)
  BY <1>3, <1>4, <1>5 DEF Recalled, Same
<1>6. CASE Carries(r, d)
  <2>1. Standing(d)' # 0
    BY <1>6 DEF Carries
  <2>2. items[Standing(d)].status = "retired" => items'[Standing(d)'].status = "retired"
    BY <1>4, <1>6 DEF Carries
  <2>3. items[Standing(d)].status = "active" =>
          items'[Standing(d)'].status \in { "active", "retired" } /\ Standing(d)' = Standing(d)
    BY <1>4, <1>6 DEF Carries
  <2> QED BY <1>3, <1>4, <2>1, <2>2, <2>3 DEF Recalled
<1> QED BY <1>5, <1>6

\* So do those of every category the step does not make stale.
LEMMA RecalledStays ==
  ASSUME LessonInv, Grows, NEW r \in Runs, NEW c, Touches(r, c), NEW i \in DOMAIN items,
         (items[i].category \notin stale)', items[i].category \notin stale => Recalled(i)
  PROVE  Recalled(i)'
<1>1. PICK d : d = items[i].category
  OBVIOUS
<1>2. items'[i].category = d
  BY <1>1 DEF Grows
<1>3. d \notin stale' /\ d \notin stale
  BY <1>2 DEF Touches
<1>4. Same(d) \/ Carries(r, d)
  BY <1>3 DEF Touches, Elsewhere
<1> QED BY <1>1, <1>3, <1>4, RecalledKept

\* The lessons shown of a category stay the ones they were.
LEMMA ShownStay ==
  ASSUME LessonInv, NEW q \in Runs, NEW c, Grows, injected'[q] = injected[q]
  PROVE  { i \in injected'[q] : items'[i].category = c } = { i \in injected[q] : items[i].category = c }
<1>1. injected[q] \subseteq DOMAIN items
  BY DEF LessonInv, Held
<1> QED BY <1>1 DEF Grows

\* A charge stays where the step concerns another category or another run's record.
LEMMA ChargeKept ==
  ASSUME LessonInv, NEW q \in Runs, NEW c, Grows, injected'[q] = injected[q], Charge(q, c),
         NEW r \in Runs, Same(c) \/ (q # r /\ Carries(r, c))
  PROVE  Charge(q, c)'
<1> DEFINE shown == { i \in injected[q] : items[i].category = c }
<1>1. { i \in injected'[q] : items'[i].category = c } = shown
  BY ShownStay
<1>2. /\ Standing(c) # 0 /\ items[Standing(c)].runs[q].missed # "none"
      /\ shown # {} => items[Standing(c)].runs[q].missed = "yes" \/ items[Standing(c)].status = "retired"
      /\ shown = {} => items[Standing(c)].runs[q].missed = "no"
  BY DEF Charge
<1>3. /\ Standing(c)' # 0
      /\ items'[Standing(c)'].runs[q] = items[Standing(c)].runs[q]
      /\ items[Standing(c)].status = "retired" => items'[Standing(c)'].status = "retired"
  <2>1. CASE Same(c)
    BY <1>2, <2>1 DEF Same
  <2>2. CASE q # r /\ Carries(r, c)
    <3>1. Standing(c)' # 0 /\ (items[Standing(c)].status = "retired" => items'[Standing(c)'].status = "retired")
      BY <1>2, <2>2 DEF Carries
    <3>2. \A p \in Runs \ { r } : items'[Standing(c)'].runs[p] = items[Standing(c)].runs[p]
      BY <1>2, <2>2 DEF Carries
    <3> QED BY <2>2, <3>1, <3>2
  <2> QED BY <2>1, <2>2
<1>4. /\ Standing(c)' # 0 /\ items'[Standing(c)'].runs[q].missed # "none"
      /\ shown # {} => items'[Standing(c)'].runs[q].missed = "yes" \/ items'[Standing(c)'].status = "retired"
      /\ shown = {} => items'[Standing(c)'].runs[q].missed = "no"
  BY <1>2, <1>3
<1> HIDE DEF shown
<1> QED BY <1>1, <1>4 DEF Charge

\* Another run's charge stays in every category the step does not make stale.
LEMMA ChargeStays ==
  ASSUME LessonInv, Grows, NEW r \in Runs, NEW c, Touches(r, c), NEW q \in Runs, NEW d,
         injected'[q] = injected[q], d \notin stale', Charge(q, d), q # r \/ Same(d)
  PROVE  Charge(q, d)'
<1>1. Same(d) \/ (q # r /\ Carries(r, d))
  BY DEF Touches, Elsewhere
<1> QED BY <1>1, ChargeKept

\* The run whose record is carried charges what it was shown, and nothing else.
LEMMA ChargeMade ==
  ASSUME LessonInv, NEW r \in Runs, NEW c, c \notin stale, Grows, injected'[r] = injected[r], Carries(r, c)
  PROVE  Charge(r, c)'
<1> DEFINE shown == { i \in injected[r] : items[i].category = c }
<1>1. { i \in injected'[r] : items'[i].category = c } = shown
  BY ShownStay
<1>2. Standing(c)' # 0
  BY DEF Carries
<1>3. items'[Standing(c)'].runs[r].missed = IF Standing(c) # 0 /\ Standing(c) \in injected[r] THEN "yes" ELSE "no"
  BY DEF Carries
<1>4. ASSUME NEW i \in shown
      PROVE  items'[Standing(c)'].runs[r].missed = "yes" \/ items'[Standing(c)'].status = "retired"
  <2>1. Recalled(i) /\ items[i].category = c /\ i \in injected[r]
    BY DEF LessonInv, Remembered
  <2>2. Standing(c) # 0 /\ (items[Standing(c)].status = "retired" \/ Standing(c) = i)
    BY <2>1 DEF Recalled
  <2>3. items[Standing(c)].status = "retired" => items'[Standing(c)'].status = "retired"
    BY <2>2 DEF Carries
  <2> QED BY <1>3, <2>1, <2>2, <2>3
<1>5. shown = {} => items'[Standing(c)'].runs[r].missed = "no"
  <2>1. Standing(c) # 0 => items[Standing(c)].category = c
    BY StandingOf DEF LessonInv
  <2>2. shown = {} => ~(Standing(c) # 0 /\ Standing(c) \in injected[r])
    BY <2>1
  <2> QED BY <1>3, <2>2
<1>6. items'[Standing(c)'].runs[r].missed # "none"
  BY <1>3
<1> HIDE DEF shown
<1> QED BY <1>1, <1>2, <1>4, <1>5, <1>6 DEF Charge

(* What the processes have in their hands.                                 *)

\* What was read is there after any step.
LEMMA ReadingKept ==
  ASSUME LessonInv, Stored', Grows, NEW q \in Runs, Evolving(q), read'[q] = read[q], seen'[q] = seen[q]
  PROVE  Reading(q)'
<1>1. Reading(q)
  BY DEF LessonInv, Sessions, Session
<1>2. read[q] \in Seq(Item) /\ Len(items) \in Nat /\ Len(items') \in Nat /\ DOMAIN items = 1..Len(items)
  BY DEF LessonInv, Stored, Held
<1>3. Len(read[q]) \in Nat /\ DOMAIN read[q] = 1..Len(read[q]) /\ Len(read[q]) <= Len(items)
  BY <1>1, <1>2 DEF Reading
<1>4. Len(read[q]) <= Len(items')
  BY <1>2, <1>3 DEF Grows
<1>5. ASSUME NEW i \in DOMAIN read[q] PROVE items'[i].category = read[q][i].category
  <2>1. i \in DOMAIN items
    BY <1>2, <1>3
  <2> QED BY <1>1, <2>1 DEF Reading, Grows
<1> QED BY <1>1, <1>4, <1>5 DEF Reading

\* What nobody wrote is as it was read.
LEMMA AsReadKept ==
  ASSUME LessonInv, Grows, NEW r \in Runs, NEW c, Touches(r, c), NEW q \in Runs, Evolving(q),
         read'[q] = read[q], seen'[q] = seen[q], since[q] \subseteq since'[q]
  PROVE  AsRead(q)'
<1> SUFFICES ASSUME NEW d \in Categories, d \notin since'[q], d \notin stale' PROVE Current(q, d)'
  BY DEF AsRead
<1>1. Current(q, d)
  BY DEF LessonInv, Sessions, Session, AsRead, Touches
<1>2. Same(d) /\ (d = c => DOMAIN items' = DOMAIN items)
  BY DEF Touches, Elsewhere, Written
<1>3. Standing(d)' = seen[q][d] /\ (seen[q][d] # 0 => items'[seen[q][d]] = read[q][seen[q][d]])
  BY <1>1, <1>2 DEF Current, Same
<1>4. ASSUME NEW i \in DOMAIN items', i > Len(read[q]) PROVE items'[i].category # d
  <2>1. CASE i \in DOMAIN items
    BY <1>1, <1>4, <2>1 DEF Current, Grows
  <2>2. CASE i \notin DOMAIN items
    BY <1>2, <2>2 DEF Touches, NewIn
  <2> QED BY <2>1, <2>2
<1> QED BY <1>3, <1>4 DEF Current

\* A process the step is not of.
Idle(q) ==
  /\ pc'[q] = pc[q] /\ todo'[q] = todo[q] /\ read'[q] = read[q] /\ seen'[q] = seen[q] /\ fresh'[q] = fresh[q]
  /\ injected'[q] = injected[q] /\ recorded'[q] = recorded[q] /\ since[q] \subseteq since'[q]

LEMMA TargetIsThere ==
  ASSUME LessonInv, NEW q \in Runs, Evolving(q), todo[q] # <<>>
  PROVE  /\ lesson(q) \in Lesson /\ lesson(q).category \in Categories
         /\ lesson(q).text \in Texts /\ lesson(q).helped \in Nat
         /\ target(q) # 0 => /\ target(q) \in DOMAIN items /\ target(q) <= Len(items)
                             /\ items[target(q)].category = lesson(q).category
                             /\ before(q) \in Item
<1>1. todo[q] \in Seq(Lesson) /\ read[q] \in Seq(Item) /\ items \in Seq(Item)
  BY DEF LessonInv, Held, Stored
<1>2. lesson(q) \in Lesson
  BY <1>1 DEF lesson
<1>3. /\ lesson(q).category \in Categories /\ lesson(q).text \in Texts /\ lesson(q).helped \in 0..MaxHelped
  BY <1>2 DEF Lesson
<1>4. Reading(q)
  BY DEF LessonInv, Sessions, Session
<1>5. target(q) \in 0..Len(read[q]) /\ (target(q) # 0 => read[q][target(q)].category = lesson(q).category)
  BY <1>3, <1>4 DEF Reading, target
<1>6. target(q) # 0 => target(q) \in DOMAIN read[q]
  BY <1>1, <1>5
<1>7. target(q) # 0 => items[target(q)].category = lesson(q).category /\ before(q) \in Item
  BY <1>1, <1>4, <1>5, <1>6 DEF Reading, before
<1>8. target(q) # 0 => target(q) \in DOMAIN items /\ target(q) <= Len(items)
  BY <1>1, <1>4, <1>6 DEF Reading
<1> QED BY <1>2, <1>3, <1>7, <1>8, LessonConstants

LEMMA SessionKept ==
  ASSUME LessonInv, Stored', Grows, NEW r \in Runs, NEW c, Touches(r, c), NEW q \in Runs, Evolving(q), Idle(q),
         q # r \/ \A d : Same(d)
  PROVE  Session(q)'
<1>1. Session(q) /\ read'[q] = read[q] /\ seen'[q] = seen[q] /\ since[q] \subseteq since'[q]
  BY DEF LessonInv, Sessions, Idle
<1>2. Reading(q)' /\ AsRead(q)'
  BY <1>1, ReadingKept, AsReadKept
<1>3. lesson(q)' = lesson(q) /\ target(q)' = target(q) /\ before(q)' = before(q)
  BY DEF Idle, lesson, target, before
<1>4. Rewritten(q)' <=> Rewritten(q)
  BY <1>3 DEF Rewritten
<1>5. DOMAIN items \subseteq DOMAIN items'
  BY DEF LessonInv, Stored, Grows
<1>6. Replacing(q)'
  BY <1>1, <1>3, <1>4, <1>5 DEF Session, Replacing, Idle
<1>7. ASSUME pc[q] = "linking", NEW d, d = lesson(q).category, d \notin stale'
      PROVE  Standing(d)' # target(q) /\ Charge(q, d)'
  <2>1. Standing(d) # target(q) /\ Charge(q, d)
    BY <1>1, <1>7 DEF Session, Replaced, Touches
  <2>2. todo[q] # <<>> /\ target(q) # 0
    BY <1>1, <1>7 DEF Session, Replacing
  <2>3. target(q) \in DOMAIN items /\ target(q) <= Len(items) /\ Len(items) \in Nat
    BY <2>2, TargetIsThere DEF LessonInv, Stored
  <2>4. Standing(d)' = Standing(d) \/ Standing(d)' > Len(items)
    BY <1>7 DEF Touches, Elsewhere, Same, Carries
  <2>5. Standing(d)' # target(q)
    <3>1. target(q) \in Nat
      BY <2>3 DEF LessonInv, Stored
    <3> QED BY <2>1, <2>3, <2>4, <3>1
  <2>6. Charge(q, d)'
    BY <1>7, <2>1, ChargeStays DEF Idle
  <2> QED BY <2>5, <2>6
<1>8. Replaced(q)'
  <2> SUFFICES ASSUME pc'[q] = "linking", lesson(q)'.category \notin stale'
               PROVE  Standing(lesson(q).category)' # target(q)' /\ Charge(q, lesson(q).category)'
    BY DEF Replaced
  <2>1. PICK d : d = lesson(q).category
    OBVIOUS
  <2>2. Standing(d)' # target(q) /\ Charge(q, d)'
    BY <1>3, <1>7, <2>1 DEF Idle
  <2>3. Standing(lesson(q).category)' = Standing(d)' /\ (Charge(q, d)' <=> Charge(q, lesson(q).category)')
    BY <1>3, <2>1 DEF Standing, Charge
  <2> QED BY <1>3, <2>2, <2>3
<1> QED BY <1>2, <1>6, <1>8 DEF Session

\* A step of one process: the others keep what they have.
LEMMA StepKeeps ==
  ASSUME LessonInv, Stored', Listing', Held', Grows, NEW r \in Runs, NEW c, Touches(r, c), Actives(c),
         \A q \in Runs \ { r } : Idle(q), injected'[r] = injected[r],
         Evolving(r)' => Session(r)',
         \A d \in recorded'[r] : d \notin stale' => Charge(r, d)'
  PROVE  LessonInv'
<1>1. Standings'
  BY StandingsKept
<1>2. Remembered'
  <2> SUFFICES ASSUME NEW q \in Runs, NEW i \in injected'[q], (items[i].category \notin stale)'
               PROVE  Recalled(i)'
    BY DEF Remembered
  <2>1. i \in injected[q]
    BY DEF Idle
  <2>2. i \in DOMAIN items /\ (items[i].category \notin stale => Recalled(i))
    BY <2>1 DEF LessonInv, Held, Remembered
  <2> QED BY <2>2, RecalledStays
<1>3. Charged'
  <2> SUFFICES ASSUME NEW q \in Runs, NEW d \in recorded'[q], d \notin stale' PROVE Charge(q, d)'
    BY DEF Charged
  <2>1. CASE q = r
    BY <2>1
  <2>2. CASE q # r
    <3>1. d \in recorded[q] /\ d \notin stale /\ injected'[q] = injected[q]
      BY <2>2 DEF Idle, Touches
    <3>2. Charge(q, d)
      BY <3>1 DEF LessonInv, Charged
    <3> QED BY <2>2, <3>1, <3>2, ChargeStays
  <2> QED BY <2>1, <2>2
<1>4. Sessions'
  <2> SUFFICES ASSUME NEW q \in Runs, Evolving(q)' PROVE Session(q)'
    BY DEF Sessions
  <2>1. CASE q = r
    BY <2>1
  <2>2. CASE q # r
    <3>1. Idle(q) /\ Evolving(q)
      BY <2>2 DEF Idle, Evolving
    <3> QED BY <2>2, <3>1, SessionKept
  <2> QED BY <2>1, <2>2
<1> QED BY <1>1, <1>2, <1>3, <1>4 DEF LessonInv

\* The records an earlier merge of this execution left are charged as they should be.
LEMMA RecordedStays ==
  ASSUME LessonInv, Grows, NEW r \in Runs, NEW c, Touches(r, c), injected'[r] = injected[r],
         c \notin stale' => Charge(r, c)'
  PROVE  \A d \in recorded[r] : d \notin stale' => Charge(r, d)'
<1> SUFFICES ASSUME NEW d \in recorded[r], d \notin stale' PROVE Charge(r, d)'
  OBVIOUS
<1>1. CASE d = c
  BY <1>1
<1>2. CASE d # c
  <2>1. d \notin stale /\ Same(d)
    BY <1>2 DEF Touches, Elsewhere
  <2>2. Charge(r, d)
    BY <2>1 DEF LessonInv, Charged
  <2> QED BY <2>1, <2>2, ChargeStays
<1> QED BY <1>1, <1>2

\* One step of a lesson's life.
LEMMA StatusIs ==
  ASSUME NEW s, NEW runs
  PROVE  /\ s = "candidate" => Status(s, runs) \in { "candidate", "active" }
         /\ s = "active" => Status(s, runs) \in { "active", "retired" }
         /\ s = "retired" => Status(s, runs) = "retired"
BY DEF Status

LEMMA MergedIs ==
  ASSUME NEW r \in Runs, before(r).runs \in Records, lesson(r).helped \in Nat
  PROVE  /\ Merged(r) \in Records
         /\ Merged(r)[r].missed = IF target(r) \in injected[r] THEN "yes" ELSE "no"
         /\ \A q \in Runs \ { r } : Merged(r)[q] = before(r).runs[q]
<1>1. Verdict(r) \in Missed /\ Verdict(r) = IF target(r) \in injected[r] THEN "yes" ELSE "no"
  BY DEF Verdict, Missed
<1>2. [helped |-> lesson(r).helped, missed |-> Verdict(r)] \in [helped : Nat, missed : Missed]
  BY <1>1
<1> QED BY <1>1, <1>2 DEF Merged, Records

\* Where the read is not out of date, the target is what stands for the category.
LEMMA AtTarget ==
  ASSUME LessonInv, NEW r \in Runs, Evolving(r), todo[r] # <<>>, NEW c, c = lesson(r).category,
         c \notin since[r], c \notin stale
  PROVE  /\ target(r) = Standing(c)
         /\ target(r) # 0 => before(r) = items[target(r)]
         /\ \A i \in DOMAIN items : i > Len(read[r]) => items[i].category # c
<1>1. c \in Categories
  BY TargetIsThere
<1>2. Current(r, c)
  BY <1>1 DEF LessonInv, Sessions, Session, AsRead
<1> QED BY <1>2 DEF Current, target, before

\* What writing the lesson of a category means for the history variables.
LEMMA WritesIs ==
  ASSUME LessonInv, NEW r \in Runs, Evolving(r), todo[r] # <<>>, Writes(r), NEW c, c = lesson(r).category
  PROVE  /\ since' \in [Runs -> SUBSET Categories] /\ stale' \subseteq Categories
         /\ \A q \in Runs : since[q] \subseteq since'[q]
         /\ Written(c) /\ c \in since'[r]
         /\ stale \subseteq stale' /\ stale' \subseteq stale \union { c }
         /\ c \notin stale' => c \notin since[r] /\ c \notin stale
<1>1. c \in Categories
  BY TargetIsThere
<1>2. /\ since' = [q \in Runs |-> IF Evolving(q) THEN since[q] \union { c } ELSE since[q]]
      /\ stale' = IF c \in since[r] THEN stale \union { c } ELSE stale
  BY DEF Writes
<1>3. since \in [Runs -> SUBSET Categories] /\ stale \subseteq Categories
  BY DEF LessonInv, Held
<1>4. \A q \in Runs : since'[q] = IF Evolving(q) THEN since[q] \union { c } ELSE since[q]
  BY <1>2
<1>5. since' \in [Runs -> SUBSET Categories] /\ stale' \subseteq Categories
  BY <1>1, <1>2, <1>3
<1>6. /\ stale \subseteq stale' /\ stale' \subseteq stale \union { c }
      /\ c \notin stale' => c \notin since[r] /\ c \notin stale
  BY <1>2
<1> QED BY <1>4, <1>5, <1>6 DEF Written

LEMMA NextLessonIs ==
  ASSUME LessonInv, NEW r \in Runs, Evolving(r), todo[r] # <<>>, NextLesson(r)
  PROVE  /\ pc' \in [Runs -> { "new", "ready", "lesson", "adding", "linking", "evolved" }]
         /\ todo' \in [Runs -> Seq(Lesson)] /\ recorded' \in [Runs -> SUBSET Categories]
         /\ recorded'[r] = recorded[r] \union { lesson(r).category } /\ pc'[r] = "lesson"
         /\ \A q \in Runs \ { r } : recorded'[q] = recorded[q] /\ pc'[q] = pc[q] /\ todo'[q] = todo[q]
<1>0. /\ pc \in [Runs -> { "new", "ready", "lesson", "adding", "linking", "evolved" }]
      /\ todo \in [Runs -> Seq(Lesson)] /\ recorded \in [Runs -> SUBSET Categories]
  BY DEF LessonInv, Held
<1>1. lesson(r).category \in Categories
  BY TargetIsThere
<1>2. Tail(todo[r]) \in Seq(Lesson)
  <2>1. todo[r] \in Seq(Lesson)
    BY <1>0
  <2> QED BY <2>1
<1>3. /\ pc' = [pc EXCEPT ![r] = "lesson"] /\ todo' = [todo EXCEPT ![r] = Tail(todo[r])]
      /\ recorded' = [recorded EXCEPT ![r] = recorded[r] \union { lesson(r).category }]
  BY DEF NextLesson
<1> QED BY <1>0, <1>1, <1>2, <1>3

\* A new item leaves the other categories alone, and stands for its own at once where nobody
\* wrote it since the read: it is listed after every item that was read.
LEMMA Inserted ==
  ASSUME LessonInv, NEW r \in Runs, Evolving(r), todo[r] # <<>>, NEW item \in Item, item.heir = 0, Insert(r, item),
         NEW c, c = lesson(r).category, item.category = c
  PROVE  /\ Stored' /\ Listing' /\ Grows
         /\ items' = Append(items, item) /\ Len(items') = Len(items) + 1 /\ items'[Len(items) + 1] = item
         /\ c \notin since[r] /\ c \notin stale => Standing(c)' = Len(items) + 1
         /\ Elsewhere(c) /\ NewIn(c)
         /\ \A i \in DOMAIN items : items'[i] = items[i]
<1> DEFINE k == Len(items)
<1>0. /\ items \in Seq(Item) /\ k \in Nat /\ DOMAIN items = 1..k /\ \A i \in 1..k : items[i].heir \in 0..k
      /\ listed \in Seq(1..k) /\ IsInjective(listed) /\ Len(listed) = k
  BY DEF LessonInv, Stored, Listing
<1>1. items' = Append(items, item)
  BY DEF Insert
<1>2. /\ items' \in Seq(Item) /\ Len(items') = k + 1 /\ DOMAIN items' = 1..(k + 1)
      /\ items'[k + 1] = item /\ \A i \in 1..k : items'[i] = items[i]
  BY <1>0, <1>1
<1>3. PICK p \in Places(r) : listed' = InsertAt(listed, p, k + 1)
  BY DEF Insert
<1>4. p \in 1..(k + 1) /\ p \in 1..(Len(listed) + 1) /\ \A n \in p..k : listed[n] > Len(read[r])
  BY <1>0, <1>3 DEF Places
<1> HIDE DEF k
<1>5. Stored'
  <2>1. \A i \in 1..(k + 1) : items'[i].heir \in 0..(k + 1)
    <3> SUFFICES ASSUME NEW i \in 1..(k + 1) PROVE items'[i].heir \in 0..(k + 1)
      OBVIOUS
    <3>1. CASE i \in 1..k
      <4>1. items'[i] = items[i] /\ items[i].heir \in 0..k
        BY <1>0, <1>2, <3>1
      <4> QED BY <1>0, <4>1
    <3>2. CASE i = k + 1
      BY <1>0, <1>2, <3>2
    <3> QED BY <1>0, <3>1, <3>2
  <2> QED BY <1>2, <2>1 DEF Stored
<1>6. Listing'
  <2>1. listed' \in Seq(1..(k + 1)) /\ IsInjective(listed') /\ Len(listed') = k + 1
    BY <1>0, <1>3, <1>4, InsertLists
  <2> QED BY <1>2, <2>1 DEF Listing
<1>7. Grows
  BY <1>0, <1>2 DEF Grows, k
<1>8. ASSUME c \notin since[r], c \notin stale
      PROVE  ListedLast(items, listed, p, c)
  <2> SUFFICES ASSUME NEW n \in Own(items, listed, c), ~(n < p) PROVE FALSE
    BY <1>0, <1>4 DEF Own, ListedLast
  <2>1. n \in DOMAIN listed /\ items[listed[n]].category = c /\ n \in p..k
    BY <1>0, <1>4 DEF Own
  <2>2. listed[n] > Len(read[r]) /\ listed[n] \in DOMAIN items
    BY <1>0, <1>4, <2>1
  <2> QED BY <1>8, <2>1, <2>2, AtTarget
<1>9. ASSUME NEW d
      PROVE  /\ d # c => Standing(d)' = Standing(d)
             /\ d = c /\ ListedLast(items, listed, p, d) => Standing(d)' = k + 1
  <2>1. /\ Len(items) \in Nat /\ listed \in Seq(1..Len(items)) /\ p \in 1..(Len(listed) + 1)
        /\ OneMore(items', items, item) /\ item.heir = 0
    BY <1>0, <1>2, <1>4 DEF k, OneMore
  <2>a. listed' = InsertAt(listed, p, Len(items) + 1) /\ k = Len(items)
    BY <1>3 DEF k
  <2>2. NowStands(items', InsertAt(listed, p, Len(items) + 1), p, item, items, listed, d)
    BY <2>1, InsertStands
  <2>3. NowStands(items', listed', p, item, items, listed, d)
    BY <2>2, <2>a
  <2>4. Standing(d) = StandsIn(items, listed, d) /\ Standing(d)' = StandsIn(items', listed', d)
    BY StandingIs, StandingNext
  <2> QED BY <2>a, <2>3, <2>4 DEF NowStands
<1>10. c \notin since[r] /\ c \notin stale => Standing(c)' = k + 1
  BY <1>8, <1>9
<1>11. Elsewhere(c)
  <2> SUFFICES ASSUME NEW d, d # c PROVE Same(d)
    BY DEF Elsewhere
  <2>1. Standing(d) # 0 => Standing(d) \in DOMAIN items
    BY StandingOf DEF LessonInv
  <2> QED BY <1>0, <1>2, <1>9, <2>1 DEF Same
<1>12. NewIn(c)
  BY <1>0, <1>2 DEF NewIn
<1> QED BY <1>0, <1>1, <1>2, <1>5, <1>6, <1>7, <1>10, <1>11, <1>12 DEF k

\* What a step that touches one category does to the standing lessons.
LEMMA TouchesMoves ==
  ASSUME NEW r \in Runs, NEW c \in Categories, Touches(r, c)
  PROVE  Moves
BY DEF Touches, Moves

(* The steps.                                                              *)

LEMMA CreateStep == ASSUME LessonInv, NEW r \in Runs, Create(r) PROVE LessonInv' /\ Moves
<1> DEFINE runs == [[q \in Runs |-> NoRecord] EXCEPT ![r] = [helped |-> lesson(r).helped, missed |-> "no"]]
<1>1. Evolving(r) /\ pc[r] = "lesson" /\ todo[r] # <<>> /\ target(r) = 0 /\ NextLesson(r) /\ Writes(r)
  BY DEF Create, Evolving
<1>2. lesson(r).category \in Categories /\ lesson(r).text \in Texts /\ lesson(r).helped \in Nat
  BY <1>1, TargetIsThere
<1>3. PICK c \in Categories : c = lesson(r).category
  BY <1>2
<1>4. runs \in Records /\ runs[r].missed = "no"
  BY <1>2 DEF Records, NoRecord, Missed
<1>5. PICK item : item = [category |-> lesson(r).category, text |-> lesson(r).text, runs |-> runs,
                          status |-> Status("candidate", runs), heir |-> 0, of |-> 0]
  OBVIOUS
<1>6. Insert(r, item) /\ UNCHANGED << injected, read, seen, fresh, evolves >>
  BY <1>5 DEF Create
<1>7. item \in Item /\ item.heir = 0 /\ item.category = c /\ item.runs[r].missed = "no"
      /\ item.status \in { "candidate", "active" }
  <2>1. Status("candidate", runs) \in { "candidate", "active" }
    BY StatusIs
  <2> HIDE DEF runs
  <2> QED BY <1>2, <1>3, <1>4, <1>5, <2>1 DEF Item
<1>8. /\ Stored' /\ Listing' /\ Grows
      /\ items' = Append(items, item) /\ Len(items') = Len(items) + 1 /\ items'[Len(items) + 1] = item
      /\ c \notin since[r] /\ c \notin stale => Standing(c)' = Len(items) + 1
      /\ Elsewhere(c) /\ NewIn(c)
      /\ \A i \in DOMAIN items : items'[i] = items[i]
  BY <1>1, <1>3, <1>6, <1>7, Inserted
<1>9. /\ since' \in [Runs -> SUBSET Categories] /\ stale' \subseteq Categories
      /\ \A q \in Runs : since[q] \subseteq since'[q]
      /\ Written(c) /\ c \in since'[r]
      /\ stale \subseteq stale' /\ stale' \subseteq stale \union { c }
      /\ c \notin stale' => c \notin since[r] /\ c \notin stale
  BY <1>1, <1>3, WritesIs
<1>10. DOMAIN items = 1..Len(items) /\ DOMAIN items' = 1..(Len(items) + 1) /\ Len(items) \in Nat
  BY <1>8 DEF LessonInv, Stored
<1>11. ASSUME c \notin stale' PROVE Carries(r, c)
  <2>1. Standing(c) = 0
    BY <1>1, <1>3, <1>9, <1>11, AtTarget
  <2>2. Standing(c)' = Len(items) + 1
    BY <1>8, <1>9, <1>11
  <2> QED BY <1>7, <1>8, <1>10, <2>1, <2>2 DEF Carries
<1>12. Touches(r, c)
  BY <1>8, <1>9, <1>11 DEF Touches
<1>13. Actives(c)
  <2> SUFFICES ASSUME NEW i \in Active', i \notin Active
               PROVE items'[i].category = c /\ (c \in stale' \/ i = Standing(c)')
    BY DEF Actives
  <2>1. i = Len(items) + 1
    BY <1>8, <1>10 DEF Active, Live
  <2> QED BY <1>7, <1>8, <1>9, <2>1
<1>14. /\ pc' \in [Runs -> { "new", "ready", "lesson", "adding", "linking", "evolved" }]
       /\ todo' \in [Runs -> Seq(Lesson)] /\ recorded' \in [Runs -> SUBSET Categories]
       /\ recorded'[r] = recorded[r] \union { c } /\ pc'[r] = "lesson"
       /\ \A q \in Runs \ { r } : recorded'[q] = recorded[q] /\ pc'[q] = pc[q] /\ todo'[q] = todo[q]
  BY <1>1, <1>3, NextLessonIs
<1>15. Held'
  <2>1. injected' \in [Runs -> SUBSET DOMAIN items']
    BY <1>6, <1>10 DEF LessonInv, Held
  <2>2. read' \in [Runs -> Seq(Item)] /\ seen' \in [Runs -> [Categories -> Nat]] /\ evolves' \in Nat
        /\ fresh' \in [Runs -> Nat]
    BY <1>6 DEF LessonInv, Held
  <2> QED BY <1>9, <1>14, <2>1, <2>2 DEF Held
<1>16. Session(r)'
  <2>1. Reading(r)' /\ AsRead(r)'
    BY <1>1, <1>6, <1>8, <1>9, <1>12, ReadingKept, AsReadKept
  <2>2. Replacing(r)' /\ Replaced(r)'
    BY <1>14 DEF Replacing, Replaced
  <2> QED BY <2>1, <2>2 DEF Session
<1>17. \A q \in Runs \ { r } : Idle(q)
  BY <1>6, <1>9, <1>14 DEF Idle
<1>18. c \notin stale' => Charge(r, c)'
  BY <1>6, <1>8, <1>9, <1>11, ChargeMade
<1>19. \A d \in recorded'[r] : d \notin stale' => Charge(r, d)'
  BY <1>6, <1>8, <1>12, <1>14, <1>18, RecordedStays
<1>20. LessonInv'
  BY <1>6, <1>8, <1>12, <1>13, <1>15, <1>16, <1>17, <1>19, StepKeeps
<1> QED BY <1>12, <1>20, TouchesMoves

\* The record of what a run merged is in the lesson it updates; nothing else changes.
LEMMA UpdateStep == ASSUME LessonInv, NEW r \in Runs, Update(r) PROVE LessonInv' /\ Moves
<1> DEFINE t == target(r)
<1>1. Evolving(r) /\ pc[r] = "lesson" /\ todo[r] # <<>> /\ t # 0 /\ NextLesson(r) /\ Writes(r)
  BY DEF Update, Evolving
<1>2. lesson(r).category \in Categories /\ lesson(r).text \in Texts /\ lesson(r).helped \in Nat
  BY <1>1, TargetIsThere
<1>3. PICK c \in Categories : c = lesson(r).category
  BY <1>2
<1>4. t \in DOMAIN items /\ before(r) \in Item /\ items[t].category = c
  BY <1>1, <1>3, TargetIsThere
<1>5. before(r).runs \in Records /\ before(r).status \in { "candidate", "active", "retired" }
  BY <1>4 DEF Item
<1>6. /\ Merged(r) \in Records
      /\ Merged(r)[r].missed = IF t \in injected[r] THEN "yes" ELSE "no"
      /\ \A q \in Runs \ { r } : Merged(r)[q] = before(r).runs[q]
  BY <1>2, <1>5, MergedIs
<1>7. PICK state : state = Status(before(r).status, Merged(r))
  OBVIOUS
<1>8. /\ before(r).status = "candidate" => state \in { "candidate", "active" }
      /\ before(r).status = "active" => state \in { "active", "retired" }
      /\ before(r).status = "retired" => state = "retired"
  BY <1>7, StatusIs
<1>9. /\ items' = [items EXCEPT ![t].runs = Merged(r), ![t].status = state]
      /\ UNCHANGED << listed, injected, read, seen, fresh, evolves >>
  BY <1>7 DEF Update
<1> HIDE DEF t
<1>10. /\ items \in Seq(Item) /\ DOMAIN items = 1..Len(items) /\ Len(items) \in Nat
       /\ \A i \in DOMAIN items : items[i].heir \in 0..Len(items)
  BY DEF LessonInv, Stored
<1>11. /\ DOMAIN items' = DOMAIN items /\ Len(items') = Len(items)
       /\ \A i \in DOMAIN items : i # t => items'[i] = items[i]
  BY <1>4, <1>9, <1>10
<1>a. items[t] \in Item
  BY <1>4, <1>10
<1>12. /\ items'[t].runs = Merged(r) /\ items'[t].status = state /\ items'[t].category = c
       /\ items'[t].heir = items[t].heir
       /\ items'[t] \in Item
  BY <1>3, <1>4, <1>5, <1>6, <1>8, <1>9, <1>10, <1>a DEF Item
<1>13. Stored'
  <2>1. \A i \in DOMAIN items : items'[i] \in Item /\ items'[i].heir \in 0..Len(items)
    BY <1>4, <1>10, <1>11, <1>12
  <2>2. items' \in [1..Len(items) -> Item]
    <3>1. items' = [i \in DOMAIN items |-> items'[i]]
      BY <1>9
    <3>2. \A i \in 1..Len(items) : items'[i] \in Item
      BY <1>10, <2>1
    <3>3. DOMAIN items = 1..Len(items)
      BY <1>10
    <3> QED BY <3>1, <3>2, <3>3
  <2>3. items' \in Seq(Item)
    BY <1>10, <2>2, SeqDef
  <2> QED BY <1>11, <2>1, <2>3 DEF Stored
<1>14. Listing' /\ Grows
  BY <1>4, <1>9, <1>10, <1>11, <1>12 DEF LessonInv, Listing, Grows
<1>15. ASSUME NEW d PROVE Standing(d)' = Standing(d)
  <2>1. Own(items', listed', d) = Own(items, listed, d)
    <3>1. \A n \in DOMAIN listed : listed[n] \in DOMAIN items
      BY DEF LessonInv, Listing
    <3>2. \A i \in DOMAIN items : items'[i].heir = items[i].heir /\ items'[i].category = items[i].category
      BY <1>4, <1>11, <1>12
    <3> QED BY <1>9, <3>1, <3>2 DEF Own
  <2>2. StandsIn(items', listed', d) = StandsIn(items, listed, d)
    <3>1. listed' = listed
      BY <1>9
    <3> QED BY <2>1, <3>1 DEF StandsIn
  <2> QED BY <2>2, StandingIs, StandingNext
<1>16. Elsewhere(c)
  <2> SUFFICES ASSUME NEW d, d # c PROVE Same(d)
    BY DEF Elsewhere
  <2>1. Standing(d) # 0 => Standing(d) \in DOMAIN items /\ items[Standing(d)].category = d
    BY StandingOf DEF LessonInv
  <2>2. Standing(d) # 0 => Standing(d) # t
    BY <1>4, <2>1
  <2> QED BY <1>11, <1>15, <2>1, <2>2 DEF Same
<1>17. /\ since' \in [Runs -> SUBSET Categories] /\ stale' \subseteq Categories
       /\ \A q \in Runs : since[q] \subseteq since'[q]
       /\ Written(c) /\ c \in since'[r]
       /\ stale \subseteq stale' /\ stale' \subseteq stale \union { c }
       /\ c \notin stale' => c \notin since[r] /\ c \notin stale
  BY <1>1, <1>3, WritesIs
<1>b. c \notin stale' => t = Standing(c) /\ before(r) = items[t]
  BY <1>1, <1>3, <1>17, AtTarget DEF t
<1>18. ASSUME c \notin stale' PROVE Carries(r, c)
  <2>1. Standing(c)' = t /\ t = Standing(c) /\ t # 0 /\ before(r) = items[t]
    BY <1>1, <1>15, <1>18, <1>b DEF t
  <2> QED BY <1>6, <1>8, <1>12, <2>1 DEF Carries
<1>19. Touches(r, c)
  <2>1. NewIn(c)
    BY <1>11 DEF NewIn
  <2> QED BY <1>16, <1>17, <1>18, <2>1 DEF Touches
<1>20. Actives(c)
  <2> SUFFICES ASSUME NEW i \in Active', i \notin Active
               PROVE items'[i].category = c /\ (c \in stale' \/ i = Standing(c)')
    BY DEF Actives
  <2>1. i = t
    BY <1>11 DEF Active, Live
  <2> QED BY <1>12, <1>15, <1>b, <2>1
<1>21. /\ pc' \in [Runs -> { "new", "ready", "lesson", "adding", "linking", "evolved" }]
       /\ todo' \in [Runs -> Seq(Lesson)] /\ recorded' \in [Runs -> SUBSET Categories]
       /\ recorded'[r] = recorded[r] \union { c } /\ pc'[r] = "lesson"
       /\ \A q \in Runs \ { r } : recorded'[q] = recorded[q] /\ pc'[q] = pc[q] /\ todo'[q] = todo[q]
  BY <1>1, <1>3, NextLessonIs
<1>22. Held'
  <2>1. /\ injected' \in [Runs -> SUBSET DOMAIN items']
        /\ read' \in [Runs -> Seq(Item)] /\ seen' \in [Runs -> [Categories -> Nat]] /\ evolves' \in Nat
        /\ fresh' \in [Runs -> Nat]
    BY <1>9, <1>11 DEF LessonInv, Held
  <2> QED BY <1>17, <1>21, <2>1 DEF Held
<1>23. Session(r)'
  <2>1. Reading(r)' /\ AsRead(r)'
    BY <1>1, <1>9, <1>13, <1>14, <1>17, <1>19, ReadingKept, AsReadKept
  <2>2. Replacing(r)' /\ Replaced(r)'
    BY <1>21 DEF Replacing, Replaced
  <2> QED BY <2>1, <2>2 DEF Session
<1>24. \A q \in Runs \ { r } : Idle(q)
  BY <1>9, <1>17, <1>21 DEF Idle
<1>25. c \notin stale' => Charge(r, c)'
  BY <1>9, <1>14, <1>17, <1>18, ChargeMade
<1>26. \A d \in recorded'[r] : d \notin stale' => Charge(r, d)'
  BY <1>9, <1>14, <1>19, <1>21, <1>25, RecordedStays
<1>27. LessonInv'
  BY <1>9, <1>13, <1>14, <1>19, <1>20, <1>22, <1>23, <1>24, <1>26, StepKeeps
<1> QED BY <1>19, <1>27, TouchesMoves

\* The replacement stands for its category from here on, though the old text is still live.
LEMMA AddReplacementStep == ASSUME LessonInv, NEW r \in Runs, AddReplacement(r) PROVE LessonInv' /\ Moves
<1> DEFINE t == target(r)
<1>1. /\ pc[r] = "adding" /\ Evolving(r) /\ pc' = [pc EXCEPT ![r] = "linking"] /\ Writes(r)
      /\ fresh' = [fresh EXCEPT ![r] = Len(items) + 1]
      /\ UNCHANGED << injected, todo, read, seen, evolves, recorded >>
  BY DEF AddReplacement, Evolving
<1>2. Session(r) /\ todo[r] # <<>> /\ t # 0 /\ Rewritten(r)
  BY <1>1 DEF LessonInv, Sessions, Session, Replacing
<1>3. lesson(r).category \in Categories /\ lesson(r).text \in Texts /\ lesson(r).helped \in Nat
  BY <1>1, <1>2, TargetIsThere
<1>4. PICK c \in Categories : c = lesson(r).category
  BY <1>3
<1>5. t \in DOMAIN items /\ before(r) \in Item /\ items[t].category = c
  BY <1>1, <1>2, <1>4, TargetIsThere
<1>6. /\ before(r).runs \in Records /\ before(r).status \in { "candidate", "retired" }
  BY <1>2, <1>5 DEF Item, Rewritten
<1>7. /\ Merged(r) \in Records
      /\ Merged(r)[r].missed = IF t \in injected[r] THEN "yes" ELSE "no"
      /\ \A q \in Runs \ { r } : Merged(r)[q] = before(r).runs[q]
  BY <1>3, <1>6, MergedIs
<1>8. PICK item : item = [category |-> lesson(r).category, text |-> lesson(r).text, runs |-> Merged(r),
                          status |-> Status(before(r).status, Merged(r)), heir |-> 0, of |-> t]
  OBVIOUS
<1>9. Insert(r, item)
  BY <1>8 DEF AddReplacement
<1>10. /\ Status(before(r).status, Merged(r)) \in { "candidate", "active", "retired" }
       /\ before(r).status = "retired" => Status(before(r).status, Merged(r)) = "retired"
       /\ before(r).status = "candidate" => Status(before(r).status, Merged(r)) \in { "candidate", "active" }
  BY <1>6, StatusIs
<1> HIDE DEF t
<1>11. items \in Seq(Item) /\ DOMAIN items = 1..Len(items) /\ Len(items) \in Nat /\ t \in Nat
  BY <1>5 DEF LessonInv, Stored
<1>12. /\ item \in Item /\ item.heir = 0 /\ item.category = c /\ item.runs = Merged(r)
       /\ before(r).status = "retired" => item.status = "retired"
       /\ before(r).status = "candidate" => item.status \in { "candidate", "active" }
  BY <1>3, <1>4, <1>7, <1>8, <1>10, <1>11 DEF Item
<1>13. /\ Stored' /\ Listing' /\ Grows
       /\ items' = Append(items, item) /\ Len(items') = Len(items) + 1 /\ items'[Len(items) + 1] = item
       /\ c \notin since[r] /\ c \notin stale => Standing(c)' = Len(items) + 1
       /\ Elsewhere(c) /\ NewIn(c)
       /\ \A i \in DOMAIN items : items'[i] = items[i]
  BY <1>1, <1>2, <1>4, <1>9, <1>12, Inserted
<1>14. DOMAIN items' = 1..(Len(items) + 1)
  BY <1>11, <1>13 DEF Stored
<1>15. /\ since' \in [Runs -> SUBSET Categories] /\ stale' \subseteq Categories
       /\ \A q \in Runs : since[q] \subseteq since'[q]
       /\ Written(c) /\ c \in since'[r]
       /\ stale \subseteq stale' /\ stale' \subseteq stale \union { c }
       /\ c \notin stale' => c \notin since[r] /\ c \notin stale
  BY <1>1, <1>2, <1>4, WritesIs
<1>16. ASSUME c \notin stale'
       PROVE  Carries(r, c) /\ Standing(c)' # t /\ Standing(c)' = Len(items) + 1
  <2>1. t = Standing(c) /\ before(r) = items[t]
    BY <1>1, <1>2, <1>4, <1>15, <1>16, AtTarget DEF t
  <2>2. Standing(c)' = Len(items) + 1
    BY <1>13, <1>15, <1>16
  <2>3. t \in 1..Len(items)
    BY <1>5, <1>11
  <2>4. Standing(c)' # t /\ Standing(c)' # 0 /\ Standing(c)' > Len(items)
    BY <1>11, <2>2, <2>3
  <2>5. items'[Standing(c)'] = item
    BY <1>13, <2>2
  <2>6. t # 0 /\ items[t].status = before(r).status /\ items[t].runs = before(r).runs
    BY <1>2, <2>1 DEF t
  <2>7. Carries(r, c)
    BY <1>6, <1>7, <1>12, <2>1, <2>4, <2>5, <2>6 DEF Carries
  <2> QED BY <2>2, <2>4, <2>7
<1>17. Touches(r, c)
  BY <1>13, <1>15, <1>16 DEF Touches
<1>18. Actives(c)
  <2> SUFFICES ASSUME NEW i \in Active', i \notin Active
               PROVE items'[i].category = c /\ (c \in stale' \/ i = Standing(c)')
    BY DEF Actives
  <2>1. i = Len(items) + 1
    BY <1>11, <1>13, <1>14 DEF Active, Live
  <2> QED BY <1>12, <1>13, <1>16, <2>1
<1>19. /\ pc' \in [Runs -> { "new", "ready", "lesson", "adding", "linking", "evolved" }]
       /\ pc'[r] = "linking" /\ fresh' \in [Runs -> Nat] /\ fresh'[r] = Len(items) + 1
       /\ \A q \in Runs \ { r } : pc'[q] = pc[q] /\ fresh'[q] = fresh[q]
  BY <1>1, <1>11 DEF LessonInv, Held
<1>20. Held'
  <2>1. injected' \in [Runs -> SUBSET DOMAIN items']
    BY <1>1, <1>11, <1>14 DEF LessonInv, Held
  <2>2. /\ todo' \in [Runs -> Seq(Lesson)] /\ recorded' \in [Runs -> SUBSET Categories]
        /\ read' \in [Runs -> Seq(Item)] /\ seen' \in [Runs -> [Categories -> Nat]] /\ evolves' \in Nat
    BY <1>1 DEF LessonInv, Held
  <2> QED BY <1>15, <1>19, <2>1, <2>2 DEF Held
<1>21. lesson(r)' = lesson(r) /\ target(r)' = t /\ before(r)' = before(r)
  BY <1>1 DEF lesson, target, before, t
<1>22. c \notin stale' => Charge(r, c)'
  BY <1>1, <1>13, <1>15, <1>16, ChargeMade
<1>23. Session(r)'
  <2>1. Reading(r)' /\ AsRead(r)'
    BY <1>1, <1>13, <1>15, <1>17, ReadingKept, AsReadKept
  <2>2. Replacing(r)'
    <3>1. Rewritten(r)' /\ target(r)' # 0
      BY <1>2, <1>21 DEF Rewritten, t
    <3>2. fresh'[r] \in DOMAIN items' /\ todo'[r] # <<>>
      BY <1>1, <1>2, <1>11, <1>14, <1>19
    <3> QED BY <3>1, <3>2 DEF Replacing
  <2>3. Replaced(r)'
    <3>1. Standing(lesson(r).category)' = Standing(c)' /\ (Charge(r, c)' <=> Charge(r, lesson(r).category)')
      BY <1>4, <1>21 DEF Standing, Charge
    <3>2. (lesson(r).category \notin stale)' => c \notin stale'
      BY <1>4, <1>21
    <3>3. c \notin stale' => Standing(c)' # t /\ Charge(r, c)'
      BY <1>16, <1>22
    <3> QED BY <1>21, <3>1, <3>2, <3>3 DEF Replaced
  <2> QED BY <2>1, <2>2, <2>3 DEF Session
<1>24. \A q \in Runs \ { r } : Idle(q)
  BY <1>1, <1>15, <1>19 DEF Idle
<1>25. \A d \in recorded'[r] : d \notin stale' => Charge(r, d)'
  <2>1. recorded'[r] = recorded[r] /\ injected'[r] = injected[r]
    BY <1>1
  <2> QED BY <1>13, <1>17, <1>22, <2>1, RecordedStays
<1>26. LessonInv'
  BY <1>1, <1>13, <1>17, <1>18, <1>20, <1>23, <1>24, <1>25, StepKeeps
<1> QED BY <1>17, <1>26, TouchesMoves

\* The old text goes; where the read was not out of date its replacement stands already.
LEMMA LinkStep == ASSUME LessonInv, NEW r \in Runs, Link(r) PROVE LessonInv' /\ Moves
<1> DEFINE t == target(r)
           f == fresh[r]
<1>1. /\ pc[r] = "linking" /\ Evolving(r) /\ NextLesson(r)
      /\ items' = [items EXCEPT ![t].heir = f] /\ fresh' = [fresh EXCEPT ![r] = 0]
      /\ listed' = listed /\ UNCHANGED << injected, read, seen, evolves, since, stale >>
  BY DEF Link, LinkOld, Evolving
<1>2. Session(r) /\ todo[r] # <<>> /\ t # 0 /\ f \in DOMAIN items
  BY <1>1 DEF LessonInv, Sessions, Session, Replacing
<1>3. PICK c \in Categories : c = lesson(r).category
  BY <1>1, <1>2, TargetIsThere
<1>4. c \notin stale => Standing(c) # t /\ Charge(r, c)
  BY <1>1, <1>2, <1>3 DEF Session, Replaced
<1>5. t \in DOMAIN items /\ items[t].category = c
  BY <1>1, <1>2, <1>3, TargetIsThere
<1> HIDE DEF t, f
<1>6. /\ items \in Seq(Item) /\ DOMAIN items = 1..Len(items) /\ Len(items) \in Nat
      /\ \A i \in DOMAIN items : items[i].heir \in 0..Len(items)
  BY DEF LessonInv, Stored
<1>7. f # 0 /\ items[t] \in Item
  BY <1>2, <1>5, <1>6
<1>8. /\ DOMAIN items' = DOMAIN items /\ Len(items') = Len(items)
      /\ \A i \in DOMAIN items : i # t => items'[i] = items[i]
      /\ items'[t] = [items[t] EXCEPT !.heir = f]
  BY <1>1, <1>5, <1>6
<1>9. /\ items'[t].category = c /\ items'[t].status = items[t].status /\ items'[t].heir = f /\ items'[t] \in Item
  <2>1. f \in Nat
    BY <1>2, <1>6
  <2>2. \A i \in Item, h \in Nat :
          /\ [i EXCEPT !.heir = h] \in Item /\ [i EXCEPT !.heir = h].heir = h
          /\ [i EXCEPT !.heir = h].category = i.category /\ [i EXCEPT !.heir = h].status = i.status
    BY DEF Item
  <2> QED BY <1>5, <1>7, <1>8, <2>1, <2>2
<1>10. Stored'
  <2>1. \A i \in DOMAIN items : items'[i] \in Item /\ items'[i].heir \in 0..Len(items)
    <3> SUFFICES ASSUME NEW i \in DOMAIN items PROVE items'[i] \in Item /\ items'[i].heir \in 0..Len(items)
      OBVIOUS
    <3>1. CASE i = t
      BY <1>2, <1>6, <1>9, <3>1
    <3>2. CASE i # t
      BY <1>6, <1>8, <3>2
    <3> QED BY <3>1, <3>2
  <2>2. items' \in [1..Len(items) -> Item]
    <3>1. items' = [i \in DOMAIN items |-> items'[i]]
      BY <1>1
    <3>2. (\A i \in 1..Len(items) : items'[i] \in Item) /\ DOMAIN items = 1..Len(items)
      BY <1>6, <2>1
    <3> QED BY <3>1, <3>2
  <2>3. items' \in Seq(Item)
    BY <1>6, <2>2, SeqDef
  <2> QED BY <1>8, <2>1, <2>3 DEF Stored
<1>11. Listing' /\ Grows
  BY <1>1, <1>5, <1>6, <1>8, <1>9 DEF LessonInv, Listing, Grows
<1>12. /\ listed \in Seq(Nat) /\ \A n \in DOMAIN listed : listed[n] \in DOMAIN items
  BY <1>6 DEF LessonInv, Listing
<1>13. Elsewhere(c)
  <2> SUFFICES ASSUME NEW d, d # c PROVE Same(d)
    BY DEF Elsewhere
  <2>1. \A i \in DOMAIN items : /\ items'[i].category = items[i].category
                                /\ items[i].category = d => items'[i].heir = items[i].heir
    BY <1>5, <1>8, <1>9
  <2>2. Own(items', listed, d) = Own(items, listed, d)
    BY <1>12, <2>1 DEF Own
  <2>3. StandsIn(items', listed, d) = StandsIn(items, listed, d)
    BY <2>2 DEF StandsIn
  <2>4. Standing(d)' = StandsIn(items', listed', d) /\ Standing(d) = StandsIn(items, listed, d)
    BY StandingIs, StandingNext
  <2>5. Standing(d)' = Standing(d)
    BY <1>1, <2>3, <2>4
  <2>6. Standing(d) # 0 => Standing(d) \in DOMAIN items /\ items[Standing(d)].category = d
    BY StandingOf DEF LessonInv
  <2> QED BY <1>5, <1>8, <2>5, <2>6 DEF Same
<1>14. ASSUME c \notin stale PROVE Same(c)
  <2> DEFINE s == Standing(c)
  <2>1. s # t /\ s # 0
    BY <1>4, <1>14 DEF Charge
  <2>2. s \in DOMAIN items
    BY <2>1, StandingOf DEF LessonInv
  <2>3. StandsIn(items, listed, c) = s
    BY StandingIs
  <2> HIDE DEF s
  <2>4. Own(items, listed, c) # {}
    BY <1>12, <2>1, <2>3, StandsAtLast
  <2>5. PICK n : LastOwn(items, listed, c, n) /\ StandsIn(items, listed, c) = listed[n]
    BY <1>12, <2>4, StandsAtLast
  <2>6. listed[n] = s /\ n \in Own(items, listed, c)
    BY <2>3, <2>5 DEF LastOwn
  <2>7. ASSUME NEW m \in Own(items', listed, c) PROVE m \in Own(items, listed, c)
    <3>1. m \in DOMAIN listed /\ items'[listed[m]].heir = 0 /\ items'[listed[m]].category = c
      BY DEF Own
    <3>2. listed[m] # t
      BY <1>7, <1>9, <3>1
    <3> QED BY <1>8, <1>12, <3>1, <3>2 DEF Own
  <2>8. n \in Own(items', listed, c)
    BY <1>8, <2>1, <2>2, <2>6 DEF Own
  <2>9. LastOwn(items', listed, c, n)
    BY <2>5, <2>7, <2>8 DEF LastOwn
  <2>10. StandsIn(items', listed, c) = s
    BY <1>12, <2>6, <2>9, StandsAtLast
  <2>11. Standing(c)' = s
    BY <1>1, <2>10, StandingNext
  <2> QED BY <1>8, <2>1, <2>2, <2>11 DEF Same, s
<1>15. Touches(r, c)
  <2>1. NewIn(c)
    BY <1>8 DEF NewIn
  <2> QED BY <1>1, <1>8, <1>13, <1>14, <2>1 DEF Touches
<1>16. Actives(c)
  <2> SUFFICES ASSUME NEW i \in Active' PROVE i \in Active
    BY DEF Actives
  <2>1. i \in DOMAIN items /\ items'[i].heir = 0 /\ items'[i].status = "active"
    BY <1>8 DEF Active, Live
  <2>2. i # t
    BY <1>7, <1>9, <2>1
  <2> QED BY <1>8, <2>1, <2>2 DEF Active, Live
<1>17. /\ pc' \in [Runs -> { "new", "ready", "lesson", "adding", "linking", "evolved" }]
       /\ todo' \in [Runs -> Seq(Lesson)] /\ recorded' \in [Runs -> SUBSET Categories]
       /\ recorded'[r] = recorded[r] \union { c } /\ pc'[r] = "lesson"
       /\ \A q \in Runs \ { r } : recorded'[q] = recorded[q] /\ pc'[q] = pc[q] /\ todo'[q] = todo[q]
  BY <1>1, <1>2, <1>3, NextLessonIs
<1>18. fresh' \in [Runs -> Nat] /\ \A q \in Runs \ { r } : fresh'[q] = fresh[q]
  BY <1>1 DEF LessonInv, Held
<1>19. Held'
  <2>1. /\ injected' \in [Runs -> SUBSET DOMAIN items']
        /\ read' \in [Runs -> Seq(Item)] /\ seen' \in [Runs -> [Categories -> Nat]] /\ evolves' \in Nat
        /\ since' \in [Runs -> SUBSET Categories] /\ stale' \subseteq Categories
    BY <1>1, <1>8 DEF LessonInv, Held
  <2> QED BY <1>17, <1>18, <2>1 DEF Held
<1>20. Session(r)'
  <2>1. Reading(r)' /\ AsRead(r)'
    BY <1>1, <1>10, <1>11, <1>15, ReadingKept, AsReadKept
  <2>2. Replacing(r)' /\ Replaced(r)'
    BY <1>17 DEF Replacing, Replaced
  <2> QED BY <2>1, <2>2 DEF Session
<1>21. \A q \in Runs \ { r } : Idle(q)
  BY <1>1, <1>17, <1>18 DEF Idle
<1>22. c \notin stale' => Charge(r, c)'
  <2> SUFFICES ASSUME c \notin stale' PROVE Charge(r, c)'
    OBVIOUS
  <2>1. Charge(r, c) /\ Same(c) /\ injected'[r] = injected[r]
    BY <1>1, <1>4, <1>14
  <2> QED BY <1>11, <2>1, ChargeKept
<1>23. \A d \in recorded'[r] : d \notin stale' => Charge(r, d)'
  BY <1>1, <1>11, <1>15, <1>17, <1>22, RecordedStays
<1>24. LessonInv'
  BY <1>1, <1>10, <1>11, <1>15, <1>16, <1>19, <1>20, <1>21, <1>23, StepKeeps
<1> QED BY <1>15, <1>24, TouchesMoves

(* The steps between lessons.                                              *)

\* A step that leaves the store alone touches nothing.
LEMMA StoreKept ==
  ASSUME LessonInv, items' = items, listed' = listed, stale' = stale
  PROVE  /\ Stored' /\ Listing' /\ Grows /\ Standings' /\ Moves
         /\ \A d : Same(d)
         /\ \A r, c : Touches(r, c) /\ Actives(c)
<1>1. Stored' /\ Listing' /\ Grows
  BY DEF LessonInv, Stored, Listing, Grows
<1>2. \A d : Same(d)
  BY DEF Same, Standing, Live
<1>3. \A r, c : Touches(r, c) /\ Actives(c)
  BY <1>2 DEF Touches, Elsewhere, NewIn, Actives, Active, Live
<1>4. Standings'
  BY DEF LessonInv, Standings, Active, Live, Standing
<1> QED BY <1>1, <1>2, <1>3, <1>4 DEF Moves

\* A process that leaves the store and its own charges alone.
LEMMA QuietKeeps ==
  ASSUME LessonInv, items' = items, listed' = listed, stale' = stale, Held', NEW r \in Runs,
         \A q \in Runs \ { r } : Idle(q), injected'[r] = injected[r], recorded'[r] \subseteq recorded[r],
         Evolving(r)' => Session(r)'
  PROVE  LessonInv' /\ Moves
<1>1. Stored' /\ Listing' /\ Grows /\ Moves /\ (\A d : Same(d)) /\ Touches(r, 0) /\ Actives(0)
  BY StoreKept
<1>2. \A d \in recorded'[r] : d \notin stale' => Charge(r, d)'
  <2> SUFFICES ASSUME NEW d \in recorded'[r], d \notin stale' PROVE Charge(r, d)'
    OBVIOUS
  <2>1. Charge(r, d)
    BY DEF LessonInv, Charged
  <2> QED BY <1>1, <2>1, ChargeKept
<1>3. LessonInv'
  BY <1>1, <1>2, StepKeeps
<1> QED BY <1>1, <1>3

\* Superseding starts.
LEMMA CheckStep == ASSUME LessonInv, NEW r \in Runs, Check(r) PROVE LessonInv' /\ Moves
<1>1. /\ pc[r] = "lesson" /\ todo[r] # <<>> /\ target(r) # 0 /\ Rewritten(r) /\ Evolving(r)
      /\ pc' = [pc EXCEPT ![r] = "adding"]
      /\ items' = items /\ listed' = listed /\ stale' = stale
      /\ UNCHANGED << injected, todo, read, seen, fresh, evolves, recorded, since >>
  BY DEF Check, Evolving
<1>2. Held' /\ pc'[r] = "adding" /\ \A q \in Runs \ { r } : Idle(q)
  BY <1>1 DEF LessonInv, Held, Idle
<1>3. Stored' /\ Grows /\ Touches(r, 0)
  BY <1>1, StoreKept
<1>4. Reading(r)' /\ AsRead(r)'
  BY <1>1, <1>3, ReadingKept, AsReadKept
<1>5. Replacing(r)' /\ Replaced(r)'
  <2>1. Rewritten(r)' /\ target(r)' # 0
    BY <1>1 DEF Rewritten, target, before, lesson
  <2> QED BY <1>1, <1>2, <2>1 DEF Replacing, Replaced
<1>6. Session(r)'
  BY <1>4, <1>5 DEF Session
<1> QED BY <1>1, <1>2, <1>6, QuietKeeps

\* A process that ends holds nothing any more.
LEMMA ForgetIs ==
  ASSUME LessonInv, NEW r \in Runs, Forget(r)
  PROVE  /\ todo' \in [Runs -> Seq(Lesson)] /\ read' \in [Runs -> Seq(Item)]
         /\ seen' \in [Runs -> [Categories -> Nat]] /\ fresh' \in [Runs -> Nat]
         /\ since' \in [Runs -> SUBSET Categories]
         /\ \A q \in Runs \ { r } : /\ todo'[q] = todo[q] /\ read'[q] = read[q] /\ seen'[q] = seen[q]
                                    /\ fresh'[q] = fresh[q] /\ since'[q] = since[q]
BY DEF LessonInv, Held, Forget, NothingSeen

LEMMA CompleteStep == ASSUME LessonInv, NEW r \in Runs, Complete(r) PROVE LessonInv' /\ Moves
<1>1. /\ pc[r] = "lesson" /\ pc' = [pc EXCEPT ![r] = "evolved"] /\ Forget(r)
      /\ items' = items /\ listed' = listed /\ stale' = stale
      /\ injected' = injected /\ evolves' = evolves /\ recorded' = recorded
  BY DEF Complete
<1>2. Held' /\ \A q \in Runs \ { r } : Idle(q)
  BY <1>1, ForgetIs DEF LessonInv, Held, Idle
<1>3. ~Evolving(r)' /\ injected'[r] = injected[r] /\ recorded'[r] \subseteq recorded[r]
  BY <1>1 DEF LessonInv, Held, Evolving
<1> QED BY <1>1, <1>2, <1>3, QuietKeeps

LEMMA AbortStep == ASSUME LessonInv, NEW r \in Runs, Abort(r) PROVE LessonInv' /\ Moves
<1>1. /\ pc' = [pc EXCEPT ![r] = "ready"] /\ Forget(r)
      /\ items' = items /\ listed' = listed /\ stale' = stale
      /\ injected' = injected /\ evolves' = evolves /\ recorded' = [recorded EXCEPT ![r] = {}]
  BY DEF Abort
<1>2. Held' /\ \A q \in Runs \ { r } : Idle(q)
  BY <1>1, ForgetIs DEF LessonInv, Held, Idle
<1>3. ~Evolving(r)' /\ injected'[r] = injected[r] /\ recorded'[r] \subseteq recorded[r]
  BY <1>1 DEF LessonInv, Held, Evolving
<1> QED BY <1>1, <1>2, <1>3, QuietKeeps

\* A section is shown what stands and is active.
LEMMA WritePaperStep == ASSUME LessonInv, NEW r \in Runs, WritePaper(r) PROVE LessonInv' /\ Moves
<1>1. PICK shown \in SUBSET Active :
        /\ injected' = [injected EXCEPT ![r] = shown] /\ pc' = [pc EXCEPT ![r] = "ready"]
        /\ recorded' = [recorded EXCEPT ![r] = {}]
        /\ items' = items /\ listed' = listed /\ stale' = stale
        /\ UNCHANGED << todo, read, seen, fresh, evolves, since >>
  BY DEF WritePaper, Shown
<1>2. Stored' /\ Listing' /\ Grows /\ Standings' /\ Moves /\ (\A d : Same(d)) /\ Touches(r, 0)
  BY <1>1, StoreKept
<1>3. /\ Held' /\ ~Evolving(r)' /\ recorded'[r] = {} /\ injected'[r] = shown
      /\ \A q \in Runs \ { r } : Idle(q)
  <2>1. Active \subseteq DOMAIN items
    BY DEF Active
  <2> QED BY <1>1, <2>1 DEF LessonInv, Held, Idle, Evolving
<1>4. Remembered'
  <2> SUFFICES ASSUME NEW q \in Runs, NEW i \in injected'[q], (items[i].category \notin stale)'
               PROVE  Recalled(i)'
    BY DEF Remembered
  <2>1. i \in DOMAIN items /\ (items[i].category \notin stale => Recalled(i))
    <3>1. CASE q = r
      <4>1. i \in Active /\ i \in DOMAIN items /\ items[i].status = "active" /\ i # 0
        BY <1>3, <3>1 DEF Active, LessonInv, Stored
      <4>2. items[i].category \notin stale => Standing(items[i].category) = i
        BY <4>1 DEF LessonInv, Standings
      <4> QED BY <4>1, <4>2 DEF Recalled
    <3>2. CASE q # r
      BY <1>3, <3>2 DEF LessonInv, Held, Remembered, Idle
    <3> QED BY <3>1, <3>2
  <2> QED BY <1>2, <2>1, RecalledStays
<1>5. Charged'
  <2> SUFFICES ASSUME NEW q \in Runs, NEW d \in recorded'[q], d \notin stale' PROVE Charge(q, d)'
    BY DEF Charged
  <2>1. q # r /\ d \in recorded[q] /\ injected'[q] = injected[q] /\ d \notin stale
    BY <1>1, <1>3 DEF Idle
  <2>2. Charge(q, d)
    BY <2>1 DEF LessonInv, Charged
  <2> QED BY <1>2, <2>1, <2>2, ChargeKept
<1>6. Sessions'
  <2> SUFFICES ASSUME NEW q \in Runs, Evolving(q)' PROVE Session(q)'
    BY DEF Sessions
  <2>1. q # r /\ Idle(q) /\ Evolving(q)
    BY <1>3 DEF Idle, Evolving
  <2> QED BY <1>2, <2>1, SessionKept
<1> QED BY <1>2, <1>3, <1>4, <1>5, <1>6 DEF LessonInv

\* What is read at the start is what is stored.
LEMMA DistillStep ==
  ASSUME LessonInv, NEW r \in Runs, NEW lessons \in LessonSets, Distill(r, lessons)
  PROVE  LessonInv' /\ Moves
<1>1. /\ pc' = [pc EXCEPT ![r] = "lesson"] /\ todo' = [todo EXCEPT ![r] = lessons]
      /\ read' = [read EXCEPT ![r] = items]
      /\ seen' = [seen EXCEPT ![r] = [c \in Categories |-> Standing(c)]]
      /\ recorded' = [recorded EXCEPT ![r] = {}] /\ since' = [since EXCEPT ![r] = {}]
      /\ items' = items /\ listed' = listed /\ stale' = stale
      /\ injected' = injected /\ fresh' = fresh /\ evolves' = evolves + 1
  BY DEF Distill
<1>2. lessons \in Seq(Lesson)
  <2>1. lessons \in UNION { [1..m -> Lesson] : m \in 0..MaxLessons }
    BY DEF LessonSets, BoundedSeq, SeqOf
  <2>2. PICK m \in 0..MaxLessons : lessons \in [1..m -> Lesson]
    BY <2>1
  <2>3. m \in Nat
    OBVIOUS
  <2> QED BY <2>2, <2>3, SeqDef
<1>3. \A c : Standing(c) \in 0..Len(items) /\ (Standing(c) # 0 => Standing(c) \in DOMAIN items /\ items[Standing(c)].category = c)
  BY StandingOf DEF LessonInv
<1>4. items \in Seq(Item) /\ Len(items) \in Nat /\ DOMAIN items = 1..Len(items)
  BY DEF LessonInv, Stored
<1>5. Held'
  <2>1. [c \in Categories |-> Standing(c)] \in [Categories -> Nat]
    BY <1>3, <1>4
  <2> QED BY <1>1, <1>2, <1>4, <2>1 DEF LessonInv, Held
<1>6. /\ pc'[r] = "lesson" /\ read'[r] = items /\ recorded'[r] = {}
      /\ \A c \in Categories : seen'[r][c] = Standing(c)
  BY <1>1 DEF LessonInv, Held
<1>7. \A q \in Runs \ { r } : Idle(q)
  BY <1>1 DEF LessonInv, Held, Idle
<1>8. Reading(r)'
  BY <1>1, <1>3, <1>4, <1>6 DEF Reading
<1>9. AsRead(r)'
  <2>1. \A d : Same(d)
    BY <1>1, StoreKept
  <2>2. ASSUME NEW c \in Categories PROVE Current(r, c)'
    BY <1>1, <1>4, <1>6, <2>1 DEF Current, Same
  <2> QED BY <2>2 DEF AsRead
<1>10. Session(r)'
  BY <1>6, <1>8, <1>9 DEF Session, Replacing, Replaced
<1> QED BY <1>1, <1>5, <1>6, <1>7, <1>10, QuietKeeps

LEMMA StutterStep == ASSUME LessonInv, UNCHANGED vars PROVE LessonInv' /\ Moves
<1>1. /\ items' = items /\ listed' = listed /\ pc' = pc /\ injected' = injected /\ todo' = todo
      /\ read' = read /\ seen' = seen /\ fresh' = fresh /\ evolves' = evolves /\ recorded' = recorded
      /\ since' = since /\ stale' = stale
  BY DEF vars
<1>2. Stored' /\ Listing' /\ Grows /\ Standings' /\ Moves /\ \A d : Same(d)
  BY <1>1, StoreKept
<1>3. Held' /\ \A q \in Runs : Idle(q)
  BY <1>1 DEF LessonInv, Held, Idle
<1>4. ASSUME NEW r \in Runs PROVE LessonInv'
  <2>1. Evolving(r)' => Session(r)'
    <3>1. Touches(r, 0)
      BY <1>1, StoreKept
    <3> QED BY <1>1, <1>2, <1>3, <3>1, SessionKept DEF Evolving
  <2> QED BY <1>1, <1>3, <2>1, QuietKeeps
<1>5. CASE Runs = {}
  BY <1>2, <1>3, <1>5 DEF LessonInv, Remembered, Charged, Sessions
<1> QED BY <1>2, <1>4, <1>5

LEMMA LessonStep ==
  ASSUME LessonInv, [Next]_vars
  PROVE  LessonInv' /\ Moves
<1>1. CASE UNCHANGED vars
  BY <1>1, StutterStep
<1>2. ASSUME NEW r \in Runs, WritePaper(r) PROVE LessonInv' /\ Moves
  BY <1>2, WritePaperStep
<1>3. ASSUME NEW r \in Runs, Create(r) PROVE LessonInv' /\ Moves
  BY <1>3, CreateStep
<1>4. ASSUME NEW r \in Runs, Update(r) PROVE LessonInv' /\ Moves
  BY <1>4, UpdateStep
<1>5. ASSUME NEW r \in Runs, Check(r) PROVE LessonInv' /\ Moves
  BY <1>5, CheckStep
<1>6. ASSUME NEW r \in Runs, AddReplacement(r) PROVE LessonInv' /\ Moves
  BY <1>6, AddReplacementStep
<1>7. ASSUME NEW r \in Runs, Link(r) PROVE LessonInv' /\ Moves
  BY <1>7, LinkStep
<1>8. ASSUME NEW r \in Runs, Complete(r) PROVE LessonInv' /\ Moves
  BY <1>8, CompleteStep
<1>9. ASSUME NEW r \in Runs, Abort(r) PROVE LessonInv' /\ Moves
  BY <1>9, AbortStep
<1>10. ASSUME NEW r \in Runs, NEW lessons \in LessonSets, Distill(r, lessons) PROVE LessonInv' /\ Moves
  BY <1>10, DistillStep
<1> QED BY <1>1, <1>2, <1>3, <1>4, <1>5, <1>6, <1>7, <1>8, <1>9, <1>10 DEF Next

LEMMA LessonInit == Init => LessonInv
<1> SUFFICES ASSUME Init PROVE LessonInv
  OBVIOUS
<1>1. Stored /\ Listing
  BY DEF Init, Stored, Listing, IsInjective
<1>2. Held
  BY DEF Init, Held, NothingSeen
<1>3. \A r \in Runs : ~Evolving(r)
  BY DEF Init, Evolving
<1>4. Standings /\ Remembered /\ Charged
  BY DEF Init, Standings, Remembered, Charged, Active
<1> QED BY <1>1, <1>2, <1>3, <1>4 DEF LessonInv, Sessions

-----------------------------------------------------------------------------
(* The theorems.                                                           *)

\* The invariant, from the first run of a workspace on: whatever the order of runs, reruns,
\* failures and kills, with any number of them at the same time.
THEOREM LessonInvHolds == Spec => []LessonInv
<1>1. Init => LessonInv
  BY LessonInit
<1>2. LessonInv /\ [Next]_vars => LessonInv'
  BY LessonStep
<1> QED BY <1>1, <1>2, PTL DEF Spec

\* The types of LessonStore's state: links lead to lessons and list() gives every lesson once.
THEOREM TypeOKHolds == Spec => []TypeOK
<1>1. LessonInv => TypeOK
  BY DEF LessonInv, Stored, Listing, Held, TypeOK
<1> QED BY <1>1, LessonInvHolds, PTL

\* A category in which no merge rested on an outdated read has at most one active lesson, the
\* one kept up to date: the old text of a correction that was interrupted is never active.
THEOREM OneActivePerCategoryHolds == Spec => []OneActivePerCategory
<1>1. LessonInv => OneActivePerCategory
  <2> SUFFICES ASSUME LessonInv, NEW i \in Active, items[i].category \notin stale
               PROVE  /\ \A j \in Active : items[i].category = items[j].category => i = j
                      /\ Standing(items[i].category) = i
    BY DEF OneActivePerCategory
  <2>1. \A j \in Active : items[j].category \notin stale => Standing(items[j].category) = j
    BY DEF LessonInv, Standings
  <2>2. ASSUME NEW j \in Active, items[i].category = items[j].category PROVE i = j
    BY <2>1, <2>2
  <2> QED BY <2>1, <2>2
<1> QED BY <1>1, LessonInvHolds, PTL

\* What was in the writer's context and came back is charged with a miss, and nothing else is,
\* in every category whose merges did not rest on an outdated read.
THEOREM MissesAreChargedHolds == Spec => []MissesAreCharged
<1>1. LessonInv => MissesAreCharged
  BY DEF LessonInv, Charged, Charge, MissesAreCharged
<1> QED BY <1>1, LessonInvHolds, PTL

\* A run's record stays, whatever runs at the same time: it is lost only to a merge of the
\* category that rests on an outdated read.
THEOREM RunRecordsKeptHolds == Spec => []RunRecordsKept
<1>1. LessonInv => RunRecordsKept
  BY DEF LessonInv, Charged, Charge, RunRecordsKept
<1> QED BY <1>1, LessonInvHolds, PTL

\* LessonStore implements LessonLife: guidance is tried, kept and given up in this order,
\* through corrections, reruns, deaths and overlapping processes, and never comes back, but
\* in a category that became stale.
THEOREM FollowsLifeCycleHolds == Spec => FollowsLifeCycle
<1>1. Init => Life!Init
  <2> SUFFICES ASSUME Init PROVE StandingStatus = [c \in Categories |-> "none"]
    BY DEF Life!Init
  <2>1. \A c : Standing(c) = 0 /\ c \notin stale
    BY DEF Init, Standing
  <2> QED BY <2>1 DEF StandingStatus
<1>2. ASSUME LessonInv, [Next]_vars PROVE [Life!Next]_StandingStatus
  <2>1. LessonInv' /\ Moves
    BY <1>2, LessonStep
  <2>2. /\ StandingStatus = [c \in Categories |->
             IF c \in stale THEN "stale" ELSE IF Standing(c) = 0 THEN "none" ELSE items[Standing(c)].status]
        /\ StandingStatus' = [c \in Categories |->
             IF c \in stale' THEN "stale" ELSE IF Standing(c)' = 0 THEN "none" ELSE items'[Standing(c)'].status]
    BY DEF StandingStatus
  <2>3. ASSUME NEW d \in Categories, Same(d), d \in stale <=> d \in stale'
        PROVE  StandingStatus'[d] = StandingStatus[d]
    BY <2>2, <2>3 DEF Same
  <2>4. CASE stale' = stale /\ \A d : Same(d)
    <3>1. \A d \in Categories : StandingStatus'[d] = StandingStatus[d]
      BY <2>3, <2>4
    <3>2. StandingStatus' = StandingStatus
      BY <2>2, <3>1
    <3> QED BY <3>2
  <2>5. ASSUME NEW r \in Runs, NEW c \in Categories,
               Elsewhere(c), stale \subseteq stale', stale' \subseteq stale \union { c },
               c \in stale' \/ Same(c) \/ Carries(r, c)
        PROVE  [Life!Next]_StandingStatus
    <3>1. \A d \in Categories : d # c => StandingStatus'[d] = StandingStatus[d]
      BY <2>3, <2>5 DEF Elsewhere
    <3>2. StandingStatus' = [StandingStatus EXCEPT ![c] = StandingStatus'[c]]
      BY <2>2, <3>1
    <3>3. CASE c \in stale'
      <4>1. StandingStatus'[c] = "stale"
        BY <2>2, <3>3
      <4> QED BY <3>2, <4>1 DEF Life!Next, Life!Overtaken
    <3>4. CASE c \notin stale' /\ Same(c)
      <4>1. \A d \in Categories : StandingStatus'[d] = StandingStatus[d]
        BY <2>3, <2>5, <3>1, <3>4
      <4>2. StandingStatus' = StandingStatus
        BY <2>2, <4>1
      <4> QED BY <4>2
    <3>5. CASE c \notin stale' /\ Carries(r, c)
      <4>1. /\ StandingStatus[c] = IF Standing(c) = 0 THEN "none" ELSE items[Standing(c)].status
            /\ StandingStatus'[c] = items'[Standing(c)'].status
        BY <2>2, <2>5, <3>5 DEF Carries
      <4>2. Standing(c) # 0 => items[Standing(c)].status \in { "candidate", "active", "retired" }
        <5>1. Standing(c) # 0 => Standing(c) \in DOMAIN items
          BY <1>2, StandingOf DEF LessonInv
        <5>2. items \in Seq(Item)
          BY <1>2 DEF LessonInv, Stored
        <5>3. \A i \in DOMAIN items : items[i] \in Item
          BY <5>2
        <5>4. \A i \in DOMAIN items : items[i].status \in { "candidate", "active", "retired" }
          BY <5>3 DEF Item
        <5> QED BY <5>1, <5>4
      <4>3. /\ StandingStatus[c] = "none" => StandingStatus'[c] \in { "candidate", "active" }
            /\ StandingStatus[c] = "candidate" => StandingStatus'[c] \in { "candidate", "active" }
            /\ StandingStatus[c] = "active" => StandingStatus'[c] \in { "active", "retired" }
            /\ StandingStatus[c] = "retired" => StandingStatus'[c] = "retired"
            /\ StandingStatus[c] \in { "none", "candidate", "active", "retired" }
        BY <3>5, <4>1, <4>2 DEF Carries
      <4>4. StandingStatus'[c] = StandingStatus[c] => StandingStatus' = StandingStatus
        BY <2>2, <3>1
      <4>5. CASE StandingStatus[c] = "none"
        BY <3>2, <4>3, <4>5 DEF Life!Next, Life!Appear
      <4>6. CASE StandingStatus[c] = "candidate" /\ StandingStatus'[c] = "active"
        BY <3>2, <4>6 DEF Life!Next, Life!Promote
      <4>7. CASE StandingStatus[c] = "active" /\ StandingStatus'[c] = "retired"
        BY <3>2, <4>7 DEF Life!Next, Life!Retire
      <4> QED BY <4>3, <4>4, <4>5, <4>6, <4>7
    <3> QED BY <2>5, <3>3, <3>4, <3>5
  <2> QED BY <2>1, <2>4, <2>5 DEF Moves
<1>3. LessonInv /\ [Next]_vars => [Life!Next]_StandingStatus
  BY <1>2
<1> QED BY <1>1, <1>3, LessonInvHolds, PTL DEF Spec, FollowsLifeCycle, Life!Spec
=============================================================================
