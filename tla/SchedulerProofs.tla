-------------------------- MODULE SchedulerProofs --------------------------
EXTENDS Scheduler, FiniteSetTheorems, SequenceTheorems, TLAPS

(***************************************************************************)
(* Lemmas about the operators of Scheduler that the proofs of its users    *)
(* rest on: what inserting into, taking from and removing from a list does *)
(* to it, and that ReadyToRun, Dispatch and the operators built from them  *)
(* keep the ready list exact.                                              *)
(***************************************************************************)

\* No element of the list occurs twice.
Distinct(list) == \A i, j \in 1 .. Len(list) : i # j => list[i] # list[j]

-----------------------------------------------------------------------------
(* Sequences *)

\* A set of natural numbers that is not empty has a least element.  (The
\* induction theorems of the library take operators; this does not.)
LEMMA LeastNatural ==
    ASSUME NEW T \in SUBSET Nat, NEW n \in T
    PROVE  \E x \in T : \A y \in T : x <= y
  <1> DEFINE R == {ss \in Nat \X Nat : ss[1] < ss[2]}
  <1>1. IsWellFoundedOn(R, Nat)
    BY NatLessThanWellFounded DEF OpToRel
  <1>2. PICK x \in T : \A y \in T : ~(<<y, x>> \in R)
    <2> HIDE DEF R
    <2> QED BY <1>1, WFMin
  <1>3. ASSUME NEW y \in T PROVE x <= y
    <2>1. <<y, x>> \in R <=> y < x
      OBVIOUS
    <2>2. QED
      BY <2>1, <1>2
  <1>4. QED
    BY <1>3

LEMMA InsertAtEffect ==
    ASSUME NEW S, NEW s \in Seq(S), NEW i \in 1 .. Len(s) + 1, NEW e \in S
    PROVE  /\ InsertAt(s, i, e) \in Seq(S)
           /\ Len(InsertAt(s, i, e)) = Len(s) + 1
           /\ \A j \in 1 .. Len(s) + 1 :
                 InsertAt(s, i, e)[j]
                   = IF j < i THEN s[j] ELSE IF j = i THEN e ELSE s[j - 1]
  <1> DEFINE a == SubSeq(s, 1, i - 1)
             b == SubSeq(s, i, Len(s))
  <1>1. a \in Seq(S) /\ Len(a) = i - 1 /\ \A j \in 1 .. i - 1 : a[j] = s[j]
    BY SubSeqProperties
  <1>2. /\ b \in Seq(S) /\ Len(b) = Len(s) - i + 1
        /\ \A j \in 1 .. Len(s) - i + 1 : b[j] = s[j + i - 1]
    BY SubSeqProperties
  <1>3. InsertAt(s, i, e) = (a \o <<e>>) \o b
    BY DEF InsertAt
  <1> HIDE DEF a, b
  <1>4. <<e>> \in Seq(S) /\ Len(<<e>>) = 1 /\ <<e>>[1] = e
    OBVIOUS
  <1>5. /\ a \o <<e>> \in Seq(S) /\ Len(a \o <<e>>) = i
        /\ \A j \in 1 .. i : (a \o <<e>>)[j] = IF j < i THEN s[j] ELSE e
    BY <1>1, <1>4
  <1> DEFINE c == a \o <<e>>
  <1>6. c \in Seq(S) /\ Len(c) = i
    BY <1>5
  <1>7. \A j \in 1 .. i : c[j] = IF j < i THEN s[j] ELSE e
    BY <1>5
  <1> HIDE DEF c
  <1>8. /\ c \o b \in Seq(S) /\ Len(c \o b) = Len(s) + 1
        /\ \A j \in 1 .. Len(s) + 1 :
              (c \o b)[j] = IF j <= i THEN c[j] ELSE b[j - i]
    BY <1>2, <1>6, ConcatProperties
  <1>9. ASSUME NEW j \in 1 .. Len(s) + 1
        PROVE  (c \o b)[j] = IF j < i THEN s[j] ELSE IF j = i THEN e ELSE s[j - 1]
    <2>1. CASE j <= i
      BY <2>1, <1>7, <1>8
    <2>2. CASE j > i
      <3>1. j - i \in 1 .. Len(s) - i + 1 /\ (j - i) + i - 1 = j - 1
        BY <2>2
      <3> QED BY <2>2, <3>1, <1>2, <1>8
    <2>3. j <= i \/ j > i
      OBVIOUS
    <2> QED BY <2>1, <2>2, <2>3, Zenon
  <1>10. QED
    BY <1>3, <1>8, <1>9 DEF c

\* Inserting adds the new element and no other, and keeps the list distinct.
LEMMA InsertAtContains ==
    ASSUME NEW S, NEW s \in Seq(S), NEW i \in 1 .. Len(s) + 1, NEW e \in S
    PROVE  /\ \A x : Contains(InsertAt(s, i, e), x) <=> x = e \/ Contains(s, x)
           /\ Distinct(s) /\ ~Contains(s, e) => Distinct(InsertAt(s, i, e))
  <1> DEFINE r == InsertAt(s, i, e)
  <1>1. /\ r \in Seq(S) /\ Len(r) = Len(s) + 1
        /\ \A j \in 1 .. Len(s) + 1 :
              r[j] = IF j < i THEN s[j] ELSE IF j = i THEN e ELSE s[j - 1]
    <2>1. r \in Seq(S) /\ Len(r) = Len(s) + 1
      BY InsertAtEffect
    <2>2. ASSUME NEW j \in 1 .. Len(s) + 1
          PROVE  r[j] = IF j < i THEN s[j] ELSE IF j = i THEN e ELSE s[j - 1]
      BY InsertAtEffect
    <2> QED BY <2>1, <2>2
  <1> HIDE DEF r
  <1>2. ASSUME NEW x PROVE Contains(r, x) <=> x = e \/ Contains(s, x)
    <2>1. ASSUME Contains(r, x) PROVE x = e \/ Contains(s, x)
      <3>1. PICK j \in 1 .. Len(s) + 1 : r[j] = x
        BY <1>1, <2>1 DEF Contains
      <3>2. j < i => j \in 1 .. Len(s)
        OBVIOUS
      <3>3. j > i => j - 1 \in 1 .. Len(s)
        OBVIOUS
      <3> QED BY <1>1, <3>1, <3>2, <3>3 DEF Contains
    <2>2. ASSUME x = e PROVE Contains(r, x)
      <3>1. r[i] = x /\ i \in 1 .. Len(r)
        BY <1>1, <2>2
      <3> QED BY <3>1 DEF Contains
    <2>3. ASSUME Contains(s, x) PROVE Contains(r, x)
      <3>1. PICK j \in 1 .. Len(s) : s[j] = x
        BY <2>3 DEF Contains
      <3>2. CASE j < i
        <4>1. r[j] = x /\ j \in 1 .. Len(r)
          BY <1>1, <3>1, <3>2
        <4> QED BY <4>1 DEF Contains
      <3>3. CASE j >= i
        <4>1. r[j + 1] = x /\ j + 1 \in 1 .. Len(r)
          BY <1>1, <3>1, <3>3
        <4> QED BY <4>1 DEF Contains
      <3> QED BY <3>2, <3>3
    <2> QED BY <2>1, <2>2, <2>3
  <1>3. ASSUME Distinct(s), ~Contains(s, e) PROVE Distinct(r)
    <2> SUFFICES ASSUME NEW j \in 1 .. Len(s) + 1, NEW m \in 1 .. Len(s) + 1,
                        j < m, r[j] = r[m]
                 PROVE  FALSE
      BY <1>1 DEF Distinct
    <2>1. m > i => m - 1 \in 1 .. Len(s)
      OBVIOUS
    <2>2. j < i => j \in 1 .. Len(s)
      OBVIOUS
    <2>3. j > i => j - 1 \in 1 .. Len(s) /\ j - 1 # m - 1
      OBVIOUS
    <2>4. \A a, b \in 1 .. Len(s) : a # b => s[a] # s[b]
      BY <1>3 DEF Distinct
    <2>5. \A a \in 1 .. Len(s) : s[a] # e
      BY <1>3 DEF Contains
    <2>6. CASE j = i \/ m = i
      BY <1>1, <2>1, <2>2, <2>5, <2>6
    <2>7. CASE m < i
      BY <1>1, <2>2, <2>4, <2>7
    <2>8. CASE j > i
      <3>1. r[j] = s[j - 1] /\ r[m] = s[m - 1]
        BY <1>1, <2>8
      <3>2. j - 1 \in 1 .. Len(s) /\ m - 1 \in 1 .. Len(s) /\ j - 1 # m - 1
        BY <2>1, <2>3, <2>8
      <3> QED BY <2>4, <3>1, <3>2
    <2>9. CASE j < i /\ m > i
      <3>1. j # m - 1 /\ r[j] = s[j] /\ r[m] = s[m - 1]
        BY <1>1, <2>9
      <3> QED BY <2>1, <2>2, <2>4, <2>9, <3>1
    <2> QED BY <2>6, <2>7, <2>8, <2>9
  <1> QED BY <1>2, <1>3 DEF r

LEMMA AppendContains ==
    ASSUME NEW S, NEW s \in Seq(S), NEW e \in S
    PROVE  /\ \A x : Contains(Append(s, e), x) <=> x = e \/ Contains(s, x)
           /\ Distinct(s) /\ ~Contains(s, e) => Distinct(Append(s, e))
  <1> DEFINE r == Append(s, e)
  <1>1. /\ r \in Seq(S) /\ Len(r) = Len(s) + 1 /\ r[Len(s) + 1] = e
        /\ \A j \in 1 .. Len(s) : r[j] = s[j]
    BY AppendProperties
  <1> HIDE DEF r
  <1>2. ASSUME NEW x PROVE Contains(r, x) <=> x = e \/ Contains(s, x)
    BY <1>1 DEF Contains
  <1>3. ASSUME Distinct(s), ~Contains(s, e) PROVE Distinct(r)
    BY <1>1, <1>3 DEF Distinct, Contains
  <1> QED BY <1>2, <1>3 DEF r

LEMMA TailContains ==
    ASSUME NEW S, NEW s \in Seq(S), s # <<>>, Distinct(s)
    PROVE  /\ Contains(s, Head(s))
           /\ \A x : Contains(Tail(s), x) <=> Contains(s, x) /\ x # Head(s)
           /\ Distinct(Tail(s))
  <1>1. /\ Tail(s) \in Seq(S) /\ Len(Tail(s)) = Len(s) - 1 /\ Len(s) > 0
        /\ \A j \in 1 .. Len(s) - 1 : Tail(s)[j] = s[j + 1]
    BY HeadTailProperties, EmptySeq
  <1>2. Head(s) = s[1] /\ 1 \in 1 .. Len(s)
    BY <1>1
  <1> DEFINE r == Tail(s)
             h == Head(s)
  <1> HIDE DEF r, h
  <1>3. ASSUME NEW x PROVE Contains(r, x) <=> Contains(s, x) /\ x # h
    <2>1. ASSUME Contains(r, x) PROVE Contains(s, x) /\ x # h
      <3>1. PICK j \in 1 .. Len(s) - 1 : s[j + 1] = x
        BY <1>1, <2>1 DEF Contains, r
      <3>2. j + 1 \in 1 .. Len(s) /\ j + 1 # 1
        BY <1>1
      <3> QED BY <3>1, <3>2, <1>2 DEF Contains, Distinct, h
    <2>2. ASSUME Contains(s, x), x # h PROVE Contains(r, x)
      <3>1. PICK j \in 1 .. Len(s) : s[j] = x
        BY <2>2 DEF Contains
      <3>2. j - 1 \in 1 .. Len(s) - 1 /\ (j - 1) + 1 = j
        BY <3>1, <2>2, <1>2 DEF h
      <3>3. r[j - 1] = x /\ j - 1 \in 1 .. Len(r)
        BY <3>1, <3>2, <1>1 DEF r
      <3> QED BY <3>3 DEF Contains
    <2> QED BY <2>1, <2>2
  <1>4. Distinct(r)
    <2> SUFFICES ASSUME NEW i \in 1 .. Len(s) - 1, NEW j \in 1 .. Len(s) - 1, i # j
                 PROVE  s[i + 1] # s[j + 1]
      BY <1>1 DEF Distinct, r
    <2> QED BY <1>1 DEF Distinct
  <1>5. Contains(s, h)
    BY <1>2 DEF Contains, h
  <1> QED BY <1>3, <1>4, <1>5 DEF r, h

\* RemoveFirst takes the one occurrence of an element out of a distinct list.
LEMMA RemoveFirstContains ==
    ASSUME NEW S, NEW s \in Seq(S), NEW e, Distinct(s)
    PROVE  /\ RemoveFirst(s, e) \in Seq(S)
           /\ \A x : Contains(RemoveFirst(s, e), x) <=> Contains(s, x) /\ x # e
           /\ Distinct(RemoveFirst(s, e))
  <1>1. CASE ~Contains(s, e)
    <2>1. RemoveFirst(s, e) = s
      BY <1>1 DEF RemoveFirst, Contains
    <2> QED BY <1>1, <2>1
  <1>2. CASE Contains(s, e)
    <2>1. PICK i \in 1 .. Len(s) : s[i] = e
      BY <1>2 DEF Contains
    <2> DEFINE I == {j \in 1 .. Len(s) : s[j] = e}
               r == RemoveFirst(s, e)
               a == SubSeq(s, 1, i - 1)
               b == SubSeq(s, i + 1, Len(s))
    <2>2. I = {i}
      BY <2>1 DEF Distinct
    <2>3. Min(I) = i
      BY <2>2 DEF Min
    <2>4. SelectInSeq(s, LAMBDA v : v = e) = IF I # {} THEN Min(I) ELSE 0
      BY DEF SelectInSeq
    <2>5. r = a \o b
      <3> HIDE DEF I
      <3>1. SelectInSeq(s, LAMBDA v : v = e) = i
        BY <2>2, <2>3, <2>4
      <3> QED BY <3>1, <2>1 DEF RemoveFirst, RemoveAt
    <2>6. a \in Seq(S) /\ Len(a) = i - 1 /\ \A j \in 1 .. i - 1 : a[j] = s[j]
      BY SubSeqProperties
    <2>7. /\ b \in Seq(S) /\ Len(b) = Len(s) - i
          /\ \A j \in 1 .. Len(s) - i : b[j] = s[j + i]
      BY SubSeqProperties
    <2> HIDE DEF I, r, a, b
    <2>8. /\ r \in Seq(S) /\ Len(r) = Len(s) - 1
          /\ \A j \in 1 .. Len(s) - 1 : r[j] = IF j < i THEN s[j] ELSE s[j + 1]
      <3>1. /\ a \o b \in Seq(S) /\ Len(a \o b) = Len(s) - 1
            /\ \A j \in 1 .. Len(s) - 1 :
                  (a \o b)[j] = IF j <= i - 1 THEN a[j] ELSE b[j - (i - 1)]
        <4>1. /\ a \o b \in Seq(S) /\ Len(a \o b) = Len(a) + Len(b)
              /\ \A j \in 1 .. Len(a) + Len(b) :
                    (a \o b)[j] = IF j <= Len(a) THEN a[j] ELSE b[j - Len(a)]
          BY <2>6, <2>7, ConcatProperties, Zenon
        <4>2. Len(a) = i - 1 /\ Len(a) + Len(b) = Len(s) - 1
          BY <2>6, <2>7
        <4> QED BY <4>1, <4>2, Zenon
      <3>2. ASSUME NEW j \in 1 .. Len(s) - 1
            PROVE  r[j] = IF j < i THEN s[j] ELSE s[j + 1]
        <4>1. CASE j < i
          BY <4>1, <3>1, <2>5, <2>6
        <4>2. CASE j >= i
          <5>1. j - (i - 1) \in 1 .. Len(s) - i /\ (j - (i - 1)) + i = j + 1
            BY <4>2
          <5> QED BY <4>2, <5>1, <3>1, <2>5, <2>7
        <4> QED BY <4>1, <4>2
      <3> QED BY <3>1, <3>2, <2>5
    <2>9. ASSUME NEW x PROVE Contains(r, x) <=> Contains(s, x) /\ x # e
      <3>1. ASSUME Contains(r, x) PROVE Contains(s, x) /\ x # e
        <4>1. PICK j \in 1 .. Len(s) - 1 : r[j] = x
          BY <3>1, <2>8 DEF Contains
        <4>2. PICK m \in 1 .. Len(s) : s[m] = x /\ m # i
          BY <4>1, <2>8
        <4> QED BY <4>2, <2>1 DEF Contains, Distinct
      <3>2. ASSUME Contains(s, x), x # e PROVE Contains(r, x)
        <4>1. PICK j \in 1 .. Len(s) : s[j] = x
          BY <3>2 DEF Contains
        <4>2. j # i
          BY <4>1, <3>2, <2>1
        <4>3. \E m \in 1 .. Len(s) - 1 : r[m] = x
          <5>1. CASE j < i
            <6>1. j \in 1 .. Len(s) - 1 /\ r[j] = x
              BY <5>1, <4>1, <2>8
            <6> QED BY <6>1
          <5>2. CASE j > i
            <6>1. j - 1 \in 1 .. Len(s) - 1 /\ r[j - 1] = x
              BY <5>2, <4>1, <2>8
            <6> QED BY <6>1
          <5> QED BY <5>1, <5>2, <4>2
        <4> QED BY <4>3, <2>8 DEF Contains
      <3> QED BY <3>1, <3>2
    <2>10. Distinct(r)
      <3> SUFFICES ASSUME NEW j \in 1 .. Len(s) - 1, NEW m \in 1 .. Len(s) - 1, j < m,
                          r[j] = r[m]
                   PROVE  FALSE
        BY <2>8 DEF Distinct
      <3>1. j \in 1 .. Len(s) /\ j + 1 \in 1 .. Len(s)
            /\ m \in 1 .. Len(s) /\ m + 1 \in 1 .. Len(s)
        OBVIOUS
      <3> QED BY <3>1, <2>8 DEF Distinct
    <2> QED BY <2>8, <2>9, <2>10 DEF r
  <1> QED BY <1>1, <1>2

-----------------------------------------------------------------------------
(* The ready list *)

LEMMA KernelFields ==
    ASSUME NEW s \in Kernel
    PROVE  /\ s.readyList \in Seq(Thread) /\ s.Priority \in [Thread -> Priority]
           /\ s.status \in [Thread -> ThreadStatus] /\ s.currentThread \in Thread
           /\ s.allThreads \in Seq(Thread) /\ s.started \in SUBSET Thread
           /\ s.threadToBeDestroyed \in Thread \cup {NoThread}
           /\ s.needResched \in BOOLEAN /\ s.halted \in BOOLEAN
  BY DEF Kernel

\* SortedList::Insert finds a place, and the list is in order around it.
LEMMA PositionFound ==
    ASSUME NEW list \in Seq(Thread), NEW prio \in [Thread -> Priority], NEW t \in Thread
    PROVE  LET i == Position(list, prio, t)
           IN  /\ i \in 1 .. Len(list) + 1
               /\ \A j \in 1 .. i - 1 : prio[list[j]] <= prio[t]
               /\ i <= Len(list) => prio[t] < prio[list[i]]
  <1> DEFINE Stops(i) == i <= Len(list) => ThreadOrder(prio, t, list[i])
             T == {i \in 1 .. Len(list) + 1 : Stops(i)}
             Good(i) == /\ \A j \in 1 .. i - 1 : ~ThreadOrder(prio, t, list[j])
                        /\ i <= Len(list) => ThreadOrder(prio, t, list[i])
  <1>0. Len(list) \in Nat
    OBVIOUS
  <1>1. T \in SUBSET Nat /\ Len(list) + 1 \in T
    BY <1>0
  <1>2. PICK x \in T : \A y \in T : x <= y
    <2> HIDE DEF T
    <2> QED BY <1>1, LeastNatural
  <1>3. x \in 1 .. Len(list) + 1 /\ Good(x)
    <2>1. ASSUME NEW j \in 1 .. x - 1 PROVE ~ThreadOrder(prio, t, list[j])
      <3>1. j \notin T /\ j \in 1 .. Len(list)
        BY <1>0, <1>2
      <3> QED BY <3>1
    <2> QED BY <2>1
  <1>4. /\ Position(list, prio, t) \in 1 .. Len(list) + 1
        /\ Good(Position(list, prio, t))
    BY <1>3 DEF Position
  <1> DEFINE i == Position(list, prio, t)
  <1> HIDE DEF i
  <1>5. ASSUME NEW j \in 1 .. i - 1 PROVE prio[list[j]] <= prio[t]
    <2>1. j \in 1 .. Len(list) /\ ~(prio[t] < prio[list[j]])
      BY <1>0, <1>4 DEF ThreadOrder, i
    <2>2. prio[t] \in Int /\ prio[list[j]] \in Int
      BY <2>1, PriorityAssumption DEF Priority
    <2> QED BY <2>1, <2>2
  <1> QED BY <1>4, <1>5 DEF ThreadOrder, i

\* ReadyToRun of a thread that is not on the ready list.
LEMMA ReadyToRunExact ==
    ASSUME NEW k \in Kernel, ReadyListExact(k),
           NEW t \in Thread, k.status[t] # "READY"
    PROVE  LET r == ReadyToRun(k, t)
           IN  /\ r \in Kernel /\ ReadyListExact(r)
               /\ r = [k EXCEPT !.needResched = r.needResched,
                                !.status = [k.status EXCEPT ![t] = "READY"],
                                !.readyList = r.readyList]
               /\ r.readyList # <<>>
               /\ \A x : Contains(r.readyList, x) <=> x = t \/ Contains(k.readyList, x)
  <1> DEFINE r == ReadyToRun(k, t)
             i == Position(k.readyList, k.Priority, t)
             old == k.readyList
             new == InsertAt(old, i, t)
             prio == k.Priority
  <1>1. /\ old \in Seq(Thread) /\ prio \in [Thread -> Priority]
        /\ k.status \in [Thread -> ThreadStatus] /\ k.currentThread \in Thread
        /\ k.needResched \in BOOLEAN
    BY DEF Kernel
  <1>2. /\ i \in 1 .. Len(old) + 1
        /\ \A j \in 1 .. i - 1 : prio[old[j]] <= prio[t]
        /\ i <= Len(old) => prio[t] < prio[old[i]]
    BY <1>1, PositionFound
  <1>3. /\ new \in Seq(Thread) /\ Len(new) = Len(old) + 1
        /\ \A j \in 1 .. Len(old) + 1 :
              new[j] = IF j < i THEN old[j] ELSE IF j = i THEN t ELSE old[j - 1]
    <2> HIDE DEF old, i
    <2> QED BY <1>1, <1>2, InsertAtEffect
  <1>4. \A x : Contains(new, x) <=> x = t \/ Contains(old, x)
    <2> HIDE DEF old, i
    <2> QED BY <1>1, <1>2, InsertAtContains, Zenon
  <1>5. r = [k EXCEPT !.needResched = k.needResched \/ t # k.currentThread,
                      !.status = [k.status EXCEPT ![t] = "READY"],
                      !.readyList = new]
    BY DEF ReadyToRun
  <1> HIDE DEF r, i, new
  <1>6. /\ r.needResched = (k.needResched \/ t # k.currentThread)
        /\ r.status = [k.status EXCEPT ![t] = "READY"]
        /\ r.readyList = new /\ r.Priority = prio
        /\ r.currentThread = k.currentThread
    BY <1>5 DEF Kernel
  <1>7. r \in Kernel
    <2>1. [k.status EXCEPT ![t] = "READY"] \in [Thread -> ThreadStatus]
      BY <1>1 DEF ThreadStatus
    <2>2. (k.needResched \/ t # k.currentThread) \in BOOLEAN
      OBVIOUS
    <2> QED BY <1>3, <1>5, <2>1, <2>2 DEF Kernel
  <1>8. ~Contains(old, t)
    BY DEF ReadyListExact
  <1>9. \A u \in Thread : r.status[u] = "READY" <=> Contains(new, u)
    BY <1>1, <1>4, <1>6 DEF ReadyListExact
  <1>10. ASSUME NEW a \in 1 .. Len(new), NEW b \in 1 .. Len(new), a < b
         PROVE  new[a] # new[b] /\ prio[new[a]] <= prio[new[b]]
    <2>1. \A j \in 1 .. Len(old) : old[j] \in Thread /\ old[j] # t
                                   /\ prio[old[j]] \in Int
      BY <1>1, <1>8, PriorityAssumption DEF Contains, Priority
    <2>2. \A j, m \in 1 .. Len(old) :
             j < m => old[j] # old[m] /\ prio[old[j]] <= prio[old[m]]
      BY DEF ReadyListExact
    <2>3. prio[t] \in Int
      BY <1>1, PriorityAssumption DEF Priority
    <2>4. /\ i \in Int /\ Len(old) \in Nat /\ a \in Int /\ b \in Int /\ b <= Len(old) + 1
          /\ a \in 1 .. Len(old) + 1 /\ b \in 1 .. Len(old) + 1
      BY <1>1, <1>2, <1>3
    <2>5. CASE b < i
      <3>1. a \in 1 .. Len(old) /\ b \in 1 .. Len(old) /\ a < i
        BY <1>2, <2>4, <2>5, <1>10
      <3> QED BY <3>1, <2>5, <1>3, <1>10, <2>2
    <2>6. CASE b = i
      <3>1. a \in 1 .. Len(old) /\ a \in 1 .. i - 1
        BY <1>2, <2>4, <2>6, <1>10
      <3> QED BY <3>1, <2>6, <1>2, <1>3, <1>10, <2>1
    <2>7. CASE b > i /\ a = i
      <3>1. b - 1 \in 1 .. Len(old) /\ i \in 1 .. Len(old)
        BY <1>2, <2>4, <2>7
      <3>2. new[a] = t /\ new[b] = old[b - 1]
        BY <1>3, <2>4, <2>7
      <3>3. prio[old[i]] <= prio[old[b - 1]]
        BY <3>1, <2>1, <2>2, <2>7
      <3>4. prio[t] < prio[old[i]]
        BY <3>1, <1>2
      <3>5. /\ prio[old[i]] \in Int /\ prio[old[b - 1]] \in Int /\ old[b - 1] # t
        BY <3>1, <2>1
      <3>6. prio[t] <= prio[old[b - 1]]
        BY <3>3, <3>4, <3>5, <2>3
      <3> QED BY <3>2, <3>5, <3>6
    <2>8. CASE b > i /\ a < i
      <3>1. b - 1 \in 1 .. Len(old) /\ a \in 1 .. Len(old) /\ a < b - 1
        BY <1>2, <2>4, <2>8, <1>10
      <3>2. new[a] = old[a] /\ new[b] = old[b - 1]
        <4>1. a < i /\ ~(b < i) /\ b # i
          BY <2>4, <2>8
        <4> QED BY <1>3, <2>4, <4>1, Zenon
      <3> QED BY <3>1, <3>2, <2>2
    <2>9. CASE b > i /\ a > i
      <3>1. b - 1 \in 1 .. Len(old) /\ a - 1 \in 1 .. Len(old) /\ a - 1 < b - 1
        BY <1>2, <2>4, <2>9, <1>10
      <3>2. new[a] = old[a - 1] /\ new[b] = old[b - 1]
        <4>1. ~(a < i) /\ a # i /\ ~(b < i) /\ b # i
          BY <2>4, <2>9
        <4> QED BY <1>3, <2>4, <4>1, Zenon
      <3> QED BY <3>1, <3>2, <2>2
    <2> QED BY <2>4, <2>5, <2>6, <2>7, <2>8, <2>9
  <1>11. \A u \in Thread : r.status[u] = "RUNNING" => u = r.currentThread
    BY <1>1, <1>6 DEF ReadyListExact
  <1>12. ReadyListExact(r)
    BY <1>6, <1>9, <1>10, <1>11 DEF ReadyListExact
  <1>13. new # <<>>
    BY <1>1, <1>3
  <1> QED BY <1>4, <1>5, <1>6, <1>7, <1>12, <1>13 DEF r

\* Nobody has the processor, and the thread to be destroyed has finished: the
\* states in which a thread to run is looked for.
NobodyRuns(k) ==
    /\ \A t \in Thread : k.status[t] # "RUNNING"
    /\ k.threadToBeDestroyed # NoThread => k.status[k.threadToBeDestroyed] = "ZOMBIE"

\* What FindNextToRun and Run do when there is a thread to run: h gets the
\* processor and, if it ran before, deletes the carcass.
Dispatched(k, d) ==
    LET h    == Head(k.readyList)
        gone == k.threadToBeDestroyed
    IN  /\ h \in Thread /\ k.status[h] = "READY" /\ Contains(k.readyList, h)
        /\ d.currentThread = h /\ d.halted = k.halted
        /\ d.readyList = Tail(k.readyList)
        /\ \/ /\ h \notin k.started \/ gone = NoThread
              /\ d.status = [k.status EXCEPT ![h] = "RUNNING"]
              /\ d.allThreads = k.allThreads
              /\ d.started = k.started \cup {h}
              /\ d.threadToBeDestroyed = gone
           \/ /\ h \in k.started /\ gone \in Thread /\ gone # h
              /\ d.status = [k.status EXCEPT ![h] = "RUNNING", ![gone] = "ABSENT"]
              /\ d.allThreads = removeFromList(k.allThreads, gone)
              /\ d.started = (k.started \cup {h}) \ {gone}
              /\ d.threadToBeDestroyed = NoThread

LEMMA ReadyListDistinct ==
    ASSUME NEW k \in Kernel, ReadyListExact(k)
    PROVE  k.readyList \in Seq(Thread) /\ Distinct(k.readyList)
  <1>1. k.readyList \in Seq(Thread)
    BY DEF Kernel
  <1>2. ASSUME NEW i \in 1 .. Len(k.readyList), NEW j \in 1 .. Len(k.readyList), i # j
        PROVE  k.readyList[i] # k.readyList[j]
    <2>1. i < j \/ j < i
      BY <1>1, <1>2
    <2> QED BY <2>1 DEF ReadyListExact
  <1> QED BY <1>1, <1>2 DEF Distinct

\* Dispatch keeps the ready list exact, whether or not it finds a thread.
LEMMA DispatchExact ==
    ASSUME NEW k \in Kernel, ReadyListExact(k), NobodyRuns(k), Distinct(k.allThreads)
    PROVE  LET d == Dispatch(k)
           IN  /\ d \in Kernel /\ ReadyListExact(d)
               /\ d.Priority = k.Priority /\ d.needResched = k.needResched
               /\ \/ /\ AllDone(k) \/ k.readyList = <<>>
                     /\ d = [k EXCEPT !.halted = d.halted]
                  \/ /\ k.readyList # <<>> /\ Dispatched(k, d)
  <1> DEFINE d == Dispatch(k)
             h == Head(k.readyList)
             gone == k.threadToBeDestroyed
  <1>0. /\ k.readyList \in Seq(Thread) /\ k.Priority \in [Thread -> Priority]
        /\ k.status \in [Thread -> ThreadStatus] /\ k.currentThread \in Thread
        /\ k.started \in SUBSET Thread /\ gone \in Thread \cup {NoThread}
        /\ k.allThreads \in Seq(Thread)
    BY DEF Kernel
  <1>1. CASE AllDone(k) \/ k.readyList = <<>>
    <2>1. d = [k EXCEPT !.halted = TRUE] \/ d = k
      BY <1>1 DEF Dispatch
    <2>2. d \in Kernel /\ d = [k EXCEPT !.halted = d.halted]
      BY <2>1 DEF Kernel
    <2>3. /\ d.status = k.status /\ d.readyList = k.readyList /\ d.Priority = k.Priority
          /\ d.currentThread = k.currentThread /\ d.needResched = k.needResched
      BY <2>1 DEF Kernel
    <2>4. ReadyListExact(d)
      BY <2>3 DEF ReadyListExact
    <2> QED BY <1>1, <2>2, <2>3, <2>4
  <1>2. CASE ~AllDone(k) /\ k.readyList # <<>>
    <2>1. Distinct(k.readyList)
      BY ReadyListDistinct
    <2>2. /\ h \in Thread /\ Tail(k.readyList) \in Seq(Thread)
          /\ Len(Tail(k.readyList)) = Len(k.readyList) - 1
          /\ \A j \in 1 .. Len(Tail(k.readyList)) : Tail(k.readyList)[j] = k.readyList[j + 1]
      BY <1>0, <1>2, HeadTailProperties
    <2>3. /\ Contains(k.readyList, h)
          /\ \A x : Contains(Tail(k.readyList), x) <=> Contains(k.readyList, x) /\ x # h
      BY <1>0, <1>2, <2>1, TailContains
    <2>4. k.status[h] = "READY"
      BY <2>2, <2>3 DEF ReadyListExact
    <2> DEFINE e == [k EXCEPT !.readyList = Tail(@)]
               s == [e EXCEPT !.currentThread = h, !.status[h] = "RUNNING",
                              !.started = @ \cup {h}]
               st == [k.status EXCEPT ![h] = "RUNNING"]
               remains == Tail(k.readyList)
    <2>5. d = IF h \in e.started
              THEN [Delete(s, s.threadToBeDestroyed) EXCEPT !.threadToBeDestroyed = NoThread]
              ELSE s
      BY <1>2 DEF Dispatch, Run
    <2>6. e.started = k.started
      BY DEF Kernel
    <2>7. /\ s.currentThread = h /\ s.status = st /\ s.Priority = k.Priority
          /\ s.readyList = remains /\ s.allThreads = k.allThreads
          /\ s.started = k.started \cup {h} /\ s.threadToBeDestroyed = gone
          /\ s.needResched = k.needResched /\ s.halted = k.halted
      BY DEF Kernel
    <2>8. s \in Kernel
      <3>1. st \in [Thread -> ThreadStatus]
        BY <1>0, <2>2 DEF ThreadStatus
      <3>2. s = [k EXCEPT !.readyList = remains, !.currentThread = h, !.status = st,
                          !.started = k.started \cup {h}]
        BY DEF Kernel
      <3>3. k.started \cup {h} \in SUBSET Thread
        BY <1>0, <2>2
      <3> QED BY <2>2, <3>1, <3>2, <3>3 DEF Kernel
    <2> HIDE DEF e, s, d, remains, h
    <2>9. ASSUME NEW f \in [Thread -> ThreadStatus],
                 \A t \in Thread : f[t] = "READY" <=> st[t] = "READY",
                 \A t \in Thread : f[t] = "RUNNING" => t = h,
                 d.status = f, d.readyList = remains, d.Priority = k.Priority,
                 d.currentThread = h
          PROVE  ReadyListExact(d)
      <3>1. ASSUME NEW t \in Thread PROVE f[t] = "READY" <=> Contains(remains, t)
        BY <1>0, <2>2, <2>3, <2>9 DEF ReadyListExact, remains
      <3>2. ASSUME NEW i \in 1 .. Len(remains), NEW j \in 1 .. Len(remains), i < j
            PROVE  /\ remains[i] # remains[j]
                   /\ k.Priority[remains[i]] <= k.Priority[remains[j]]
        <4>1. i + 1 \in 1 .. Len(k.readyList) /\ j + 1 \in 1 .. Len(k.readyList)
              /\ i + 1 < j + 1
          BY <1>0, <2>2, <3>2 DEF remains
        <4>2. remains[i] = k.readyList[i + 1] /\ remains[j] = k.readyList[j + 1]
          BY <2>2 DEF remains
        <4> QED BY <4>1, <4>2 DEF ReadyListExact
      <3> QED BY <2>9, <3>1, <3>2 DEF ReadyListExact
    <2>10. st \in [Thread -> ThreadStatus] /\ \A t \in Thread : st[t] = "RUNNING" => t = h
      BY <1>0, <2>2 DEF ThreadStatus, NobodyRuns
    <2>11. CASE h \notin k.started
      <3>1. d = s
        BY <2>5, <2>6, <2>11
      <3>2. ReadyListExact(d)
        BY <3>1, <2>7, <2>9, <2>10
      <3> QED BY <1>2, <2>2, <2>3, <2>4, <2>7, <2>8, <2>11, <3>1, <3>2
              DEF Dispatched, d, h, remains
    <2>12. CASE h \in k.started /\ gone = NoThread
      <3>1. d = [s EXCEPT !.threadToBeDestroyed = NoThread]
        BY <2>5, <2>6, <2>7, <2>12 DEF Delete
      <3>2. d = s
        BY <3>1, <2>7, <2>8, <2>12 DEF Kernel
      <3>3. ReadyListExact(d)
        BY <3>2, <2>7, <2>9, <2>10
      <3> QED BY <1>2, <2>2, <2>3, <2>4, <2>7, <2>8, <2>12, <3>2, <3>3
              DEF Dispatched, d, h, remains
    <2>13. CASE h \in k.started /\ gone # NoThread
      <3> DEFINE f == [st EXCEPT ![gone] = "ABSENT"]
                 all == removeFromList(k.allThreads, gone)
      <3>1. gone \in Thread /\ gone # h /\ k.status[gone] = "ZOMBIE"
        BY <1>0, <2>4, <2>13 DEF NobodyRuns
      <3>2. all \in Seq(Thread)
        BY <1>0, RemoveFirstContains DEF removeFromList
      <3>3. d = [s EXCEPT !.status = [@ EXCEPT ![gone] = "ABSENT"],
                          !.started = @ \ {gone},
                          !.allThreads = removeFromList(@, gone),
                          !.threadToBeDestroyed = NoThread]
        BY <2>5, <2>6, <2>7, <2>8, <2>13 DEF Delete, Kernel
      <3>4. d = [s EXCEPT !.status = f, !.started = (k.started \cup {h}) \ {gone},
                          !.allThreads = all, !.threadToBeDestroyed = NoThread]
        BY <2>7, <2>8, <3>3 DEF Kernel
      <3> HIDE DEF all, f
      <3>5. /\ d.currentThread = h /\ d.status = f /\ d.Priority = k.Priority
            /\ d.readyList = remains /\ d.allThreads = all
            /\ d.started = (k.started \cup {h}) \ {gone} /\ d.threadToBeDestroyed = NoThread
            /\ d.needResched = k.needResched /\ d.halted = k.halted
        BY <2>7, <2>8, <3>4 DEF Kernel
      <3>6. /\ f \in [Thread -> ThreadStatus]
            /\ \A t \in Thread : f[t] = IF t = gone THEN "ABSENT" ELSE st[t]
        BY <2>10, <3>1 DEF ThreadStatus, f
      <3>7. st[gone] = "ZOMBIE"
        BY <1>0, <3>1
      <3>8. d \in Kernel
        <4>1. (k.started \cup {h}) \ {gone} \in SUBSET Thread
          BY <1>0, <2>2 DEF h
        <4> QED BY <2>8, <3>2, <3>4, <3>6, <4>1 DEF Kernel
      <3>9. ReadyListExact(d)
        BY <2>9, <2>10, <3>5, <3>6, <3>7
      <3>10. f = [k.status EXCEPT ![h] = "RUNNING", ![gone] = "ABSENT"]
        BY DEF f
      <3> QED BY <1>2, <2>2, <2>3, <2>4, <2>13, <3>1, <3>5, <3>8, <3>9, <3>10
              DEF Dispatched, d, h, remains, all
    <2> QED BY <2>11, <2>12, <2>13
  <1> QED BY <1>1, <1>2

=============================================================================
